--------------------------- MODULE CanonicalProofs ---------------------------
(***************************************************************************)
(* Whatever canonical encoding it is handed, the decoder accepts.          *)
(*                                                                         *)
(* An input that begins with one has a plan: where in it each item of the  *)
(* value lies, and how many elements there are by then.  Each container    *)
(* has one of its own inside that of the container around it.  At every    *)
(* step the calls under way are on their plans, and what comes next on the *)
(* innermost is what the decoder finds.  It stops only if the elements are *)
(* too many.                                                               *)
(*                                                                         *)
(* And a value has one canonical encoding.  The decoder compares the keys  *)
(* of a map as encoded; that keeps equal values out.                       *)
(***************************************************************************)
EXTENDS CborProofs

-----------------------------------------------------------------------------
(* Counting elements.                                                      *)

\* A value with a number of levels and one of elements.
Tallies == UNION {{<<v, k, n>> : v \in Level(k), n \in Nat} : k \in Nat}

\* Up to item i the items have cnt[i] - cnt[0] elements.
ItemsCounted(k, items, cnt) ==
    /\ items = [i \in 1 .. Len(items) |-> items[i]]
    /\ Len(items) \in Nat
    /\ cnt \in [0 .. Len(items) -> Nat]
    /\ \A i \in 1 .. Len(items) :
          /\ cnt[i - 1] < cnt[i]
          /\ HasElements(items[i], k, cnt[i] - cnt[i - 1])

\* What the rules say of an array and of a map.
ContainerCounted(v, k, n) ==
    \E items, cnt :
       /\ k > 0 /\ ItemsCounted(k - 1, items, cnt)
       /\ n = 1 + cnt[Len(items)] - cnt[0]
       /\ \/ v = [type |-> "array", items |-> items]
          \/ \E m \in Nat :
                /\ Len(items) = 2 * m
                /\ v = [type |-> "map", entries |-> EntriesOf(m, items)]

\* What a rule says, of parts that are counted.
ByCounting ==
    {t \in Tallies : /\ HasElements(t[1], t[2], t[3])
                     /\ \/ t[1] \in Leaves /\ t[3] = 1
                        \/ ContainerCounted(t[1], t[2], t[3])}

\* Counts that ascend step by step ascend.
LEMMA Ascending ==
    ASSUME NEW n \in Nat, NEW cut \in [0 .. n -> Nat],
           \A i \in 1 .. n : cut[i - 1] < cut[i]
    PROVE  \A i, j \in 0 .. n : i <= j => cut[i] <= cut[j]
<1> SUFFICES ASSUME NEW i \in 0 .. n, NEW j \in 0 .. n, i <= j, ~(cut[i] <= cut[j])
             PROVE  FALSE
    OBVIOUS
<1> DEFINE T == {x \in i .. n : ~(cut[i] <= cut[x])}
<1>1. T \in SUBSET Nat /\ j \in T
    OBVIOUS
<1>2. PICK m \in T : \A x \in T : m <= x
    BY <1>1, LeastOf
<1>3. m # i
    BY <1>2
<1>4. m - 1 \in i .. n /\ m \in 1 .. n /\ m - 1 \notin T /\ m - 1 \in 0 .. n
    BY <1>2, <1>3
<1>5. cut[i] <= cut[m - 1] /\ cut[m - 1] < cut[m]
    BY <1>4
<1> QED
    BY <1>2, <1>4, <1>5

\* Items that a rule counted have their numbers in every set that is closed.
LEMMA CountedByRule ==
    ASSUME NEW k \in Nat, NEW items, NEW cnt, Counted(ByCounting, k, items, cnt)
    PROVE  /\ ItemsCounted(k, items, cnt)
           /\ items \in Seq(Level(k))
           /\ 1 + cnt[Len(items)] - cnt[0] \in Nat
           /\ \A N : ClosedUnderCounting(N) => Counted(N, k, items, cnt)
<1> DEFINE V == {t[1] : t \in ByCounting}
           n == Len(items)
           c(i) == cnt[i] - cnt[i - 1]
<1>1. /\ items \in Seq(V)
      /\ cnt \in [0 .. n -> Nat]
      /\ \A i \in 1 .. n : cnt[i - 1] < cnt[i] /\ <<items[i], k, c(i)>> \in ByCounting
    BY DEF Counted
<1> HIDE DEF V
<1>2. n \in Nat /\ items = [i \in 1 .. n |-> items[i]]
    BY <1>1
<1>3. ASSUME NEW i \in 1 .. n
      PROVE  items[i] \in Level(k) /\ HasElements(items[i], k, c(i))
  <2> DEFINE t == <<items[i], k, c(i)>>
  <2>1. t[1] = items[i] /\ t[2] = k /\ t[3] = c(i) /\ t \in ByCounting
      BY <1>1
  <2>2. HasElements(t[1], t[2], t[3]) /\ t \in Tallies
      BY <2>1, Zenon DEF ByCounting
  <2>3. PICK l \in Nat : \E v \in Level(l), m \in Nat : t = <<v, l, m>>
      BY <2>2 DEF Tallies
  <2>4. items[i] \in Level(k)
      BY <2>3
  <2> HIDE DEF t, c
  <2> QED
      BY <2>1, <2>2, <2>4
<1> HIDE DEF c
<1>4. items \in Seq(Level(k))
    BY <1>2, <1>3
<1>5. ItemsCounted(k, items, cnt)
    BY <1>1, <1>2, <1>3 DEF ItemsCounted, c
<1>6. 1 + cnt[n] - cnt[0] \in Nat
  <2> HIDE DEF n
  <2>1. cnt \in [0 .. n -> Nat] /\ \A i \in 1 .. n : cnt[i - 1] < cnt[i]
      BY <1>1
  <2>2. 0 \in 0 .. n /\ n \in 0 .. n /\ 0 <= n
      BY <1>2
  <2>3. cnt[0] <= cnt[n]
      BY <1>2, <2>1, <2>2, Ascending
  <2> QED
      BY <2>1, <2>2, <2>3
<1>7. ASSUME NEW N, ClosedUnderCounting(N) PROVE Counted(N, k, items, cnt)
  <2> DEFINE W == {t[1] : t \in N}
  <2>1. \A i \in 1 .. n : <<items[i], k, c(i)>> \in N
      BY <1>3, <1>7 DEF HasElements
  <2>2. \A i \in 1 .. n : items[i] \in W
    <3>1. ASSUME NEW i \in 1 .. n PROVE items[i] \in W
      <4>1. <<items[i], k, c(i)>>[1] = items[i]
          OBVIOUS
      <4> QED
          BY <2>1, <4>1
    <3> QED
        BY <3>1
  <2> HIDE DEF W
  <2>3. items \in Seq(W)
      BY <1>2, <2>2
  <2> QED
      BY <1>1, <2>1, <2>3 DEF Counted, W, c
<1> QED
    BY <1>4, <1>5, <1>6, <1>7

\* What is in every set that is closed, and by a rule, is by the rules.
LEMMA TalliedByRule ==
    ASSUME NEW k \in Nat, NEW v \in Level(k), NEW n \in Nat,
           (v \in Leaves /\ n = 1) \/ ContainerCounted(v, k, n),
           \A N : ClosedUnderCounting(N) => <<v, k, n>> \in N
    PROVE  <<v, k, n>> \in ByCounting
<1> DEFINE t == <<v, k, n>>
<1>1. t[1] = v /\ t[2] = k /\ t[3] = n
    OBVIOUS
<1>2. t \in Tallies
    BY DEF Tallies
<1>3. HasElements(v, k, n)
    BY DEF HasElements
<1> HIDE DEF t
<1>4. t \in ByCounting
    BY <1>1, <1>2, <1>3, Zenon DEF ByCounting
<1> QED
    BY <1>4 DEF t

\* Arrays: one element and those of the items (decode.go 302-316).
LEMMA ArraysCounted ==
    ASSUME NEW k \in Nat, NEW items, NEW cnt, Counted(ByCounting, k, items, cnt)
    PROVE  <<[type |-> "array", items |-> items],
             k + 1, 1 + cnt[Len(items)] - cnt[0]>> \in ByCounting
<1> DEFINE v == [type |-> "array", items |-> items]
           n == 1 + cnt[Len(items)] - cnt[0]
<1>1. /\ ItemsCounted(k, items, cnt) /\ items \in Seq(Level(k)) /\ n \in Nat
      /\ \A N : ClosedUnderCounting(N) => Counted(N, k, items, cnt)
    BY CountedByRule
<1>2. v \in Level(k + 1) /\ k + 1 \in Nat
  <2>1. v \in Containers(Level(k))
      BY <1>1 DEF Containers
  <2> QED
      BY <2>1, OnLevel
<1>3. \A N : ClosedUnderCounting(N) => <<v, k + 1, n>> \in N
    BY <1>1, Zenon DEF ClosedUnderCounting
<1>4. k + 1 > 0 /\ (k + 1) - 1 = k
    OBVIOUS
<1>5. ContainerCounted(v, k + 1, n)
    BY <1>1, <1>4, Zenon DEF ContainerCounted
<1> HIDE DEF v, n
<1>6. <<v, k + 1, n>> \in ByCounting
    BY <1>1, <1>2, <1>3, <1>5, TalliedByRule
<1> QED
    BY <1>6 DEF v, n

\* Entries are made of items of the level below.
LEMMA EntriesOfLevel ==
    ASSUME NEW L, NEW m \in Nat, NEW items \in Seq(L), Len(items) = 2 * m
    PROVE  EntriesOf(m, items) \in Seq([key : L, val : L])
<1>1. \A i \in 1 .. m : items[2 * i - 1] \in L /\ items[2 * i] \in L
    OBVIOUS
<1> DEFINE E(i) == [key |-> items[2 * i - 1], val |-> items[2 * i]]
           S == [key : L, val : L]
<1>2. \A i \in 1 .. m : E(i) \in S
    BY <1>1
<1> DEFINE entries == EntriesOf(m, items)
<1>3. entries = [i \in 1 .. m |-> E(i)]
    BY DEF EntriesOf
<1> HIDE DEF entries, E, S
<1>4. entries \in Seq(S)
    BY <1>2, <1>3
<1> QED
    BY <1>4 DEF entries, S

\* Maps: one element and those of the keys and the values (decode.go 318-350).
LEMMA MapsCounted ==
    ASSUME NEW k \in Nat, NEW m \in Nat, NEW items, NEW cnt,
           Counted(ByCounting, k, items, cnt), Len(items) = 2 * m
    PROVE  <<[type |-> "map", entries |-> EntriesOf(m, items)],
             k + 1, 1 + cnt[Len(items)] - cnt[0]>> \in ByCounting
<1> DEFINE v == [type |-> "map", entries |-> EntriesOf(m, items)]
           n == 1 + cnt[Len(items)] - cnt[0]
<1>1. /\ ItemsCounted(k, items, cnt) /\ items \in Seq(Level(k)) /\ n \in Nat
      /\ \A N : ClosedUnderCounting(N) => Counted(N, k, items, cnt)
    BY CountedByRule
<1>2. v \in Level(k + 1) /\ k + 1 \in Nat
  <2>1. EntriesOf(m, items) \in Seq([key : Level(k), val : Level(k)])
      BY <1>1, EntriesOfLevel
  <2>2. v \in Containers(Level(k))
      BY <2>1 DEF Containers
  <2> QED
      BY <2>2, OnLevel
<1>3. \A N : ClosedUnderCounting(N) => <<v, k + 1, n>> \in N
    BY <1>1, Zenon DEF ClosedUnderCounting
<1>4. k + 1 > 0 /\ (k + 1) - 1 = k
    OBVIOUS
<1>5. ContainerCounted(v, k + 1, n)
    BY <1>1, <1>4, Zenon DEF ContainerCounted
<1> HIDE DEF v, n
<1>6. <<v, k + 1, n>> \in ByCounting
    BY <1>1, <1>2, <1>3, <1>5, TalliedByRule
<1> QED
    BY <1>6 DEF v, n

\* Some set is closed under counting, and holds nothing that no rule put there.
LEMMA CountingIsClosed == ClosedUnderCounting(ByCounting)
<1>1. ASSUME NEW k \in Nat, NEW v \in Leaves PROVE <<v, k, 1>> \in ByCounting
  <2>1. v \in Level(k) /\ 1 \in Nat
      BY OnLevel
  <2>2. \A N : ClosedUnderCounting(N) => <<v, k, 1>> \in N
      BY Zenon DEF ClosedUnderCounting
  <2> QED
      BY <2>1, <2>2, TalliedByRule
<1> QED
    BY <1>1, ArraysCounted, MapsCounted, Zenon DEF ClosedUnderCounting

\* A value has no number of elements but what a rule says: one for itself, and
\* those of its items (decode.go 238-242, 302-340).
THEOREM OnlyTheCounts ==
    ASSUME NEW v, NEW k, NEW n, HasElements(v, k, n)
    PROVE  /\ k \in Nat /\ n \in Nat
           /\ (v \in Leaves /\ n = 1) \/ ContainerCounted(v, k, n)
<1> DEFINE t == <<v, k, n>>
<1>1. t[1] = v /\ t[2] = k /\ t[3] = n
    OBVIOUS
<1>2. t \in ByCounting
    BY CountingIsClosed DEF HasElements
<1>3. k \in Nat /\ n \in Nat
    BY <1>2 DEF ByCounting, Tallies
<1> HIDE DEF t
<1> QED
    BY <1>1, <1>2, <1>3, Zenon DEF ByCounting

\* A container's items, each counted, count in every set that is closed.
LEMMA CountedInAll ==
    ASSUME NEW k, NEW items, NEW cnt, NEW N,
           ItemsCounted(k, items, cnt), ClosedUnderCounting(N)
    PROVE  Counted(N, k, items, cnt)
<1> DEFINE n == Len(items)
           c(i) == cnt[i] - cnt[i - 1]
           W == {t[1] : t \in N}
<1>1. /\ items = [i \in 1 .. n |-> items[i]] /\ n \in Nat
      /\ cnt \in [0 .. n -> Nat]
      /\ \A i \in 1 .. n : cnt[i - 1] < cnt[i] /\ HasElements(items[i], k, c(i))
    BY DEF ItemsCounted
<1>2. \A i \in 1 .. n : <<items[i], k, c(i)>> \in N
    BY <1>1 DEF HasElements
<1>3. \A i \in 1 .. n : items[i] \in W
  <2>1. ASSUME NEW i \in 1 .. n PROVE items[i] \in W
    <3>1. <<items[i], k, c(i)>>[1] = items[i]
        OBVIOUS
    <3> QED
        BY <1>2, <3>1
  <2> QED
      BY <2>1
<1> HIDE DEF W
<1>4. items \in Seq(W)
    BY <1>1, <1>3
<1> QED
    BY <1>1, <1>2, <1>4 DEF Counted, W, c

\* The elements of an array and of a map are its own and those of its items.
LEMMA ContainersCount ==
    ASSUME NEW k \in Nat, NEW items, NEW cnt, ItemsCounted(k, items, cnt)
    PROVE  /\ HasElements([type |-> "array", items |-> items],
                          k + 1, 1 + cnt[Len(items)] - cnt[0])
           /\ \A m \in Nat : Len(items) = 2 * m =>
                 HasElements([type |-> "map", entries |-> EntriesOf(m, items)],
                             k + 1, 1 + cnt[Len(items)] - cnt[0])
<1>1. ASSUME NEW N, ClosedUnderCounting(N) PROVE Counted(N, k, items, cnt)
    BY <1>1, CountedInAll
<1>2. HasElements([type |-> "array", items |-> items],
                  k + 1, 1 + cnt[Len(items)] - cnt[0])
    BY <1>1, Zenon DEF HasElements, ClosedUnderCounting
<1>3. ASSUME NEW m \in Nat, Len(items) = 2 * m
      PROVE  HasElements([type |-> "map", entries |-> EntriesOf(m, items)],
                         k + 1, 1 + cnt[Len(items)] - cnt[0])
    BY <1>1, <1>3, Zenon DEF HasElements, ClosedUnderCounting
<1> QED
    BY <1>2, <1>3

\* Numbers have sums.
LEMMA SumsExist ==
    ASSUME NEW n \in Nat, NEW f \in [1 .. n -> Nat]
    PROVE  \E cnt \in [0 .. n -> Nat] :
               \A i \in 1 .. n : cnt[i] = cnt[i - 1] + f[i]
<1> DEFINE Sums(cnt, l) == \A i \in 1 .. l : cnt[i] = cnt[i - 1] + f[i]
           Some(l) == \E cnt \in [0 .. l -> Nat] : Sums(cnt, l)
           T == {l \in 0 .. n : ~Some(l)}
<1>1. SUFFICES ASSUME T # {} PROVE FALSE
  <2>1. n \in 0 .. n
      OBVIOUS
  <2>2. n \notin T => Some(n)
      BY <2>1, Zenon
  <2> QED
      BY <2>2, Zenon
<1>2. PICK m \in T : \A l \in T : m <= l
  <2>1. T \in SUBSET Nat
      OBVIOUS
  <2> HIDE DEF T
  <2> QED
      BY <1>1, <2>1, LeastOf
<1>3. m # 0
  <2> DEFINE cnt == [i \in 0 .. 0 |-> 0]
  <2>1. cnt \in [0 .. 0 -> Nat] /\ Sums(cnt, 0)
      OBVIOUS
  <2> HIDE DEF cnt, Sums
  <2> QED
      BY <2>1, <1>2
<1>4. m - 1 \in 0 .. n /\ m - 1 \notin T
  <2>1. m \in 0 .. n
      BY <1>2
  <2>2. m - 1 \in 0 .. n /\ ~(m <= m - 1)
      BY <1>3, <2>1
  <2> QED
      BY <1>2, <2>2, Zenon
<1>s. Some(m - 1)
  <2> DEFINE l == m - 1
  <2>1. l \in 0 .. n /\ l \notin T
      BY <1>4
  <2> HIDE DEF l, Some
  <2>2. Some(l)
      BY <2>1
  <2> QED
      BY <2>2 DEF l
<1>5. PICK cnt \in [0 .. m - 1 -> Nat] : Sums(cnt, m - 1)
    BY <1>s
<1> DEFINE g == [i \in 0 .. m |-> IF i = m THEN cnt[m - 1] + f[m] ELSE cnt[i]]
<1>6. m \in 1 .. n /\ m - 1 \in 0 .. m - 1 /\ m - 1 # m
    BY <1>2, <1>3
<1>7. g \in [0 .. m -> Nat]
  <2>1. \A i \in 0 .. m : i # m => i \in 0 .. m - 1
      BY <1>6
  <2> QED
      BY <1>5, <1>6, <2>1
<1>8. Sums(g, m)
  <2>1. ASSUME NEW i \in 1 .. m PROVE g[i] = g[i - 1] + f[i]
    <3>1. i - 1 \in 0 .. m /\ i - 1 # m /\ g[i - 1] = cnt[i - 1] /\ i \in 0 .. m
        BY <1>6
    <3>2. CASE i = m
        BY <3>1, <3>2
    <3>3. CASE i # m
      <4>1. i \in 1 .. m - 1 /\ g[i] = cnt[i]
          BY <3>1, <3>3, <1>6
      <4> QED
          BY <4>1, <3>1, <1>5
    <3> QED
        BY <3>2, <3>3
  <2> QED
      BY <2>1
<1> HIDE DEF g, Sums
<1> QED
    BY <1>2, <1>7, <1>8

\* An encoding without items encodes a leaf.
LEMMA LeafByARuleIsLeaf ==
    ASSUME NEW v, NEW e, LeafByARule(v, e)
    PROVE  v \in Leaves
<1>1. Lengths \subseteq Numerals /\ TRUE \in BOOLEAN /\ FALSE \in BOOLEAN
    BY DEF Lengths
<1> QED
    BY <1>1, Zenon DEF LeafByARule, Leaves

\* Every value that has an encoding has its number of elements.
LEMMA EveryValueCounts ==
    ASSUME NEW k \in Nat, NEW v, NEW e, Canonical(v, e, k)
    PROVE  \E n \in Nat \ {0} : HasElements(v, k, n)
<1> DEFINE C(w, l) == \E n \in Nat \ {0} : HasElements(w, l, n)
           T == {l \in Nat : \E w, x : Canonical(w, x, l) /\ ~C(w, l)}
<1>1. SUFFICES ASSUME T # {} PROVE FALSE
    BY Zenon
<1>2. PICK m \in T : \A l \in T : m <= l
  <2>1. T \in SUBSET Nat
      OBVIOUS
  <2> HIDE DEF T
  <2> QED
      BY <1>1, <2>1, LeastOf
<1>3. m \in Nat /\ \E w, x : Canonical(w, x, m) /\ ~C(w, m)
    BY <1>2, Zenon
<1>4. PICK w, x : Canonical(w, x, m) /\ ~C(w, m)
    BY <1>3
<1>5. CASE LeafByARule(w, x)
  <2>1. w \in Leaves /\ 1 \in Nat \ {0}
      BY <1>5, LeafByARuleIsLeaf
  <2>2. HasElements(w, m, 1)
      BY <1>3, <2>1, Zenon DEF HasElements, ClosedUnderCounting
  <2> QED
      BY <1>4, <2>1, <2>2
<1>6. CASE ContainerByARule(w, x, m)
  <2>1. PICK d \in Lengths, b \in Seq(Byte) : \E items, cut :
           /\ m > 0 /\ ItemsEncoded(m - 1, items, b, cut)
           /\ \/ /\ Len(items) = Count(d)
                 /\ w = [type |-> "array", items |-> items]
                 /\ x = Header(4, d) \o Between(b, cut[0], cut[Len(items)])
              \/ /\ Len(items) = 2 * Count(d)
                 /\ KeysAscend(KeysIn(Count(d), b, cut))
                 /\ w = [type |-> "map", entries |-> EntriesOf(Count(d), items)]
                 /\ x = Header(5, d) \o Between(b, cut[0], cut[Len(items)])
      BY <1>6, Zenon DEF ContainerByARule
  <2>2. PICK items, cut :
           /\ m > 0 /\ ItemsEncoded(m - 1, items, b, cut)
           /\ \/ w = [type |-> "array", items |-> items]
              \/ /\ Len(items) = 2 * Count(d)
                 /\ w = [type |-> "map", entries |-> EntriesOf(Count(d), items)]
      BY <2>1, Zenon
  <2> DEFINE n == Len(items)
             f == [i \in 1 .. n |-> CHOOSE j \in Nat \ {0} : HasElements(items[i], m - 1, j)]
  <2>3. m - 1 \in Nat /\ ~(m <= m - 1) /\ (m - 1) + 1 = m
      BY <1>3, <2>2
  <2>4. /\ n \in Nat /\ items = [i \in 1 .. n |-> items[i]]
        /\ \A i \in 1 .. n : \E y : Canonical(items[i], y, m - 1)
      BY <2>2, Zenon DEF ItemsEncoded
  <2>5. \A i \in 1 .. n : C(items[i], m - 1)
    <3>1. m - 1 \notin T
        BY <1>2, <2>3, Zenon
    <3> QED
        BY <2>3, <2>4, <3>1, Zenon
  <2>6. \A i \in 1 .. n : f[i] \in Nat \ {0} /\ HasElements(items[i], m - 1, f[i])
      BY <2>5, Zenon
  <2>7. f \in [1 .. n -> Nat]
      BY <2>6
  <2> HIDE DEF n, f
  <2>8. PICK cnt \in [0 .. n -> Nat] : \A i \in 1 .. n : cnt[i] = cnt[i - 1] + f[i]
      BY <2>4, <2>7, SumsExist, Zenon
  <2>9. \A i \in 1 .. n : cnt[i - 1] < cnt[i] /\ cnt[i] - cnt[i - 1] = f[i]
      BY <2>4, <2>6, <2>8
  <2>10. ItemsCounted(m - 1, items, cnt)
    <3>1. \A i \in 1 .. n : HasElements(items[i], m - 1, cnt[i] - cnt[i - 1])
        BY <2>6, <2>9, Zenon
    <3> QED
        BY <2>4, <2>9, <3>1 DEF ItemsCounted, n
  <2>11. cnt[0] <= cnt[n] /\ cnt[0] \in Nat /\ cnt[n] \in Nat
    <3>1. 0 \in 0 .. n /\ n \in 0 .. n /\ 0 <= n
        BY <2>4
    <3> QED
        BY <2>4, <2>9, <3>1, Ascending
  <2>12. 1 + cnt[n] - cnt[0] \in Nat \ {0}
      BY <2>11
  <2>13. Count(d) \in Nat
      BY CountIsNat DEF Lengths, Numerals
  <2>14. HasElements(w, m, 1 + cnt[n] - cnt[0])
    <3>1. /\ HasElements([type |-> "array", items |-> items],
                         (m - 1) + 1, 1 + cnt[Len(items)] - cnt[0])
          /\ \A l \in Nat : Len(items) = 2 * l =>
                HasElements([type |-> "map", entries |-> EntriesOf(l, items)],
                            (m - 1) + 1, 1 + cnt[Len(items)] - cnt[0])
        BY <2>3, <2>10, ContainersCount
    <3> QED
        BY <2>2, <2>3, <2>13, <3>1, Zenon DEF n
  <2> QED
      BY <1>4, <2>12, <2>14
<1> QED
    BY <1>4, <1>5, <1>6, OnlyTheRules

\* A leaf is one element (decode.go 239-243).
LEMMA LeafCounts ==
    ASSUME NEW v, NEW k, NEW n, v \in Leaves, HasElements(v, k, n)
    PROVE  n = 1
<1>1. v.type \notin {"array", "map"}
    BY DEF Leaves
<1>2. ASSUME ContainerCounted(v, k, n) PROVE FALSE
  <2>1. PICK items, cnt :
           \/ v = [type |-> "array", items |-> items]
           \/ \E m \in Nat : v = [type |-> "map", entries |-> EntriesOf(m, items)]
      BY <1>2, Zenon DEF ContainerCounted
  <2>2. v.type \in {"array", "map"}
      BY <2>1
  <2> QED
      BY <1>1, <2>2
<1> QED
    BY <1>2, OnlyTheCounts, Zenon

\* The elements of an array are itself and those of its items.
LEMMA ArrayCounts ==
    ASSUME NEW items, NEW k, NEW n,
           HasElements([type |-> "array", items |-> items], k, n)
    PROVE  \E cnt : ItemsCounted(k - 1, items, cnt) /\ n = 1 + cnt[Len(items)] - cnt[0]
<1> DEFINE v == [type |-> "array", items |-> items]
<1>1. v.type = "array" /\ v.items = items
    OBVIOUS
<1>2. v \notin Leaves
    BY <1>1 DEF Leaves
<1>3. ContainerCounted(v, k, n)
    BY <1>2, OnlyTheCounts, Zenon
<1> HIDE DEF v
<1>4. PICK is, cnt :
         /\ ItemsCounted(k - 1, is, cnt) /\ n = 1 + cnt[Len(is)] - cnt[0]
         /\ \/ v = [type |-> "array", items |-> is]
            \/ \E m \in Nat : v = [type |-> "map", entries |-> EntriesOf(m, is)]
    BY <1>3, Zenon DEF ContainerCounted
<1>5. ASSUME NEW x PROVE [type |-> "map", entries |-> x].type = "map"
    OBVIOUS
<1>6. [type |-> "array", items |-> is].items = is /\ "map" # "array"
    OBVIOUS
<1>7. is = items
    BY <1>1, <1>4, <1>5, <1>6, Zenon
<1> QED
    BY <1>4, <1>7

\* A place is that of a key or of a value.
LEMMA OddOrEven ==
    ASSUME NEW j \in Nat
    PROVE  \E i \in Nat : j = 2 * i - 1 \/ j = 2 * i
<1>1. ASSUME NEW h, h = (j + 1) \div 2 PROVE h \in Nat
    BY <1>1
<1>2. ASSUME NEW h \in Nat, h = (j + 1) \div 2 PROVE j = 2 * h - 1 \/ j = 2 * h
  <2>1. 2 * h <= j + 1 /\ j + 1 <= 2 * h + 1
      BY <1>2
  <2> QED
      BY <2>1
<1> QED
    BY <1>1, <1>2, Zenon

\* Entries determine the items they are made of.
LEMMA SameEntries ==
    ASSUME NEW m \in Nat, NEW l \in Nat, NEW s, NEW t,
           s = [i \in 1 .. 2 * m |-> s[i]], t = [i \in 1 .. 2 * l |-> t[i]],
           EntriesOf(m, s) = EntriesOf(l, t)
    PROVE  m = l /\ s = t
<1> DEFINE A == EntriesOf(m, s)
           B == EntriesOf(l, t)
<1>1. /\ DOMAIN A = 1 .. m /\ DOMAIN B = 1 .. l
      /\ \A i \in 1 .. m : A[i] = [key |-> s[2 * i - 1], val |-> s[2 * i]]
      /\ \A i \in 1 .. l : B[i] = [key |-> t[2 * i - 1], val |-> t[2 * i]]
    BY Zenon DEF EntriesOf
<1>2. A = B
    OBVIOUS
<1> HIDE DEF A, B
<1>3. m = l
  <2>1. 1 .. m = 1 .. l
      BY <1>1, <1>2
  <2>2. \A i \in Nat : (i \in 1 .. m) <=> (i \in 1 .. l)
      BY <2>1
  <2>3. ~(m < l)
    <3>1. l \in 1 .. l => l \in 1 .. m
        BY <2>2
    <3> QED
        BY <3>1
  <2>4. ~(l < m)
    <3>1. m \in 1 .. m => m \in 1 .. l
        BY <2>2
    <3> QED
        BY <3>1
  <2> QED
      BY <2>3, <2>4
<1>4. \A x, y, x1, y1 : [key |-> x, val |-> y] = [key |-> x1, val |-> y1]
                            => x = x1 /\ y = y1
    OBVIOUS
<1>5. ASSUME NEW i \in 1 .. m
      PROVE  s[2 * i - 1] = t[2 * i - 1] /\ s[2 * i] = t[2 * i]
  <2>1. i \in 1 .. l
      BY <1>3
  <2>2. [key |-> s[2 * i - 1], val |-> s[2 * i]] = [key |-> t[2 * i - 1], val |-> t[2 * i]]
      BY <1>1, <1>2, <2>1, Zenon
  <2> QED
      BY <1>4, <2>2, Zenon
<1>6. ASSUME NEW j \in 1 .. 2 * m PROVE s[j] = t[j]
  <2>1. \E i \in 1 .. m : j = 2 * i - 1 \/ j = 2 * i
    <3>1. PICK i \in Nat : j = 2 * i - 1 \/ j = 2 * i
      <4>1. j \in Nat
          OBVIOUS
      <4> QED
          BY <4>1, OddOrEven, Zenon
    <3>3. i \in 1 .. m
        BY <3>1
    <3> QED
        BY <3>1, <3>3
  <2> QED
      BY <1>5, <2>1, Zenon
<1> QED
    BY <1>3, <1>6

\* The elements of a map are itself and those of its keys and values.
LEMMA MapCounts ==
    ASSUME NEW items, NEW m \in Nat, NEW k, NEW n,
           items = [i \in 1 .. Len(items) |-> items[i]], Len(items) = 2 * m,
           HasElements([type |-> "map", entries |-> EntriesOf(m, items)], k, n)
    PROVE  \E cnt : ItemsCounted(k - 1, items, cnt) /\ n = 1 + cnt[Len(items)] - cnt[0]
<1> DEFINE v == [type |-> "map", entries |-> EntriesOf(m, items)]
<1>1. v.type = "map" /\ v.entries = EntriesOf(m, items)
    OBVIOUS
<1>2. v \notin Leaves
    BY <1>1 DEF Leaves
<1>3. ContainerCounted(v, k, n)
    BY <1>2, OnlyTheCounts, Zenon
<1> HIDE DEF v
<1>4. PICK is, cnt :
         /\ ItemsCounted(k - 1, is, cnt) /\ n = 1 + cnt[Len(is)] - cnt[0]
         /\ \/ v = [type |-> "array", items |-> is]
            \/ \E l \in Nat : /\ Len(is) = 2 * l
                              /\ v = [type |-> "map", entries |-> EntriesOf(l, is)]
    BY <1>3, Zenon DEF ContainerCounted
<1>5. \A x : [type |-> "array", items |-> x].type = "array"
    OBVIOUS
<1>6. PICK l \in Nat : /\ Len(is) = 2 * l
                       /\ v = [type |-> "map", entries |-> EntriesOf(l, is)]
    BY <1>1, <1>4, <1>5
<1>7. [type |-> "map", entries |-> EntriesOf(l, is)].entries = EntriesOf(l, is)
    OBVIOUS
<1>8. EntriesOf(m, items) = EntriesOf(l, is)
    BY <1>1, <1>6, <1>7, Zenon
<1>9. is = items
  <2>1. is = [i \in 1 .. 2 * l |-> is[i]]
    <3>1. is = [i \in 1 .. Len(is) |-> is[i]]
        BY <1>4, Zenon DEF ItemsCounted
    <3> QED
        BY <1>6, <3>1, Zenon
  <2>2. items = [i \in 1 .. 2 * m |-> items[i]]
    <3>1. items = [i \in 1 .. Len(items) |-> items[i]] /\ Len(items) = 2 * m
        OBVIOUS
    <3> QED
        BY <3>1
  <2> QED
      BY <1>8, <2>1, <2>2, SameEntries
<1> QED
    BY <1>4, <1>9

-----------------------------------------------------------------------------
(* Reading a head.                                                         *)

\* A slice that is made of two parts is cut in two where the first ends.
LEMMA SplitSlice ==
    ASSUME NEW S, NEW s \in Seq(S), NEW a \in Nat, NEW b \in Nat,
           NEW h \in Seq(S), NEW t \in Seq(S),
           a <= b, b <= Len(s), Between(s, a, b) = h \o t
    PROVE  /\ Between(s, a, a + Len(h)) = h
           /\ Between(s, a + Len(h), b) = t
<1> DEFINE w == Between(s, a, b)
           n == Len(h)
           m == Len(t)
           c == a + n
<1>1. /\ w \in Seq(S) /\ Len(w) = b - a
      /\ \A i \in 1 .. b - a : w[i] = s[a + i]
    BY Slice, Zenon
<1>2. /\ Len(w) = n + m /\ n \in Nat /\ m \in Nat
      /\ \A i \in 1 .. n : w[i] = h[i]
      /\ \A i \in 1 .. m : w[n + i] = t[i]
  <2>1. Len(h \o t) = n + m /\ n \in Nat /\ m \in Nat
      OBVIOUS
  <2>2. \A i \in 1 .. n : (h \o t)[i] = h[i]
      OBVIOUS
  <2>3. \A i \in 1 .. m : (h \o t)[n + i] = t[i]
      OBVIOUS
  <2> QED
      BY <2>1, <2>2, <2>3
<1> HIDE DEF w
<1>3. /\ b - a = n + m /\ b = a + n + m /\ c \in Nat /\ a <= c /\ c <= b /\ c <= Len(s)
      /\ c - a = n /\ b - c = m
  <2>1. Len(w) = b - a /\ Len(w) = n + m /\ n \in Nat /\ m \in Nat
      BY <1>1, <1>2
  <2>2. Len(s) \in Nat
      OBVIOUS
  <2> HIDE DEF n, m
  <2> QED
      BY <2>1, <2>2
<1>c. c \in Nat /\ a <= c /\ c <= b /\ c <= Len(s)
    BY <1>3
<1> DEFINE x == Between(s, a, c)
           y == Between(s, c, b)
<1>4. /\ x \in Seq(S) /\ Len(x) = c - a
      /\ \A i \in 1 .. c - a : x[i] = s[a + i]
  <2> HIDE DEF c
  <2> QED
      BY <1>c, Slice, Zenon
<1>5. /\ y \in Seq(S) /\ Len(y) = b - c
      /\ \A i \in 1 .. b - c : y[i] = s[c + i]
  <2> HIDE DEF c
  <2> QED
      BY <1>c, Slice, Zenon
<1> HIDE DEF x, y
<1>6. x = h
  <2>1. ASSUME NEW i \in 1 .. n PROVE x[i] = h[i]
    <3>1. i \in 1 .. b - a /\ i \in 1 .. c - a
        BY <1>2, <1>3
    <3> QED
        BY <1>1, <1>2, <1>4, <3>1
  <2>2. Len(x) = Len(h)
      BY <1>3, <1>4
  <2> QED
      BY <1>4, <2>1, <2>2, SameElements
<1>7. y = t
  <2>1. ASSUME NEW i \in 1 .. m PROVE y[i] = t[i]
    <3>1. n + i \in 1 .. b - a /\ i \in 1 .. b - c /\ a + (n + i) = c + i
        BY <1>2, <1>3
    <3>2. y[i] = s[c + i]
        BY <1>5, <3>1, Zenon
    <3>3. w[n + i] = s[a + (n + i)]
        BY <1>1, <3>1, Zenon
    <3> QED
        BY <1>2, <3>1, <3>2, <3>3, Zenon
  <2>2. Len(y) = Len(t)
      BY <1>3, <1>5
  <2> QED
      BY <1>5, <2>1, <2>2, SameElements
<1> QED
    BY <1>6, <1>7 DEF x, y

-----------------------------------------------------------------------------
(* Heads that are written are read.                                        *)

\* Digits undoes what padding does.
LEMMA PadHolds ==
    ASSUME NEW d \in Numerals, NEW n \in Nat, Len(d) <= n, n <= 8
    PROVE  /\ Pad(d, n) \in Seq(Byte) /\ Len(Pad(d, n)) = n
           /\ Digits(Pad(d, n)) = d
           /\ \A j \in 1 .. Len(d) : Pad(d, n)[n - Len(d) + j] = d[j]
<1> DEFINE l == Len(d)
           zeros == [i \in 1 .. n - l |-> 0]
           p == zeros \o d
<1>1. d \in Seq(Byte) /\ l \in Nat /\ (l > 0 => d[1] # 0) /\ l <= n
  <2>1. d \in Seq(Byte) /\ l \in Nat /\ (d # <<>> => d[1] # 0)
      BY DEF Numerals
  <2>2. l > 0 => d # <<>>
      OBVIOUS
  <2> QED
      BY <2>1, <2>2
<1> HIDE DEF l
<1>2. /\ zeros \in Seq(Byte) /\ Len(zeros) = n - l
      /\ \A j \in 1 .. n - l : zeros[j] = 0
    BY <1>1 DEF Byte
<1> HIDE DEF zeros
<1>3. /\ p \in Seq(Byte) /\ Len(p) = Len(zeros) + Len(d)
      /\ \A i \in 1 .. Len(zeros) : p[i] = zeros[i]
      /\ \A i \in 1 .. Len(d) : p[Len(zeros) + i] = d[i]
  <2>1. zeros \in Seq(Byte) /\ d \in Seq(Byte)
      BY <1>1, <1>2
  <2>2. p \in Seq(Byte) /\ Len(p) = Len(zeros) + Len(d)
      BY <2>1, Concatenation
  <2>3. \A i \in 1 .. Len(zeros) : p[i] = zeros[i]
      BY <2>1, Concatenation
  <2>4. \A i \in 1 .. Len(d) : p[Len(zeros) + i] = d[i]
      BY <2>1, Concatenation
  <2> QED
      BY <2>2, <2>3, <2>4, Zenon
<1> HIDE DEF p
<1>4. /\ p \in Seq(Byte) /\ Len(p) = n
      /\ \A j \in 1 .. n - l : p[j] = 0
      /\ \A j \in 1 .. l : p[n - l + j] = d[j]
  <2>1. \A x, y \in Nat : x <= y => (y - x) + x = y
      OBVIOUS
  <2> QED
      BY <1>1, <1>2, <1>3, <2>1, Zenon DEF l
<1>5. PICK z \in 0 .. n :
          /\ Digits(p) = Between(p, z, n)
          /\ Len(Digits(p)) = n - z
          /\ Digits(p) \in Numerals
          /\ z < n => p[z + 1] # 0
          /\ \A j \in 1 .. z : p[j] = 0
    BY <1>4, DigitsAreNumeral
<1>6. z = n - l
  <2>1. ~(z < n - l)
    <3> SUFFICES ASSUME z < n - l PROVE FALSE
        OBVIOUS
    <3>1. z + 1 \in 1 .. n - l /\ z < n
        BY <1>1
    <3> QED
        BY <1>4, <1>5, <3>1
  <2>2. ~(n - l < z)
    <3> SUFFICES ASSUME n - l < z PROVE FALSE
        OBVIOUS
    <3>1. n - l + 1 \in 1 .. z /\ 1 \in 1 .. l /\ l > 0
        BY <1>1
    <3>2. p[n - l + 1] = d[1] /\ p[n - l + 1] = 0
        BY <1>4, <1>5, <3>1, Zenon
    <3> QED
        BY <1>1, <3>1, <3>2
  <2> QED
      BY <1>1, <2>1, <2>2
<1>7. Digits(p) = d
  <2> DEFINE q == Between(p, z, n)
  <2>0. n - z = l
      BY <1>1, <1>6
  <2>5. z \in Nat /\ z <= n /\ n <= Len(p) /\ p \in Seq(Byte)
      BY <1>1, <1>4
  <2>1. /\ q \in Seq(Byte) /\ Len(q) = n - z
        /\ \A i \in 1 .. n - z : q[i] = p[z + i]
      BY <2>5, Slice, Zenon
  <2> HIDE DEF q
  <2>2. Len(q) = Len(d) /\ \A i \in 1 .. Len(q) : q[i] = d[i]
    <3>1. Len(q) = l
        BY <2>0, <2>1
    <3>2. ASSUME NEW i \in 1 .. l PROVE q[i] = d[i]
      <4>1. q[i] = p[z + i]
          BY <2>0, <2>1
      <4>2. p[n - l + i] = d[i]
          BY <1>4, Zenon
      <4> QED
          BY <1>6, <4>1, <4>2
    <3> QED
        BY <3>1, <3>2, Zenon DEF l
  <2>3. q = d
      BY <1>1, <2>1, <2>2, SameElements
  <2> QED
      BY <1>5, <2>3 DEF q
<1>8. Pad(d, n) = p
    BY DEF Pad, p, zeros, l
<1> QED
    BY <1>4, <1>7, <1>8, Zenon DEF l

\* A numeral is padded already to as many digits as it has.
LEMMA NoPadding ==
    ASSUME NEW d \in Numerals
    PROVE  Digits(d) = d
<1>1. d \in Seq(Byte) /\ Len(d) <= 8 /\ Len(d) \in Nat
    BY DEF Numerals
<1>2. Digits(Pad(d, Len(d))) = d
  <2>1. \A n \in Nat : n <= n
      OBVIOUS
  <2> QED
      BY <1>1, <2>1, PadHolds, Zenon
<1>3. Pad(d, Len(d)) = d
  <2>1. \A n \in Nat : [i \in 1 .. n - n |-> 0] = <<>>
      OBVIOUS
  <2>2. <<>> \o d = d
      BY <1>1
  <2> QED
      BY <1>1, <2>1, <2>2, Zenon DEF Pad
<1> QED
    BY <1>2, <1>3

\* What a head is made of: the initial byte, and an argument as long as that
\* announces and no longer than it has to be (encodeHeader).
IsHead(h, m, d, info, arg) ==
    /\ h = <<32 * m + info>> \o arg
    /\ arg \in Seq(Byte)
    /\ info < 24 => arg = <<>> /\ Digits(<<info>>) = d
    /\ info >= 24 =>
          /\ Len(arg) = <<1, 2, 4, 8>>[info - 23]
          /\ Digits(arg) = d
          /\ info = 24 => arg[1] >= 24
          /\ info > 24 => \E i \in 1 .. Len(arg) \div 2 : arg[i] # 0

\* A head is an initial byte and an argument in the shortest form
\* (encode.go 80-97).
LEMMA HeaderParts ==
    ASSUME NEW m \in 0 .. 5, NEW d \in Numerals
    PROVE  \E info \in 0 .. 27, arg \in Seq(Byte) :
               IsHead(Header(m, d), m, d, info, arg)
<1> DEFINE h == Header(m, d)
           l == Len(d)
<1>0. d \in Seq(Byte) /\ m \in Nat /\ l \in 0 .. 8 /\ (l > 0 => d[1] # 0)
  <2>1. d \in Seq(Byte) /\ (d # <<>> => d[1] # 0) /\ l <= 8
      BY DEF Numerals
  <2>2. l \in Nat /\ (l > 0 => d # <<>>)
      BY <2>1
  <2> HIDE DEF l
  <2> QED
      BY <2>1, <2>2
<1>1. /\ l = 0 => h = <<32 * m>>
      /\ l = 1 /\ d[1] < 24 => h = <<32 * m + d[1]>>
      /\ l = 1 /\ d[1] >= 24 => h = <<32 * m + 24>> \o d
      /\ l = 2 => h = <<32 * m + 25>> \o d
      /\ l \in 3 .. 4 => h = <<32 * m + 26>> \o Pad(d, 4)
      /\ l \in 5 .. 8 => h = <<32 * m + 27>> \o Pad(d, 8)
    BY <1>0, HeaderByLength, Zenon
<1>2. ASSUME NEW n \in Nat, l <= n, n <= 8
      PROVE  /\ Pad(d, n) \in Seq(Byte) /\ Len(Pad(d, n)) = n
             /\ Digits(Pad(d, n)) = d
             /\ \A j \in 1 .. l : Pad(d, n)[n - l + j] = d[j]
    BY <1>2, PadHolds
<1>3. ASSUME NEW x \in Nat PROVE <<x>> = <<x>> \o <<>>
    OBVIOUS
<1>4. <<>> \in Seq(Byte) /\ Digits(d) = d
  <2>1. <<>> \in Seq(Byte)
      OBVIOUS
  <2> QED
      BY <2>1, NoPadding
<1>5. CASE l = 0
  <2>1. d = <<>> /\ 32 * m = 32 * m + 0 /\ 0 \in Byte
    <3>1. d = <<>>
        BY <1>0, <1>5
    <3> QED
        BY <1>0, <3>1 DEF Byte
  <2>2. h = <<32 * m + 0>> \o <<>>
      BY <1>1, <1>5, <2>1
  <2>3. Digits(<<0>>) = d
      BY <2>1, DigitsOfByte
  <2>4. IsHead(h, m, d, 0, <<>>)
      BY <1>4, <2>2, <2>3 DEF IsHead
  <2>5. 0 \in 0 .. 27
      OBVIOUS
  <2> QED
      BY <1>4, <2>4, <2>5, Zenon
<1>6. CASE l = 1 /\ d[1] < 24
  <2>1. d[1] \in 0 .. 23 /\ d[1] \in Byte /\ d[1] # 0 /\ d = <<d[1]>>
    <3>1. d[1] \in Byte /\ d = <<d[1]>>
      <4>1. d \in Seq(Byte) /\ Len(d) = 1
          BY <1>0, <1>6
      <4> QED
          BY <4>1
    <3>3. d[1] # 0
      <4>1. 1 > 0
          OBVIOUS
      <4> QED
          BY <1>0, <1>6, <4>1
    <3>2. \A x \in Byte : x < 24 => x \in 0 .. 23
        BY DEF Byte
    <3> QED
        BY <1>6, <3>1, <3>2, <3>3, Zenon
  <2>2. h = <<32 * m + d[1]>> \o <<>>
    <3>1. 32 * m + d[1] \in Nat
      <4>1. \A x \in 0 .. 23 : 32 * m + x \in Nat
          BY <1>0
      <4> QED
          BY <2>1, <4>1
    <3> QED
        BY <1>1, <1>3, <1>6, <3>1
  <2>3. Digits(<<d[1]>>) = d
      BY <2>1, DigitsOfByte
  <2>5. d[1] \in 0 .. 27 /\ ~(d[1] >= 24)
      BY <2>1
  <2>4. IsHead(h, m, d, d[1], <<>>)
      BY <1>4, <2>2, <2>3, <2>5, Zenon DEF IsHead
  <2> QED
      BY <1>4, <2>4, <2>5, Zenon
<1>7. CASE l = 1 /\ d[1] >= 24
  <2>1. h = <<32 * m + 24>> \o d
      BY <1>1, <1>7
  <2>2. <<1, 2, 4, 8>>[24 - 23] = 1
      OBVIOUS
  <2>3. IsHead(h, m, d, 24, d)
      BY <1>0, <1>4, <1>7, <2>1, <2>2 DEF IsHead
  <2> QED
      BY <1>0, <2>3
<1>8. CASE l = 2
  <2>1. h = <<32 * m + 25>> \o d
      BY <1>1, <1>8
  <2>2. <<1, 2, 4, 8>>[25 - 23] = 2 /\ 1 \in 1 .. 2 \div 2 /\ 2 > 0
      OBVIOUS
  <2>3. \E i \in 1 .. l \div 2 : d[i] # 0
      BY <1>0, <1>8, <2>2
  <2>4. IsHead(h, m, d, 25, d)
      BY <1>0, <1>4, <1>8, <2>1, <2>2, <2>3 DEF IsHead
  <2> QED
      BY <1>0, <2>4
<1>9. ASSUME NEW info \in 26 .. 27, NEW n \in Nat,
             n = <<1, 2, 4, 8>>[info - 23], n \in {4, 8},
             l <= n, n < 2 * l, h = <<32 * m + info>> \o Pad(d, n)
      PROVE  \E arg \in Seq(Byte) : IsHead(h, m, d, info, arg)
  <2> DEFINE p == Pad(d, n)
  <2>1. /\ p \in Seq(Byte) /\ Len(p) = n /\ Digits(p) = d
        /\ \A j \in 1 .. l : p[n - l + j] = d[j]
    <3>1. n <= 8
        BY <1>9
    <3> QED
        BY <1>2, <1>9, <3>1
  <2> HIDE DEF p, l
  <2>2. 1 \in 1 .. l /\ n - l + 1 \in 1 .. n \div 2 /\ l > 0
    <3>1. l \in Nat /\ l <= n /\ n < 2 * l
        BY <1>0, <1>9
    <3>2. CASE n = 4
        BY <3>1, <3>2
    <3>3. CASE n = 8
        BY <3>1, <3>3
    <3>4. n = 4 \/ n = 8
        BY <1>9, Zenon
    <3> QED
        BY <3>2, <3>3, <3>4, Zenon
  <2>3. p[n - l + 1] # 0
      BY <1>0, <2>1, <2>2
  <2>4. \E i \in 1 .. n \div 2 : p[i] # 0
      BY <2>2, <2>3
  <2>5. ~(info < 24) /\ info # 24
      BY <1>9
  <2>6. IsHead(h, m, d, info, p)
      BY <1>9, <2>1, <2>4, <2>5, Zenon DEF IsHead, p
  <2> QED
      BY <2>1, <2>6
<1>10. CASE l \in 3 .. 4
  <2>1. <<1, 2, 4, 8>>[26 - 23] = 4
      OBVIOUS
  <2>2. h = <<32 * m + 26>> \o Pad(d, 4)
      BY <1>1, <1>10
  <2>3. l <= 4 /\ 4 < 2 * l
    <3> HIDE DEF l
    <3> QED
        BY <1>10
  <2>4. 26 \in 26 .. 27 /\ 4 \in Nat /\ 4 \in {4, 8} /\ 26 \in 0 .. 27
      OBVIOUS
  <2>5. \E arg \in Seq(Byte) : IsHead(h, m, d, 26, arg)
      BY <1>9, <2>1, <2>2, <2>3, <2>4, Zenon
  <2> QED
      BY <2>4, <2>5, Zenon
<1>11. CASE l \in 5 .. 8
  <2>1. <<1, 2, 4, 8>>[27 - 23] = 8
      OBVIOUS
  <2>2. h = <<32 * m + 27>> \o Pad(d, 8)
      BY <1>1, <1>11
  <2>3. l <= 8 /\ 8 < 2 * l
    <3> HIDE DEF l
    <3> QED
        BY <1>11
  <2>4. 27 \in 26 .. 27 /\ 8 \in Nat /\ 8 \in {4, 8} /\ 27 \in 0 .. 27
      OBVIOUS
  <2>5. \E arg \in Seq(Byte) : IsHead(h, m, d, 27, arg)
      BY <1>9, <2>1, <2>2, <2>3, <2>4, Zenon
  <2> QED
      BY <2>4, <2>5, Zenon
<1>12. \/ l = 0
       \/ l = 1 /\ d[1] < 24
       \/ l = 1 /\ d[1] >= 24
       \/ l = 2
       \/ l \in 3 .. 4
       \/ l \in 5 .. 8
  <2>1. l = 1 => d[1] < 24 \/ d[1] >= 24
    <3>1. l = 1 => d[1] \in Byte
        BY <1>0
    <3>2. \A x \in Byte : x < 24 \/ x >= 24
        BY DEF Byte
    <3> QED
        BY <3>1, <3>2
  <2> HIDE DEF l
  <2> QED
      BY <1>0, <2>1
<1> QED
    BY <1>5, <1>6, <1>7, <1>8, <1>10, <1>11, <1>12, Zenon

\* The decoder reads back the head of a number: its major type, its argument
\* and its length, and has nothing to say against it (decode.go 113-196).
LEMMA HeadReads ==
    ASSUME buf \in Seq(Byte), pos \in Nat,
           NEW m \in 0 .. 5, NEW d \in Numerals,
           NEW end \in Nat, end = pos + Len(Header(m, d)), end <= Len(buf),
           Between(buf, pos, end) = Header(m, d)
    PROVE  /\ Major = m /\ Argument = d /\ Info <= 27
           /\ HeadLength \in Nat \ {0} /\ end = pos + HeadLength
           /\ Shortest
<1> DEFINE h == Header(m, d)
           w == Between(buf, pos, end)
           n == Len(h)
<1>1. PICK info \in 0 .. 27, arg \in Seq(Byte) : IsHead(h, m, d, info, arg)
    BY HeaderParts
<1>2. /\ h = <<32 * m + info>> \o arg /\ n = 1 + Len(arg) /\ Len(arg) \in Nat
      /\ h[1] = 32 * m + info
      /\ \A i \in 1 .. Len(arg) : h[1 + i] = arg[i]
  <2>1. h = <<32 * m + info>> \o arg
      BY <1>1 DEF IsHead
  <2> HIDE DEF h
  <2> DEFINE x == 32 * m + info
  <2>2. x \in Nat /\ arg \in Seq(Nat)
      BY BytesAreNumbers
  <2> HIDE DEF x
  <2>3. <<x>> \in Seq(Nat) /\ Len(<<x>>) = 1 /\ <<x>>[1] = x /\ 1 \in 1 .. 1
      BY <2>2
  <2>4. /\ Len(<<x>> \o arg) = Len(<<x>>) + Len(arg)
        /\ \A i \in 1 .. Len(<<x>>) : (<<x>> \o arg)[i] = <<x>>[i]
        /\ \A i \in 1 .. Len(arg) : (<<x>> \o arg)[Len(<<x>>) + i] = arg[i]
    <3>1. Len(<<x>> \o arg) = Len(<<x>>) + Len(arg)
        BY <2>2, <2>3, Concatenation
    <3>2. \A i \in 1 .. Len(<<x>>) : (<<x>> \o arg)[i] = <<x>>[i]
        BY <2>2, <2>3, Concatenation
    <3>3. \A i \in 1 .. Len(arg) : (<<x>> \o arg)[Len(<<x>>) + i] = arg[i]
        BY <2>2, <2>3, Concatenation
    <3> QED
        BY <3>1, <3>2, <3>3, Zenon
  <2>5. h = <<x>> \o arg /\ Len(arg) \in Nat
      BY <2>1 DEF x
  <2> QED
      BY <2>3, <2>4, <2>5, Zenon DEF x
<1>3. /\ Len(w) = end - pos /\ \A i \in 1 .. end - pos : w[i] = buf[pos + i]
      /\ end - pos = n
  <2>1. n \in Nat
      BY <1>2
  <2> HIDE DEF n
  <2>2. pos <= end /\ end - pos = n
      BY <2>1 DEF n
  <2>3. /\ Len(w) = end - pos /\ \A i \in 1 .. end - pos : w[i] = buf[pos + i]
      BY <2>2, Slice, ZenonT(60)
  <2> QED
      BY <2>2, <2>3
<1>4. w = h
    OBVIOUS
<1> HIDE DEF w, h
<1>5. /\ n \in Nat \ {0} /\ end = pos + n
      /\ buf[pos + 1] = 32 * m + info
      /\ \A i \in 1 .. Len(arg) : buf[pos + (1 + i)] = arg[i]
  <2>0. n \in Nat \ {0} /\ end = pos + n
      BY <1>2, <1>3
  <2>1. \A i \in 1 .. n : buf[pos + i] = h[i]
      BY <1>3, <1>4
  <2>2. 1 \in 1 .. n /\ \A i \in 1 .. Len(arg) : 1 + i \in 1 .. n
    <3> DEFINE l == Len(arg)
    <3>1. n = 1 + l /\ l \in Nat
        BY <1>2
    <3> HIDE DEF l, n
    <3>2. 1 \in 1 .. n /\ \A i \in 1 .. l : 1 + i \in 1 .. n
        BY <3>1
    <3> QED
        BY <3>2 DEF l
  <2> QED
      BY <1>2, <2>0, <2>1, <2>2, Zenon
<1>6. Major = m /\ Info = info
  <2>1. InitialByte = 32 * m + info
      BY <1>5 DEF InitialByte
  <2>2. \A x \in 0 .. 5, y \in 0 .. 27 : (32 * x + y) \div 32 = x /\ (32 * x + y) % 32 = y
      OBVIOUS
  <2> QED
      BY <2>1, <2>2, Zenon DEF Major, Info
<1>7. /\ info < 24 => arg = <<>> /\ Digits(<<info>>) = d
      /\ info >= 24 =>
          /\ Len(arg) = <<1, 2, 4, 8>>[info - 23]
          /\ Digits(arg) = d
          /\ info = 24 => arg[1] >= 24
          /\ info > 24 => \E i \in 1 .. Len(arg) \div 2 : arg[i] # 0
    BY <1>1 DEF IsHead
<1>8. ArgumentLength = Len(arg)
  <2>1. CASE info < 24
    <3>1. Len(arg) = 0
        BY <1>7, <2>1
    <3>2. info \notin 24 .. 27
        BY <2>1
    <3> QED
        BY <1>6, <3>1, <3>2 DEF ArgumentLength
  <2>2. CASE info >= 24
    <3>1. info \in 24 .. 27
        BY <2>2
    <3> QED
        BY <1>6, <1>7, <2>2, <3>1 DEF ArgumentLength
  <2> QED
      BY <2>1, <2>2
<1>9. HeadLength = n
    BY <1>2, <1>8 DEF HeadLength
<1>10. ArgumentBytes = arg
  <2> DEFINE x == ArgumentBytes
             l == Len(arg)
             a == pos + 1
  <2>1. l \in Nat /\ n = 1 + l
      BY <1>2
  <2>2. a \in Nat /\ a <= end /\ end - a = l /\ a + 1 = pos + 2 /\ end = pos + 1 + l
    <3>1. end = pos + n
        BY <1>5
    <3>2. end = pos + (1 + l)
        BY <2>1, <3>1, Zenon
    <3> HIDE DEF n, l
    <3> QED
        BY <2>1, <3>2
  <2>3. x = Between(buf, a, end)
      BY <1>8, <2>2 DEF ArgumentBytes, Between
  <2> HIDE DEF x, l
  <2>4. /\ Between(buf, a, end) \in Seq(Byte) /\ Len(Between(buf, a, end)) = end - a
        /\ \A i \in 1 .. end - a : Between(buf, a, end)[i] = buf[a + i]
    <3>1. a \in Nat /\ a <= end
        BY <2>2
    <3>2. ASSUME NEW c \in Nat, NEW e \in Nat, c <= e, e <= Len(buf)
          PROVE  /\ Between(buf, c, e) \in Seq(Byte)
                 /\ Len(Between(buf, c, e)) = e - c
                 /\ \A i \in 1 .. e - c : Between(buf, c, e)[i] = buf[c + i]
        BY <3>2, Slice, ZenonT(60)
    <3>3. end \in Nat /\ end <= Len(buf)
        OBVIOUS
    <3> QED
        BY <3>1, <3>2, <3>3, Zenon
  <2>5. /\ x \in Seq(Byte) /\ Len(x) = l
        /\ \A i \in 1 .. l : x[i] = arg[i]
    <3>1. ASSUME NEW i \in 1 .. l PROVE x[i] = arg[i]
      <4>1. a + i = pos + (1 + i)
          BY <2>1
      <4>2. x[i] = buf[a + i]
        <5>1. i \in 1 .. end - a
            BY <2>2
        <5> QED
            BY <2>3, <2>4, <5>1, Zenon
      <4>3. buf[pos + (1 + i)] = arg[i]
          BY <1>5 DEF l
      <4> QED
          BY <4>1, <4>2, <4>3
    <3> QED
        BY <2>2, <2>3, <2>4, <3>1
  <2>6. x = arg
      BY <2>5, SameElements DEF l
  <2> QED
      BY <2>6 DEF x
<1>11. Argument = d
    BY <1>6, <1>7, <1>10 DEF Argument
<1>12. Shortest
    BY <1>6, <1>7, <1>8, <1>10, SMTT(30) DEF Shortest
<1>13. Info <= 27
    BY <1>6
<1> QED
    BY <1>5, <1>6, <1>9, <1>11, <1>12, <1>13

\* Where the bytes begin with the head of a number there is nothing to refuse
\* but what the number says.
LEMMA HeadOfEncoding ==
    ASSUME Shape, elems < MaxElements, NEW end \in Nat, pos <= end, end <= Len(buf),
           NEW m \in 0 .. 5, NEW d \in Numerals, NEW t \in Seq(Nat),
           Between(buf, pos, end) = Header(m, d) \o t
    PROVE  /\ Major = m /\ Argument = d /\ HeadError = ItemError
           /\ HeadLength \in Nat \ {0}
           /\ Len(t) \in Nat /\ end = pos + HeadLength + Len(t)
           /\ Between(buf, pos + HeadLength, end) = t
<1> DEFINE h == Header(m, d)
           c == pos + Len(h)
<1>1. /\ buf \in Seq(Byte) /\ buf \in Seq(Nat) /\ pos \in Nat /\ Len(buf) \in Nat
      /\ elems \in Nat
  <2>1. buf \in Seq(Byte) /\ pos \in Nat /\ elems \in Nat
      BY DEF Shape
  <2>2. buf \in Seq(Nat) /\ Len(buf) \in Nat
      BY <2>1, BytesAreNumbers
  <2> QED
      BY <2>1, <2>2
<1>2. h \in Seq(Nat)
  <2>1. m \in 0 .. 7
      OBVIOUS
  <2> QED
      BY <2>1, HeaderIsSeq
<1> HIDE DEF h
<1>e. Between(buf, pos, end) = h \o t
    BY DEF h
<1>3. /\ Len(h) \in Nat /\ Len(t) \in Nat /\ end = pos + Len(h) + Len(t)
      /\ Between(buf, pos, pos + Len(h)) = h
      /\ Between(buf, pos + Len(h), end) = t
  <2>1. pos <= end /\ end <= Len(buf)
      OBVIOUS
  <2> HIDE DEF c
  <2>2. Len(h) \in Nat /\ Len(t) \in Nat /\ end = pos + Len(h) + Len(t)
    <3>1. Len(h) \in Nat /\ Len(t) \in Nat /\ Len(h \o t) = Len(h) + Len(t)
        BY <1>2
    <3>2. Len(Between(buf, pos, end)) = end - pos
      <4>1. /\ buf \in Seq(Byte) /\ pos \in Nat
            /\ pos <= end /\ end <= Len(buf)
          BY <1>1
      <4> QED
          BY <4>1, Slice
    <3>3. Len(h) + Len(t) = end - pos
        BY <1>e, <3>1, <3>2, Zenon
    <3>4. \A i, j \in Nat : i + j = end - pos => end = pos + i + j
        BY <1>1
    <3> QED
        BY <3>1, <3>3, <3>4, Zenon
  <2>3. /\ Between(buf, pos, pos + Len(h)) = h
        /\ Between(buf, pos + Len(h), end) = t
      BY <1>1, <1>2, <1>e, <2>1, SplitSlice
  <2> QED
      BY <2>2, <2>3
<1>4. c \in Nat /\ c <= Len(buf) /\ c <= end
    BY <1>1, <1>3
<1>5. /\ Major = m /\ Argument = d /\ Info <= 27
      /\ HeadLength \in Nat \ {0} /\ c = pos + HeadLength
      /\ Shortest
  <2>1. c = pos + Len(Header(m, d)) /\ Between(buf, pos, c) = Header(m, d)
      BY <1>3 DEF h
  <2> HIDE DEF c
  <2> QED
      BY <1>1, <1>4, <2>1, HeadReads
<1>6. HeadLength = Len(h) /\ Remaining # 0 /\ ~(Remaining < HeadLength)
  <2>1. HeadLength = Len(h)
      BY <1>1, <1>3, <1>5
  <2> QED
      BY <1>1, <1>3, <1>4, <1>5, <2>1 DEF Remaining
<1>7. HeadError = ItemError
  <2>1. ~(elems >= MaxElements) /\ Major # 7 /\ ~(Info > 27)
    <3>1. Major # 7
        BY <1>5
    <3>2. ~(elems >= MaxElements)
        BY <1>1, LimitAssumption
    <3>3. Info \in Int
      <4>1. InitialByte \in Byte
        <5>1. pos + 1 \in 1 .. Len(buf)
            BY <1>1, <1>4, <1>5
        <5> QED
            BY <1>1, <5>1 DEF InitialByte
      <4>2. \A x \in 0 .. 255 : x % 32 \in Int
          OBVIOUS
      <4> QED
          BY <4>1, <4>2, Zenon DEF Info, Byte
    <3>4. ~(Info > 27)
        BY <1>5, <3>3
    <3> QED
        BY <3>1, <3>2, <3>4
  <2> QED
      BY <1>5, <1>6, <2>1, Zenon DEF HeadError
<1> QED
    BY <1>3, <1>5, <1>6, <1>7

\* What the switch of decodeValue finds wrong, case by case.
LEMMA ItemErrors ==
    ASSUME Major \in 0 .. 5
    PROVE  /\ Major \in {0, 1} /\ ~OverInt64(Argument) => ItemError = None
           /\ Major \in {2, 3} /\ ~(Count(Argument) > Remaining - HeadLength)
                 => ItemError = None
           /\ Major \in {4, 5} /\ ~(depth >= MaxDepth) => ItemError = None
<1> DEFINE over == OverInt64(Argument)
           long == Count(Argument) > Remaining - HeadLength
           deep == depth >= MaxDepth
           m == Major
<1>1. ItemError = CASE m \in {0, 1} /\ over -> "ErrUnsupported"
                    [] m \in {2, 3} /\ long -> "ErrTruncated"
                    [] m \in {4, 5} /\ deep -> "ErrDepth"
                    [] m = 6                -> "ErrUnsupported"
                    [] OTHER                -> None
    BY DEF ItemError
<1>2. m \in 0 .. 5
    OBVIOUS
<1> HIDE DEF over, long, deep, m
<1>3. /\ m \in {0, 1} /\ ~over => ItemError = None
      /\ m \in {2, 3} /\ ~long => ItemError = None
      /\ m \in {4, 5} /\ ~deep => ItemError = None
    BY <1>1, <1>2
<1> QED
    BY <1>3, Zenon DEF over, long, deep, m

\* What decodeValue returns, major type by major type.
LEMMA ScalarByMajor ==
    LET string == SubSeq(buf, pos + HeadLength + 1, pos + HeadLength + StringLength) IN
    /\ Major = 0 => Scalar = [type |-> "uint", n |-> Argument]
    /\ Major = 1 => Scalar = [type |-> "negint", n |-> Argument]
    /\ Major = 2 => Scalar = [type |-> "bytes", string |-> string]
    /\ Major = 3 => Scalar = [type |-> "text", string |-> string]
    /\ Major = 7 /\ Info = 22 => Scalar = [type |-> "null"]
    /\ Major = 7 /\ Info # 22 => Scalar = [type |-> "bool", bool |-> Info = 21]
<1> DEFINE string == SubSeq(buf, pos + HeadLength + 1, pos + HeadLength + StringLength)
           m == Major
           i == Info
           uint == [type |-> "uint", n |-> Argument]
           negint == [type |-> "negint", n |-> Argument]
           bytes == [type |-> "bytes", string |-> string]
           text == [type |-> "text", string |-> string]
           null == [type |-> "null"]
           bool == [type |-> "bool", bool |-> Info = 21]
<1>1. Scalar = CASE m = 0 -> uint
                 [] m = 1 -> negint
                 [] m = 2 -> bytes
                 [] m = 3 -> text
                 [] m = 7 /\ i = 22 -> null
                 [] m = 7 /\ i # 22 -> bool
    BY Zenon DEF Scalar
<1>2. /\ m = 0 => Scalar = uint
      /\ m = 1 => Scalar = negint
      /\ m = 2 => Scalar = bytes
      /\ m = 3 => Scalar = text
      /\ m = 7 /\ i = 22 => Scalar = null
      /\ m = 7 /\ i # 22 => Scalar = bool
  <2> HIDE DEF m, i, uint, negint, bytes, text, null, bool
  <2> QED
      BY <1>1
<1> QED
    BY <1>2, Zenon

\* An encoding without items is decoded as what it encodes, to its last byte
\* (decode.go 238-300).
LEMMA LeavesDecode ==
    ASSUME Shape, elems < MaxElements, NEW end \in Nat, pos <= end, end <= Len(buf),
           NEW v, LeafByARule(v, Between(buf, pos, end))
    PROVE  /\ HeadError = None /\ Major \notin {4, 5} /\ Scalar = v
           /\ end = pos + HeadLength + StringLength
<1> DEFINE e == Between(buf, pos, end)
<1>0. /\ buf \in Seq(Byte) /\ pos \in Nat /\ Len(buf) \in Nat /\ elems \in Nat
    BY DEF Shape
<1>1. ASSUME NEW m \in 0 .. 1, NEW d \in Numerals, ~OverInt64(d), e = Header(m, d)
      PROVE  /\ HeadError = None /\ Major = m /\ Argument = d
             /\ end = pos + HeadLength + StringLength
  <2>1. e = Header(m, d) \o <<>> /\ <<>> \in Seq(Nat) /\ m \in 0 .. 5 /\ Len(<<>>) = 0
    <3>1. Header(m, d) \in Seq(Nat)
      <4>1. m \in 0 .. 7
          OBVIOUS
      <4> QED
          BY <4>1, HeaderIsSeq
    <3>2. \A x \in Seq(Nat) : x = x \o <<>>
        OBVIOUS
    <3> QED
        BY <1>1, <3>1, <3>2
  <2>2. /\ Major = m /\ Argument = d /\ HeadError = ItemError
        /\ HeadLength \in Nat \ {0}
        /\ Len(<<>>) \in Nat /\ end = pos + HeadLength + Len(<<>>)
    <3> DEFINE t == <<>>
    <3>1. /\ Between(buf, pos, end) = Header(m, d) \o t
          /\ t \in Seq(Nat) /\ m \in 0 .. 5
        BY <2>1
    <3> HIDE DEF t, e
    <3>2. /\ Major = m /\ Argument = d /\ HeadError = ItemError
          /\ HeadLength \in Nat \ {0}
          /\ Len(t) \in Nat /\ end = pos + HeadLength + Len(t)
        BY <3>1, HeadOfEncoding, Zenon
    <3> QED
        BY <3>2 DEF t
  <2>3. HeadError = None
    <3>1. Major \in 0 .. 5 /\ Major \in {0, 1}
        BY <2>2
    <3> QED
        BY <1>1, <2>2, <3>1, ItemErrors, Zenon
  <2>4. StringLength = 0
      BY <2>2 DEF StringLength
  <2> QED
      BY <1>0, <2>1, <2>2, <2>3, <2>4
<1>2. ASSUME NEW m \in 2 .. 3, NEW d \in Lengths, NEW s \in Seq(Byte),
             Count(d) = Len(s), e = Header(m, d) \o s
      PROVE  /\ HeadError = None /\ Major = m /\ Argument = d
             /\ end = pos + HeadLength + StringLength
             /\ SubSeq(buf, pos + HeadLength + 1, pos + HeadLength + StringLength) = s
  <2>1. s \in Seq(Nat) /\ m \in 0 .. 5 /\ d \in Numerals
      BY BytesAreNumbers DEF Lengths
  <2>2. /\ Major = m /\ Argument = d /\ HeadError = ItemError
        /\ HeadLength \in Nat \ {0}
        /\ Len(s) \in Nat /\ end = pos + HeadLength + Len(s)
        /\ Between(buf, pos + HeadLength, end) = s
      BY <1>2, <2>1, HeadOfEncoding
  <2>3. StringLength = Len(s)
      BY <1>2, <2>2 DEF StringLength
  <2>4. HeadError = None
    <3>1. Major \in 0 .. 5 /\ Major \in {2, 3}
        BY <2>2
    <3>2. ~(Count(Argument) > Remaining - HeadLength)
      <4> DEFINE l == Len(s)
                 n == Len(buf)
      <4>1. n \in Nat /\ l \in Nat /\ end <= n /\ end = pos + HeadLength + l
          BY <1>0, <2>2
      <4>2. Count(Argument) = l /\ Remaining = n - pos
          BY <1>2, <2>2 DEF Remaining
      <4> HIDE DEF l, n
      <4> QED
          BY <1>0, <2>2, <4>1, <4>2
    <3> QED
        BY <2>2, <3>1, <3>2, ItemErrors, Zenon
  <2> QED
      BY <2>2, <2>3, <2>4 DEF Between
<1>3. ASSUME NEW i \in 20 .. 22, e = <<224 + i>>
      PROVE  /\ HeadError = None /\ Major = 7 /\ Info = i
             /\ end = pos + HeadLength + StringLength
  <2>1. end = pos + 1 /\ InitialByte = 224 + i
    <3>1. /\ Len(e) = end - pos
          /\ \A j \in 1 .. end - pos : e[j] = buf[pos + j]
      <4>1. pos \in Nat /\ pos <= end /\ end <= Len(buf) /\ buf \in Seq(Byte)
          BY <1>0
      <4>2. Len(e) = end - pos
          BY <4>1, Slice
      <4>3. \A j \in 1 .. end - pos : e[j] = buf[pos + j]
          BY <4>1, Slice, Zenon
      <4> QED
          BY <4>2, <4>3
    <3> HIDE DEF e
    <3>2. Len(e) = 1 /\ e[1] = 224 + i
        BY <1>3
    <3>3. end = pos + 1 /\ 1 \in 1 .. end - pos
      <4>1. end - pos = 1
          BY <3>1, <3>2, Zenon
      <4>2. pos \in Nat
          BY <1>0
      <4> QED
          BY <4>1, <4>2
    <3> QED
        BY <3>1, <3>2, <3>3 DEF InitialByte
  <2>2. Major = 7 /\ Info = i
    <3>1. \A x \in 20 .. 22 : (224 + x) \div 32 = 7 /\ (224 + x) % 32 = x
        OBVIOUS
    <3> QED
        BY <2>1, <3>1 DEF Major, Info
  <2>3. HeadLength = 1 /\ StringLength = 0
      BY <2>2 DEF HeadLength, ArgumentLength, StringLength
  <2>4. HeadError = None
    <3>1. ~(elems >= MaxElements)
        BY <1>0, LimitAssumption
    <3>2. Remaining # 0
        BY <1>0, <2>1 DEF Remaining
    <3>3. SimpleError = None
        BY <2>2 DEF SimpleError
    <3> QED
        BY <2>2, <3>1, <3>2, <3>3 DEF HeadError
  <2> QED
      BY <1>0, <2>1, <2>2, <2>3, <2>4
<1> HIDE DEF e
<1>s. /\ Major = 0 => Scalar = [type |-> "uint", n |-> Argument]
      /\ Major = 1 => Scalar = [type |-> "negint", n |-> Argument]
      /\ Major = 2 => Scalar = [type |-> "bytes", string |->
              SubSeq(buf, pos + HeadLength + 1, pos + HeadLength + StringLength)]
      /\ Major = 3 => Scalar = [type |-> "text", string |->
              SubSeq(buf, pos + HeadLength + 1, pos + HeadLength + StringLength)]
      /\ Major = 7 /\ Info = 22 => Scalar = [type |-> "null"]
      /\ Major = 7 /\ Info # 22 => Scalar = [type |-> "bool", bool |-> Info = 21]
    BY ScalarByMajor, Zenon
<1>4. CASE \E d \in Numerals :
              /\ ~OverInt64(d)
              /\ \/ v = [type |-> "uint", n |-> d] /\ e = Header(0, d)
                 \/ v = [type |-> "negint", n |-> d] /\ e = Header(1, d)
  <2>1. PICK d \in Numerals :
              /\ ~OverInt64(d)
              /\ \/ v = [type |-> "uint", n |-> d] /\ e = Header(0, d)
                 \/ v = [type |-> "negint", n |-> d] /\ e = Header(1, d)
      BY <1>4
  <2>2. 0 \in 0 .. 1 /\ 1 \in 0 .. 1 /\ 0 \notin {4, 5} /\ 1 \notin {4, 5}
      OBVIOUS
  <2>3. CASE v = [type |-> "uint", n |-> d] /\ e = Header(0, d)
    <3>1. /\ HeadError = None /\ Major = 0 /\ Argument = d
          /\ end = pos + HeadLength + StringLength
        BY <1>1, <2>1, <2>2, <2>3, Zenon
    <3> QED
        BY <1>s, <2>2, <2>3, <3>1, Zenon
  <2>4. CASE v = [type |-> "negint", n |-> d] /\ e = Header(1, d)
    <3>1. /\ HeadError = None /\ Major = 1 /\ Argument = d
          /\ end = pos + HeadLength + StringLength
        BY <1>1, <2>1, <2>2, <2>4, Zenon
    <3> QED
        BY <1>s, <2>2, <2>4, <3>1, Zenon
  <2> QED
      BY <2>1, <2>3, <2>4
<1>5. CASE \E d \in Lengths, s \in Seq(Byte) :
              /\ Count(d) = Len(s)
              /\ \/ v = [type |-> "bytes", string |-> s] /\ e = Header(2, d) \o s
                 \/ v = [type |-> "text", string |-> s] /\ e = Header(3, d) \o s
  <2>1. PICK d \in Lengths, s \in Seq(Byte) :
              /\ Count(d) = Len(s)
              /\ \/ v = [type |-> "bytes", string |-> s] /\ e = Header(2, d) \o s
                 \/ v = [type |-> "text", string |-> s] /\ e = Header(3, d) \o s
      BY <1>5
  <2>2. 2 \in 2 .. 3 /\ 3 \in 2 .. 3 /\ 2 \notin {4, 5} /\ 3 \notin {4, 5}
      OBVIOUS
  <2>3. CASE v = [type |-> "bytes", string |-> s] /\ e = Header(2, d) \o s
    <3>1. /\ HeadError = None /\ Major = 2
          /\ end = pos + HeadLength + StringLength
          /\ SubSeq(buf, pos + HeadLength + 1, pos + HeadLength + StringLength) = s
        BY <1>2, <2>1, <2>2, <2>3, Zenon
    <3> QED
        BY <1>s, <2>2, <2>3, <3>1, Zenon
  <2>4. CASE v = [type |-> "text", string |-> s] /\ e = Header(3, d) \o s
    <3>1. /\ HeadError = None /\ Major = 3
          /\ end = pos + HeadLength + StringLength
          /\ SubSeq(buf, pos + HeadLength + 1, pos + HeadLength + StringLength) = s
        BY <1>2, <2>1, <2>2, <2>4, Zenon
    <3> QED
        BY <1>s, <2>2, <2>4, <3>1, Zenon
  <2> QED
      BY <2>1, <2>3, <2>4
<1> DEFINE constant(i) == IF i = 22 THEN [type |-> "null"]
                          ELSE [type |-> "bool", bool |-> i = 21]
<1>6. ASSUME NEW i \in 20 .. 22, e = <<224 + i>>, v = constant(i)
      PROVE  /\ HeadError = None /\ Major \notin {4, 5} /\ Scalar = v
             /\ end = pos + HeadLength + StringLength
  <2>1. /\ HeadError = None /\ Major = 7 /\ Info = i
        /\ end = pos + HeadLength + StringLength
      BY <1>3, <1>6, Zenon
  <2>2. 7 \notin {4, 5}
      OBVIOUS
  <2>3. Scalar = v
    <3>1. CASE i = 22
        BY <1>6, <1>s, <2>1, <3>1, Zenon
    <3>2. CASE i # 22
        BY <1>6, <1>s, <2>1, <3>2, Zenon
    <3> QED
        BY <3>1, <3>2
  <2> QED
      BY <2>1, <2>2, <2>3
<1>7. /\ 20 \in 20 .. 22 /\ 21 \in 20 .. 22 /\ 22 \in 20 .. 22
      /\ 224 + 20 = 244 /\ 224 + 21 = 245 /\ 224 + 22 = 246
      /\ constant(20) = [type |-> "bool", bool |-> FALSE]
      /\ constant(21) = [type |-> "bool", bool |-> TRUE]
      /\ constant(22) = [type |-> "null"]
  <2>1. /\ 20 \in 20 .. 22 /\ 21 \in 20 .. 22 /\ 22 \in 20 .. 22
        /\ 224 + 20 = 244 /\ 224 + 21 = 245 /\ 224 + 22 = 246
        /\ 20 # 22 /\ 21 # 22 /\ (20 = 21) = FALSE /\ (21 = 21) = TRUE
      OBVIOUS
  <2>2. /\ constant(20) = [type |-> "bool", bool |-> 20 = 21]
        /\ constant(21) = [type |-> "bool", bool |-> 21 = 21]
        /\ constant(22) = [type |-> "null"]
      BY <2>1, Zenon
  <2> HIDE DEF constant
  <2> QED
      BY <2>1, <2>2, Zenon
<1> HIDE DEF constant
<1>8. CASE v = [type |-> "bool", bool |-> FALSE] /\ e = <<244>>
  <2>1. e = <<224 + 20>> /\ v = constant(20)
      BY <1>7, <1>8, Zenon
  <2> QED
      BY <1>6, <1>7, <2>1, Zenon
<1>9. CASE v = [type |-> "bool", bool |-> TRUE] /\ e = <<245>>
  <2>1. e = <<224 + 21>> /\ v = constant(21)
      BY <1>7, <1>9, Zenon
  <2> QED
      BY <1>6, <1>7, <2>1, Zenon
<1>10. CASE v = [type |-> "null"] /\ e = <<246>>
  <2>1. e = <<224 + 22>> /\ v = constant(22)
      BY <1>7, <1>10, Zenon
  <2> QED
      BY <1>6, <1>7, <2>1, Zenon
<1>11. LeafByARule(v, e)
    BY DEF e
<1> QED
    BY <1>4, <1>5, <1>8, <1>9, <1>10, <1>11, Zenon DEF LeafByARule

-----------------------------------------------------------------------------
(* Containers.                                                             *)

\* The container with these items.
ValueOf(map, items) ==
    IF map THEN [type |-> "map", entries |-> EntriesOf(Len(items) \div 2, items)]
           ELSE [type |-> "array", items |-> items]

\* The items lie in `into', from `at' to `end', as they do in b.
AtNewPlace(k, items, b, cut, into, at, end, new) ==
    /\ ItemsEncoded(k, items, into, new)
    /\ new[0] = at /\ new[Len(items)] = end
    /\ \A i, j \in 0 .. Len(items) : i <= j =>
          Between(into, new[i], new[j]) = Between(b, cut[i], cut[j])

\* What lies end to end in b lies end to end where the same bytes are found.
LEMMA Moved ==
    ASSUME NEW k, NEW items, NEW b \in Seq(Byte), NEW cut, NEW into \in Seq(Byte),
           NEW at \in Nat, NEW end \in Nat,
           ItemsEncoded(k, items, b, cut), at <= end, end <= Len(into),
           Between(into, at, end) = Between(b, cut[0], cut[Len(items)])
    PROVE  \E new : AtNewPlace(k, items, b, cut, into, at, end, new)
<1> DEFINE n == Len(items)
           z == cut[0]
           w == Between(b, z, cut[n])
           new == [i \in 0 .. n |-> at + (cut[i] - z)]
<1>1. /\ items = [i \in 1 .. n |-> items[i]] /\ n \in Nat
      /\ cut \in [0 .. n -> 0 .. Len(b)]
      /\ \A i \in 1 .. n : /\ cut[i - 1] < cut[i]
                           /\ Canonical(items[i], Between(b, cut[i - 1], cut[i]), k)
    BY Zenon DEF ItemsEncoded
<1> HIDE DEF n
<1>2. Len(b) \in Nat /\ Len(into) \in Nat
    OBVIOUS
<1>3. cut \in [0 .. n -> Nat]
    BY <1>1, <1>2
<1>4. \A i, j \in 0 .. n : i <= j => cut[i] <= cut[j]
  <2>1. \A i \in 1 .. n : cut[i - 1] < cut[i]
      BY <1>1
  <2> QED
      BY <1>1, <1>3, <2>1, Ascending
<1>5. 0 \in 0 .. n /\ n \in 0 .. n /\ \A i \in 0 .. n : 0 <= i /\ i <= n
    BY <1>1
<1>6. /\ z \in Nat /\ cut[n] \in Nat /\ z <= cut[n] /\ cut[n] <= Len(b)
      /\ \A i \in 0 .. n : cut[i] \in Nat /\ z <= cut[i] /\ cut[i] <= cut[n]
    BY <1>1, <1>2, <1>3, <1>4, <1>5
<1>7. /\ Len(w) = cut[n] - z
      /\ Len(Between(into, at, end)) = end - at
  <2> HIDE DEF z
  <2>1. Len(Between(b, z, cut[n])) = cut[n] - z
      BY <1>6, Slice
  <2>2. Len(Between(into, at, end)) = end - at
      BY Slice
  <2> QED
      BY <2>1, <2>2
<1>w. Between(into, at, end) = w
    BY DEF n
<1> HIDE DEF w
<1>8. end - at = cut[n] - z
    BY <1>7, <1>w
<1> HIDE DEF z
<1>9. \A i \in 0 .. n : new[i] = at + (cut[i] - z)
    OBVIOUS
<1>10. new \in [0 .. n -> 0 .. Len(into)]
  <2>1. ASSUME NEW i \in 0 .. n PROVE at + (cut[i] - z) \in 0 .. Len(into)
      BY <1>2, <1>6, <1>8, SMTT(30)
  <2> QED
      BY <2>1
<1> HIDE DEF new
<1>11. new[0] = at /\ new[n] = end
  <2>1. z = cut[0]
      BY DEF z
  <2>2. new[0] = at + (z - z) /\ new[n] = at + (cut[n] - z)
      BY <1>5, <1>9, <2>1, Zenon
  <2>3. z \in Nat /\ cut[n] \in Nat /\ end - at = cut[n] - z
      BY <1>6, <1>8
  <2> QED
      BY <2>2, <2>3
<1>12. ASSUME NEW i \in 0 .. n, NEW j \in 0 .. n, i <= j
       PROVE  Between(into, new[i], new[j]) = Between(b, cut[i], cut[j])
  <2> DEFINE x == cut[i] - z
             y == cut[j] - z
             len == cut[n] - z
  <2>1. /\ x \in Nat /\ y \in Nat /\ x <= y /\ y <= len
        /\ len = end - at
        /\ z + x = cut[i] /\ z + y = cut[j]
    <3>1. /\ cut[i] \in Nat /\ cut[j] \in Nat /\ z \in Nat /\ cut[n] \in Nat
          /\ z <= cut[i] /\ cut[i] <= cut[j] /\ cut[j] <= cut[n]
        BY <1>4, <1>6, <1>12, Zenon
    <3>2. end - at = cut[n] - z
        BY <1>8
    <3> DEFINE p == cut[i]
               q == cut[j]
               l == cut[n]
    <3>3. /\ p \in Nat /\ q \in Nat /\ z \in Nat /\ l \in Nat
          /\ z <= p /\ p <= q /\ q <= l /\ end - at = l - z
        BY <3>1, <3>2
    <3> HIDE DEF p, q, l
    <3>4. /\ p - z \in Nat /\ q - z \in Nat /\ p - z <= q - z /\ q - z <= l - z
          /\ l - z = end - at
          /\ z + (p - z) = p /\ z + (q - z) = q
        BY <3>3
    <3> QED
        BY <3>4 DEF p, q, l
  <2>2. new[i] = at + x /\ new[j] = at + y
      BY <1>9
  <2> HIDE DEF x, y
  <2>3. Between(Between(into, at, end), x, y) = Between(into, at + x, at + y)
    <3>1. y <= end - at
        BY <2>1
    <3> HIDE DEF len
    <3> QED
        BY <2>1, <3>1, SliceOfSlice
  <2>4. Between(Between(b, z, cut[n]), x, y) = Between(b, z + x, z + y)
    <3>1. /\ z \in Nat /\ cut[n] \in Nat /\ z <= cut[n] /\ cut[n] <= Len(b)
          /\ x \in Nat /\ y \in Nat /\ x <= y /\ y <= cut[n] - z
        BY <1>6, <2>1
    <3> DEFINE top == cut[n]
    <3>2. /\ z \in Nat /\ top \in Nat /\ z <= top /\ top <= Len(b)
          /\ x \in Nat /\ y \in Nat /\ x <= y /\ y <= top - z
        BY <3>1
    <3> HIDE DEF len, top
    <3>3. Between(Between(b, z, top), x, y) = Between(b, z + x, z + y)
        BY <3>2, SliceOfSlice
    <3> QED
        BY <3>3 DEF top
  <2> QED
      BY <1>w, <2>1, <2>2, <2>3, <2>4, Zenon DEF w
<1>13. ItemsEncoded(k, items, into, new)
  <2>1. ASSUME NEW i \in 1 .. n
        PROVE  /\ new[i - 1] < new[i]
               /\ Canonical(items[i], Between(into, new[i - 1], new[i]), k)
    <3>1. i - 1 \in 0 .. n /\ i \in 0 .. n /\ i - 1 <= i
        BY <1>1
    <3>2. new[i - 1] < new[i]
        BY <1>1, <1>6, <1>9, <3>1
    <3>3. Between(into, new[i - 1], new[i]) = Between(b, cut[i - 1], cut[i])
        BY <1>12, <3>1, Zenon
    <3> QED
        BY <1>1, <3>2, <3>3
  <2> QED
      BY <1>1, <1>10, <2>1, Zenon DEF ItemsEncoded, n
<1> QED
    BY <1>11, <1>12, <1>13, Zenon DEF n, AtNewPlace

\* The encoding of a container is decoded as far as its items, which lie end to
\* end to its last byte (decode.go 302-340).
LEMMA ContainersDecode ==
    ASSUME NEW end \in Nat, NEW v, NEW k \in Nat,
           Shape, elems < MaxElements, depth = MaxDepth - k,
           pos <= end, end <= Len(buf),
           ContainerByARule(v, Between(buf, pos, end), k)
    PROVE  /\ HeadError = None /\ Major \in {4, 5} /\ k > 0
           /\ \E items, cut :
                 /\ ItemsEncoded(k - 1, items, buf, cut)
                 /\ cut[0] = pos + HeadLength /\ cut[Len(items)] = end
                 /\ Len(items) = (IF Major = 5 THEN 2 ELSE 1) * Count(Argument)
                 /\ v = ValueOf(Major = 5, items)
                 /\ Major = 5 => /\ Len(items) = 2 * (Len(items) \div 2)
                                 /\ Len(items) \div 2 \in Nat
                                 /\ KeysAscend(KeysIn(Len(items) \div 2, buf, cut))
<1> DEFINE e == Between(buf, pos, end)
<1>0. /\ buf \in Seq(Byte) /\ pos \in Nat /\ Len(buf) \in Nat /\ elems \in Nat
      /\ MaxDepth \in Nat /\ depth \in Nat
    BY LimitAssumption DEF Shape
<1>1. PICK d \in Lengths, b \in Seq(Byte) : \E items, cut :
       /\ k > 0 /\ ItemsEncoded(k - 1, items, b, cut)
       /\ \/ /\ Len(items) = Count(d)
             /\ v = [type |-> "array", items |-> items]
             /\ e = Header(4, d) \o Between(b, cut[0], cut[Len(items)])
          \/ /\ Len(items) = 2 * Count(d)
             /\ KeysAscend(KeysIn(Count(d), b, cut))
             /\ v = [type |-> "map", entries |-> EntriesOf(Count(d), items)]
             /\ e = Header(5, d) \o Between(b, cut[0], cut[Len(items)])
    BY Zenon DEF ContainerByARule
<1>2. PICK items, cut :
       /\ k > 0 /\ ItemsEncoded(k - 1, items, b, cut)
       /\ \/ /\ Len(items) = Count(d)
             /\ v = [type |-> "array", items |-> items]
             /\ e = Header(4, d) \o Between(b, cut[0], cut[Len(items)])
          \/ /\ Len(items) = 2 * Count(d)
             /\ KeysAscend(KeysIn(Count(d), b, cut))
             /\ v = [type |-> "map", entries |-> EntriesOf(Count(d), items)]
             /\ e = Header(5, d) \o Between(b, cut[0], cut[Len(items)])
    BY <1>1
<1> DEFINE n == Len(items)
           t == Between(b, cut[0], cut[n])
<1>3. n \in Nat /\ t \in Seq(Nat) /\ Count(d) \in Nat /\ d \in Numerals
  <2>1. n \in Nat /\ cut \in [0 .. n -> 0 .. Len(b)] /\ \A i \in 1 .. n : cut[i - 1] < cut[i]
      BY <1>2, Zenon DEF ItemsEncoded
  <2>2. Count(d) \in Nat /\ d \in Numerals
      BY CountIsNat DEF Lengths, Numerals
  <2> HIDE DEF n
  <2>3. /\ 0 \in 0 .. n /\ n \in 0 .. n /\ 0 <= n
        /\ cut \in [0 .. n -> Nat] /\ Len(b) \in Nat
        /\ cut[0] \in Nat /\ cut[n] \in Nat /\ cut[n] <= Len(b)
    <3>1. Len(b) \in Nat
        OBVIOUS
    <3>2. 0 \in 0 .. n /\ n \in 0 .. n /\ 0 <= n
        BY <2>1
    <3>3. \A i \in 0 .. n : cut[i] \in 0 .. Len(b)
        BY <2>1
    <3> QED
        BY <2>1, <3>1, <3>2, <3>3
  <2>4. cut[0] <= cut[n]
    <3>1. \A i, j \in 0 .. n : i <= j => cut[i] <= cut[j]
        BY <2>1, <2>3, Ascending
    <3> QED
        BY <2>3, <3>1, Zenon
  <2>5. t \in Seq(Byte)
      BY <2>3, <2>4, Slice, Zenon
  <2> HIDE DEF t
  <2> QED
      BY <2>1, <2>2, <2>5, BytesAreNumbers
<1> HIDE DEF t, e
<1>t. t = Between(b, cut[0], cut[Len(items)])
    BY DEF t, n
<1>4. ASSUME NEW m \in {4, 5}, e = Header(m, d) \o t
      PROVE  /\ HeadError = None /\ Major = m /\ Argument = d
             /\ \E new : AtNewPlace(k - 1, items, b, cut, buf, pos + HeadLength,
                                    end, new)
  <2>1. m \in 0 .. 5 /\ Between(buf, pos, end) = Header(m, d) \o t
      BY <1>4 DEF e
  <2>2. /\ Major = m /\ Argument = d /\ HeadError = ItemError
        /\ HeadLength \in Nat \ {0}
        /\ Len(t) \in Nat /\ end = pos + HeadLength + Len(t)
        /\ Between(buf, pos + HeadLength, end) = t
      BY <1>3, <2>1, HeadOfEncoding
  <2>3. HeadError = None
    <3>1. Major \in 0 .. 5 /\ Major \in {4, 5}
        BY <1>4, <2>2
    <3>2. ~(depth >= MaxDepth)
        BY <1>0, <1>2
    <3> QED
        BY <2>2, <3>1, <3>2, ItemErrors, Zenon
  <2> DEFINE at == pos + HeadLength
  <2>4. at \in Nat /\ at <= end /\ end <= Len(buf)
      BY <1>0, <2>2
  <2>5. Between(buf, at, end) = Between(b, cut[0], cut[Len(items)])
      BY <1>t, <2>2
  <2> HIDE DEF at
  <2> DEFINE l == k - 1
  <2>6. ItemsEncoded(l, items, b, cut) /\ buf \in Seq(Byte)
      BY <1>0, <1>2
  <2> HIDE DEF l
  <2>7. \E new : AtNewPlace(l, items, b, cut, buf, at, end, new)
      BY <2>4, <2>5, <2>6, Moved
  <2> QED
      BY <2>2, <2>3, <2>7 DEF at, l
<1>5. CASE /\ n = Count(d)
           /\ v = [type |-> "array", items |-> items]
           /\ e = Header(4, d) \o t
  <2>1. 4 \in {4, 5} /\ ~(4 = 5) /\ n = 1 * Count(d)
      BY <1>3, <1>5
  <2>2. /\ HeadError = None /\ Major = 4 /\ Argument = d
        /\ \E new :
              /\ ItemsEncoded(k - 1, items, buf, new)
              /\ new[0] = pos + HeadLength /\ new[Len(items)] = end
      BY <1>4, <1>5, <2>1, Zenon DEF AtNewPlace
  <2>3. v = ValueOf(Major = 5, items)
      BY <1>5, <2>1, <2>2 DEF ValueOf
  <2>4. Len(items) = (IF Major = 5 THEN 2 ELSE 1) * Count(Argument)
    <3>1. (IF Major = 5 THEN 2 ELSE 1) = 1
        BY <2>2
    <3> QED
        BY <2>1, <2>2, <3>1, Zenon DEF n
  <2>5. Major # 5 /\ Major \in {4, 5}
      BY <2>2
  <2> QED
      BY <1>2, <2>2, <2>3, <2>4, <2>5, Zenon
<1>6. CASE /\ n = 2 * Count(d)
           /\ KeysAscend(KeysIn(Count(d), b, cut))
           /\ v = [type |-> "map", entries |-> EntriesOf(Count(d), items)]
           /\ e = Header(5, d) \o t
  <2>1. 5 \in {4, 5}
      OBVIOUS
  <2>2. /\ HeadError = None /\ Major = 5 /\ Argument = d
        /\ \E new :
              /\ ItemsEncoded(k - 1, items, buf, new)
              /\ new[0] = pos + HeadLength /\ new[Len(items)] = end
              /\ \A i, j \in 0 .. Len(items) : i <= j =>
                    Between(buf, new[i], new[j]) = Between(b, cut[i], cut[j])
      BY <1>4, <1>6, <2>1, Zenon DEF AtNewPlace
  <2>3. PICK new :
           /\ ItemsEncoded(k - 1, items, buf, new)
           /\ new[0] = pos + HeadLength /\ new[Len(items)] = end
           /\ \A i, j \in 0 .. Len(items) : i <= j =>
                 Between(buf, new[i], new[j]) = Between(b, cut[i], cut[j])
      BY <2>2, Zenon
  <2> DEFINE c == Count(d)
  <2>4. Len(items) \div 2 = c
    <3> HIDE DEF c
    <3>1. Len(items) = 2 * c /\ c \in Nat
        BY <1>3, <1>6 DEF n, c
    <3> QED
        BY <3>1
  <2>5. v = ValueOf(Major = 5, items)
      BY <1>6, <2>2, <2>4, Zenon DEF ValueOf
  <2>6. KeysIn(c, buf, new) = KeysIn(c, b, cut)
    <3>1. \A i \in 1 .. c : Between(buf, new[2 * i - 2], new[2 * i - 1])
                                = Between(b, cut[2 * i - 2], cut[2 * i - 1])
      <4> HIDE DEF c
      <4>1. Len(items) = 2 * c /\ c \in Nat
          BY <1>3, <1>6 DEF n, c
      <4> TAKE i \in 1 .. c
      <4>2. /\ 2 * i - 2 \in 0 .. Len(items) /\ 2 * i - 1 \in 0 .. Len(items)
            /\ 2 * i - 2 <= 2 * i - 1
          BY <4>1
      <4> QED
          BY <2>3, <4>2, Zenon
    <3> HIDE DEF c
    <3> QED
        BY <3>1 DEF KeysIn
  <2>7. (IF Major = 5 THEN 2 ELSE 1) = 2 /\ Major \in {4, 5}
      BY <2>2
  <2>8. Len(items) = 2 * c /\ c \in Nat
      BY <1>3, <1>6 DEF n
  <2>9. KeysAscend(KeysIn(c, buf, new))
      BY <1>6, <2>6
  <2> HIDE DEF c
  <2>10. Len(items) = (IF Major = 5 THEN 2 ELSE 1) * Count(Argument)
      BY <2>2, <2>7, <2>8, Zenon DEF c
  <2>11. /\ Len(items) = 2 * (Len(items) \div 2)
         /\ Len(items) \div 2 \in Nat
         /\ KeysAscend(KeysIn(Len(items) \div 2, buf, new))
      BY <2>4, <2>8, <2>9, Zenon
  <2> QED
      BY <1>2, <2>2, <2>3, <2>5, <2>7, <2>10, <2>11, Zenon
<1> QED
    BY <1>2, <1>5, <1>6, <1>t, Zenon DEF n

-----------------------------------------------------------------------------
(* Plans.                                                                  *)

\* How many items the i-th call has taken.  Decode, before the first, takes
\* what is returned to it, and nothing before.
Taken(cs, i) == IF i = 0 THEN 0 ELSE Len(cs[i].items)

\* A plan for a container: its items, where in b each ends, and how many
\* elements are counted by then.
Planned(p, k, b, n) ==
    /\ ItemsEncoded(k, p.items, b, p.cut)
    /\ ItemsCounted(k, p.items, p.cnt)
    /\ p.cnt[Len(p.items)] <= n

\* The call c has come some way along the plan p.
Follows(c, p, b) ==
    /\ c = [f \in CallFields |-> c[f]]
    /\ c.map \in BOOLEAN
    /\ c.want = Len(p.items) /\ Len(c.items) \in 0 .. Len(p.items)
    /\ c.items = [i \in 1 .. Len(c.items) |-> p.items[i]]
    /\ c.from = p.cut[Len(c.items)]
    /\ ~c.map => c.spans = <<>>
    /\ c.map =>
          /\ Len(p.items) \div 2 \in Nat
          /\ Len(p.items) = 2 * (Len(p.items) \div 2)
          /\ KeysAscend(KeysIn(Len(p.items) \div 2, b, p.cut))
          /\ c.spans = KeysIn((Len(c.items) + 1) \div 2, b, p.cut)

\* The plan q is that of the next item of p, after j of them.
Serves(p, j, q, map) ==
    /\ j \in Nat /\ j < Len(p.items)
    /\ p.items[j + 1] = ValueOf(map, q.items)
    /\ p.cut[j + 1] = q.cut[Len(q.items)]
    /\ p.cnt[j + 1] = q.cnt[Len(q.items)]

\* Decode and each call have a plan, and each call's is that of the item that
\* the call around it has next.
OnPlan(P, cs, b, n) ==
    /\ \A i \in 0 .. Len(cs) : Planned(P[i], MaxDepth - i, b, n)
    /\ \A i \in 1 .. Len(cs) :
          /\ Follows(cs[i], P[i], b)
          /\ Serves(P[i - 1], Taken(cs, i - 1), P[i], cs[i].map)

\* Decode's own plan: one value, which ends at m.
Root(p, v, m, n) ==
    /\ p.items = <<v>> /\ p.cut[0] = 0 /\ p.cut[1] = m
    /\ p.cnt[0] = 0 /\ p.cnt[1] = n

\* Of p's items j are taken, and r may be the next.
Here(p, j, r, at, count) ==
    /\ j \in 0 .. Len(p.items)
    /\ r = None => at = p.cut[j] /\ count = p.cnt[j]
    /\ r # None => /\ j < Len(p.items) /\ r = p.items[j + 1]
                   /\ at = p.cut[j + 1] /\ count = p.cnt[j + 1]

\* What a plan says of its next item.
LEMMA NextOnPlan ==
    ASSUME NEW p, NEW k, NEW b \in Seq(Byte), NEW n, NEW j \in Nat,
           Planned(p, k, b, n), n \in Nat, j < Len(p.items)
    PROVE  /\ p.cut[j] \in Nat /\ p.cut[j + 1] \in Nat /\ p.cut[j] < p.cut[j + 1]
           /\ p.cut[j + 1] <= Len(b)
           /\ Canonical(p.items[j + 1], Between(b, p.cut[j], p.cut[j + 1]), k)
           /\ p.cnt[j] \in Nat /\ p.cnt[j + 1] \in Nat /\ p.cnt[j] < p.cnt[j + 1]
           /\ p.cnt[j + 1] <= n
           /\ HasElements(p.items[j + 1], k, p.cnt[j + 1] - p.cnt[j])
<1> DEFINE l == Len(p.items)
           cut == p.cut
           cnt == p.cnt
           i == j + 1
<1>1. /\ l \in Nat /\ cut \in [0 .. l -> 0 .. Len(b)]
      /\ \A x \in 1 .. l : /\ cut[x - 1] < cut[x]
                           /\ Canonical(p.items[x], Between(b, cut[x - 1], cut[x]), k)
    BY Zenon DEF Planned, ItemsEncoded
<1>2. /\ cnt \in [0 .. l -> Nat] /\ cnt[l] <= n
      /\ \A x \in 1 .. l : /\ cnt[x - 1] < cnt[x]
                           /\ HasElements(p.items[x], k, cnt[x] - cnt[x - 1])
    BY Zenon DEF Planned, ItemsCounted
<1> HIDE DEF l, cut, cnt
<1>3. /\ i \in 1 .. l /\ i - 1 = j /\ i \in 0 .. l /\ j \in 0 .. l /\ l \in 0 .. l
      /\ i <= l
  <2>1. j < l
      BY DEF l
  <2> QED
      BY <1>1, <2>1
<1> HIDE DEF i
<1>4. /\ cut[j] < cut[i] /\ cnt[j] < cnt[i]
      /\ Canonical(p.items[i], Between(b, cut[j], cut[i]), k)
      /\ HasElements(p.items[i], k, cnt[i] - cnt[j])
    BY <1>1, <1>2, <1>3
<1>5. cut[j] \in Nat /\ cut[i] \in Nat /\ cut[i] <= Len(b)
  <2>1. cut[j] \in 0 .. Len(b) /\ cut[i] \in 0 .. Len(b) /\ Len(b) \in Nat
      BY <1>1, <1>3
  <2> QED
      BY <2>1
<1>6. cnt[j] \in Nat /\ cnt[i] \in Nat /\ cnt[l] \in Nat
    BY <1>2, <1>3
<1>7. cnt[i] <= cnt[l]
  <2>1. \A x \in 1 .. l : cnt[x - 1] < cnt[x]
      BY <1>2
  <2>2. \A x, y \in 0 .. l : x <= y => cnt[x] <= cnt[y]
      BY <1>1, <1>2, <2>1, Ascending
  <2> QED
      BY <1>3, <2>2, Zenon
<1>8. cnt[i] <= n
    BY <1>2, <1>6, <1>7
<1> QED
    BY <1>4, <1>5, <1>6, <1>8 DEF cut, cnt, i

\* What the calls are when one more begins.
LEMMA OneMoreCall ==
    ASSUME NEW S, NEW cs \in Seq(S), NEW c
    PROVE  /\ Len(Append(cs, c)) = Len(cs) + 1 /\ Len(cs) \in Nat
           /\ Append(cs, c)[Len(cs) + 1] = c
           /\ \A i \in 1 .. Len(cs) : Append(cs, c)[i] = cs[i]
<1>1. cs \in Seq(S \union {c}) /\ c \in S \union {c}
    OBVIOUS
<1> DEFINE T == S \union {c}
<1> HIDE DEF T
<1>2. cs \in Seq(T) /\ c \in T
    BY <1>1 DEF T
<1>3. Len(Append(cs, c)) = Len(cs) + 1 /\ Len(cs) \in Nat
    BY <1>2
<1>4. Append(cs, c)[Len(cs) + 1] = c
    BY <1>2
<1>5. \A i \in 1 .. Len(cs) : Append(cs, c)[i] = cs[i]
    BY <1>2
<1> QED
    BY <1>3, <1>4, <1>5

\* A call begins: its plan joins the others.
LEMMA PlanGrows ==
    ASSUME NEW S, NEW cs \in Seq(S), NEW b, NEW n, NEW P, NEW c, NEW q,
           OnPlan(P, cs, b, n), Planned(q, MaxDepth - (Len(cs) + 1), b, n),
           Follows(c, q, b), Serves(P[Len(cs)], Taken(cs, Len(cs)), q, c.map)
    PROVE  \E Q : /\ OnPlan(Q, Append(cs, c), b, n)
                  /\ Q[Len(cs) + 1] = q /\ Q[0] = P[0]
<1> DEFINE l == Len(cs)
           new == Append(cs, c)
           Q == [i \in 0 .. l + 1 |-> IF i = l + 1 THEN q ELSE P[i]]
<1>1. /\ l \in Nat /\ Len(new) = l + 1 /\ new[l + 1] = c
      /\ \A i \in 1 .. l : new[i] = cs[i]
    BY OneMoreCall
<1>2. Q[l + 1] = q /\ \A i \in 0 .. l : Q[i] = P[i]
    BY <1>1
<1> HIDE DEF Q, new
<1>3. \A i \in 0 .. l : Taken(new, i) = Taken(cs, i)
  <2>1. \A i \in 0 .. l : i # 0 => i \in 1 .. l
      BY <1>1
  <2> QED
      BY <1>1, <2>1, Zenon DEF Taken
<1>4. /\ \A i \in 0 .. l : Planned(P[i], MaxDepth - i, b, n)
      /\ \A i \in 1 .. l : /\ Follows(cs[i], P[i], b)
                           /\ Serves(P[i - 1], Taken(cs, i - 1), P[i], cs[i].map)
    BY Zenon DEF OnPlan
<1> HIDE DEF l
<1>5. ASSUME NEW i \in 0 .. l + 1 PROVE Planned(Q[i], MaxDepth - i, b, n)
  <2>1. CASE i = l + 1
      BY <1>2, <2>1 DEF l
  <2>2. CASE i \in 0 .. l
      BY <1>2, <1>4, <2>2, Zenon
  <2> QED
      BY <1>1, <2>1, <2>2
<1>6. ASSUME NEW i \in 1 .. l + 1
      PROVE  /\ Follows(new[i], Q[i], b)
             /\ Serves(Q[i - 1], Taken(new, i - 1), Q[i], new[i].map)
  <2>1. CASE i = l + 1
    <3>1. i - 1 = l /\ l \in 0 .. l
        BY <1>1, <2>1
    <3>2. Q[l] = P[l] /\ Taken(new, l) = Taken(cs, l)
        BY <1>2, <1>3, <3>1, Zenon
    <3> QED
        BY <1>1, <1>2, <2>1, <3>1, <3>2 DEF l
  <2>2. CASE i \in 1 .. l
    <3>1. i - 1 \in 0 .. l /\ i \in 0 .. l
        BY <1>1, <2>2
    <3>2. /\ Q[i - 1] = P[i - 1] /\ Taken(new, i - 1) = Taken(cs, i - 1)
          /\ Q[i] = P[i] /\ new[i] = cs[i]
        BY <1>1, <1>2, <1>3, <2>2, <3>1, Zenon
    <3>3. /\ Follows(cs[i], P[i], b)
          /\ Serves(P[i - 1], Taken(cs, i - 1), P[i], cs[i].map)
        BY <1>4, <2>2, Zenon
    <3> QED
        BY <3>2, <3>3
  <2> QED
      BY <1>1, <2>1, <2>2
<1>7. OnPlan(Q, new, b, n)
    BY <1>1, <1>5, <1>6, Zenon DEF OnPlan
<1>8. 0 \in 0 .. l
    BY <1>1
<1> QED
    BY <1>2, <1>7, <1>8, Zenon DEF l, new

\* Without its last call, the others are on their plans.
LEMMA PlanShrinks ==
    ASSUME NEW S, NEW cs \in Seq(S), NEW b, NEW n, NEW P,
           OnPlan(P, cs, b, n), cs # <<>>
    PROVE  LET rest == SubSeq(cs, 1, Len(cs) - 1) IN
           /\ OnPlan(P, rest, b, n)
           /\ Len(cs) \in Nat \ {0} /\ Len(rest) = Len(cs) - 1 /\ rest \in Seq(S)
           /\ Taken(rest, Len(cs) - 1) = Taken(cs, Len(cs) - 1)
           /\ Planned(P[Len(cs)], MaxDepth - Len(cs), b, n)
           /\ Follows(cs[Len(cs)], P[Len(cs)], b)
           /\ Serves(P[Len(cs) - 1], Taken(cs, Len(cs) - 1), P[Len(cs)],
                     cs[Len(cs)].map)
<1> DEFINE l == Len(cs)
           m == l - 1
           rest == SubSeq(cs, 1, m)
<1>1. l \in Nat \ {0} /\ m \in Nat /\ m <= l
    OBVIOUS
<1>2. /\ rest \in Seq(S) /\ Len(rest) = m
      /\ \A i \in 1 .. m : rest[i] = cs[i]
  <2> HIDE DEF m
  <2> QED
      BY <1>1, Prefix
<1> HIDE DEF rest
<1>3. /\ \A i \in 0 .. l : Planned(P[i], MaxDepth - i, b, n)
      /\ \A i \in 1 .. l : /\ Follows(cs[i], P[i], b)
                           /\ Serves(P[i - 1], Taken(cs, i - 1), P[i], cs[i].map)
    BY Zenon DEF OnPlan
<1> HIDE DEF l
<1>4. \A i \in 0 .. m : Taken(rest, i) = Taken(cs, i)
  <2>1. \A i \in 0 .. m : i # 0 => i \in 1 .. m
      BY <1>1
  <2> HIDE DEF m
  <2> QED
      BY <1>2, <2>1, Zenon DEF Taken
<1>5. \A i \in 0 .. m : i \in 0 .. l
    BY <1>1
<1>6. ASSUME NEW i \in 1 .. m
      PROVE  /\ Follows(rest[i], P[i], b)
             /\ Serves(P[i - 1], Taken(rest, i - 1), P[i], rest[i].map)
  <2>1. i - 1 \in 0 .. m /\ i \in 1 .. l
      BY <1>1
  <2> HIDE DEF m
  <2>2. rest[i] = cs[i] /\ Taken(rest, i - 1) = Taken(cs, i - 1)
      BY <1>2, <1>4, <2>1, Zenon
  <2>3. /\ Follows(cs[i], P[i], b)
        /\ Serves(P[i - 1], Taken(cs, i - 1), P[i], cs[i].map)
      BY <1>3, <2>1, Zenon
  <2> QED
      BY <2>2, <2>3
<1>7. m \in 0 .. m /\ l \in 1 .. l /\ l \in 0 .. l
    BY <1>1
<1>8. OnPlan(P, rest, b, n)
  <2> HIDE DEF m
  <2> QED
      BY <1>2, <1>3, <1>5, <1>6, Zenon DEF OnPlan
<1>9. Taken(rest, m) = Taken(cs, m)
    BY <1>4, <1>7, Zenon
<1>10. /\ Planned(P[l], MaxDepth - l, b, n) /\ Follows(cs[l], P[l], b)
       /\ Serves(P[l - 1], Taken(cs, l - 1), P[l], cs[l].map)
    BY <1>3, <1>7, Zenon
<1> QED
    BY <1>1, <1>2, <1>8, <1>9, <1>10 DEF rest, m, l

-----------------------------------------------------------------------------
(* Steps.                                                                  *)

\* The decoder is on its way to v, which ends at m and has n elements.
OnTheWay(v, m, n) ==
    \E P : /\ OnPlan(P, calls, buf, n) /\ Root(P[0], v, m, n)
           /\ Here(P[Len(calls)], Taken(calls, Len(calls)), ret, pos, elems)

\* When decodeValue is called, the plan has an item left, and it is next.
LEMMA ItemIsNext ==
    ASSUME NEW P, NEW v, NEW m, NEW n \in Nat, IInv, Called,
           OnPlan(P, calls, buf, n), Root(P[0], v, m, n),
           Here(P[Len(calls)], Taken(calls, Len(calls)), ret, pos, elems)
    PROVE  LET l == Len(calls)
               p == P[l]
               j == Taken(calls, l)
           IN  /\ l \in Nat /\ MaxDepth - l \in Nat /\ depth = MaxDepth - (MaxDepth - l)
               /\ j \in Nat /\ j < Len(p.items)
               /\ pos = p.cut[j] /\ elems = p.cnt[j]
               /\ Planned(p, MaxDepth - l, buf, n)
<1> DEFINE l == Len(calls)
           p == P[l]
           j == Taken(calls, l)
<1> PICK S : calls \in Seq(S)
    BY DEF IInv, Shape
<1>1. /\ l \in Nat /\ depth = l /\ l <= MaxDepth /\ MaxDepth \in Nat
      /\ l = 0 \/ calls # <<>>
  <2>1. l \in Nat /\ (l = 0 \/ calls # <<>>)
      OBVIOUS
  <2> QED
      BY <2>1, LimitAssumption DEF IInv, WorkIsBounded
<1>2. MaxDepth - l \in Nat /\ depth = MaxDepth - (MaxDepth - l)
  <2> HIDE DEF l
  <2> QED
      BY <1>1
<1>3. /\ j \in 0 .. Len(p.items) /\ pos = p.cut[j] /\ elems = p.cnt[j]
    BY DEF Called, Here
<1>4. Planned(p, MaxDepth - l, buf, n)
  <2>1. l \in 0 .. l
      BY <1>1
  <2> QED
      BY <2>1, Zenon DEF OnPlan
<1>5. Len(p.items) \in Nat
    BY <1>4, Zenon DEF Planned, ItemsEncoded
<1>6. j < Len(p.items)
  <2>1. CASE l = 0
    <3>1. j = 0 /\ p.items = <<v>>
        BY <2>1 DEF Taken, Root
    <3> HIDE DEF j, p
    <3> QED
        BY <3>1
  <2>2. CASE l # 0
    <3>1. l \in 1 .. l /\ calls # <<>>
        BY <1>1, <2>2
    <3>2. Follows(calls[l], p, buf)
        BY <3>1, Zenon DEF OnPlan
    <3>3. Len(calls[l].items) < calls[l].want
        BY <3>1, Zenon DEF Called, Top
    <3>4. calls[l].want = Len(p.items)
        BY <3>2, Zenon DEF Follows
    <3>5. j = Len(calls[l].items)
        BY <2>2, Zenon DEF Taken
    <3> QED
        BY <3>3, <3>4, <3>5
  <2> QED
      BY <2>1, <2>2
<1>7. j \in Nat
  <2> HIDE DEF j, p
  <2> QED
      BY <1>3
<1> QED
    BY <1>1, <1>2, <1>3, <1>4, <1>6, <1>7

\* What decodeValue finds at an item of the plan.
LEMMA NextItem ==
    ASSUME NEW P, NEW v, NEW m, NEW n \in Nat, IInv, Called,
           OnPlan(P, calls, buf, n), Root(P[0], v, m, n),
           Here(P[Len(calls)], Taken(calls, Len(calls)), ret, pos, elems)
    PROVE  LET p == P[Len(calls)]
               j == Taken(calls, Len(calls))
               k == MaxDepth - Len(calls)
               x == p.items[j + 1]
               end == p.cut[j + 1]
               count == p.cnt[j + 1]
           IN  /\ k \in Nat /\ depth = MaxDepth - k
               /\ j \in Nat /\ j < Len(p.items) /\ Planned(p, k, buf, n)
               /\ end \in Nat /\ pos <= end /\ end <= Len(buf)
               /\ count \in Nat /\ elems < count /\ count <= n
               /\ LeafByARule(x, Between(buf, pos, end))
                  \/ ContainerByARule(x, Between(buf, pos, end), k)
               /\ HasElements(x, k, count - elems)
<1> DEFINE l == Len(calls)
           p == P[l]
           j == Taken(calls, l)
           k == MaxDepth - l
           x == p.items[j + 1]
           end == p.cut[j + 1]
           count == p.cnt[j + 1]
<1>1. /\ l \in Nat /\ k \in Nat /\ depth = MaxDepth - k
      /\ j \in Nat /\ j < Len(p.items)
      /\ pos = p.cut[j] /\ elems = p.cnt[j]
      /\ Planned(p, k, buf, n)
    BY ItemIsNext
<1>2. buf \in Seq(Byte)
    BY DEF IInv, Shape
<1> HIDE DEF l, p, j, k
<1>3. /\ p.cut[j] \in Nat /\ end \in Nat /\ p.cut[j] < end /\ end <= Len(buf)
      /\ Canonical(x, Between(buf, p.cut[j], end), k)
      /\ p.cnt[j] \in Nat /\ count \in Nat /\ p.cnt[j] < count /\ count <= n
      /\ HasElements(x, k, count - p.cnt[j])
    BY <1>1, <1>2, NextOnPlan, Zenon
<1> HIDE DEF x, end, count
<1>4. /\ pos < end /\ Canonical(x, Between(buf, pos, end), k)
      /\ elems < count /\ HasElements(x, k, count - elems) /\ pos \in Nat
    BY <1>1, <1>3
<1>5. pos <= end
    BY <1>3, <1>4
<1>6. LeafByARule(x, Between(buf, pos, end))
      \/ ContainerByARule(x, Between(buf, pos, end), k)
    BY <1>4, OnlyTheRules, Zenon
<1> QED
    BY <1>1, <1>3, <1>4, <1>5, <1>6 DEF l, p, j, k, x, end, count

\* decodeValue refuses an item of the plan only as one too many.
LEMMA OnlyTooManyFail ==
    ASSUME NEW v, NEW m, NEW n \in Nat, IInv, OnTheWay(v, m, n), DecodeFails
    PROVE  n > MaxElements
<1> PICK P : /\ OnPlan(P, calls, buf, n) /\ Root(P[0], v, m, n)
             /\ Here(P[Len(calls)], Taken(calls, Len(calls)), ret, pos, elems)
    BY DEF OnTheWay
<1> DEFINE p == P[Len(calls)]
           j == Taken(calls, Len(calls))
           k == MaxDepth - Len(calls)
           x == p.items[j + 1]
           end == p.cut[j + 1]
           count == p.cnt[j + 1]
<1>1. /\ k \in Nat /\ depth = MaxDepth - k
      /\ end \in Nat /\ pos <= end /\ end <= Len(buf)
      /\ count \in Nat /\ elems < count /\ count <= n
      /\ LeafByARule(x, Between(buf, pos, end))
         \/ ContainerByARule(x, Between(buf, pos, end), k)
  <2>1. Called
      BY DEF DecodeFails
  <2> QED
      BY <2>1, NextItem
<1>2. HeadError # None /\ Shape /\ elems \in Nat /\ MaxElements \in Nat
    BY LimitAssumption DEF DecodeFails, IInv, Shape
<1> HIDE DEF p, j, k, x, end, count
<1>3. ~(elems < MaxElements)
  <2> SUFFICES ASSUME elems < MaxElements PROVE HeadError = None
      BY <1>2
  <2>1. CASE LeafByARule(x, Between(buf, pos, end))
      BY <1>1, <1>2, <2>1, LeavesDecode, Zenon
  <2>2. CASE ContainerByARule(x, Between(buf, pos, end), k)
      BY <1>1, <1>2, <2>2, ContainersDecode, Zenon
  <2> QED
      BY <1>1, <2>1, <2>2
<1> QED
    BY <1>1, <1>2, <1>3

\* No name of an error is None.
LEMMA ErrorNames ==
    ASSUME None \notin Errors
    PROVE  "ErrTooManyElements" # None
BY DEF Errors

\* A value without items is the plan's next.
LEMMA ScalarsStayOnTheWay ==
    ASSUME NEW v, NEW m, NEW n \in Nat, IInv, None \notin Errors,
           NoneIsNoValue,
           OnTheWay(v, m, n), DecodeScalar
    PROVE  OnTheWay(v, m, n)'
<1> PICK P : /\ OnPlan(P, calls, buf, n) /\ Root(P[0], v, m, n)
             /\ Here(P[Len(calls)], Taken(calls, Len(calls)), ret, pos, elems)
    BY DEF OnTheWay
<1> DEFINE p == P[Len(calls)]
           j == Taken(calls, Len(calls))
           k == MaxDepth - Len(calls)
           x == p.items[j + 1]
           end == p.cut[j + 1]
           count == p.cnt[j + 1]
<1>0. /\ HeadError = None /\ Major \notin {4, 5} /\ ret' = Scalar
      /\ pos' = pos + HeadLength + StringLength /\ elems' = elems + 1
      /\ calls' = calls /\ buf' = buf
    BY DEF DecodeScalar
<1>1. /\ k \in Nat /\ depth = MaxDepth - k
      /\ j \in Nat /\ j < Len(p.items) /\ Planned(p, k, buf, n)
      /\ end \in Nat /\ pos <= end /\ end <= Len(buf)
      /\ count \in Nat /\ elems < count /\ count <= n
      /\ LeafByARule(x, Between(buf, pos, end))
         \/ ContainerByARule(x, Between(buf, pos, end), k)
      /\ HasElements(x, k, count - elems)
  <2>1. Called
      BY DEF DecodeScalar
  <2> QED
      BY <2>1, NextItem
<1> HIDE DEF p, j, k, x, end, count
<1>2. elems < MaxElements /\ Shape /\ elems \in Nat
  <2>1. ~(elems >= MaxElements)
      BY <1>0, ErrorNames, Zenon DEF HeadError
  <2>2. elems \in Nat /\ MaxElements \in Nat /\ Shape
      BY LimitAssumption DEF IInv, Shape
  <2> QED
      BY <2>1, <2>2
<1>3. LeafByARule(x, Between(buf, pos, end))
    BY <1>0, <1>1, <1>2, ContainersDecode, Zenon
<1>4. Scalar = x /\ end = pos + HeadLength + StringLength
    BY <1>1, <1>2, <1>3, LeavesDecode, Zenon
<1>5. count = elems + 1
  <2>1. count - elems = 1
      BY <1>1, <1>3, LeafByARuleIsLeaf, LeafCounts, Zenon
  <2> QED
      BY <1>1, <1>2, <2>1
<1>6. x # None
  <2>1. IsAFunction(x)
    <3>1. x \in Leaves
        BY <1>3, LeafByARuleIsLeaf
    <3> QED
        BY <3>1 DEF Leaves, IsAFunction
  <2> QED
      BY <2>1 DEF NoneIsNoValue
<1>7. Here(p, j, x, end, count)
  <2>1. j \in 0 .. Len(p.items)
    <3>1. Len(p.items) \in Nat
        BY <1>1, Zenon DEF Planned, ItemsEncoded
    <3> QED
        BY <1>1, <3>1
  <2> QED
      BY <1>1, <1>6, <2>1, Zenon DEF Here, x, end, count
<1>8. ret' = x /\ pos' = end /\ elems' = count
    BY <1>0, <1>4, <1>5
<1>9. Here(P[Len(calls)], Taken(calls, Len(calls)), ret', pos', elems')
    BY <1>7, <1>8 DEF p, j
<1> QED
    BY <1>0, <1>9 DEF OnTheWay

\* A container is the plan's next, and has a plan of its own.
LEMMA EntersStayOnTheWay ==
    ASSUME NEW v, NEW m, NEW n \in Nat, IInv, None \notin Errors,
           OnTheWay(v, m, n), EnterContainer
    PROVE  OnTheWay(v, m, n)'
<1> PICK P : /\ OnPlan(P, calls, buf, n) /\ Root(P[0], v, m, n)
             /\ Here(P[Len(calls)], Taken(calls, Len(calls)), ret, pos, elems)
    BY DEF OnTheWay
<1> DEFINE p == P[Len(calls)]
           j == Taken(calls, Len(calls))
           k == MaxDepth - Len(calls)
           x == p.items[j + 1]
           end == p.cut[j + 1]
           count == p.cnt[j + 1]
           c == [map |-> Major = 5,
                 want |-> (IF Major = 5 THEN 2 ELSE 1) * Count(Argument),
                 items |-> <<>>, spans |-> <<>>, from |-> pos + HeadLength]
<1>0. /\ HeadError = None /\ Major \in {4, 5} /\ ret = None /\ ret' = None
      /\ pos' = pos + HeadLength /\ elems' = elems + 1
      /\ calls' = Append(calls, c) /\ buf' = buf
    BY DEF EnterContainer, Called
<1>1. /\ k \in Nat /\ depth = MaxDepth - k
      /\ j \in Nat /\ j < Len(p.items) /\ Planned(p, k, buf, n)
      /\ end \in Nat /\ pos <= end /\ end <= Len(buf)
      /\ count \in Nat /\ elems < count /\ count <= n
      /\ LeafByARule(x, Between(buf, pos, end))
         \/ ContainerByARule(x, Between(buf, pos, end), k)
      /\ HasElements(x, k, count - elems)
  <2>1. Called
      BY DEF EnterContainer
  <2> QED
      BY <2>1, NextItem
<1> HIDE DEF p, j, k, x, end, count
<1>2. elems < MaxElements /\ Shape /\ elems \in Nat
  <2>1. ~(elems >= MaxElements)
      BY <1>0, ErrorNames, Zenon DEF HeadError
  <2>2. elems \in Nat /\ MaxElements \in Nat /\ Shape
      BY LimitAssumption DEF IInv, Shape
  <2> QED
      BY <2>1, <2>2
<1>3. ContainerByARule(x, Between(buf, pos, end), k)
    BY <1>0, <1>1, <1>2, LeavesDecode, Zenon
<1>4. PICK items, cut :
         /\ ItemsEncoded(k - 1, items, buf, cut)
         /\ cut[0] = pos + HeadLength /\ cut[Len(items)] = end
         /\ Len(items) = (IF Major = 5 THEN 2 ELSE 1) * Count(Argument)
         /\ x = ValueOf(Major = 5, items)
         /\ Major = 5 => /\ Len(items) = 2 * (Len(items) \div 2)
                         /\ Len(items) \div 2 \in Nat
                         /\ KeysAscend(KeysIn(Len(items) \div 2, buf, cut))
  <2>1. \E items, cut :
         /\ ItemsEncoded(k - 1, items, buf, cut)
         /\ cut[0] = pos + HeadLength /\ cut[Len(items)] = end
         /\ Len(items) = (IF Major = 5 THEN 2 ELSE 1) * Count(Argument)
         /\ x = ValueOf(Major = 5, items)
         /\ Major = 5 => /\ Len(items) = 2 * (Len(items) \div 2)
                         /\ Len(items) \div 2 \in Nat
                         /\ KeysAscend(KeysIn(Len(items) \div 2, buf, cut))
      BY <1>1, <1>2, <1>3, ContainersDecode
  <2> QED
      BY <2>1
<1>5. /\ Len(items) \in Nat /\ items = [i \in 1 .. Len(items) |-> items[i]]
    BY <1>4, Zenon DEF ItemsEncoded
<1> DEFINE d == count - elems
<1>d. HasElements(x, k, d)
    BY <1>1
<1> HIDE DEF d
<1>6. PICK cnt : ItemsCounted(k - 1, items, cnt) /\ d = 1 + cnt[Len(items)] - cnt[0]
  <2>1. CASE Major = 5
    <3> DEFINE h == Len(items) \div 2
    <3>1. x = [type |-> "map", entries |-> EntriesOf(h, items)]
        BY <1>4, <2>1 DEF ValueOf
    <3>2. h \in Nat /\ Len(items) = 2 * h
        BY <1>4, <2>1
    <3> HIDE DEF h
    <3>3. HasElements([type |-> "map", entries |-> EntriesOf(h, items)], k, d)
        BY <1>d, <3>1
    <3> QED
        BY <1>5, <3>2, <3>3, MapCounts
  <2>2. CASE Major # 5
    <3>1. x = [type |-> "array", items |-> items]
        BY <1>4, <2>2 DEF ValueOf
    <3>2. HasElements([type |-> "array", items |-> items], k, d)
        BY <1>d, <3>1
    <3> QED
        BY <3>2, ArrayCounts
  <2> QED
      BY <2>1, <2>2
<1> DEFINE new == [i \in 0 .. Len(items) |-> elems + 1 + (cnt[i] - cnt[0])]
           q == [items |-> items, cut |-> cut, cnt |-> new]
<1>7. /\ ItemsCounted(k - 1, items, new)
      /\ new[0] = elems + 1 /\ new[Len(items)] = count
      /\ 0 \in 0 .. Len(items)
  <2> DEFINE l == Len(items)
  <2>1. /\ items = [i \in 1 .. l |-> items[i]] /\ l \in Nat
        /\ cnt \in [0 .. l -> Nat]
        /\ \A i \in 1 .. l : /\ cnt[i - 1] < cnt[i]
                             /\ HasElements(items[i], k - 1, cnt[i] - cnt[i - 1])
      BY <1>6, Zenon DEF ItemsCounted
  <2>2. new = [i \in 0 .. l |-> elems + 1 + (cnt[i] - cnt[0])]
      OBVIOUS
  <2>3. count - elems = 1 + cnt[l] - cnt[0]
      BY <1>6 DEF d
  <2> HIDE DEF l, new
  <2>4. \A i \in 0 .. l : cnt[0] <= cnt[i] /\ cnt[i] \in Nat /\ cnt[0] \in Nat
    <3>1. \A i \in 1 .. l : cnt[i - 1] < cnt[i]
        BY <2>1
    <3>2. \A a, b \in 0 .. l : a <= b => cnt[a] <= cnt[b]
        BY <2>1, <3>1, Ascending
    <3>3. \A i \in 0 .. l : 0 \in 0 .. l /\ 0 <= i
        BY <2>1
    <3> QED
        BY <2>1, <3>2, <3>3
  <2>5. new \in [0 .. l -> Nat]
    <3>1. \A i \in 0 .. l : elems + 1 + (cnt[i] - cnt[0]) \in Nat
        BY <1>2, <2>4
    <3> QED
        BY <2>2, <3>1
  <2>6. ASSUME NEW i \in 1 .. l
        PROVE  new[i - 1] < new[i] /\ new[i] - new[i - 1] = cnt[i] - cnt[i - 1]
    <3>1. i \in 0 .. l /\ i - 1 \in 0 .. l
        BY <2>1
    <3>2. /\ new[i] = elems + 1 + (cnt[i] - cnt[0])
          /\ new[i - 1] = elems + 1 + (cnt[i - 1] - cnt[0])
        BY <2>2, <3>1
    <3>3. cnt[i] \in Nat /\ cnt[i - 1] \in Nat /\ cnt[0] \in Nat
        BY <2>4, <3>1
    <3> QED
        BY <1>2, <2>1, <3>2, <3>3
  <2>7. ItemsCounted(k - 1, items, new)
    <3>1. \A i \in 1 .. l : HasElements(items[i], k - 1, new[i] - new[i - 1])
        BY <2>1, <2>6, Zenon
    <3> QED
        BY <2>1, <2>5, <2>6, <3>1, Zenon DEF ItemsCounted, l
  <2>8. 0 \in 0 .. l /\ l \in 0 .. l
      BY <2>1
  <2>9. new[0] = elems + 1 + (cnt[0] - cnt[0]) /\ new[l] = elems + 1 + (cnt[l] - cnt[0])
      BY <2>2, <2>8
  <2>10. new[0] = elems + 1 /\ new[l] = count
    <3> DEFINE y == cnt[0]
               w == cnt[l]
    <3>1. /\ new[0] = elems + 1 + (y - y) /\ new[l] = elems + 1 + (w - y)
          /\ count - elems = 1 + w - y
          /\ y \in Nat /\ w \in Nat
        BY <2>3, <2>4, <2>8, <2>9
    <3> HIDE DEF y, w
    <3> QED
        BY <1>1, <1>2, <3>1
  <2> QED
      BY <2>7, <2>8, <2>10 DEF l
<1> HIDE DEF new
<1>8. q.items = items /\ q.cut = cut /\ q.cnt = new
    OBVIOUS
<1> HIDE DEF q
<1>9. Planned(q, MaxDepth - (Len(calls) + 1), buf, n)
  <2>1. MaxDepth - (Len(calls) + 1) = k - 1
    <3>1. MaxDepth \in Nat /\ Len(calls) \in Nat
      <4> PICK S : calls \in Seq(S)
          BY <1>2 DEF Shape
      <4> QED
          BY LimitAssumption
    <3> QED
        BY <3>1 DEF k
  <2> QED
      BY <1>1, <1>4, <1>7, <1>8, <2>1, Zenon DEF Planned
<1>10. Follows(c, q, buf)
  <2>1. /\ c.map = (Major = 5) /\ c.items = <<>> /\ c.spans = <<>>
        /\ c.from = pos + HeadLength
        /\ c.want = (IF Major = 5 THEN 2 ELSE 1) * Count(Argument)
        /\ c = [f \in CallFields |-> c[f]]
      BY DEF CallFields
  <2> HIDE DEF c
  <2>2. /\ Len(c.items) = 0 /\ (0 + 1) \div 2 = 0 /\ 0 \in 0 .. Len(items)
        /\ c.items = [i \in 1 .. 0 |-> items[i]]
        /\ c.map \in BOOLEAN
      BY <1>7, <2>1
  <2>3. c.spans = KeysIn(0, buf, cut)
    <3>1. 1 .. 0 = {}
        OBVIOUS
    <3>2. \A f : [i \in {} |-> f] = <<>>
        OBVIOUS
    <3>3. KeysIn(0, buf, cut) = <<>>
        BY <3>1 DEF KeysIn
    <3> QED
        BY <2>1, <3>3
  <2>4. c.want = Len(items) /\ c.from = cut[0]
      BY <1>4, <2>1
  <2>5. c.map => /\ Len(items) = 2 * (Len(items) \div 2)
                 /\ Len(items) \div 2 \in Nat
                 /\ KeysAscend(KeysIn(Len(items) \div 2, buf, cut))
      BY <1>4, <2>1, Zenon
  <2>6. c.spans = <<>>
      BY <2>1
  <2>7. /\ c = [f \in CallFields |-> c[f]] /\ c.map \in BOOLEAN
        /\ c.want = Len(q.items) /\ Len(c.items) \in 0 .. Len(q.items)
        /\ c.items = [i \in 1 .. Len(c.items) |-> q.items[i]]
        /\ c.from = q.cut[Len(c.items)]
      BY <1>8, <2>1, <2>2, <2>4, Zenon
  <2>8. c.map =>
          /\ Len(q.items) \div 2 \in Nat
          /\ Len(q.items) = 2 * (Len(q.items) \div 2)
          /\ KeysAscend(KeysIn(Len(q.items) \div 2, buf, q.cut))
          /\ c.spans = KeysIn((Len(c.items) + 1) \div 2, buf, q.cut)
      BY <1>8, <2>2, <2>3, <2>5, Zenon
  <2> QED
      BY <2>6, <2>7, <2>8, Zenon DEF Follows
<1>11. Serves(p, j, q, c.map)
  <2>1. c.map = (Major = 5)
      OBVIOUS
  <2> HIDE DEF c
  <2>2. x = ValueOf(c.map, items)
      BY <1>4, <2>1
  <2>3. p.items[j + 1] = ValueOf(c.map, q.items)
      BY <1>8, <2>2 DEF x
  <2>4. p.cut[j + 1] = q.cut[Len(q.items)] /\ p.cnt[j + 1] = q.cnt[Len(q.items)]
      BY <1>4, <1>7, <1>8 DEF end, count
  <2> QED
      BY <1>1, <2>3, <2>4, Zenon DEF Serves
<1> PICK S : calls \in Seq(S)
    BY <1>2 DEF Shape
<1>12. c.items = <<>>
    OBVIOUS
<1> HIDE DEF c
<1>13. PICK Q : /\ OnPlan(Q, Append(calls, c), buf, n)
                /\ Q[Len(calls) + 1] = q /\ Q[0] = P[0]
  <2> DEFINE l == Len(calls)
  <2>1. /\ OnPlan(P, calls, buf, n) /\ Planned(q, MaxDepth - (l + 1), buf, n)
        /\ Follows(c, q, buf) /\ Serves(P[l], Taken(calls, l), q, c.map)
      BY <1>9, <1>10, <1>11 DEF p, j
  <2>2. \E Q : /\ OnPlan(Q, Append(calls, c), buf, n)
               /\ Q[l + 1] = q /\ Q[0] = P[0]
      BY <2>1, PlanGrows
  <2> QED
      BY <2>2
<1>14. /\ Len(calls') = Len(calls) + 1 /\ Len(calls) + 1 # 0
       /\ Taken(calls', Len(calls')) = 0
  <2>1. /\ Len(calls) \in Nat /\ Len(calls') = Len(calls) + 1
        /\ calls'[Len(calls) + 1] = c
      BY <1>0, OneMoreCall
  <2>2. Len(calls) + 1 # 0
      BY <2>1
  <2>3. Len(<<>>) = 0
      OBVIOUS
  <2>4. Taken(calls', Len(calls')) = 0
      BY <1>12, <2>1, <2>2, <2>3, Zenon DEF Taken
  <2> QED
      BY <2>1, <2>2, <2>4
<1>15. Here(q, 0, ret', pos', elems')
    BY <1>0, <1>4, <1>7, <1>8, Zenon DEF Here
<1> QED
    BY <1>0, <1>13, <1>14, <1>15 DEF OnTheWay

\* The first items and one more.
LEMMA ItemsGrow ==
    ASSUME NEW j \in Nat, NEW s, NEW t, j < Len(s), Len(s) \in Nat,
           t = [i \in 1 .. j |-> s[i]]
    PROVE  Append(t, s[j + 1]) = [i \in 1 .. j + 1 |-> s[i]]
<1> DEFINE f == [i \in 1 .. j |-> s[i]]
           g == [i \in 1 .. j + 1 |-> s[i]]
           T == {s[i] : i \in 1 .. j + 1}
           x == s[j + 1]
<1>1. \A i \in 1 .. j + 1 : s[i] \in T
    OBVIOUS
<1> HIDE DEF T
<1>2. f \in Seq(T) /\ g \in Seq(T) /\ x \in T /\ Len(f) = j /\ Len(g) = j + 1
  <2>1. \A i \in 1 .. j : i \in 1 .. j + 1
      OBVIOUS
  <2>2. j + 1 \in 1 .. j + 1
      OBVIOUS
  <2> QED
      BY <1>1, <2>1, <2>2
<1>3. (\A i \in 1 .. j : f[i] = s[i]) /\ (\A i \in 1 .. j + 1 : g[i] = s[i])
    OBVIOUS
<1> HIDE DEF f, g
<1>4. /\ Append(f, x) \in Seq(T) /\ Len(Append(f, x)) = j + 1
      /\ \A i \in 1 .. j : Append(f, x)[i] = f[i]
      /\ Append(f, x)[j + 1] = x
    BY <1>2
<1>5. \A i \in 1 .. j + 1 : Append(f, x)[i] = g[i]
  <2> TAKE i \in 1 .. j + 1
  <2>1. i \in 1 .. j \/ i = j + 1
      OBVIOUS
  <2>2. g[i] = s[i]
      BY <1>3
  <2> QED
      BY <1>3, <1>4, <2>1, <2>2
<1> HIDE DEF x
<1>6. Append(f, x) = g
    BY <1>2, <1>4, <1>5, SameElements
<1> QED
    BY <1>6 DEF f, g, x

\* The keys so far, and one more after every other item.
LEMMA KeysGrow ==
    ASSUME NEW j \in Nat, NEW b, NEW cut
    PROVE  KeysIn((j + 2) \div 2, b, cut) =
               IF j % 2 = 0
               THEN Append(KeysIn((j + 1) \div 2, b, cut),
                           Between(b, cut[j], cut[j + 1]))
               ELSE KeysIn((j + 1) \div 2, b, cut)
<1> DEFINE s == [i \in Nat |-> Between(b, cut[2 * i - 2], cut[2 * i - 1])]
<1>1. \A h \in Nat : KeysIn(h, b, cut) = [i \in 1 .. h |-> s[i]]
    BY DEF KeysIn
<1>2. CASE j % 2 = 0
  <2>1. PICK h \in Nat : /\ h = (j + 1) \div 2 /\ h + 1 = (j + 2) \div 2 /\ j = 2 * h
    <3>1. ASSUME NEW h, h = (j + 1) \div 2
          PROVE  h \in Nat /\ h + 1 = (j + 2) \div 2 /\ j = 2 * h
        BY <1>2, <3>1
    <3> QED
        BY <3>1
  <2> DEFINE t == [i \in 1 .. h + 1 |-> s[i]]
  <2>2. Append([i \in 1 .. h |-> t[i]], t[h + 1]) = [i \in 1 .. h + 1 |-> t[i]]
    <3>1. Len(t) = h + 1
        OBVIOUS
    <3>2. h < Len(t) /\ Len(t) \in Nat
        BY <3>1
    <3> HIDE DEF t
    <3> QED
        BY <3>2, ItemsGrow
  <2>3. /\ [i \in 1 .. h |-> t[i]] = [i \in 1 .. h |-> s[i]]
        /\ [i \in 1 .. h + 1 |-> t[i]] = [i \in 1 .. h + 1 |-> s[i]]
        /\ t[h + 1] = s[h + 1]
      OBVIOUS
  <2>4. s[h + 1] = Between(b, cut[j], cut[j + 1])
    <3>1. h + 1 \in Nat /\ 2 * (h + 1) - 2 = j /\ 2 * (h + 1) - 1 = j + 1
        BY <2>1
    <3> QED
        BY <3>1, Zenon
  <2> HIDE DEF s, t
  <2>5. /\ KeysIn(h, b, cut) = [i \in 1 .. h |-> s[i]]
        /\ KeysIn(h + 1, b, cut) = [i \in 1 .. h + 1 |-> s[i]]
      BY <1>1
  <2>6. KeysIn(h + 1, b, cut) = Append(KeysIn(h, b, cut), Between(b, cut[j], cut[j + 1]))
      BY <2>2, <2>3, <2>4, <2>5, Zenon
  <2> QED
      BY <1>2, <2>1, <2>6, Zenon
<1>3. CASE j % 2 # 0
  <2>1. (j + 1) \div 2 = (j + 2) \div 2
      BY <1>3
  <2> QED
      BY <1>3, <2>1, Zenon
<1> QED
    BY <1>2, <1>3

\* The call e is c with one item more, x, which ends at `to'.
WithItem(e, c, x, b, to) ==
    /\ e = [f \in CallFields |-> e[f]]
    /\ e.map = c.map /\ e.want = c.want /\ e.from = to
    /\ e.items = Append(c.items, x)
    /\ e.spans = IF c.map /\ Len(c.items) % 2 = 0
                 THEN Append(c.spans, Between(b, c.from, to))
                 ELSE c.spans

\* The item that came back is the one the plan has next.
LEMMA ItemsFollow ==
    ASSUME NEW c, NEW p, NEW b, NEW k, NEW n, NEW e,
           Follows(c, p, b), Planned(p, k, b, n), Len(c.items) < Len(p.items),
           WithItem(e, c, p.items[Len(c.items) + 1], b, p.cut[Len(c.items) + 1])
    PROVE  Follows(e, p, b)
<1>0. /\ e = [f \in CallFields |-> e[f]]
      /\ e.map = c.map /\ e.want = c.want /\ e.from = p.cut[Len(c.items) + 1]
      /\ e.items = Append(c.items, p.items[Len(c.items) + 1])
      /\ e.spans = IF c.map /\ Len(c.items) % 2 = 0
                   THEN Append(c.spans, Between(b, c.from, e.from))
                   ELSE c.spans
    BY Zenon DEF WithItem
<1> DEFINE j == Len(c.items)
           l == Len(p.items)
           keys(i) == KeysIn(i, b, p.cut)
<1>1. l \in Nat /\ j \in 0 .. l /\ j < l /\ j \in Nat
  <2>1. l \in Nat /\ j \in 0 .. l /\ j < l
      BY Zenon DEF Planned, ItemsEncoded, Follows
  <2> HIDE DEF j, l
  <2> QED
      BY <2>1
<1>2. /\ c.map \in BOOLEAN /\ c.want = l
      /\ c.items = [i \in 1 .. j |-> p.items[i]]
      /\ c.from = p.cut[j]
      /\ ~c.map => c.spans = <<>>
      /\ c.map => /\ l \div 2 \in Nat /\ l = 2 * (l \div 2)
                  /\ KeysAscend(keys(l \div 2))
                  /\ c.spans = keys((j + 1) \div 2)
    BY Zenon DEF Follows
<1> HIDE DEF j, l, keys
<1>3. e.items = [i \in 1 .. j + 1 |-> p.items[i]]
  <2> DEFINE s == p.items
             t == c.items
  <2>1. e.items = Append(t, s[j + 1]) /\ t = [i \in 1 .. j |-> s[i]]
      BY <1>0, <1>2 DEF j
  <2>2. j < Len(s) /\ Len(s) \in Nat
      BY <1>1 DEF l
  <2> HIDE DEF s, t
  <2>3. Append(t, s[j + 1]) = [i \in 1 .. j + 1 |-> s[i]]
      BY <1>1, <2>1, <2>2, ItemsGrow
  <2> QED
      BY <2>1, <2>3 DEF s
<1>4. Len(e.items) = j + 1
  <2> DEFINE t == e.items
  <2>1. t = [i \in 1 .. j + 1 |-> p.items[i]]
      BY <1>3
  <2> HIDE DEF t
  <2>2. j + 1 \in Nat
      BY <1>1
  <2> QED
      BY <2>1, <2>2 DEF t
<1>5. c.map => e.spans = keys((Len(e.items) + 1) \div 2)
  <2>1. SUFFICES ASSUME c.map PROVE e.spans = keys((j + 2) \div 2)
    <3>1. (j + 1) + 1 = j + 2
        BY <1>1
    <3> QED
        BY <1>4, <3>1
  <2>2. Between(b, c.from, e.from) = Between(b, p.cut[j], p.cut[j + 1])
      BY <1>0, <1>2 DEF j
  <2>3. keys((j + 2) \div 2) = IF j % 2 = 0
                               THEN Append(keys((j + 1) \div 2),
                                           Between(b, p.cut[j], p.cut[j + 1]))
                               ELSE keys((j + 1) \div 2)
      BY <1>1, KeysGrow, Zenon DEF keys
  <2>4. e.spans = IF j % 2 = 0
                  THEN Append(c.spans, Between(b, c.from, e.from))
                  ELSE c.spans
      BY <1>0, <2>1 DEF j
  <2> QED
      BY <1>2, <2>1, <2>2, <2>3, <2>4, Zenon
<1>6. ~c.map => e.spans = <<>>
    BY <1>0, <1>2
<1>7. Len(e.items) \in 0 .. l
    BY <1>1, <1>4
<1>8. /\ e.items = [i \in 1 .. Len(e.items) |-> p.items[i]]
      /\ e.from = p.cut[Len(e.items)]
    BY <1>0, <1>3, <1>4 DEF j
<1> QED
    BY <1>0, <1>2, <1>4, <1>5, <1>6, <1>7, <1>8, Zenon DEF Follows, l, keys, j

\* Keys that all ascend have no two neighbours out of order.
LEMMA AscendingIsInOrder ==
    ASSUME NEW n \in Nat, NEW b, NEW cut, KeysAscend(KeysIn(n, b, cut))
    PROVE  OrderError(KeysIn(n, b, cut)) = None
<1> DEFINE keys == KeysIn(n, b, cut)
<1>1. DOMAIN keys = 1 .. n /\ Len(keys) = n
  <2>1. keys = [i \in 1 .. n |-> Between(b, cut[2 * i - 2], cut[2 * i - 1])]
      BY DEF KeysIn
  <2> HIDE DEF keys
  <2> QED
      BY <2>1
<1> HIDE DEF keys
<1>2. \A i, j \in 1 .. n : i < j => KeyBefore(keys[i], keys[j])
    BY <1>1, Zenon DEF KeysAscend, keys
<1>3. \A i \in 2 .. Len(keys) : KeyBefore(keys[i - 1], keys[i])
  <2> TAKE i \in 2 .. Len(keys)
  <2>1. i - 1 \in 1 .. n /\ i \in 1 .. n /\ i - 1 < i
      BY <1>1
  <2> QED
      BY <1>2, <2>1, Zenon
<1>4. OrderError(keys) = None
    BY <1>3, Zenon DEF OrderError
<1> QED
    BY <1>4 DEF keys

\* The loop takes the item, and the plan's next is the one behind it.
LEMMA TakesStayOnTheWay ==
    ASSUME NEW v, NEW m, NEW n \in Nat, IInv, OnTheWay(v, m, n), TakeItem
    PROVE  OnTheWay(v, m, n)'
<1> PICK P : /\ OnPlan(P, calls, buf, n) /\ Root(P[0], v, m, n)
             /\ Here(P[Len(calls)], Taken(calls, Len(calls)), ret, pos, elems)
    BY DEF OnTheWay
<1> DEFINE c == Top
           l == Len(calls)
           p == P[l]
           span == SubSeq(buf, c.from + 1, pos)
           e == [c EXCEPT !.items = Append(@, ret), !.from = pos,
                          !.spans = IF c.map /\ Len(c.items) % 2 = 0
                                    THEN Append(@, span) ELSE @]
           j == Len(c.items)
<1>1. /\ ret # None /\ calls # <<>> /\ ret' = None
      /\ calls' = Append(Outer, e)
      /\ pos' = pos /\ buf' = buf /\ elems' = elems
    BY DEF TakeItem
<1> PICK S : calls \in Seq(S)
    BY DEF IInv, Shape
<1>2. /\ OnPlan(P, Outer, buf, n)
      /\ l \in Nat \ {0} /\ Len(Outer) = l - 1 /\ Outer \in Seq(S)
      /\ Taken(Outer, l - 1) = Taken(calls, l - 1)
      /\ Planned(p, MaxDepth - l, buf, n)
      /\ Follows(c, p, buf)
      /\ Serves(P[l - 1], Taken(calls, l - 1), p, c.map)
    BY <1>1, PlanShrinks DEF Outer, Top
<1>3. c = [f \in CallFields |-> c[f]]
    BY <1>2, Zenon DEF Follows
<1>4. /\ e = [f \in CallFields |-> e[f]]
      /\ e.map = c.map /\ e.want = c.want /\ e.from = pos
      /\ e.items = Append(c.items, ret)
      /\ e.spans = IF c.map /\ Len(c.items) % 2 = 0
                   THEN Append(c.spans, Between(buf, c.from, pos))
                   ELSE c.spans
  <2> HIDE DEF c
  <2>2. DOMAIN c = CallFields
      BY <1>3
  <2>3. {"map", "want", "items", "spans", "from"} \subseteq DOMAIN c
      BY <2>2 DEF CallFields
  <2>4. e.map = c.map /\ e.want = c.want /\ e.from = pos
      BY <2>3
  <2>5. e.items = Append(c.items, ret)
      BY <2>3
  <2>6. e.spans = IF c.map /\ Len(c.items) % 2 = 0
                  THEN Append(c.spans, span) ELSE c.spans
      BY <2>3
  <2>7. e = [f \in CallFields |-> e[f]]
    <3>1. DOMAIN e = CallFields
        BY <2>2
    <3>2. e = [f \in DOMAIN e |-> e[f]]
        BY <1>3
    <3> HIDE DEF e
    <3> QED
        BY <3>1, <3>2
  <2> QED
      BY <2>4, <2>5, <2>6, <2>7 DEF Between
<1>5. Taken(calls, l) = j
    BY <1>2, Zenon DEF Taken, Top
<1> HIDE DEF e, c, l, j
<1>6. /\ j \in 0 .. Len(p.items) /\ j < Len(p.items) /\ ret = p.items[j + 1]
      /\ pos = p.cut[j + 1] /\ elems = p.cnt[j + 1]
    BY <1>1, <1>5, Zenon DEF Here, l
<1>7. Follows(e, p, buf) /\ Len(e.items) = j + 1
  <2> DEFINE k == MaxDepth - l
  <2>1. /\ Follows(c, p, buf) /\ Planned(p, k, buf, n) /\ Len(c.items) < Len(p.items)
      BY <1>2, <1>6 DEF j
  <2>2. WithItem(e, c, p.items[Len(c.items) + 1], buf, p.cut[Len(c.items) + 1])
      BY <1>4, <1>6, Zenon DEF WithItem, j
  <2> HIDE DEF k, p
  <2>3. Follows(e, p, buf)
      BY <2>1, <2>2, ItemsFollow
  <2>4. e.items = Append(c.items, ret)
      BY <1>4
  <2>5. c.items = [i \in 1 .. j |-> p.items[i]] /\ j \in Nat
    <3>1. c.items = [i \in 1 .. Len(c.items) |-> p.items[i]]
        BY <1>2, Zenon DEF Follows, p
    <3> QED
        BY <3>1, <1>6 DEF j
  <2>6. Len(e.items) = j + 1
    <3> DEFINE s == p.items
               t == c.items
    <3>1. t = [i \in 1 .. j |-> s[i]]
        BY <2>5
    <3> HIDE DEF s, t
    <3> DEFINE T == {s[i] : i \in 1 .. j}
    <3>2. t \in Seq(T \union {ret}) /\ Len(t) = j
        BY <2>5, <3>1
    <3> HIDE DEF T
    <3>3. Len(Append(t, ret)) = j + 1
        BY <3>2
    <3> QED
        BY <2>4, <3>3 DEF t
  <2> QED
      BY <2>3, <2>6 DEF p
<1>8. /\ (l - 1) + 1 = l /\ (l - 1) \in Nat
    BY <1>2
<1>9. PICK Q : /\ OnPlan(Q, Append(Outer, e), buf, n)
               /\ Q[l] = p /\ Q[0] = P[0]
  <2> DEFINE r == Len(Outer)
  <2>1. r + 1 = l /\ r = l - 1
      BY <1>2, <1>8
  <2>2. /\ Planned(p, MaxDepth - (r + 1), buf, n)
        /\ Serves(P[r], Taken(Outer, r), p, e.map)
      BY <1>2, <1>4, <2>1
  <2> HIDE DEF p
  <2>3. \E Q : /\ OnPlan(Q, Append(Outer, e), buf, n)
               /\ Q[r + 1] = p /\ Q[0] = P[0]
      BY <1>2, <1>7, <2>2, PlanGrows
  <2> QED
      BY <2>1, <2>3
<1>10. Len(calls') = l /\ Taken(calls', l) = j + 1
  <2>1. /\ Len(Append(Outer, e)) = Len(Outer) + 1
        /\ Append(Outer, e)[Len(Outer) + 1] = e
      BY <1>2, OneMoreCall
  <2>2. l # 0
      BY <1>2
  <2> QED
      BY <1>1, <1>2, <1>7, <1>8, <2>1, <2>2, Zenon DEF Taken
<1>11. Here(p, j + 1, ret', pos', elems')
  <2>1. Len(p.items) \in Nat
      BY <1>2, Zenon DEF Planned, ItemsEncoded
  <2>2. j + 1 \in 0 .. Len(p.items)
      BY <1>6, <2>1
  <2> QED
      BY <1>1, <1>6, <2>2, Zenon DEF Here
<1> QED
    BY <1>1, <1>9, <1>10, <1>11 DEF OnTheWay

\* The loop is over: the container is the item that was next outside.
LEMMA LeavesStayOnTheWay ==
    ASSUME NEW v, NEW m, NEW n \in Nat, IInv, NoneIsNoValue,
           OnTheWay(v, m, n), LeaveContainer
    PROVE  OnTheWay(v, m, n)' /\ status' = status
<1> PICK P : /\ OnPlan(P, calls, buf, n) /\ Root(P[0], v, m, n)
             /\ Here(P[Len(calls)], Taken(calls, Len(calls)), ret, pos, elems)
    BY DEF OnTheWay
<1> DEFINE c == Top
           l == Len(calls)
           p == P[l]
           j == Len(c.items)
           t == Taken(calls, l - 1)
<1>1. /\ ret = None /\ calls # <<>> /\ Len(c.items) = c.want
    BY DEF LeaveContainer
<1> PICK S : calls \in Seq(S)
    BY DEF IInv, Shape
<1>2. /\ OnPlan(P, Outer, buf, n)
      /\ l \in Nat \ {0} /\ Len(Outer) = l - 1 /\ Outer \in Seq(S)
      /\ Taken(Outer, l - 1) = t
      /\ Planned(p, MaxDepth - l, buf, n)
      /\ Follows(c, p, buf)
      /\ Serves(P[l - 1], t, p, c.map)
    BY <1>1, PlanShrinks DEF Outer, Top
<1>3. Taken(calls, l) = j
    BY <1>2, Zenon DEF Taken, Top
<1> HIDE DEF l, t
<1>4. /\ j = Len(p.items) /\ c.map \in BOOLEAN
      /\ c.items = [i \in 1 .. Len(p.items) |-> p.items[i]]
      /\ ~c.map => c.spans = <<>>
      /\ c.map =>
          /\ Len(p.items) \div 2 \in Nat
          /\ Len(p.items) = 2 * (Len(p.items) \div 2)
          /\ KeysAscend(KeysIn(Len(p.items) \div 2, buf, p.cut))
          /\ c.spans = KeysIn((Len(c.items) + 1) \div 2, buf, p.cut)
    BY <1>1, <1>2, Zenon DEF Follows
<1> HIDE DEF c, j
<1>5. c.items = p.items
  <2>1. p.items = [i \in 1 .. Len(p.items) |-> p.items[i]]
      BY <1>2, Zenon DEF Planned, ItemsEncoded
  <2> QED
      BY <1>4, <2>1
<1>6. OrderError(c.spans) = None
  <2>1. CASE c.map
    <3> DEFINE h == Len(p.items) \div 2
    <3>1. h \in Nat /\ Len(p.items) = 2 * h /\ KeysAscend(KeysIn(h, buf, p.cut))
        BY <1>4, <2>1
    <3> HIDE DEF h
    <3>2. (2 * h + 1) \div 2 = h
        BY <3>1
    <3>3. c.spans = KeysIn(h, buf, p.cut)
        BY <1>4, <1>5, <2>1, <3>1, <3>2
    <3> QED
        BY <3>1, <3>3, AscendingIsInOrder
  <2>2. CASE ~c.map
    <3>1. c.spans = <<>> /\ 2 .. 0 = {} /\ Len(<<>>) = 0
        BY <1>4, <2>2
    <3> QED
        BY <3>1, Zenon DEF OrderError
  <2> QED
      BY <1>4, <2>1, <2>2
<1>7. /\ calls' = Outer /\ ret' = Container(c)
      /\ pos' = pos /\ elems' = elems /\ buf' = buf /\ status' = status
    BY <1>6 DEF LeaveContainer, c
<1>8. Container(c) = ValueOf(c.map, p.items)
    BY <1>5, Zenon DEF Container, ValueOf, EntriesOf
<1>9. Container(c) # None
  <2>1. IsAFunction(Container(c))
      BY DEF Container, IsAFunction
  <2> QED
      BY <2>1 DEF NoneIsNoValue
<1>10. pos = p.cut[Len(p.items)] /\ elems = p.cnt[Len(p.items)]
    BY <1>1, <1>3, <1>4, Zenon DEF Here, l
<1>11. /\ t \in Nat /\ t < Len(P[l - 1].items)
       /\ P[l - 1].items[t + 1] = ValueOf(c.map, p.items)
       /\ P[l - 1].cut[t + 1] = p.cut[Len(p.items)]
       /\ P[l - 1].cnt[t + 1] = p.cnt[Len(p.items)]
    BY <1>2, Zenon DEF Serves
<1>12. Here(P[l - 1], t, ret', pos', elems')
  <2>1. Planned(P[l - 1], MaxDepth - (l - 1), buf, n)
    <3>1. l - 1 \in 0 .. Len(Outer)
        BY <1>2
    <3> QED
        BY <1>2, <3>1, Zenon DEF OnPlan
  <2>2. Len(P[l - 1].items) \in Nat
      BY <2>1, Zenon DEF Planned, ItemsEncoded
  <2>3. t \in 0 .. Len(P[l - 1].items)
      BY <1>11, <2>2
  <2> QED
      BY <1>7, <1>8, <1>9, <1>10, <1>11, <2>3, Zenon DEF Here
<1>13. Here(P[Len(calls')], Taken(calls', Len(calls')), ret', pos', elems')
    BY <1>2, <1>7, <1>12, Zenon
<1> QED
    BY <1>2, <1>7, <1>13 DEF OnTheWay

-----------------------------------------------------------------------------
(* The beginning.                                                          *)

\* An encoding begins with a head, and so it has a byte.
LEMMA HeadsAreNotEmpty ==
    ASSUME NEW m \in 0 .. 5, NEW d \in Numerals, NEW t \in Seq(Nat)
    PROVE  Header(m, d) # <<>> /\ Header(m, d) \o t # <<>>
<1> DEFINE h == Header(m, d)
<1>1. PICK x \in 0 .. 27, arg \in Seq(Byte) : IsHead(h, m, d, x, arg)
    BY HeaderParts
<1>2. h \in Seq(Nat)
  <2>1. m \in 0 .. 7
      OBVIOUS
  <2> QED
      BY <2>1, HeaderIsSeq
<1>3. h = <<32 * m + x>> \o arg
    BY <1>1 DEF IsHead
<1> HIDE DEF h
<1>4. Len(h) = 1 + Len(arg) /\ Len(arg) \in Nat
  <2>1. arg \in Seq(Nat) /\ <<32 * m + x>> \in Seq(Nat) /\ Len(<<32 * m + x>>) = 1
      BY BytesAreNumbers
  <2>2. Len(arg) \in Nat
      OBVIOUS
  <2> QED
      BY <1>3, <2>1, <2>2, Concatenation
<1>5. Len(h) > 0 /\ Len(h \o t) > 0
    BY <1>2, <1>4
<1> QED
    BY <1>5 DEF h

\* No value is encoded as nothing.
LEMMA EncodingsAreNotEmpty ==
    ASSUME NEW v, NEW e, NEW k, Canonical(v, e, k)
    PROVE  e # <<>>
<1>1. LeafByARule(v, e) \/ ContainerByARule(v, e, k)
    BY OnlyTheRules
<1>2. <<>> \in Seq(Nat) /\ 0 \in 0 .. 5 /\ 1 \in 0 .. 5 /\ 2 \in 0 .. 5
      /\ 3 \in 0 .. 5 /\ 4 \in 0 .. 5 /\ 5 \in 0 .. 5
      /\ \A d \in Lengths : d \in Numerals
    BY DEF Lengths
<1>3. CASE LeafByARule(v, e)
  <2>1. CASE \E d \in Numerals : e = Header(0, d) \/ e = Header(1, d)
      BY <1>2, <2>1, HeadsAreNotEmpty
  <2>2. CASE \E d \in Lengths, s \in Seq(Byte) :
                 e = Header(2, d) \o s \/ e = Header(3, d) \o s
      BY <1>2, <2>2, HeadsAreNotEmpty, BytesAreNumbers
  <2>3. CASE e = <<244>> \/ e = <<245>> \/ e = <<246>>
      BY <2>3
  <2> QED
      BY <1>3, <2>1, <2>2, <2>3, Zenon DEF LeafByARule
<1>4. CASE ContainerByARule(v, e, k)
  <2>1. PICK d \in Lengths, b \in Seq(Byte) : \E items, cut :
            /\ ItemsEncoded(k - 1, items, b, cut)
            /\ \/ e = Header(4, d) \o Between(b, cut[0], cut[Len(items)])
               \/ e = Header(5, d) \o Between(b, cut[0], cut[Len(items)])
      BY <1>4, Zenon DEF ContainerByARule
  <2>2. PICK items, cut :
            /\ ItemsEncoded(k - 1, items, b, cut)
            /\ \/ e = Header(4, d) \o Between(b, cut[0], cut[Len(items)])
               \/ e = Header(5, d) \o Between(b, cut[0], cut[Len(items)])
      BY <2>1
  <2> DEFINE t == Between(b, cut[0], cut[Len(items)])
  <2>3. t \in Seq(Nat)
      BY <2>2, SlicesAreSeqs
  <2> HIDE DEF t
  <2>4. Header(4, d) \o t # <<>> /\ Header(5, d) \o t # <<>>
      BY <1>2, <2>3, HeadsAreNotEmpty
  <2> QED
      BY <2>2, <2>4 DEF t
<1> QED
    BY <1>1, <1>3, <1>4

\* A value has an element.
LEMMA CountsArePositive ==
    ASSUME NEW v, NEW k, NEW n, HasElements(v, k, n)
    PROVE  n \in Nat /\ 0 < n
<1>1. n \in Nat /\ ((v \in Leaves /\ n = 1) \/ ContainerCounted(v, k, n))
    BY OnlyTheCounts
<1>2. CASE ContainerCounted(v, k, n)
  <2>1. PICK items, cnt : /\ ItemsCounted(k - 1, items, cnt)
                          /\ n = 1 + cnt[Len(items)] - cnt[0]
      BY <1>2, Zenon DEF ContainerCounted
  <2> DEFINE l == Len(items)
  <2>2. /\ l \in Nat /\ cnt \in [0 .. l -> Nat]
        /\ \A i \in 1 .. l : cnt[i - 1] < cnt[i]
      BY <2>1, Zenon DEF ItemsCounted
  <2>3. n = 1 + cnt[l] - cnt[0]
      BY <2>1
  <2> HIDE DEF l
  <2>4. 0 \in 0 .. l /\ l \in 0 .. l /\ 0 <= l
      BY <2>2
  <2>5. cnt[0] <= cnt[l] /\ cnt[0] \in Nat /\ cnt[l] \in Nat
      BY <2>2, <2>4, Ascending
  <2> QED
      BY <1>1, <2>3, <2>5
<1> QED
    BY <1>1, <1>2

\* Decode's own plan: the value that the input begins with.
LEMMA FirstPlan ==
    ASSUME NEW v, NEW m, NEW n, NEW b \in Seq(Byte),
           BeginsWith(b, v, m, n)
    PROVE  \E p : Planned(p, MaxDepth, b, n) /\ Root(p, v, m, n)
<1> DEFINE cut == [i \in 0 .. 1 |-> IF i = 0 THEN 0 ELSE m]
           cnt == [i \in 0 .. 1 |-> IF i = 0 THEN 0 ELSE n]
           items == <<v>>
           p == [items |-> items, cut |-> cut, cnt |-> cnt]
<1>1. /\ m \in Nat /\ m <= Len(b) /\ Canonical(v, Between(b, 0, m), MaxDepth)
      /\ HasElements(v, MaxDepth, n) /\ Len(b) \in Nat
    BY DEF BeginsWith
<1>2. n \in Nat /\ 0 < n
    BY <1>1, CountsArePositive
<1>3. 0 < m
  <2>1. Between(b, 0, m) # <<>>
      BY <1>1, EncodingsAreNotEmpty
  <2>2. ASSUME m = 0 PROVE Between(b, 0, m) = <<>>
      BY <1>1, <2>2 DEF Between
  <2> QED
      BY <1>1, <2>1, <2>2
<1>4. items = [i \in 1 .. 1 |-> items[i]] /\ Len(items) = 1 /\ items[1] = v
    OBVIOUS
<1>5. /\ cut \in [0 .. 1 -> 0 .. Len(b)] /\ cut[0] = 0 /\ cut[1] = m
      /\ cnt \in [0 .. 1 -> Nat] /\ cnt[0] = 0 /\ cnt[1] = n
    BY <1>1, <1>2
<1> HIDE DEF cut, cnt, items
<1>6. ItemsEncoded(MaxDepth, items, b, cut)
  <2>1. ASSUME NEW i \in 1 .. 1
        PROVE  /\ cut[i - 1] < cut[i]
               /\ Canonical(items[i], Between(b, cut[i - 1], cut[i]), MaxDepth)
    <3>1. i = 1 /\ i - 1 = 0
        OBVIOUS
    <3> QED
        BY <1>1, <1>3, <1>4, <1>5, <3>1
  <2>2. 1 \in Nat
      OBVIOUS
  <2> QED
      BY <1>4, <1>5, <2>1, <2>2, Zenon DEF ItemsEncoded
<1>7. ItemsCounted(MaxDepth, items, cnt)
  <2>1. ASSUME NEW i \in 1 .. 1
        PROVE  /\ cnt[i - 1] < cnt[i]
               /\ HasElements(items[i], MaxDepth, cnt[i] - cnt[i - 1])
    <3>1. i = 1 /\ i - 1 = 0 /\ n - 0 = n
        BY <1>2
    <3> QED
        BY <1>1, <1>2, <1>4, <1>5, <3>1
  <2>2. 1 \in Nat
      OBVIOUS
  <2> QED
      BY <1>4, <1>5, <2>1, <2>2, Zenon DEF ItemsCounted
<1>8. p.items = items /\ p.cut = cut /\ p.cnt = cnt
    OBVIOUS
<1> HIDE DEF p
<1>9. Planned(p, MaxDepth, b, n)
  <2>1. n <= n
      BY <1>2
  <2> QED
      BY <1>4, <1>5, <1>6, <1>7, <1>8, <2>1, Zenon DEF Planned
<1>10. Root(p, v, m, n)
    BY <1>5, <1>8, Zenon DEF Root, items
<1> QED
    BY <1>9, <1>10

\* A new decoder is on its way to the value its input begins with.
LEMMA StartsOnTheWay ==
    ASSUME NEW v, NEW m, NEW n, NEW b \in Seq(Byte), BeginsWith(b, v, m, n),
           Decode(b)
    PROVE  OnTheWay(v, m, n)'
<1>0. /\ calls' = <<>> /\ buf' = b /\ ret' = None /\ pos' = 0 /\ elems' = 0
    BY DEF Decode
<1>1. PICK p : Planned(p, MaxDepth, b, n) /\ Root(p, v, m, n)
    BY FirstPlan
<1> DEFINE P == [i \in 0 .. 0 |-> p]
<1>2. P[0] = p /\ Len(<<>>) = 0 /\ MaxDepth - 0 = MaxDepth
    BY LimitAssumption
<1> HIDE DEF P
<1>3. OnPlan(P, <<>>, b, n)
  <2>1. ASSUME NEW i \in 0 .. 0 PROVE Planned(P[i], MaxDepth - i, b, n)
    <3>1. i = 0
        OBVIOUS
    <3> QED
        BY <1>1, <1>2, <3>1
  <2>2. 1 .. 0 = {}
      OBVIOUS
  <2> QED
      BY <1>2, <2>1, <2>2, Zenon DEF OnPlan
<1>4. Here(p, 0, None, 0, 0)
  <2>1. p.items = <<v>> /\ p.cut[0] = 0 /\ p.cnt[0] = 0
      BY <1>1, Zenon DEF Root
  <2>2. 0 \in 0 .. Len(p.items)
    <3>1. Len(<<v>>) = 1
        OBVIOUS
    <3> QED
        BY <2>1, <3>1
  <2> QED
      BY <2>1, <2>2, Zenon DEF Here
<1>5. Taken(<<>>, Len(<<>>)) = 0
    BY <1>2 DEF Taken
<1> QED
    BY <1>0, <1>1, <1>2, <1>3, <1>4, <1>5 DEF OnTheWay

-----------------------------------------------------------------------------
(* The invariant.                                                          *)

\* Where a decoder is whose input begins with m bytes that encode v, of n
\* elements: before it, on the way or there, or stopped by one too many.
GetsTo(v, m, n) ==
    \/ status = "idle"
    \/ status \in {"running", "ok"} /\ OnTheWay(v, m, n)
    \/ status \notin {"idle", "running", "ok"} /\ n > MaxElements

\* Whatever the input begins with.
TInv ==
    /\ CInv
    /\ Len(buf) <= MaxInputSize =>
          \A v, m, n : BeginsWith(buf, v, m, n) => GetsTo(v, m, n)

\* A decoder that has not started is on no way.
LEMMA InitHasTInv == Init => TInv
BY InitHasCInv DEF Init, TInv, GetsTo

\* A step of a decoder under way keeps to the plan or finds one too many.
LEMMA StepsGetThere ==
    ASSUME None \notin Errors, NoneIsNoValue, IInv, Steps,
           NEW v, NEW m, NEW n \in Nat, GetsTo(v, m, n)
    PROVE  GetsTo(v, m, n)'
<1>1. status = "running"
    BY DEF Steps, DecodeFails, DecodeScalar, EnterContainer, TakeItem,
           LeaveContainer, DecodeReturns, Called
<1>2. OnTheWay(v, m, n)
    BY <1>1 DEF GetsTo
<1>3. CASE DecodeFails
  <2>1. n > MaxElements
      BY <1>2, <1>3, OnlyTooManyFail
  <2>2. status' \in Errors
      BY <1>3, HeadErrorIsError DEF DecodeFails, Fail
  <2>3. status' \notin {"idle", "running", "ok"}
      BY <2>2 DEF Errors
  <2> QED
      BY <2>1, <2>3 DEF GetsTo
<1>4. CASE DecodeScalar
  <2>1. OnTheWay(v, m, n)'
      BY <1>2, <1>4, ScalarsStayOnTheWay
  <2> QED
      BY <1>1, <1>4, <2>1 DEF GetsTo, DecodeScalar
<1>5. CASE EnterContainer
  <2>1. OnTheWay(v, m, n)'
      BY <1>2, <1>5, EntersStayOnTheWay
  <2> QED
      BY <1>1, <1>5, <2>1 DEF GetsTo, EnterContainer
<1>6. CASE TakeItem
  <2>1. OnTheWay(v, m, n)'
      BY <1>2, <1>6, TakesStayOnTheWay
  <2> QED
      BY <1>1, <1>6, <2>1 DEF GetsTo, TakeItem
<1>7. CASE LeaveContainer
  <2>1. OnTheWay(v, m, n)' /\ status' = status
      BY <1>2, <1>7, LeavesStayOnTheWay
  <2> QED
      BY <1>1, <2>1 DEF GetsTo
<1>8. CASE DecodeReturns
  <2>1. UNCHANGED <<buf, pos, elems, calls, ret>> /\ status' = "ok"
      BY <1>8 DEF DecodeReturns
  <2>2. OnTheWay(v, m, n)'
      BY <1>2, <2>1 DEF OnTheWay
  <2> QED
      BY <2>1, <2>2 DEF GetsTo
<1> QED
    BY <1>3, <1>4, <1>5, <1>6, <1>7, <1>8 DEF Steps

\* No step of a decoder, whoever uses it, disturbs the invariant.
LEMMA MovesKeepTInv ==
    ASSUME None \notin Errors, NoneIsNoValue, TInv, [Moves]_decoder
    PROVE  TInv'
<1>1. CInv' /\ IInv
    BY MovesKeepCInv DEF TInv, CInv
<1>2. ASSUME Len(buf') <= MaxInputSize, NEW v, NEW m, NEW n,
             BeginsWith(buf', v, m, n)
      PROVE  GetsTo(v, m, n)'
  <2>1. n \in Nat
      BY <1>2, CountsArePositive DEF BeginsWith
  <2>2. CASE Steps
    <3>1. buf' = buf
        BY <2>2 DEF Steps, DecodeFails, DecodeScalar, EnterContainer, TakeItem,
                    LeaveContainer, DecodeReturns, Fail
    <3>2. GetsTo(v, m, n)
        BY <1>2, <3>1 DEF TInv
    <3> QED
        BY <1>1, <2>1, <2>2, <3>2, StepsGetThere
  <2>3. CASE UNCHANGED decoder
    <3>1. GetsTo(v, m, n)
        BY <1>2, <2>3 DEF TInv, decoder
    <3> QED
        BY <2>3, <3>1 DEF GetsTo, OnTheWay, decoder
  <2>4. CASE Drop
      BY <2>4 DEF Drop, GetsTo
  <2>5. CASE \E b \in Seq(Byte) : Decode(b)
    <3> PICK b \in Seq(Byte) : Decode(b)
        BY <2>5
    <3>1. buf' = b
        BY DEF Decode
    <3>2. OnTheWay(v, m, n)'
        BY <1>2, <3>1, StartsOnTheWay
    <3>3. status' = "running"
      <4>1. Len(b) \in Nat /\ MaxInputSize \in Nat
          BY LimitAssumption
      <4>2. ~(Len(b) > MaxInputSize)
          BY <1>2, <3>1, <4>1
      <4> QED
          BY <4>2 DEF Decode
    <3> QED
        BY <3>2, <3>3 DEF GetsTo
  <2> QED
      BY <2>2, <2>3, <2>4, <2>5 DEF Moves
<1> QED
    BY <1>1, <1>2 DEF TInv

\* On the way's end the decoder has what it was on the way to.
LEMMA ThereAtLast ==
    ASSUME NEW v, NEW m, NEW n, TInv, status = "ok", Len(buf) <= MaxInputSize,
           BeginsWith(buf, v, m, n)
    PROVE  ret = v /\ pos = m /\ elems = n
<1>1. OnTheWay(v, m, n) /\ calls = <<>> /\ ret # None
    BY DEF TInv, GetsTo, CInv
<1>2. PICK P : /\ Root(P[0], v, m, n)
               /\ Here(P[Len(calls)], Taken(calls, Len(calls)), ret, pos, elems)
    BY <1>1 DEF OnTheWay
<1>3. Len(calls) = 0 /\ Taken(calls, 0) = 0 /\ 0 + 1 = 1
    BY <1>1 DEF Taken
<1>4. Here(P[0], 0, ret, pos, elems)
    BY <1>2, <1>3
<1>5. ret = P[0].items[1] /\ pos = P[0].cut[1] /\ elems = P[0].cnt[1]
    BY <1>1, <1>3, <1>4 DEF Here
<1>6. P[0].items = <<v>> /\ P[0].cut[1] = m /\ P[0].cnt[1] = n
    BY <1>2, Zenon DEF Root
<1> QED
    BY <1>5, <1>6

\* Then nothing is refused that has no element too many.
LEMMA TInvRefusesNothing == TInv => RefusesNothingCanonical
<1> SUFFICES ASSUME TInv, Len(buf) <= MaxInputSize, NEW v, NEW m, NEW n,
                    BeginsWith(buf, v, m, n), n <= MaxElements
             PROVE  /\ status \in {"idle", "running", "ok"}
                    /\ status = "ok" => ret = v /\ pos = m
    BY DEF RefusesNothingCanonical
<1>1. n \in Nat /\ MaxElements \in Nat
    BY CountsArePositive, LimitAssumption DEF BeginsWith
<1>2. ~(n > MaxElements)
    BY <1>1
<1>3. GetsTo(v, m, n)
    BY DEF TInv
<1> QED
    BY <1>2, <1>3, ThereAtLast DEF GetsTo

\* Then the elements counted are those of the value returned.
LEMMA TInvCounts == TInv => CountsElements
<1> SUFFICES ASSUME TInv, status = "ok" PROVE HasElements(ret, MaxDepth, elems)
    BY DEF CountsElements
<1>1. CInv /\ Len(buf) <= MaxInputSize
    BY DEF TInv, CInv
<1>2. Canonical(ret, Between(buf, 0, pos), MaxDepth)
  <2>1. Between(buf, 0, pos) = SubSeq(buf, 1, pos)
    <3>1. 0 + 1 = 1
        OBVIOUS
    <3> QED
        BY <3>1, Zenon DEF Between
  <2> QED
      BY <1>1, <2>1, CInvIsCanonical DEF AcceptsOnlyCanonical
<1>3. PICK n \in Nat \ {0} : HasElements(ret, MaxDepth, n)
    BY <1>2, EveryValueCounts, LimitAssumption
<1>4. pos \in 0 .. Len(buf)
    BY <1>1 DEF CInv, IInv, Shape, WorkIsBounded
<1>5. BeginsWith(buf, ret, pos, n)
    BY <1>2, <1>3, <1>4 DEF BeginsWith
<1>6. elems = n
    BY <1>1, <1>5, ThereAtLast
<1> QED
    BY <1>3, <1>6

-----------------------------------------------------------------------------
(* One encoding for every value.                                           *)

\* A digit to the base 256, and one that is not zero.
IsDigit(x) == x \in Nat /\ x < 256
IsFirst(x) == IsDigit(x) /\ x > 0

\* What a length of n bytes, with these digits, is.
ReadsAs(n, x, y, z, c) ==
    \/ n = 0 /\ c = 0
    \/ n = 1 /\ IsFirst(x) /\ c = x
    \/ n = 2 /\ IsFirst(x) /\ IsDigit(y) /\ c = 256 * x + y
    \/ /\ n = 3 /\ IsFirst(x) /\ IsDigit(y) /\ IsDigit(z)
       /\ c = 65536 * x + 256 * y + z

\* A length has no leading zeros (encode.go 74-97).
LEMMA LengthsRead ==
    ASSUME NEW s \in Lengths
    PROVE  s \in Seq(Byte) /\ ReadsAs(Len(s), s[1], s[2], s[3], Count(s))
<1> DEFINE n == Len(s)
           c == Count(s)
<1>1. s \in Seq(Byte) /\ n <= 3 /\ (s # <<>> => s[1] # 0)
    BY Zenon DEF Lengths, Numerals
<1>2. n \in Nat /\ (n # 0 => s # <<>>) /\ \A i \in 1 .. n : s[i] \in Byte
    BY <1>1
<1>3. c = CASE n = 0 -> 0
            [] n = 1 -> s[1]
            [] n = 2 -> 256 * s[1] + s[2]
            [] n = 3 -> 65536 * s[1] + 256 * s[2] + s[3]
            [] OTHER -> MaxInputSize + 1
    BY DEF Count
<1> HIDE DEF n, c
<1>4. n = 0 \/ n = 1 \/ n = 2 \/ n = 3
    BY <1>1, <1>2
<1>5. \A x \in Byte : IsDigit(x) /\ (x # 0 => IsFirst(x))
    BY DEF Byte, IsDigit, IsFirst
<1>6. /\ n = 1 => n # 0 /\ 1 \in 1 .. n
      /\ n = 2 => n # 0 /\ 1 \in 1 .. n /\ 2 \in 1 .. n
      /\ n = 3 => n # 0 /\ 1 \in 1 .. n /\ 2 \in 1 .. n /\ 3 \in 1 .. n
    OBVIOUS
<1>7. /\ n = 1 => IsFirst(s[1])
      /\ n = 2 => IsFirst(s[1]) /\ IsDigit(s[2])
      /\ n = 3 => IsFirst(s[1]) /\ IsDigit(s[2]) /\ IsDigit(s[3])
    BY <1>1, <1>2, <1>5, <1>6, Zenon
<1>8. /\ n = 0 => c = 0
      /\ n = 1 => c = s[1]
      /\ n = 2 => c = 256 * s[1] + s[2]
      /\ n = 3 => c = 65536 * s[1] + 256 * s[2] + s[3]
  <2> DEFINE c2 == 256 * s[1] + s[2]
             c3 == 65536 * s[1] + 256 * s[2] + s[3]
  <2>1. c = CASE n = 0 -> 0 [] n = 1 -> s[1] [] n = 2 -> c2 [] n = 3 -> c3
              [] OTHER -> MaxInputSize + 1
      BY <1>3
  <2> HIDE DEF c2, c3
  <2>2. /\ n = 0 => c = 0
        /\ n = 1 => c = s[1]
        /\ n = 2 => c = c2
        /\ n = 3 => c = c3
      BY <2>1
  <2> QED
      BY <2>2 DEF c2, c3
<1>9. ReadsAs(n, s[1], s[2], s[3], c)
  <2>1. CASE n = 0
      BY <1>8, <2>1 DEF ReadsAs
  <2>2. CASE n = 1
      BY <1>7, <1>8, <2>2 DEF ReadsAs
  <2>3. CASE n = 2
      BY <1>7, <1>8, <2>3 DEF ReadsAs
  <2>4. CASE n = 3
      BY <1>7, <1>8, <2>4 DEF ReadsAs
  <2> QED
      BY <1>4, <2>1, <2>2, <2>3, <2>4, Zenon
<1> QED
    BY <1>1, <1>9, Zenon DEF n, c

\* A length has one numeral.
LEMMA OneNumeral ==
    ASSUME NEW d \in Lengths, NEW f \in Lengths, Count(d) = Count(f)
    PROVE  d = f
<1> DEFINE n == Len(d)
           m == Len(f)
           c == Count(d)
           x == d[1]
           y == d[2]
           z == d[3]
           u == f[1]
           v == f[2]
           w == f[3]
<1>1. d \in Seq(Byte) /\ f \in Seq(Byte) /\ ReadsAs(n, x, y, z, c) /\ ReadsAs(m, u, v, w, c)
    BY LengthsRead, Zenon
<1> HIDE DEF n, m, c, x, y, z, u, v, w
<1>2. ASSUME NEW a \in Nat, NEW b \in Nat, a < 256, b < 256, a > 0
      PROVE  256 * a + b \in Nat /\ 256 * a + b > 255 /\ 256 * a + b < 65536
    BY <1>2
<1>3. ASSUME NEW a \in Nat, NEW b \in Nat, NEW e \in Nat, a < 256, b < 256, e < 256, a > 0
      PROVE  65536 * a + 256 * b + e \in Nat /\ 65536 * a + 256 * b + e > 65535
    BY <1>3
<1>4. /\ n = m
      /\ \/ n = 0
         \/ n = 1 /\ x = u
         \/ n = 2 /\ x = u /\ y = v
         \/ n = 3 /\ x = u /\ y = v /\ z = w
  <2> USE DEF ReadsAs, IsDigit, IsFirst
  <2>1. CASE n = 0
      BY <1>1, <1>2, <1>3, <2>1
  <2>2. CASE n = 1
      BY <1>1, <1>2, <1>3, <2>2
  <2>3. CASE n = 2
      BY <1>1, <1>2, <1>3, <2>3
  <2>4. CASE n = 3
    <3>1. m = 3
        BY <1>1, <1>2, <1>3, <2>4
    <3>2. /\ x \in Nat /\ y \in Nat /\ z \in Nat /\ u \in Nat /\ v \in Nat /\ w \in Nat
          /\ y < 256 /\ z < 256 /\ v < 256 /\ w < 256
          /\ 65536 * x + 256 * y + z = 65536 * u + 256 * v + w
        BY <1>1, <2>4, <3>1
    <3>3. x = u /\ y = v /\ z = w
        BY <3>2, SMTT(30)
    <3> QED
        BY <2>4, <3>1, <3>3
  <2> QED
      BY <1>1, <2>1, <2>2, <2>3, <2>4
<1>5. \A i \in 1 .. n : d[i] = f[i]
  <2>1. \A i \in 1 .. n : \/ (n = 1 \/ n = 2 \/ n = 3) /\ i = 1
                          \/ (n = 2 \/ n = 3) /\ i = 2
                          \/ n = 3 /\ i = 3
      BY <1>4
  <2>2. /\ n = 1 \/ n = 2 \/ n = 3 => x = u
        /\ n = 2 \/ n = 3 => y = v
        /\ n = 3 => z = w
      BY <1>4
  <2> QED
      BY <2>1, <2>2, Zenon DEF x, y, z, u, v, w
<1> QED
    BY <1>1, <1>4, <1>5, SameElements, Zenon DEF n, m

\* A value without items has one encoding (encode.go 12-33, 63-72).
LEMMA LeavesHaveOneEncoding ==
    ASSUME NEW v, NEW e, NEW f, LeafByARule(v, e), LeafByARule(v, f)
    PROVE  e = f
<1> DEFINE Number(x) == \E d \in Numerals :
             \/ v = [type |-> "uint", n |-> d] /\ x = Header(0, d)
             \/ v = [type |-> "negint", n |-> d] /\ x = Header(1, d)
           String(x) == \E d \in Lengths, s \in Seq(Byte) :
             /\ Count(d) = Len(s)
             /\ \/ v = [type |-> "bytes", string |-> s] /\ x = Header(2, d) \o s
                \/ v = [type |-> "text", string |-> s] /\ x = Header(3, d) \o s
           Constant(x) ==
             \/ v = [type |-> "bool", bool |-> FALSE] /\ x = <<244>>
             \/ v = [type |-> "bool", bool |-> TRUE] /\ x = <<245>>
             \/ v = [type |-> "null"] /\ x = <<246>>
<1>1. /\ Number(e) \/ String(e) \/ Constant(e)
      /\ Number(f) \/ String(f) \/ Constant(f)
  <2>1. ASSUME NEW x, LeafByARule(v, x) PROVE Number(x) \/ String(x) \/ Constant(x)
      BY <2>1 DEF LeafByARule
  <2> HIDE DEF Number, String, Constant
  <2> QED
      BY <2>1
<1>2. ASSUME NEW x
      PROVE  /\ Number(x) => v.type \in {"uint", "negint"}
             /\ String(x) => v.type \in {"bytes", "text"}
             /\ Constant(x) => v.type \in {"bool", "null"}
  <2>1. Number(x) => v.type \in {"uint", "negint"}
      OBVIOUS
  <2>2. String(x) => v.type \in {"bytes", "text"}
      OBVIOUS
  <2>3. Constant(x) => v.type \in {"bool", "null"}
      OBVIOUS
  <2> QED
      BY <2>1, <2>2, <2>3
<1>3. ASSUME Number(e), Number(f) PROVE e = f
    BY <1>3
<1>4. ASSUME String(e), String(f) PROVE e = f
  <2>1. PICK d \in Lengths, s \in Seq(Byte) :
             /\ Count(d) = Len(s)
             /\ \/ v = [type |-> "bytes", string |-> s] /\ e = Header(2, d) \o s
                \/ v = [type |-> "text", string |-> s] /\ e = Header(3, d) \o s
      BY <1>4
  <2>2. PICK g \in Lengths, t \in Seq(Byte) :
             /\ Count(g) = Len(t)
             /\ \/ v = [type |-> "bytes", string |-> t] /\ f = Header(2, g) \o t
                \/ v = [type |-> "text", string |-> t] /\ f = Header(3, g) \o t
      BY <1>4
  <2>3. s = t
      BY <2>1, <2>2
  <2>4. d = g
      BY <2>1, <2>2, <2>3, OneNumeral
  <2>5. /\ \/ v.type = "bytes" /\ e = Header(2, d) \o s
           \/ v.type = "text" /\ e = Header(3, d) \o s
        /\ \/ v.type = "bytes" /\ f = Header(2, g) \o t
           \/ v.type = "text" /\ f = Header(3, g) \o t
    <3>1. /\ [type |-> "bytes", string |-> s].type = "bytes"
          /\ [type |-> "text", string |-> s].type = "text"
          /\ [type |-> "bytes", string |-> t].type = "bytes"
          /\ [type |-> "text", string |-> t].type = "text"
        OBVIOUS
    <3> QED
        BY <2>1, <2>2, <3>1, Zenon
  <2>6. "bytes" # "text"
      OBVIOUS
  <2> QED
      BY <2>3, <2>4, <2>5, <2>6, Zenon
<1>5. ASSUME Constant(e), Constant(f) PROVE e = f
    BY <1>5
<1> HIDE DEF Number, String, Constant
<1> QED
    BY <1>1, <1>2, <1>3, <1>4, <1>5

\* Slices that agree piece by piece agree.
LEMMA SamePieces ==
    ASSUME NEW n \in Nat, NEW b \in Seq(Byte), NEW c \in Seq(Byte),
           NEW cut \in [0 .. n -> 0 .. Len(b)], NEW at \in [0 .. n -> 0 .. Len(c)],
           \A i \in 1 .. n : /\ cut[i - 1] < cut[i] /\ at[i - 1] < at[i]
                             /\ Between(b, cut[i - 1], cut[i]) = Between(c, at[i - 1], at[i])
    PROVE  Between(b, cut[0], cut[n]) = Between(c, at[0], at[n])
<1> DEFINE Same(i) == Between(b, cut[0], cut[i]) = Between(c, at[0], at[i])
           T == {i \in 0 .. n : ~Same(i)}
<1>0. /\ Len(b) \in Nat /\ Len(c) \in Nat
      /\ \A i \in 0 .. n : cut[i] \in Nat /\ cut[i] <= Len(b) /\ at[i] \in Nat /\ at[i] <= Len(c)
    OBVIOUS
<1>1. T \in SUBSET Nat
    OBVIOUS
<1>2. SUFFICES ASSUME T # {} PROVE FALSE
  <2>1. n \in 0 .. n
      OBVIOUS
  <2> HIDE DEF Same
  <2>2. Same(n)
      BY <2>1
  <2> QED
      BY <2>2 DEF Same
<1> HIDE DEF T
<1>3. PICK i \in T : \A j \in T : i <= j
    BY <1>1, <1>2, LeastOf
<1>4. i \in 0 .. n /\ ~Same(i)
    BY DEF T
<1>5. Same(0)
  <2> USE <1>0
  <2>1. 0 \in 0 .. n
      OBVIOUS
  <2>2. ASSUME NEW s \in Seq(Byte), NEW j \in Nat, j <= Len(s) PROVE Between(s, j, j) = <<>>
    <3>1. Between(s, j, j) = SubSeq(s, j + 1, j)
        BY Zenon DEF Between
    <3> QED
        BY <2>2, <3>1
  <2> QED
      BY <2>1, <2>2, Zenon
<1>6. i # 0
    BY <1>4, <1>5
<1>7. i - 1 \in 0 .. n /\ i \in 1 .. n /\ ~(i <= i - 1) /\ 0 \in 0 .. n
    BY <1>4, <1>6
<1>8. Same(i - 1)
    BY <1>3, <1>7, Zenon DEF T
<1>9. /\ cut[0] <= cut[i - 1] /\ cut[i - 1] <= cut[i]
      /\ at[0] <= at[i - 1] /\ at[i - 1] <= at[i]
  <2>1. cut \in [0 .. n -> Nat] /\ at \in [0 .. n -> Nat]
      BY <1>0
  <2>2. 0 <= i - 1
      BY <1>7
  <2>3. cut[0] <= cut[i - 1]
      BY <1>7, <2>1, <2>2, Ascending, Zenon
  <2>4. at[0] <= at[i - 1]
      BY <1>7, <2>1, <2>2, Ascending, Zenon
  <2> QED
      BY <1>0, <1>7, <2>3, <2>4
<1>10. ASSUME NEW s \in Seq(Byte), NEW p \in Nat, NEW q \in Nat, NEW r \in Nat,
              p <= q, q <= r, r <= Len(s)
       PROVE  Between(s, p, q) \o Between(s, q, r) = Between(s, p, r)
    BY <1>10, SlicesMeet
<1>11. Between(b, cut[0], cut[i - 1]) \o Between(b, cut[i - 1], cut[i]) = Between(b, cut[0], cut[i])
  <2> DEFINE p == cut[0]
             q == cut[i - 1]
             r == cut[i]
  <2>1. p \in Nat /\ q \in Nat /\ r \in Nat /\ p <= q /\ q <= r /\ r <= Len(b)
      BY <1>0, <1>4, <1>7, <1>9, Zenon
  <2> HIDE DEF p, q, r
  <2>2. Between(b, p, q) \o Between(b, q, r) = Between(b, p, r)
      BY <1>10, <2>1, Zenon
  <2> QED
      BY <2>2, Zenon DEF p, q, r
<1>12. Between(c, at[0], at[i - 1]) \o Between(c, at[i - 1], at[i]) = Between(c, at[0], at[i])
  <2> DEFINE p == at[0]
             q == at[i - 1]
             r == at[i]
  <2>1. p \in Nat /\ q \in Nat /\ r \in Nat /\ p <= q /\ q <= r /\ r <= Len(c)
      BY <1>0, <1>4, <1>7, <1>9, Zenon
  <2> HIDE DEF p, q, r
  <2>2. Between(c, p, q) \o Between(c, q, r) = Between(c, p, r)
      BY <1>10, <2>1, Zenon
  <2> QED
      BY <2>2, Zenon DEF p, q, r
<1> QED
    BY <1>4, <1>7, <1>8, <1>11, <1>12, Zenon

\* The items of a container determine the slice they lie in.
LEMMA ItemsHaveOneEncoding ==
    ASSUME NEW k, \A w, x, y : Canonical(w, x, k) /\ Canonical(w, y, k) => x = y,
           NEW b \in Seq(Byte), NEW c \in Seq(Byte), NEW items, NEW cut, NEW at,
           ItemsEncoded(k, items, b, cut), ItemsEncoded(k, items, c, at)
    PROVE  Between(b, cut[0], cut[Len(items)]) = Between(c, at[0], at[Len(items)])
<1> DEFINE n == Len(items)
<1>1. /\ n \in Nat
      /\ cut \in [0 .. n -> 0 .. Len(b)] /\ at \in [0 .. n -> 0 .. Len(c)]
      /\ \A i \in 1 .. n : /\ cut[i - 1] < cut[i] /\ at[i - 1] < at[i]
                           /\ Canonical(items[i], Between(b, cut[i - 1], cut[i]), k)
                           /\ Canonical(items[i], Between(c, at[i - 1], at[i]), k)
    BY Zenon DEF ItemsEncoded
<1> HIDE DEF n
<1>2. \A i \in 1 .. n : /\ cut[i - 1] < cut[i] /\ at[i - 1] < at[i]
                        /\ Between(b, cut[i - 1], cut[i]) = Between(c, at[i - 1], at[i])
    BY <1>1, Zenon
<1>3. Between(b, cut[0], cut[n]) = Between(c, at[0], at[n])
    BY <1>1, <1>2, SamePieces
<1> QED
    BY <1>3 DEF n

\* Where the items have one encoding each, the container has one: its head and
\* theirs are the value's (encode.go 35-61).
LEMMA ContainersHaveOneEncoding ==
    ASSUME NEW k, \A w, x, y : Canonical(w, x, k - 1) /\ Canonical(w, y, k - 1) => x = y,
           NEW v, NEW e, NEW f, ContainerByARule(v, e, k), ContainerByARule(v, f, k)
    PROVE  e = f
<1> DEFINE Arr(d, b, items, cut, x) ==
               /\ Len(items) = Count(d)
               /\ v = [type |-> "array", items |-> items]
               /\ x = Header(4, d) \o Between(b, cut[0], cut[Len(items)])
           Map(d, b, items, cut, x) ==
               /\ Len(items) = 2 * Count(d)
               /\ v = [type |-> "map", entries |-> EntriesOf(Count(d), items)]
               /\ x = Header(5, d) \o Between(b, cut[0], cut[Len(items)])
<1>1. ASSUME NEW x, ContainerByARule(v, x, k)
      PROVE  \E d \in Lengths, b \in Seq(Byte) : \E items, cut :
                /\ ItemsEncoded(k - 1, items, b, cut)
                /\ Arr(d, b, items, cut, x) \/ Map(d, b, items, cut, x)
  <2>1. PICK d \in Lengths, b \in Seq(Byte) : \E items, cut :
           /\ k > 0 /\ ItemsEncoded(k - 1, items, b, cut)
           /\ \/ /\ Len(items) = Count(d)
                 /\ v = [type |-> "array", items |-> items]
                 /\ x = Header(4, d) \o Between(b, cut[0], cut[Len(items)])
              \/ /\ Len(items) = 2 * Count(d)
                 /\ KeysAscend(KeysIn(Count(d), b, cut))
                 /\ v = [type |-> "map", entries |-> EntriesOf(Count(d), items)]
                 /\ x = Header(5, d) \o Between(b, cut[0], cut[Len(items)])
      BY <1>1, Zenon DEF ContainerByARule
  <2> QED
      BY <2>1, Zenon
<1>2. ASSUME NEW d, NEW b, NEW items, NEW cut, NEW x
      PROVE  /\ Arr(d, b, items, cut, x) => v.type = "array" /\ v.items = items
             /\ Map(d, b, items, cut, x) =>
                   v.type = "map" /\ v.entries = EntriesOf(Count(d), items)
    OBVIOUS
<1> HIDE DEF Arr, Map
<1>3. PICK d \in Lengths, b \in Seq(Byte) : \E items, cut :
          /\ ItemsEncoded(k - 1, items, b, cut)
          /\ Arr(d, b, items, cut, e) \/ Map(d, b, items, cut, e)
    BY <1>1, Zenon
<1>4. PICK items, cut :
          /\ ItemsEncoded(k - 1, items, b, cut)
          /\ Arr(d, b, items, cut, e) \/ Map(d, b, items, cut, e)
    BY <1>3, Zenon
<1>5. PICK g \in Lengths, c \in Seq(Byte) : \E is, at :
          /\ ItemsEncoded(k - 1, is, c, at)
          /\ Arr(g, c, is, at, f) \/ Map(g, c, is, at, f)
    BY <1>1, Zenon
<1>6. PICK is, at :
          /\ ItemsEncoded(k - 1, is, c, at)
          /\ Arr(g, c, is, at, f) \/ Map(g, c, is, at, f)
    BY <1>5, Zenon
<1>7. "array" # "map"
    OBVIOUS
<1>8. \A x \in Lengths : Count(x) \in Nat
    BY CountIsNat DEF Lengths, Numerals
<1>9. CASE v.type = "array"
  <2>1. Arr(d, b, items, cut, e) /\ Arr(g, c, is, at, f)
      BY <1>2, <1>4, <1>6, <1>7, <1>9, Zenon
  <2>2. items = is
    <3>1. v.items = items
        BY <1>2, <2>1
    <3>2. v.items = is
        BY <1>2, <2>1
    <3> QED
        BY <3>1, <3>2
  <2>3. d = g
    <3>1. Count(d) = Count(g)
        BY <2>1, <2>2, Zenon DEF Arr
    <3> QED
        BY <3>1, OneNumeral
  <2>4. Between(b, cut[0], cut[Len(items)]) = Between(c, at[0], at[Len(items)])
    <3> DEFINE l == k - 1
    <3>1. /\ ItemsEncoded(l, items, b, cut) /\ ItemsEncoded(l, items, c, at)
          /\ \A w, x, y : Canonical(w, x, l) /\ Canonical(w, y, l) => x = y
        BY <1>4, <1>6, <2>2, Zenon
    <3> HIDE DEF l
    <3> QED
        BY <3>1, ItemsHaveOneEncoding
  <2> QED
      BY <2>1, <2>2, <2>3, <2>4, Zenon DEF Arr
<1>10. CASE v.type = "map"
  <2>1. Map(d, b, items, cut, e) /\ Map(g, c, is, at, f)
      BY <1>2, <1>4, <1>6, <1>7, <1>10, Zenon
  <2>2. Count(d) = Count(g) /\ items = is
    <3>1. EntriesOf(Count(d), items) = EntriesOf(Count(g), is)
        BY <1>2, <2>1, Zenon
    <3>2. items = [i \in 1 .. Len(items) |-> items[i]] /\ is = [i \in 1 .. Len(is) |-> is[i]]
        BY <1>4, <1>6, Zenon DEF ItemsEncoded
    <3>3. /\ items = [i \in 1 .. 2 * Count(d) |-> items[i]]
          /\ is = [i \in 1 .. 2 * Count(g) |-> is[i]]
        BY <2>1, <3>2, Zenon DEF Map
    <3> DEFINE m == Count(d)
               l == Count(g)
    <3>4. m \in Nat /\ l \in Nat
        BY <1>8
    <3> HIDE DEF m, l
    <3>5. EntriesOf(m, items) = EntriesOf(l, is)
          /\ items = [i \in 1 .. 2 * m |-> items[i]] /\ is = [i \in 1 .. 2 * l |-> is[i]]
        BY <3>1, <3>3, Zenon DEF m, l
    <3>6. \A s, t : /\ s = [i \in 1 .. 2 * m |-> s[i]] /\ t = [i \in 1 .. 2 * l |-> t[i]]
                    /\ EntriesOf(m, s) = EntriesOf(l, t)
                    => m = l /\ s = t
        BY <3>4, SameEntries
    <3>7. m = l /\ items = is
        BY <3>5, <3>6, Zenon
    <3> QED
        BY <3>7 DEF m, l
  <2>3. d = g
      BY <2>2, OneNumeral
  <2>4. Between(b, cut[0], cut[Len(items)]) = Between(c, at[0], at[Len(items)])
    <3> DEFINE l == k - 1
    <3>1. /\ ItemsEncoded(l, items, b, cut) /\ ItemsEncoded(l, items, c, at)
          /\ \A w, x, y : Canonical(w, x, l) /\ Canonical(w, y, l) => x = y
        BY <1>4, <1>6, <2>2, Zenon
    <3> HIDE DEF l
    <3> QED
        BY <3>1, ItemsHaveOneEncoding
  <2> QED
      BY <2>1, <2>2, <2>3, <2>4, Zenon DEF Map
<1> QED
    BY <1>2, <1>4, <1>9, <1>10, Zenon

\* A value has one encoding.  So what is decoded twice to the same value was
\* the same bytes, and to compare keys as encoded, as decodeMap does, is to
\* compare keys (encode.go 12-97, decode.go 341-364).
THEOREM OneEncoding ==
    ASSUME NEW k \in Nat, NEW v, NEW e, NEW f, Canonical(v, e, k), Canonical(v, f, k)
    PROVE  e = f
<1> DEFINE T == {l \in Nat : \E w, x, y : /\ Canonical(w, x, l) /\ Canonical(w, y, l)
                                          /\ x # y}
<1>1. SUFFICES ASSUME T # {} PROVE FALSE
    BY Zenon
<1>2. PICK m \in T : \A l \in T : m <= l
  <2>1. T \in SUBSET Nat
      OBVIOUS
  <2> HIDE DEF T
  <2> QED
      BY <1>1, <2>1, LeastOf
<1>3. m \in Nat /\ \E w, x, y : Canonical(w, x, m) /\ Canonical(w, y, m) /\ x # y
    BY <1>2, Zenon
<1>4. PICK w, x, y : Canonical(w, x, m) /\ Canonical(w, y, m) /\ x # y
    BY <1>3
<1>5. /\ LeafByARule(w, x) \/ ContainerByARule(w, x, m)
      /\ LeafByARule(w, y) \/ ContainerByARule(w, y, m)
    BY <1>4, OnlyTheRules
<1>6. ~(LeafByARule(w, x) /\ LeafByARule(w, y))
    BY <1>4, LeavesHaveOneEncoding
<1>7. ASSUME NEW z, ContainerByARule(w, z, m) PROVE m > 0 /\ w.type \in {"array", "map"}
  <2>1. PICK d \in Lengths : \E items :
            /\ m > 0
            /\ \/ w = [type |-> "array", items |-> items]
               \/ w = [type |-> "map", entries |-> EntriesOf(Count(d), items)]
      BY <1>7, Zenon DEF ContainerByARule
  <2> QED
      BY <2>1
<1>8. ASSUME NEW z, LeafByARule(w, z) PROVE w.type \notin {"array", "map"}
  <2>1. w \in Leaves
      BY <1>8, LeafByARuleIsLeaf
  <2> QED
      BY <2>1 DEF Leaves
<1>9. ContainerByARule(w, x, m) /\ ContainerByARule(w, y, m)
    BY <1>5, <1>6, <1>7, <1>8, Zenon
<1>10. \A u, p, q : Canonical(u, p, m - 1) /\ Canonical(u, q, m - 1) => p = q
  <2>1. m - 1 \in Nat /\ ~(m <= m - 1)
      BY <1>3, <1>7, <1>9
  <2>2. m - 1 \notin T
      BY <1>2, <2>1, Zenon
  <2> QED
      BY <2>1, <2>2, Zenon
<1> QED
    BY <1>4, <1>9, <1>10, ContainersHaveOneEncoding, Zenon

\* No key comes before itself (canonicalCompare, decode.go 353-364).
LEMMA NotBeforeItself ==
    ASSUME NEW a \in Seq(Byte)
    PROVE  ~KeyBefore(a, a)
<1>1. /\ Len(a) \in Nat
      /\ \A i \in 1 .. Len(a) : a[i] \in Byte
    OBVIOUS
<1>2. \A x \in Byte : ~(x < x)
    BY DEF Byte
<1>3. ~(Len(a) < Len(a))
    BY <1>1
<1> QED
    BY <1>1, <1>2, <1>3, Zenon DEF KeyBefore

\* The keys of a value that has an encoding are not two of them the same.
LEMMA KeysDiffer ==
    ASSUME NEW k \in Nat, NEW v, NEW e, Canonical(v, e, k), v.type = "map"
    PROVE  \A i, j \in DOMAIN v.entries : v.entries[i].key = v.entries[j].key => i = j
<1>1. ContainerByARule(v, e, k)
  <2>1. ~LeafByARule(v, e)
    <3>1. v \notin Leaves
        BY DEF Leaves
    <3> QED
        BY <3>1, LeafByARuleIsLeaf
  <2> QED
      BY <2>1, OnlyTheRules
<1>2. PICK d \in Lengths, b \in Seq(Byte) : \E items, cut :
          /\ k > 0 /\ ItemsEncoded(k - 1, items, b, cut)
          /\ \/ v = [type |-> "array", items |-> items]
             \/ /\ Len(items) = 2 * Count(d)
                /\ KeysAscend(KeysIn(Count(d), b, cut))
                /\ v = [type |-> "map", entries |-> EntriesOf(Count(d), items)]
    BY <1>1, Zenon DEF ContainerByARule
<1>3. PICK items, cut :
          /\ k > 0 /\ ItemsEncoded(k - 1, items, b, cut)
          /\ \/ v = [type |-> "array", items |-> items]
             \/ /\ Len(items) = 2 * Count(d)
                /\ KeysAscend(KeysIn(Count(d), b, cut))
                /\ v = [type |-> "map", entries |-> EntriesOf(Count(d), items)]
    BY <1>2, Zenon
<1> DEFINE n == Count(d)
           l == k - 1
           keys == KeysIn(n, b, cut)
<1>4. v # [type |-> "array", items |-> items]
    OBVIOUS
<1>5. n \in Nat /\ l \in Nat
  <2>1. Count(d) \in Nat
      BY CountIsNat DEF Lengths, Numerals
  <2>2. k - 1 \in Nat
      BY <1>3
  <2> QED
      BY <2>1, <2>2
<1>6. v.entries = [i \in 1 .. n |-> [key |-> items[2 * i - 1], val |-> items[2 * i]]]
  <2>1. v = [type |-> "map", entries |-> EntriesOf(n, items)]
      BY <1>3, <1>4, Zenon
  <2>2. \A x : [type |-> "map", entries |-> x].entries = x
      OBVIOUS
  <2>3. v.entries = EntriesOf(n, items)
      BY <2>1, <2>2, Zenon
  <2> QED
      BY <2>3, Zenon DEF EntriesOf
<1>7. KeysAscend(keys) /\ keys = [i \in 1 .. n |-> Between(b, cut[2 * i - 2], cut[2 * i - 1])]
    BY <1>3, <1>4, Zenon DEF KeysIn
<1>8. /\ cut \in [0 .. 2 * n -> 0 .. Len(b)]
      /\ \A i \in 1 .. 2 * n : Canonical(items[i], Between(b, cut[i - 1], cut[i]), l)
    BY <1>3, <1>4, Zenon DEF ItemsEncoded
<1> HIDE DEF n, l, keys
<1>9. ASSUME NEW i \in 1 .. n
      PROVE  /\ Canonical(items[2 * i - 1], keys[i], l)
             /\ keys[i] \in Seq(Byte)
             /\ v.entries[i].key = items[2 * i - 1]
  <2> DEFINE p == cut[2 * i - 2]
             q == cut[2 * i - 1]
  <2>1. /\ 2 * i - 1 \in 1 .. 2 * n /\ (2 * i - 1) - 1 = 2 * i - 2
        /\ 2 * i - 1 \in 0 .. 2 * n /\ 2 * i - 2 \in 0 .. 2 * n
      BY <1>5
  <2>2. keys[i] = Between(b, p, q)
      BY <1>7
  <2>3. Canonical(items[2 * i - 1], Between(b, p, q), l)
      BY <1>8, <2>1, Zenon
  <2>4. v.entries[i].key = items[2 * i - 1]
      BY <1>6
  <2>5. p \in 0 .. Len(b) /\ q \in 0 .. Len(b)
      BY <1>8, <2>1, Zenon
  <2> HIDE DEF p, q
  <2>6. Between(b, p, q) \in Seq(Byte)
    <3>1. Len(b) \in Nat /\ \A x \in p + 1 .. q : b[x] \in Byte
        BY <2>5
    <3> QED
        BY <2>5, <3>1 DEF Between
  <2> QED
      BY <2>2, <2>3, <2>4, <2>6
<1>10. ASSUME NEW i \in 1 .. n, NEW j \in 1 .. n, i < j,
              v.entries[i].key = v.entries[j].key
       PROVE  FALSE
  <2> DEFINE x == keys[i]
             y == keys[j]
             w == items[2 * i - 1]
  <2>1. Canonical(w, x, l) /\ Canonical(w, y, l) /\ x \in Seq(Byte)
    <3>1. items[2 * i - 1] = items[2 * j - 1]
        BY <1>9, <1>10, Zenon
    <3> QED
        BY <1>9, <3>1, Zenon
  <2>2. KeyBefore(x, y)
    <3>1. DOMAIN keys = 1 .. n
        BY <1>7, Zenon
    <3> QED
        BY <1>7, <1>10, <3>1, Zenon DEF KeysAscend
  <2> HIDE DEF x, y, w
  <2>3. x = y
      BY <1>5, <2>1, OneEncoding
  <2> QED
      BY <2>1, <2>2, <2>3, NotBeforeItself
<1>11. DOMAIN v.entries = 1 .. n
    BY <1>6
<1>12. \A i, j \in 1 .. n : i < j \/ j < i \/ i = j
    BY <1>5
<1> QED
    BY <1>10, <1>11, <1>12, Zenon

\* Then no map that is returned has a key twice.
LEMMA CInvHasNoKeyTwice == CInv => NoKeyTwice
<1> SUFFICES ASSUME CInv, ret # None, ret.type = "map"
             PROVE  \A i, j \in DOMAIN ret.entries :
                        ret.entries[i].key = ret.entries[j].key => i = j
    BY Zenon DEF NoKeyTwice
<1> DEFINE e == Between(buf, Since(calls), pos)
           k == MaxDepth - Len(calls)
<1>1. Canonical(ret, e, k)
    BY Zenon DEF CInv, Encoded, Canonical
<1>2. k \in Nat
  <2>1. Len(calls) = depth /\ depth \in Nat /\ depth <= MaxDepth /\ MaxDepth \in Nat
      BY LimitAssumption DEF CInv, IInv, Shape, WorkIsBounded
  <2> QED
      BY <2>1
<1> HIDE DEF e, k
<1> QED
    BY <1>1, <1>2, KeysDiffer, Zenon

-----------------------------------------------------------------------------
(* Theorems.                                                               *)

\* Decode refuses no input that begins with a canonical encoding of a value of
\* at most MaxDepth levels and MaxElements elements, and returns this value and
\* where its encoding ends: no limit is off by one, no head or order of keys is
\* refused that the rules allow, and no bytes are the encodings of two values
\* (decode.go 96-111, 142-196, 238-364).
THEOREM NothingCanonicalRefused ==
    ASSUME None \notin Errors, NoneIsNoValue
    PROVE  Spec => []RefusesNothingCanonical
<1>1. TInv /\ [Next]_decoder => TInv'
    BY MovesKeepTInv, NextMoves
<1> QED
    BY InitHasTInv, TInvRefusesNothing, <1>1, PTL DEF Spec

\* What Decode accepts has as many elements as it counted, no more than
\* MaxElements (by WorkBounded), so the limit is one on values and not on how
\* they are encoded (decode.go 33-36, 238-242).
THEOREM ElementsCounted ==
    ASSUME None \notin Errors, NoneIsNoValue
    PROVE  Spec => []CountsElements
<1>1. TInv /\ [Next]_decoder => TInv'
    BY MovesKeepTInv, NextMoves
<1> QED
    BY InitHasTInv, TInvCounts, <1>1, PTL DEF Spec

\* Decode returns no map with two equal keys, at any depth: whichever entry
\* MapGetInt or MapGetText finds first is the only one (decode.go 67-86,
\* 341-349).
THEOREM NoKeyReturnedTwice ==
    ASSUME None \notin Errors, NoneIsNoValue
    PROVE  Spec => []NoKeyTwice
<1>1. CInv /\ [Next]_decoder => CInv'
    BY MovesKeepCInv, NextMoves
<1> QED
    BY InitHasCInv, CInvHasNoKeyTwice, <1>1, PTL DEF Spec

=============================================================================
