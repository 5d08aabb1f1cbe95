------------------------------ MODULE LeadRunProofs -----------------------------
(***************************************************************************)
(* Proofs about LeadRun and the modules it is made of, for every web, every*)
(* answer of providers and models, any numbers of workers, and all limits. *)
(* First what the list operations return; then, one part on the other, the *)
(* inductive invariants of the stages: SearchInv up to the merge, CrawlInv *)
(* up to the pages, LeadsInv up to the leads, ScoringInv up to the result. *)
(***************************************************************************)
EXTENDS LeadRun, FiniteSetTheorems, SequenceTheorems, TLAPS

(* The orders of the list operations. *)

\* `before' is a strict total order on a finite set: before[x] are those before x.
IsOrder(I, before) ==
    /\ IsFiniteSet(I) /\ before \in [I -> SUBSET I]
    /\ \A x \in I : x \notin before[x]
    /\ \A x, y \in I : x \in before[y] => before[x] \subseteq before[y]
    /\ \A x, y \in I : x = y \/ x \in before[y] \/ y \in before[x]

\* The ranks in an order are the numbers below its size, each once.
LEMMA Ranks ==
    ASSUME NEW I, NEW before, IsOrder(I, before)
    PROVE  /\ Cardinality(I) \in Nat
           /\ \A x \in I : Cardinality(before[x]) + 1 \in 1..Cardinality(I)
           /\ \A x, y \in I : x \in before[y] => Cardinality(before[x]) < Cardinality(before[y])
           /\ \A k \in 1..Cardinality(I) : \E x \in I : Cardinality(before[x]) = k - 1
<1>1. /\ IsFiniteSet(I) /\ before \in [I -> SUBSET I]
      /\ \A x \in I : x \notin before[x] /\ before[x] \subseteq I
  BY DEF IsOrder
<1>2. Cardinality(I) \in Nat
  BY <1>1, FS_CardinalityType
<1>3. \A x \in I : IsFiniteSet(before[x]) /\ Cardinality(before[x]) \in Nat
  BY <1>1, FS_Subset, FS_CardinalityType
<1>4. ASSUME NEW x \in I PROVE Cardinality(before[x]) < Cardinality(I)
  BY <1>1, <1>2, <1>3, FS_Subset, before[x] # I
<1>5. ASSUME NEW x \in I, NEW y \in I, x \in before[y]
      PROVE  Cardinality(before[x]) < Cardinality(before[y])
  <2>1. before[x] \subseteq before[y] /\ before[x] # before[y]
    BY <1>1, <1>5 DEF IsOrder
  <2> QED
    BY <1>3, <2>1, FS_Subset
<1> DEFINE n == Cardinality(I)
           rank == [x \in I |-> Cardinality(before[x]) + 1]
<1>6. rank \in [I -> 1..n]
  BY <1>2, <1>3, <1>4
<1>7. \A x, y \in I : rank[x] = rank[y] => x = y
  <2>1. \A x, y \in I : x = y \/ x \in before[y] \/ y \in before[x]
    BY DEF IsOrder
  <2>2. \A x, y \in I : rank[x] = rank[y] => Cardinality(before[x]) = Cardinality(before[y])
    BY <1>3
  <2> QED
    BY <1>3, <1>5, <2>1, <2>2
<1>8. rank \in Injection(I, 1..n)
  BY <1>6, <1>7 DEF Injection, IsInjective
<1>9. IsFiniteSet(1..n) /\ Cardinality(1..n) = n
  BY <1>2, FS_Interval
<1>10. rank \in Surjection(I, 1..n)
  BY <1>8, <1>9, FS_Injection
<1>11. \A k \in 1..n : \E x \in I : Cardinality(before[x]) = k - 1
  <2> TAKE k \in 1..n
  <2>1. PICK x \in I : rank[x] = k
    BY <1>10 DEF Surjection
  <2> QED
    BY <1>2, <1>3, <2>1
<1> QED
  BY <1>2, <1>3, <1>4, <1>5, <1>11

Enumerates(p, I, before) ==
    /\ \A x \in I : \E k \in 1..Cardinality(I) : p[k] = x
    /\ \A k, l \in 1..Cardinality(I) : k < l => p[k] \in before[p[l]] /\ p[k] # p[l]

\* What has the ranks in their turn is the enumeration of the order.
LEMMA Enumeration ==
    ASSUME NEW I, NEW before, IsOrder(I, before), NEW p,
           p \in [1..Cardinality(I) -> I],
           \A k \in 1..Cardinality(I) : Cardinality(before[p[k]]) = k - 1
    PROVE  Enumerates(p, I, before)
<1> DEFINE n == Cardinality(I)
<1>1. /\ n \in Nat
      /\ \A x \in I : Cardinality(before[x]) + 1 \in 1..n
      /\ \A x, y \in I : x \in before[y] => Cardinality(before[x]) < Cardinality(before[y])
      /\ \A k \in 1..n : \E x \in I : Cardinality(before[x]) = k - 1
  BY Ranks
<1>2. \A k \in 1..n : p[k] \in I /\ Cardinality(before[p[k]]) = k - 1
  OBVIOUS
<1>3. \A x, y \in I : x = y \/ x \in before[y] \/ y \in before[x]
  BY DEF IsOrder
<1>4. \A x \in I : x \notin before[x] /\ Cardinality(before[x]) \in Nat
  BY FS_Subset, FS_CardinalityType DEF IsOrder
<1>5. ASSUME NEW x \in I, NEW y \in I, Cardinality(before[x]) = Cardinality(before[y])
      PROVE  x = y
  <2>1. Cardinality(before[x]) \in Nat /\ Cardinality(before[y]) \in Nat
    BY <1>4
  <2>2. /\ x \in before[y] => Cardinality(before[x]) < Cardinality(before[y])
        /\ y \in before[x] => Cardinality(before[y]) < Cardinality(before[x])
    BY <1>1
  <2>3. x \notin before[y] /\ y \notin before[x]
    BY <1>5, <2>1, <2>2
  <2> QED
    BY <1>3, <2>3
<1>6. ASSUME NEW x \in I PROVE \E k \in 1..n : p[k] = x
  <2>1. Cardinality(before[x]) + 1 \in 1..n
    BY <1>1
  <2>2. PICK k \in 1..n : k = Cardinality(before[x]) + 1
    BY <2>1
  <2>3. Cardinality(before[p[k]]) = Cardinality(before[x])
    BY <1>2, <1>4, <2>2
  <2>4. p[k] \in I
    BY <1>2
  <2> QED
    BY <1>5, <2>3, <2>4
<1>7. ASSUME NEW k \in 1..n, NEW l \in 1..n, k < l
      PROVE  p[k] \in before[p[l]] /\ p[k] # p[l]
  <2>1. k - 1 < l - 1
    BY <1>1, <1>7
  <2>2. /\ p[k] \in I /\ Cardinality(before[p[k]]) = k - 1
        /\ p[l] \in I /\ Cardinality(before[p[l]]) = l - 1
    BY <1>2
  <2>3. ~(l - 1 < k - 1)
    BY <1>1, <1>7
  <2>4. p[l] \notin before[p[k]]
    BY <1>1, <2>2, <2>3
  <2>5. p[k] # p[l]
    BY <1>1, <1>7, <2>2
  <2> QED
    BY <1>3, <2>2, <2>4, <2>5
<1> QED
  BY <1>6, <1>7 DEF Enumerates

\* What a list is made of once it is evaluated.
LEMMA EachOfFunction ==
    ASSUME NEW n \in Nat, NEW f, f = [k \in 1..n |-> f[k]]
    PROVE  /\ SubSeq(f, 1, n) = f /\ Len(f) = n /\ DOMAIN f = 1..n
<1>1. f \in [1..n -> {f[k] : k \in 1..n}]
  OBVIOUS
<1>2. f \in Seq({f[k] : k \in 1..n}) /\ Len(f) = n /\ DOMAIN f = 1..n
  BY <1>1
<1> QED
  BY <1>2

\* The positions a filter keeps, in their order.
Follows(p, I) ==
    /\ p \in [1..Cardinality(I) -> I]
    /\ \A i \in I : \E k \in 1..Cardinality(I) : p[k] = i
    /\ \A k, l \in 1..Cardinality(I) : k < l => p[k] < p[l]

\* The least of the positions first: what has the ranks in their turn is their list.
LEMMA Ascending ==
    ASSUME NEW n \in Nat, NEW I, I \subseteq 1..n
    PROVE  /\ Cardinality(I) \in Nat
           /\ \A k \in 1..Cardinality(I) : \E x \in I : Cardinality({j \in I : j < x}) = k - 1
           /\ \A p \in [1..Cardinality(I) -> I] :
                (\A k \in 1..Cardinality(I) : Cardinality({j \in I : j < p[k]}) = k - 1)
                  => Follows(p, I)
<1> DEFINE before == [i \in I |-> {j \in I : j < i}]
<1>1. IsFiniteSet(I) /\ I \subseteq Nat
  <2>1. IsFiniteSet(1..n)
    BY FS_Interval
  <2>2. IsFiniteSet(I)
    BY <2>1, FS_Subset, Zenon
  <2>3. I \subseteq Nat
    OBVIOUS
  <2> QED
    BY <2>2, <2>3
<1>2. IsOrder(I, before)
  <2>1. before \in [I -> SUBSET I]
    OBVIOUS
  <2>2. \A x \in I : x \notin before[x]
    BY <1>1
  <2>3. \A x, y \in I : x \in before[y] => before[x] \subseteq before[y]
    <3> TAKE x, y \in I
    <3> HAVE x \in before[y]
    <3>1. x < y
      OBVIOUS
    <3>2. \A j \in I : j < x => j < y
      BY <1>1, <3>1
    <3> QED
      BY <3>2
  <2>4. \A x, y \in I : x = y \/ x \in before[y] \/ y \in before[x]
    BY <1>1
  <2> HIDE DEF before
  <2> QED
    BY <1>1, <2>1, <2>2, <2>3, <2>4 DEF IsOrder
<1>3. \A i \in I : before[i] = {j \in I : j < i}
  OBVIOUS
<1>4. \A i, j \in I : i \in before[j] => i < j
  OBVIOUS
<1> HIDE DEF before
<1>5. /\ Cardinality(I) \in Nat
      /\ \A k \in 1..Cardinality(I) : \E x \in I : Cardinality(before[x]) = k - 1
  BY <1>2, Ranks
<1>6. ASSUME NEW p \in [1..Cardinality(I) -> I],
             \A k \in 1..Cardinality(I) : Cardinality({j \in I : j < p[k]}) = k - 1
      PROVE  Follows(p, I)
  <2>1. \A k \in 1..Cardinality(I) : Cardinality(before[p[k]]) = k - 1
    BY <1>3, <1>6
  <2>2. Enumerates(p, I, before)
    BY <1>2, <2>1, Enumeration
  <2>3. \A k, l \in 1..Cardinality(I) : k < l => p[k] < p[l]
    BY <1>4, <2>2 DEF Enumerates
  <2> QED
    BY <2>2, <2>3 DEF Follows, Enumerates
<1> QED
  BY <1>3, <1>5, <1>6

\* At takes the members at the positions, in their order.
LEMMA AtTakes ==
    ASSUME NEW S, NEW s \in Seq(S), NEW I, I \subseteq DOMAIN s
    PROVE  /\ Cardinality(I) \in Nat
           /\ At(s, I) \in Seq(S) /\ Len(At(s, I)) = Cardinality(I)
           /\ \E p : /\ Follows(p, I)
                     /\ At(s, I) = [k \in 1..Cardinality(I) |-> s[p[k]]]
<1> DEFINE n == Cardinality(I)
           Picks(l) == SubSeq([k \in DOMAIN l |-> s[l[k]]], 1, Len(l))
           Ranked(all, k) == CHOOSE x \in all : Cardinality({j \in all : j < x}) = k - 1
           Asc(all) == [k \in 1..Cardinality(all) |-> Ranked(all, k)]
           p == Asc(I)
           t == [k \in 1..n |-> s[p[k]]]
<1>1. Len(s) \in Nat /\ I \subseteq 1..Len(s)
  OBVIOUS
<1>2. n \in Nat /\ \A k \in 1..n : \E x \in I : Cardinality({j \in I : j < x}) = k - 1
  BY <1>1, Ascending
<1>3. ASSUME NEW k \in 1..n
      PROVE  Ranked(I, k) \in I /\ Cardinality({j \in I : j < Ranked(I, k)}) = k - 1
  BY <1>2
<1>4. p \in [1..n -> I] /\ \A k \in 1..n : Cardinality({j \in I : j < p[k]}) = k - 1
  <2> HIDE DEF Ranked
  <2> QED
    BY <1>3
<1>5. Follows(p, I)
  <2> HIDE DEF p
  <2> QED
    BY <1>1, <1>4, Ascending
<1>8. (CHOOSE result \in {Asc(x) : x \in {I}} : TRUE) = p
  <2> HIDE DEF Asc
  <2> QED
    OBVIOUS
<1>9. (CHOOSE result \in {Picks(x) : x \in {p}} : TRUE) = Picks(p)
  <2> HIDE DEF Picks, p
  <2> QED
    OBVIOUS
<1>10. At(s, I) = (CHOOSE result \in {Picks(x) : x \in
                    {CHOOSE result \in {Asc(x) : x \in {I}} : TRUE}} : TRUE)
  BY DEF At, Each, With, InOrder
<1>11. At(s, I) = Picks(p)
  BY <1>8, <1>9, <1>10
<1>12. DOMAIN p = 1..n /\ Len(p) = n /\ p \in Seq(I)
  <2> HIDE DEF p, n
  <2> QED
    BY <1>2, <1>4
<1>13. t \in [1..n -> S]
  <2> HIDE DEF p, n
  <2> QED
    BY <1>4, ElementOfSeq
<1>14. SubSeq(t, 1, n) = t /\ t \in Seq(S) /\ Len(t) = n
  <2> HIDE DEF t, n
  <2> QED
    BY <1>2, <1>13
<1>15. At(s, I) = t
  <2> HIDE DEF p, n
  <2> QED
    BY <1>11, <1>12, <1>14
<1>16. \E q : Follows(q, I) /\ At(s, I) = [k \in 1..n |-> s[q[k]]]
  <2> HIDE DEF p, n
  <2> QED
    BY <1>5, <1>15
<1> QED
  <2> HIDE DEF p, t
  <2> QED
    BY <1>2, <1>14, <1>15, <1>16

\* Some position is the least.
LEMMA Least ==
    ASSUME NEW n \in Nat, NEW I, I \subseteq 1..n, I # {}
    PROVE  \E x \in I : \A y \in I : x <= y
<1>1. IsFiniteSet(I)
  <2>1. IsFiniteSet(1..n)
    BY FS_Interval
  <2> QED
    BY <2>1, FS_Subset, Zenon
<1>2. Cardinality(I) \in Nat /\ Cardinality(I) # 0
  BY <1>1, FS_CardinalityType, FS_EmptySet
<1>3. PICK x \in I : Cardinality({j \in I : j < x}) = 0
  <2>1. 1 \in 1..Cardinality(I)
    BY <1>2
  <2>2. PICK x \in I : Cardinality({j \in I : j < x}) = 1 - 1
    BY <2>1, Ascending
  <2> QED
    BY <2>2
<1>4. IsFiniteSet({j \in I : j < x})
  BY <1>1, FS_Subset
<1>5. {j \in I : j < x} = {}
  BY <1>3, <1>4, FS_EmptySet
<1> QED
  BY <1>5

\* What At takes are the members at the positions, and each position once.
LEMMA AtMembers ==
    ASSUME NEW S, NEW s \in Seq(S), NEW I, I \subseteq DOMAIN s
    PROVE  /\ ToSet(At(s, I)) = {s[i] : i \in I}
           /\ \E p \in [DOMAIN At(s, I) -> I] :
                /\ \A k \in DOMAIN At(s, I) : At(s, I)[k] = s[p[k]]
                /\ \A k, l \in DOMAIN At(s, I) : k < l => p[k] < p[l]
                /\ \A i \in I : \E k \in DOMAIN At(s, I) : p[k] = i
<1> DEFINE t == At(s, I)
           n == Cardinality(I)
<1>1. n \in Nat /\ t \in Seq(S) /\ Len(t) = n
  BY AtTakes
<1>2. PICK p : Follows(p, I) /\ t = [k \in 1..n |-> s[p[k]]]
  BY AtTakes
<1>3. DOMAIN t = 1..n
  BY <1>1
<1>4. /\ p \in [1..n -> I]
      /\ \A i \in I : \E k \in 1..n : p[k] = i
      /\ \A k, l \in 1..n : k < l => p[k] < p[l]
  BY <1>2 DEF Follows
<1>5. \A k \in 1..n : t[k] = s[p[k]]
  BY <1>2
<1>6. ToSet(t) = {t[k] : k \in 1..n}
  BY <1>3 DEF ToSet
<1> HIDE DEF t, n
<1>7. {t[k] : k \in 1..n} = {s[i] : i \in I}
  <2>1. \A k \in 1..n : t[k] \in {s[i] : i \in I}
    BY <1>4, <1>5
  <2>2. ASSUME NEW i \in I PROVE s[i] \in {t[k] : k \in 1..n}
    <3>1. PICK k \in 1..n : p[k] = i
      BY <1>4
    <3> QED
      BY <1>5, <3>1
  <2> QED
    BY <2>1, <2>2
<1>8. ToSet(t) = {s[i] : i \in I}
  BY <1>6, <1>7
<1>9. \E q \in [DOMAIN t -> I] :
         /\ \A k \in DOMAIN t : t[k] = s[q[k]]
         /\ \A k, l \in DOMAIN t : k < l => q[k] < q[l]
         /\ \A i \in I : \E k \in DOMAIN t : q[k] = i
  <2>1. p \in [DOMAIN t -> I]
    BY <1>3, <1>4
  <2>2. \A k \in DOMAIN t : t[k] = s[p[k]]
    BY <1>3, <1>5
  <2>3. \A k, l \in DOMAIN t : k < l => p[k] < p[l]
    BY <1>3, <1>4
  <2>4. \A i \in I : \E k \in DOMAIN t : p[k] = i
    BY <1>3, <1>4
  <2> QED
    BY <2>1, <2>2, <2>3, <2>4, Zenon
<1> QED
  BY <1>8, <1>9, Zenon DEF t

\* What holds between any two members at different positions holds in what At takes.
LEMMA AtDistinct ==
    ASSUME NEW S, NEW s \in Seq(S), NEW I, I \subseteq DOMAIN s, NEW key,
           \A i, j \in I : key[s[i]] = key[s[j]] => i = j
    PROVE  \A k, l \in DOMAIN At(s, I) : key[At(s, I)[k]] = key[At(s, I)[l]] => k = l
<1>1. PICK p \in [DOMAIN At(s, I) -> I] :
        /\ \A k \in DOMAIN At(s, I) : At(s, I)[k] = s[p[k]]
        /\ \A k, l \in DOMAIN At(s, I) : k < l => p[k] < p[l]
  BY AtMembers
<1>2. DOMAIN At(s, I) \subseteq Nat
  <2>1. At(s, I) \in Seq(S)
    BY AtTakes
  <2> QED
    BY <2>1
<1>3. I \subseteq Nat
  OBVIOUS
<1> TAKE k, l \in DOMAIN At(s, I)
<1> HAVE key[At(s, I)[k]] = key[At(s, I)[l]]
<1>4. p[k] = p[l]
  BY <1>1
<1>5. ~(k < l) /\ ~(l < k)
  BY <1>1, <1>3, <1>4
<1> QED
  BY <1>2, <1>5

\* UpTo is a prefix, of the length it should have.
LEMMA UpToTakes ==
    ASSUME NEW S, NEW s \in Seq(S), NEW n \in Nat
    PROVE  /\ UpTo(s, n) \in Seq(S)
           /\ Len(UpTo(s, n)) = IF n < Len(s) THEN n ELSE Len(s)
           /\ \A k \in 1..Len(UpTo(s, n)) : k \in 1..Len(s) /\ UpTo(s, n)[k] = s[k]
<1> DEFINE Cut(l) == SubSeq(l, 1, Min({n, Len(l)}))
<1>1. (CHOOSE r \in {Cut(x) : x \in {s}} : TRUE) = Cut(s)
  <2> HIDE DEF Cut
  <2> QED
    OBVIOUS
<1>2. UpTo(s, n) = SubSeq(s, 1, Min({n, Len(s)}))
  BY <1>1 DEF UpTo, With
<1> DEFINE m == IF n < Len(s) THEN n ELSE Len(s)
<1>3. m \in 0..Len(s) /\ m \in {n, Len(s)} /\ \A y \in {n, Len(s)} : m <= y
  OBVIOUS
<1>4. Min({n, Len(s)}) = m
  <2>1. \A x \in {n, Len(s)} : (\A y \in {n, Len(s)} : x <= y) => x = m
    OBVIOUS
  <2> HIDE DEF m
  <2> QED
    BY <1>3, <2>1 DEF Min
<1>5. UpTo(s, n) = SubSeq(s, 1, m)
  BY <1>2, <1>4
<1> HIDE DEF m
<1>6. /\ SubSeq(s, 1, m) \in Seq(S) /\ Len(SubSeq(s, 1, m)) = m
      /\ \A k \in 1..m : SubSeq(s, 1, m)[k] = s[k]
  BY <1>3
<1>7. \A k \in 1..m : k \in 1..Len(s)
  BY <1>3
<1> QED
  BY <1>5, <1>6, <1>7 DEF m

\* The positions of the first member of s for each value of key.
FirstOnes(s, key) == {i \in DOMAIN s : \A j \in 1..i-1 : key[s[j]] # key[s[i]]}

\* Each value of the key is that of one of these positions.
LEMMA FirstPlaces ==
    ASSUME NEW S, NEW s \in Seq(S), NEW key
    PROVE  LET I == FirstOnes(s, key) IN
           /\ I \subseteq DOMAIN s
           /\ \A i, j \in I : key[s[i]] = key[s[j]] => i = j
           /\ \A i \in DOMAIN s : \E j \in I : key[s[j]] = key[s[i]]
<1> DEFINE I == FirstOnes(s, key)
<1> USE DEF FirstOnes
<1>1. \A i, j \in I : key[s[i]] = key[s[j]] => i = j
  <2> TAKE i, j \in I
  <2> HAVE key[s[i]] = key[s[j]]
  <2>1. i \in Nat \ {0} /\ j \in Nat \ {0}
    OBVIOUS
  <2>2. ~(i < j)
    <3>1. i < j => i \in 1..j-1
      BY <2>1
    <3> QED
      BY <3>1
  <2>3. ~(j < i)
    <3>1. j < i => j \in 1..i-1
      BY <2>1
    <3> QED
      BY <3>1
  <2> QED
    BY <2>1, <2>2, <2>3
<1>2. ASSUME NEW i \in DOMAIN s PROVE \E j \in I : key[s[j]] = key[s[i]]
  <2> DEFINE Same == {j \in DOMAIN s : key[s[j]] = key[s[i]]}
  <2>1. Same \subseteq 1..Len(s) /\ Same # {} /\ Len(s) \in Nat
    BY <1>2
  <2>2. PICK j \in Same : \A k \in Same : j <= k
    <3> HIDE DEF Same
    <3> QED
      BY <2>1, Least
  <2>3. ASSUME NEW k \in 1..j-1 PROVE key[s[k]] # key[s[j]]
    <3>1. j \in 1..Len(s) /\ k \in 1..Len(s) /\ k < j
      BY <2>1, <2>3
    <3>2. k \notin Same
      BY <2>2, <3>1
    <3> QED
      BY <2>2, <3>1, <3>2
  <2> QED
    BY <2>2, <2>3
<1> QED
  BY <1>1, <1>2

\* The positions of a sorted list.
Sorts(p, keys, n) ==
    /\ p \in [1..n -> 1..n]
    /\ \A i \in 1..n : \E k \in 1..n : p[k] = i
    /\ \A k, l \in 1..n : k < l =>
         /\ p[k] # p[l] /\ keys[p[k]] <= keys[p[l]]
         /\ keys[p[k]] = keys[p[l]] => p[k] < p[l]

\* The positions that a sort puts before i.
Preceding(i, keys, n) == {j \in 1..n : keys[j] < keys[i] \/ (keys[j] = keys[i] /\ j < i)}

\* The order of a sort: the keys first, and the places of those that have the same.
LEMMA SortOrder ==
    ASSUME NEW n \in Nat, NEW keys \in [1..n -> Int]
    PROVE  /\ \A k \in 1..n : \E x \in 1..n : Cardinality(Preceding(x, keys, n)) = k - 1
           /\ \A p \in [1..n -> 1..n] :
                (\A k \in 1..n : Cardinality(Preceding(p[k], keys, n)) = k - 1)
                  => Sorts(p, keys, n)
<1> DEFINE I == 1..n
           Before(i) == {j \in I : keys[j] < keys[i] \/ (keys[j] = keys[i] /\ j < i)}
           before == [i \in I |-> Before(i)]
<1>1. IsFiniteSet(I) /\ I \subseteq Nat /\ Cardinality(I) = n
  BY FS_Interval
<1>2. IsOrder(I, before)
  <2>1. before \in [I -> SUBSET I]
    OBVIOUS
  <2>2. \A x \in I : x \notin before[x]
    BY <1>1
  <2>3. \A x, y \in I : x \in before[y] => before[x] \subseteq before[y]
    <3> TAKE x, y \in I
    <3> HAVE x \in before[y]
    <3>1. keys[x] < keys[y] \/ (keys[x] = keys[y] /\ x < y)
      OBVIOUS
    <3>2. ASSUME NEW j \in I, keys[j] < keys[x] \/ (keys[j] = keys[x] /\ j < x)
          PROVE  keys[j] < keys[y] \/ (keys[j] = keys[y] /\ j < y)
      <4>1. keys[j] \in Int /\ keys[x] \in Int /\ keys[y] \in Int
        OBVIOUS
      <4>2. j \in Nat /\ x \in Nat /\ y \in Nat
        OBVIOUS
      <4> QED
        BY <3>1, <3>2, <4>1, <4>2
    <3> QED
      BY <3>2
  <2>4. \A x, y \in I : x = y \/ x \in before[y] \/ y \in before[x]
    <3> TAKE x, y \in I
    <3>1. keys[x] \in Int /\ keys[y] \in Int /\ x \in Nat /\ y \in Nat
      OBVIOUS
    <3>2. \/ x = y
          \/ keys[x] < keys[y] \/ (keys[x] = keys[y] /\ x < y)
          \/ keys[y] < keys[x] \/ (keys[y] = keys[x] /\ y < x)
      BY <3>1
    <3> QED
      BY <3>2
  <2> HIDE DEF before
  <2> QED
    BY <1>1, <2>1, <2>2, <2>3, <2>4 DEF IsOrder
<1>3. \A i \in I : before[i] = Before(i)
  OBVIOUS
<1>4. \A i, j \in I : i \in before[j] => keys[i] <= keys[j] /\ (keys[i] = keys[j] => i < j)
  OBVIOUS
<1> HIDE DEF before
<1>5. \A k \in 1..n : \E x \in I : Cardinality(before[x]) = k - 1
  <2> HIDE DEF I
  <2> QED
    BY <1>1, <1>2, Ranks
<1>6. ASSUME NEW p \in [1..n -> I], \A k \in 1..n : Cardinality(Before(p[k])) = k - 1
      PROVE  Sorts(p, keys, n)
  <2>1. \A k \in 1..n : Cardinality(before[p[k]]) = k - 1
    BY <1>3, <1>6
  <2>2. Enumerates(p, I, before)
    <3> HIDE DEF I
    <3> QED
      BY <1>1, <1>2, <2>1, Enumeration
  <2>3. /\ \A x \in I : \E k \in 1..n : p[k] = x
        /\ \A k, l \in 1..n : k < l => p[k] \in before[p[l]] /\ p[k] # p[l]
    BY <1>1, <2>2 DEF Enumerates
  <2> QED
    BY <1>4, <2>3 DEF Sorts
<1>7. \A k \in 1..n : \E x \in I : Cardinality(Before(x)) = k - 1
  BY <1>3, <1>5
<1>8. \A i : Before(i) = Preceding(i, keys, n)
  BY DEF Preceding
<1> HIDE DEF Before
<1> QED
  BY <1>6, <1>7, <1>8

\* A sorted list has the members of the list, in the order of the keys, stable.
LEMMA SortTakes ==
    ASSUME NEW S, NEW s \in Seq(S), NEW keys \in [DOMAIN s -> Int]
    PROVE  /\ InOrderOf(keys, s) \in Seq(S) /\ Len(InOrderOf(keys, s)) = Len(s)
           /\ \E p : /\ Sorts(p, keys, Len(s))
                     /\ InOrderOf(keys, s) = [k \in 1..Len(s) |-> s[p[k]]]
<1> DEFINE n == Len(s)
           Before(i) == {j \in DOMAIN s : keys[j] < keys[i] \/ (keys[j] = keys[i] /\ j < i)}
           Rank(k) == CHOOSE x \in DOMAIN s : Cardinality(Before(x)) = k - 1
           Picks(l) == SubSeq([k \in DOMAIN l |-> s[l[k]]], 1, Len(l))
           p == [k \in 1..Cardinality(DOMAIN s) |-> Rank(k)]
           t == [k \in 1..n |-> s[p[k]]]
<1>1. n \in Nat /\ DOMAIN s = 1..n /\ keys \in [1..n -> Int]
  OBVIOUS
<1>2. Cardinality(DOMAIN s) = n
  <2> HIDE DEF n
  <2>1. Cardinality(1..n) = n
    BY <1>1, FS_Interval
  <2> QED
    BY <1>1, <2>1
<1>3. ASSUME NEW i \in 1..n PROVE Before(i) = Preceding(i, keys, n)
  <2> HIDE DEF n
  <2> QED
    BY <1>1, <1>3 DEF Preceding
<1>4. /\ \A k \in 1..n : \E x \in 1..n : Cardinality(Before(x)) = k - 1
      /\ \A q \in [1..n -> 1..n] :
           (\A k \in 1..n : Cardinality(Before(q[k])) = k - 1) => Sorts(q, keys, n)
  <2> HIDE DEF n, Before
  <2> QED
    BY <1>1, <1>3, SortOrder
<1>5. ASSUME NEW k \in 1..n PROVE Rank(k) \in 1..n /\ Cardinality(Before(Rank(k))) = k - 1
  <2>1. \E x \in DOMAIN s : Cardinality(Before(x)) = k - 1
    BY <1>1, <1>4
  <2> HIDE DEF Before
  <2> QED
    BY <1>1, <2>1
<1>6. p \in [1..n -> 1..n] /\ \A k \in 1..n : Cardinality(Before(p[k])) = k - 1
  <2> HIDE DEF Rank, Before, n
  <2> QED
    BY <1>2, <1>5
<1>7. Sorts(p, keys, n)
  <2> HIDE DEF p, n, Before
  <2> QED
    BY <1>4, <1>6
<1>8. (CHOOSE result \in {Picks(x) : x \in {p}} : TRUE) = Picks(p)
  <2> HIDE DEF Picks, p
  <2> QED
    OBVIOUS
<1>9. InOrderOf(keys, s) = (CHOOSE result \in {Picks(x) : x \in {p}} : TRUE)
  BY DEF InOrderOf, Each, With, InOrder
<1>10. DOMAIN p = 1..n /\ Len(p) = n
  <2> HIDE DEF p, n
  <2> QED
    BY <1>1, <1>6
<1>11. t \in [1..n -> S]
  <2> HIDE DEF p, n
  <2>1. \A k \in 1..n : p[k] \in DOMAIN s
    BY <1>1, <1>6
  <2> QED
    BY <2>1, <1>1
<1>12. SubSeq(t, 1, n) = t /\ t \in Seq(S) /\ Len(t) = n
  <2> HIDE DEF t, n
  <2> QED
    BY <1>1, <1>11
<1>13. InOrderOf(keys, s) = t
  <2> HIDE DEF p, n
  <2> QED
    BY <1>8, <1>9, <1>10, <1>12
<1>14. \E q : Sorts(q, keys, n) /\ InOrderOf(keys, s) = [k \in 1..n |-> s[q[k]]]
  <2> HIDE DEF p, n
  <2> QED
    BY <1>7, <1>13
<1> QED
  <2> HIDE DEF p, t
  <2> QED
    BY <1>12, <1>13, <1>14

\* Its members are those of the list.
LEMMA SortMembers ==
    ASSUME NEW S, NEW s \in Seq(S), NEW keys \in [DOMAIN s -> Int]
    PROVE  ToSet(InOrderOf(keys, s)) = ToSet(s)
<1> DEFINE t == InOrderOf(keys, s)
           n == Len(s)
<1>1. n \in Nat /\ t \in Seq(S) /\ Len(t) = n /\ DOMAIN s = 1..n
  BY SortTakes
<1>2. PICK p : Sorts(p, keys, n) /\ t = [k \in 1..n |-> s[p[k]]]
  BY SortTakes
<1>3. ToSet(t) = {t[k] : k \in 1..n} /\ ToSet(s) = {s[i] : i \in 1..n}
  BY <1>1 DEF ToSet
<1>4. /\ \A k \in 1..n : p[k] \in 1..n /\ t[k] = s[p[k]]
      /\ \A i \in 1..n : \E k \in 1..n : p[k] = i
  BY <1>2 DEF Sorts
<1> HIDE DEF t, n
<1>5. \A i \in 1..n : \E k \in 1..n : t[k] = s[i]
  BY <1>4
<1>6. {t[k] : k \in 1..n} = {s[i] : i \in 1..n}
  <2>1. \A k \in 1..n : t[k] \in {s[i] : i \in 1..n}
    BY <1>4
  <2>2. \A i \in 1..n : s[i] \in {t[k] : k \in 1..n}
    BY <1>5
  <2> QED
    BY <2>1, <2>2
<1> QED
  BY <1>3, <1>6 DEF t

\* The places of the members of some lists, and those before one of them.
PlacesIn(lists) == UNION {{i} \X DOMAIN lists[i] : i \in DOMAIN lists}
EarlierPlaces(I, x) == {y \in I : y[1] < x[1] \/ (y[1] = x[1] /\ y[2] < x[2])}

\* The places are finitely many pairs of positions.
LEMMA PlacesFinite ==
    ASSUME NEW S, NEW lists \in Seq(Seq(S))
    PROVE  /\ IsFiniteSet(PlacesIn(lists))
           /\ \A x \in PlacesIn(lists) :
                /\ x = <<x[1], x[2]>> /\ x[1] \in 1..Len(lists)
                /\ x[2] \in DOMAIN lists[x[1]] /\ x[2] \in Nat
<1> DEFINE n == Len(lists)
           f == [i \in 1..n |-> {i} \X DOMAIN lists[i]]
           T == {{i} \X DOMAIN lists[i] : i \in 1..n}
<1>1. n \in Nat /\ DOMAIN lists = 1..n /\ \A i \in 1..n : lists[i] \in Seq(S)
  OBVIOUS
<1>2. \A i \in 1..n : DOMAIN lists[i] = 1..Len(lists[i]) /\ Len(lists[i]) \in Nat
  BY <1>1
<1>3. IsFiniteSet(1..n)
  BY <1>1, FS_Interval
<1>4. f \in Surjection(1..n, T)
  BY DEF Surjection
<1>5. IsFiniteSet(T)
  <2> HIDE DEF f, T, n
  <2> QED
    BY <1>3, <1>4, FS_Surjection
<1>6. ASSUME NEW i \in 1..n PROVE IsFiniteSet({i} \X DOMAIN lists[i])
  <2>1. IsFiniteSet({i})
    BY FS_Singleton
  <2>2. IsFiniteSet(1..Len(lists[i]))
    BY <1>2, FS_Interval
  <2>3. IsFiniteSet(DOMAIN lists[i])
    BY <1>2, <2>2
  <2> QED
    BY <2>1, <2>3, FS_Product, Zenon
<1>7. \A U \in T : IsFiniteSet(U)
  BY <1>6
<1>8. IsFiniteSet(UNION T)
  BY <1>5, <1>7, FS_UNION, Zenon
<1>9. PlacesIn(lists) = UNION T
  BY <1>1 DEF PlacesIn
<1>10. ASSUME NEW x \in UNION T
       PROVE  x = <<x[1], x[2]>> /\ x[1] \in 1..n /\ x[2] \in DOMAIN lists[x[1]] /\ x[2] \in Nat
  <2>1. PICK i \in 1..n : x \in {i} \X DOMAIN lists[i]
    OBVIOUS
  <2>2. x = <<x[1], x[2]>> /\ x[1] = i /\ x[2] \in DOMAIN lists[i]
    BY <2>1
  <2> QED
    BY <1>2, <2>2
<1> QED
  BY <1>8, <1>9, <1>10

\* Their order has every rank.
LEMMA PlacesOrdered ==
    ASSUME NEW S, NEW lists \in Seq(Seq(S))
    PROVE  /\ Cardinality(PlacesIn(lists)) \in Nat
           /\ \A k \in 1..Cardinality(PlacesIn(lists)) :
                \E x \in PlacesIn(lists) : Cardinality(EarlierPlaces(PlacesIn(lists), x)) = k - 1
           /\ \A x \in PlacesIn(lists) :
                /\ Cardinality(EarlierPlaces(PlacesIn(lists), x)) \in Nat
                /\ Cardinality(EarlierPlaces(PlacesIn(lists), x)) + 1
                     \in 1..Cardinality(PlacesIn(lists))
                /\ \A y \in PlacesIn(lists) :
                     Cardinality(EarlierPlaces(PlacesIn(lists), y))
                       = Cardinality(EarlierPlaces(PlacesIn(lists), x)) => y = x
<1> DEFINE I == PlacesIn(lists)
           before == [x \in I |-> EarlierPlaces(I, x)]
<1>1. IsFiniteSet(I) /\ \A x \in I : x = <<x[1], x[2]>> /\ x[1] \in Nat /\ x[2] \in Nat
  BY PlacesFinite
<1> HIDE DEF I
<1>2. \A x, y \in I : x \in before[y] <=> (x[1] < y[1] \/ (x[1] = y[1] /\ x[2] < y[2]))
  BY DEF EarlierPlaces
<1>3. before \in [I -> SUBSET I]
  BY DEF EarlierPlaces
<1>4. \A x \in I : before[x] = EarlierPlaces(I, x)
  OBVIOUS
<1> HIDE DEF before
<1>5. IsOrder(I, before)
  <2>1. \A x \in I : x \notin before[x]
    BY <1>1, <1>2
  <2>2. ASSUME NEW x \in I, NEW y \in I, x \in before[y] PROVE before[x] \subseteq before[y]
    <3>1. ASSUME NEW z \in I, z \in before[x] PROVE z \in before[y]
      <4>1. x[1] < y[1] \/ (x[1] = y[1] /\ x[2] < y[2])
        BY <1>2, <2>2
      <4>2. z[1] < x[1] \/ (z[1] = x[1] /\ z[2] < x[2])
        BY <1>2, <3>1
      <4>3. z[1] < y[1] \/ (z[1] = y[1] /\ z[2] < y[2])
        BY <1>1, <4>1, <4>2
      <4> QED
        BY <1>2, <4>3
    <3> QED
      BY <1>3, <3>1
  <2>3. \A x, y \in I : x = y \/ x \in before[y] \/ y \in before[x]
    <3> TAKE x, y \in I
    <3>1. x = <<x[1], x[2]>> /\ y = <<y[1], y[2]>>
      BY <1>1
    <3>2. x[1] = y[1] /\ x[2] = y[2] => x = y
      BY <3>1, Zenon
    <3>3. x[1] \in Nat /\ x[2] \in Nat /\ y[1] \in Nat /\ y[2] \in Nat
      BY <1>1
    <3> QED
      BY <1>2, <3>2, <3>3
  <2> QED
    BY <1>1, <1>3, <2>1, <2>2, <2>3 DEF IsOrder
<1>6. Cardinality(I) \in Nat /\ \A k \in 1..Cardinality(I) : \E x \in I : Cardinality(before[x]) = k - 1
  BY <1>5, Ranks
<1>7. \A k \in 1..Cardinality(I) : \E x \in I : Cardinality(EarlierPlaces(I, x)) = k - 1
  BY <1>4, <1>6
<1>8. \A x \in I : /\ Cardinality(EarlierPlaces(I, x)) \in Nat
                   /\ Cardinality(EarlierPlaces(I, x)) + 1 \in 1..Cardinality(I)
  <2>1. \A x \in I : Cardinality(before[x]) \in Nat
    BY <1>1, <1>3, FS_Subset, FS_CardinalityType
  <2> QED
    BY <1>4, <1>5, <2>1, Ranks
<1>9. \A x, y \in I : x # y => Cardinality(before[x]) # Cardinality(before[y])
  <2>1. \A x \in I : Cardinality(before[x]) \in Int
    BY <1>4, <1>8
  <2>2. \A x, y \in I : x \in before[y] => Cardinality(before[x]) < Cardinality(before[y])
    BY <1>5, Ranks
  <2>3. \A x, y \in I : x = y \/ x \in before[y] \/ y \in before[x]
    BY <1>5 DEF IsOrder
  <2> QED
    BY <2>1, <2>2, <2>3
<1> QED
  BY <1>4, <1>6, <1>7, <1>8, <1>9 DEF I

\* Joined lists have the members of the lists, each at the rank of its place.
LEMMA JoinedTyped ==
    ASSUME NEW S, NEW lists \in Seq(Seq(S))
    PROVE  /\ Joined(lists) \in Seq(S)
           /\ Len(Joined(lists)) = Cardinality(PlacesIn(lists))
           /\ \A x \in PlacesIn(lists) :
                Joined(lists)[Cardinality(EarlierPlaces(PlacesIn(lists), x)) + 1]
                  = lists[x[1]][x[2]]
<1> DEFINE Earlier(all, x) == {y \in all : y[1] < x[1] \/ (y[1] = x[1] /\ y[2] < x[2])}
           Ranked(all, k) == CHOOSE x \in all : Cardinality(Earlier(all, x)) = k - 1
           InTurn(all) == [k \in 1..Cardinality(all) |-> Ranked(all, k)]
           Places(ls) == UNION {{i} \X DOMAIN ls[i] : i \in DOMAIN ls}
           Picks(l) == SubSeq([k \in DOMAIN l |-> lists[l[k][1]][l[k][2]]], 1, Len(l))
           I == PlacesIn(lists)
           n == Cardinality(I)
           p == InTurn(I)
           t == [k \in 1..n |-> lists[p[k][1]][p[k][2]]]
<1>1. n \in Nat /\ \A k \in 1..n : \E x \in I : Cardinality(Earlier(I, x)) = k - 1
  BY PlacesOrdered DEF EarlierPlaces
<1>2. \A k \in 1..n : Ranked(I, k) \in I
  BY <1>1
<1>3. p \in [1..n -> I]
  <2> HIDE DEF Ranked, I
  <2> QED
    BY <1>2
<1>4. \A x \in I : lists[x[1]][x[2]] \in S
  <2> TAKE x \in I
  <2>1. x[1] \in 1..Len(lists) /\ x[2] \in DOMAIN lists[x[1]]
    BY PlacesFinite
  <2>2. lists[x[1]] \in Seq(S)
    BY <2>1
  <2> QED
    BY <2>1, <2>2
<1>5. t \in [1..n -> S]
  <2> HIDE DEF p, n, I
  <2> QED
    BY <1>3, <1>4
<1>6. Len(p) = n /\ DOMAIN p = 1..n
  <2> HIDE DEF p, n, I
  <2> QED
    BY <1>1, <1>3
<1>7. Picks(p) \in Seq(S) /\ Picks(p) = t /\ Len(t) = n
  <2>1. Picks(p) = SubSeq(t, 1, n)
    <3> HIDE DEF p, n, I
    <3> QED
      BY <1>6
  <2> HIDE DEF t, n, Picks
  <2>2. t \in Seq(S) /\ SubSeq(t, 1, n) = t /\ Len(t) = n
    BY <1>1, <1>5
  <2> QED
    BY <2>1, <2>2
<1>8. (CHOOSE r \in {InTurn(x) : x \in {I}} : TRUE) = p
  <2> HIDE DEF InTurn, I
  <2> QED
    OBVIOUS
<1>9. (CHOOSE r \in {Picks(x) : x \in {p}} : TRUE) = Picks(p)
  <2> HIDE DEF Picks, p
  <2> QED
    OBVIOUS
<1> DEFINE Inner(ls) ==
             CHOOSE r \in {SubSeq([k \in DOMAIN l |-> ls[l[k][1]][l[k][2]]], 1, Len(l)) :
                           l \in {CHOOSE r \in {InTurn(x) : x \in {Places(ls)}} : TRUE}} : TRUE
<1>10. Joined(lists) = (CHOOSE r \in {Inner(x) : x \in {lists}} : TRUE)
  BY DEF Joined, Each, With, InOrder
<1>11. (CHOOSE r \in {Inner(x) : x \in {lists}} : TRUE) = Inner(lists)
  <2> HIDE DEF Inner
  <2> QED
    OBVIOUS
<1>12. Places(lists) = I
  BY DEF PlacesIn
<1>13. Inner(lists) = Picks(p)
  <2>1. Inner(lists) = (CHOOSE r \in {Picks(x) :
                           x \in {CHOOSE r \in {InTurn(x) : x \in {Places(lists)}} : TRUE}} : TRUE)
    <3> HIDE DEF InTurn, Places
    <3> QED
      OBVIOUS
  <2> HIDE DEF InTurn, Places, Picks, I, Inner
  <2> QED
    BY <1>8, <1>9, <1>12, <2>1
<1>14. ASSUME NEW x \in I
       PROVE  t[Cardinality(Earlier(I, x)) + 1] = lists[x[1]][x[2]]
  <2> DEFINE k == Cardinality(Earlier(I, x)) + 1
  <2>1. /\ Cardinality(Earlier(I, x)) \in Nat /\ k \in 1..n
        /\ \A y \in I : Cardinality(Earlier(I, y)) = Cardinality(Earlier(I, x)) => y = x
    <3>1. /\ Cardinality(EarlierPlaces(I, x)) \in Nat
          /\ Cardinality(EarlierPlaces(I, x)) + 1 \in 1..n
          /\ \A y \in I : Cardinality(EarlierPlaces(I, y)) = Cardinality(EarlierPlaces(I, x))
                            => y = x
      <4> HIDE DEF n, I
      <4> QED
        BY PlacesOrdered DEF I, n
    <3>2. \A y : EarlierPlaces(I, y) = Earlier(I, y)
      BY DEF EarlierPlaces
    <3> HIDE DEF I, Earlier, n
    <3> QED
      BY <3>1, <3>2
  <2>2. p[k] = Ranked(I, k)
    <3> HIDE DEF k, I, Ranked
    <3> QED
      BY <2>1
  <2>3. Ranked(I, k) = x
    <3>1. Cardinality(Earlier(I, x)) = k - 1
      BY <2>1
    <3> HIDE DEF k, I, Earlier
    <3> QED
      BY <2>1, <3>1
  <2> HIDE DEF I, p, k, n
  <2> QED
    BY <2>1, <2>2, <2>3 DEF k
<1> HIDE DEF I, t, p, n, Picks, Inner
<1>15. Joined(lists) = t
  BY <1>7, <1>10, <1>11, <1>13
<1> QED
  BY <1>7, <1>14, <1>15 DEF I, n, EarlierPlaces

--------------------------------------------------------------------------------

(* What a plan is made of. *)

\* A list made of another, member for member.
LEMMA RowTyped ==
    ASSUME NEW S, NEW T, NEW s \in Seq(S), NEW f \in [DOMAIN s -> T]
    PROVE  /\ SubSeq(f, 1, Len(s)) = f /\ f \in Seq(T) /\ Len(f) = Len(s)
<1>1. f \in [1..Len(s) -> T] /\ Len(s) \in Nat
  OBVIOUS
<1> QED
  BY <1>1

--------------------------------------------------------------------------------
\* The words of an ICP.  (That a string of the code is in STRING is beyond the provers.)
Text == STRING \cup {"software", "us", "uk", "india", "germany", "docker", "react", "python", "go",
                     "rust", "cto", "head of engineering", "saas", "fintech", "healthcare",
                     "startup", "mid_market", "enterprise"}
IcpQueries == [DOMAIN NoIcp -> Seq(Text)]

PlannedQueries(signal) ==
    [signal : {signal}, priority : 1..5,
     asks : {"company", "company using", "tech stack", "migrating", "hiring engineer", "hiring",
             "engineer hiring", "outsource vendor", "outsourcing", "news", "funding news",
             "title", "department head"},
     terms : Seq(Text),
     only : {"anywhere", "stack sites", "job boards", "last month", "linkedin"}]

\* A builder's queries.
Built(queries, signal) ==
    queries \in Seq(PlannedQueries(signal)) /\ Len(queries) <= MostPerSignal

\* An ICP is made of lists of words.
LEMMA Fields ==
    ASSUME NEW q \in IcpQueries
    PROVE  /\ q.industries \in Seq(Text) /\ q.sizes \in Seq(Text) /\ q.maturity \in Seq(Text)
           /\ q.countries \in Seq(Text) /\ q.required \in Seq(Text)
           /\ q.preferred \in Seq(Text) /\ q.leaving \in Seq(Text)
           /\ q.adopting \in Seq(Text) /\ q.hiring \in Seq(Text) /\ q.projects \in Seq(Text)
           /\ q.models \in Seq(Text) /\ q.outsourcing \in Seq(Text)
           /\ q.events \in Seq(Text) /\ q.titles \in Seq(Text) /\ q.departments \in Seq(Text)
BY DEF IcpQueries, NoIcp

\* The cut keeps the type, and the limit.
LEMMA FirstFewBuilt ==
    ASSUME NEW signal, NEW s \in Seq(PlannedQueries(signal))
    PROVE  Built(FirstFew(s), signal)
<1>1. MostPerSignal \in Nat
  BY QueryPlannerAssumption DEF QueryPlannerAssumption
<1>2. UpTo(s, MostPerSignal) \in Seq(PlannedQueries(signal))
      /\ Len(UpTo(s, MostPerSignal)) = IF MostPerSignal < Len(s) THEN MostPerSignal ELSE Len(s)
  BY <1>1, UpToTakes
<1> QED
  BY <1>1, <1>2 DEF FirstFew, Built

\* Lists of one member.
LEMMA ListOfOne ==
    ASSUME NEW S, NEW x \in S
    PROVE  <<x>> \in Seq(S) /\ Len(<<x>>) = 1 /\ <<x>>[1] = x
OBVIOUS

\* Industries and technologies to ask for are words.
LEMMA IndustriesTyped ==
    ASSUME NEW q \in IcpQueries PROVE Industries(q) \in Seq(Text) /\ Techs(q) \in Seq(Text)
<1>1. "software" \in Text
  BY DEF Text
<1>2. <<"software">> \in Seq(Text)
  BY <1>1, ListOfOne, Zenon
<1> QED
  BY <1>2, Fields DEF Industries, Techs

\* So are the terms of a query.
LEMMA TermsTyped ==
    ASSUME NEW x \in Text, NEW hints \in Seq(Text) PROVE <<x>> \o hints \in Seq(Text)
<1>1. <<x>> \in Seq(Text)
  BY ListOfOne, Zenon
<1> QED
  BY <1>1, ConcatProperties, Zenon

\* Each builder makes queries of its own signal, and not more than the limit.
LEMMA CompanyBuilt ==
    ASSUME NEW q \in IcpQueries
    PROVE  Built(CompanyProfileQueries(q), "company_profile")
<1> DEFINE hints == SizeTerms(q) \o UpTo(q.countries, 2) \o UpTo(q.maturity, 1)
           Of(industry) == Query("company_profile", 1, "company", <<industry>> \o hints, "anywhere")
           s == Industries(q)
           made == [i \in DOMAIN s |-> Of(s[i])]
           first == {i \in DOMAIN q.sizes : \A j \in 1..i-1 : q.sizes[j] # q.sizes[i]}
<1>1. SizeTerms(q) = At(q.sizes, first)
  BY DEF SizeTerms, FirstOfEach, With
<1>2. SizeTerms(q) \in Seq(Text)
  BY <1>1, Fields, AtTakes
<1>3. hints \in Seq(Text)
  <2>1. UpTo(q.countries, 2) \in Seq(Text) /\ UpTo(q.maturity, 1) \in Seq(Text)
    BY Fields, UpToTakes
  <2> QED
    BY <1>2, <2>1
<1>4. s \in Seq(Text)
  BY IndustriesTyped
<1>5. \A x \in Text : Of(x) \in PlannedQueries("company_profile")
  <2> HIDE DEF hints
  <2>1. \A x \in Text : <<x>> \o hints \in Seq(Text)
    BY <1>3, TermsTyped
  <2> QED
    BY <2>1 DEF Query, PlannedQueries
<1>6. Each(s, Of) = SubSeq(made, 1, Len(s))
  <2> HIDE DEF Of, s
  <2> QED
    BY DEF Each, With
<1>7. made \in [DOMAIN s -> PlannedQueries("company_profile")]
  <2> HIDE DEF Of, s
  <2> QED
    BY <1>4, <1>5
<1>8. Each(s, Of) \in Seq(PlannedQueries("company_profile"))
  <2> HIDE DEF made, s, Of
  <2> QED
    BY <1>4, <1>6, <1>7, RowTyped
<1>9. CompanyProfileQueries(q) = FirstFew(Each(s, Of))
  BY DEF CompanyProfileQueries
<1> QED
  BY <1>8, <1>9, FirstFewBuilt

\* Lists of two members.
LEMMA ListOfTwo ==
    ASSUME NEW S, NEW x \in S, NEW y \in S PROVE <<x, y>> \in Seq(S)
OBVIOUS

\* A function on the first numbers is a list.
LEMMA ListTyped ==
    ASSUME NEW S, NEW n \in Nat, NEW f \in [1..n -> S] PROVE f \in Seq(S) /\ Len(f) = n
OBVIOUS

\* For the hiring signals.
LEMMA HiringBuilt ==
    ASSUME NEW q \in IcpQueries
    PROVE  Built(HiringSignalQueries(q), "hiring_signals")
<1> DEFINE industry == UpTo(q.industries, 1)
           place == UpTo(q.countries, 1)
           T == PlannedQueries("hiring_signals")
           ofTech(tech) == Query("hiring_signals", 2, "hiring engineer",
                              <<tech>> \o industry \o place, "job boards")
           ofKeyword(word) == Query("hiring_signals", 3, "hiring",
                                 <<word>> \o industry \o place, "anywhere")
           ofProject(type) == Query("hiring_signals", 3, "engineer hiring",
                                 <<type>> \o industry, "anywhere")
           s == UpTo(Techs(q), 3)
           t == UpTo(q.hiring, 2)
           u == UpTo(q.projects, 2)
<1>1. industry \in Seq(Text) /\ place \in Seq(Text)
  BY Fields, UpToTakes
<1>2. s \in Seq(Text) /\ t \in Seq(Text) /\ u \in Seq(Text)
  BY Fields, IndustriesTyped, UpToTakes
<1>3. \A x \in Text : <<x>> \o industry \o place \in Seq(Text) /\ <<x>> \o industry \in Seq(Text)
  <2> HIDE DEF industry, place
  <2> QED
    BY <1>1, TermsTyped
<1>4. \A x \in Text : ofTech(x) \in T /\ ofKeyword(x) \in T /\ ofProject(x) \in T
  <2> HIDE DEF industry, place
  <2> QED
    BY <1>3 DEF Query, PlannedQueries
<1> HIDE DEF ofTech, ofKeyword, ofProject, s, t, u, T
<1>5. Each(s, ofTech) \in Seq(T)
  <2> DEFINE f == [i \in DOMAIN s |-> ofTech(s[i])]
  <2>1. Each(s, ofTech) = SubSeq(f, 1, Len(s))
    BY DEF Each, With
  <2>2. f \in [DOMAIN s -> T]
    BY <1>2, <1>4
  <2> HIDE DEF f
  <2> QED
    BY <1>2, <2>1, <2>2, RowTyped
<1>6. Each(t, ofKeyword) \in Seq(T)
  <2> DEFINE f == [i \in DOMAIN t |-> ofKeyword(t[i])]
  <2>1. Each(t, ofKeyword) = SubSeq(f, 1, Len(t))
    BY DEF Each, With
  <2>2. f \in [DOMAIN t -> T]
    BY <1>2, <1>4
  <2> HIDE DEF f
  <2> QED
    BY <1>2, <2>1, <2>2, RowTyped
<1>7. Each(u, ofProject) \in Seq(T)
  <2> DEFINE f == [i \in DOMAIN u |-> ofProject(u[i])]
  <2>1. Each(u, ofProject) = SubSeq(f, 1, Len(u))
    BY DEF Each, With
  <2>2. f \in [DOMAIN u -> T]
    BY <1>2, <1>4
  <2> HIDE DEF f
  <2> QED
    BY <1>2, <2>1, <2>2, RowTyped
<1>8. HiringSignalQueries(q) = FirstFew(Each(s, ofTech) \o Each(t, ofKeyword) \o Each(u, ofProject))
  BY DEF HiringSignalQueries, ofTech, ofKeyword, ofProject, s, t, u
<1> QED
  BY <1>5, <1>6, <1>7, <1>8, ConcatProperties, FirstFewBuilt DEF T

\* For outsourcing.
LEMMA OutsourcingBuilt ==
    ASSUME NEW q \in IcpQueries
    PROVE  Built(OutsourcingSignalQueries(q), "outsourcing_signals")
<1> DEFINE industry == UpTo(Industries(q), 1)
           T == PlannedQueries("outsourcing_signals")
           vendors == Query("outsourcing_signals", 3, "outsource vendor", industry, "anywhere")
           more(term) == Query("outsourcing_signals", 4, "outsourcing",
                            <<term>> \o industry, "anywhere")
           s == UpTo(q.models, 2)
           t == UpTo(q.outsourcing, 2)
<1>1. industry \in Seq(Text)
  BY IndustriesTyped, UpToTakes
<1>2. s \in Seq(Text) /\ t \in Seq(Text)
  BY Fields, UpToTakes
<1>3. \A x \in Text : <<x>> \o industry \in Seq(Text)
  <2> HIDE DEF industry
  <2> QED
    BY <1>1, TermsTyped
<1>4. vendors \in T /\ \A x \in Text : more(x) \in T
  <2> HIDE DEF industry
  <2> QED
    BY <1>1, <1>3 DEF Query, PlannedQueries
<1> HIDE DEF vendors, more, s, t, T
<1>5. Each(s, more) \in Seq(T)
  <2> DEFINE f == [i \in DOMAIN s |-> more(s[i])]
  <2>1. Each(s, more) = SubSeq(f, 1, Len(s))
    BY DEF Each, With
  <2>2. f \in [DOMAIN s -> T]
    BY <1>2, <1>4
  <2> HIDE DEF f
  <2> QED
    BY <1>2, <2>1, <2>2, RowTyped
<1>6. Each(t, more) \in Seq(T)
  <2> DEFINE f == [i \in DOMAIN t |-> more(t[i])]
  <2>1. Each(t, more) = SubSeq(f, 1, Len(t))
    BY DEF Each, With
  <2>2. f \in [DOMAIN t -> T]
    BY <1>2, <1>4
  <2> HIDE DEF f
  <2> QED
    BY <1>2, <2>1, <2>2, RowTyped
<1>7. <<vendors>> \in Seq(T)
  BY <1>4, ListOfOne
<1>8. OutsourcingSignalQueries(q) = FirstFew(<<vendors>> \o Each(s, more) \o Each(t, more))
  BY DEF OutsourcingSignalQueries, vendors, more, s, t
<1> QED
  BY <1>5, <1>6, <1>7, <1>8, ConcatProperties, FirstFewBuilt DEF T

\* For business events.
LEMMA EventsBuilt ==
    ASSUME NEW q \in IcpQueries
    PROVE  Built(BusinessEventQueries(q), "business_events")
<1> DEFINE hints == UpTo(Industries(q), 1) \o UpTo(q.countries, 1)
           T == PlannedQueries("business_events")
           ofEvent(event) == Query("business_events", 3, "news", <<event>> \o hints, "last month")
           funding == Query("business_events", 4, "funding news", hints, "last month")
           s == UpTo(q.events, MostPerSignal)
<1>1. hints \in Seq(Text)
  <2>1. UpTo(Industries(q), 1) \in Seq(Text) /\ UpTo(q.countries, 1) \in Seq(Text)
    BY Fields, IndustriesTyped, UpToTakes
  <2> QED
    BY <2>1
<1>2. s \in Seq(Text)
  BY Fields, UpToTakes, QueryPlannerAssumption DEF QueryPlannerAssumption
<1>3. \A x \in Text : <<x>> \o hints \in Seq(Text)
  <2> HIDE DEF hints
  <2> QED
    BY <1>1, TermsTyped
<1>4. funding \in T /\ \A x \in Text : ofEvent(x) \in T
  <2> HIDE DEF hints
  <2> QED
    BY <1>1, <1>3 DEF Query, PlannedQueries
<1> HIDE DEF funding, ofEvent, s, T
<1>5. Each(s, ofEvent) \in Seq(T)
  <2> DEFINE f == [i \in DOMAIN s |-> ofEvent(s[i])]
  <2>1. Each(s, ofEvent) = SubSeq(f, 1, Len(s))
    BY DEF Each, With
  <2>2. f \in [DOMAIN s -> T]
    BY <1>2, <1>4
  <2> HIDE DEF f
  <2> QED
    BY <1>2, <2>1, <2>2, RowTyped
<1>6. <<funding>> \in Seq(T)
  BY <1>4, ListOfOne
<1>7. BusinessEventQueries(q) = FirstFew(Each(s, ofEvent) \o <<funding>>)
  BY DEF BusinessEventQueries, funding, ofEvent, s
<1> QED
  BY <1>5, <1>6, <1>7, ConcatProperties, FirstFewBuilt DEF T

\* For decision makers.
LEMMA DecisionMakersBuilt ==
    ASSUME NEW q \in IcpQueries
    PROVE  Built(DecisionMakerQueries(q), "decision_makers")
<1> DEFINE industry == UpTo(q.industries, 1)
           T == PlannedQueries("decision_makers")
           ofTitle(title) == Query("decision_makers", 4, "title", <<title>> \o industry, "linkedin")
           ofDepartment(dept) == Query("decision_makers", 5, "department head",
                                    <<dept>> \o industry, "anywhere")
           s == q.titles
           t == UpTo(q.departments, 2)
<1>1. industry \in Seq(Text)
  BY Fields, UpToTakes
<1>2. s \in Seq(Text) /\ t \in Seq(Text)
  BY Fields, UpToTakes
<1>3. \A x \in Text : <<x>> \o industry \in Seq(Text)
  <2> HIDE DEF industry
  <2> QED
    BY <1>1, TermsTyped
<1>4. \A x \in Text : ofTitle(x) \in T /\ ofDepartment(x) \in T
  <2> HIDE DEF industry
  <2> QED
    BY <1>3 DEF Query, PlannedQueries
<1> HIDE DEF ofTitle, ofDepartment, s, t, T
<1>5. Each(s, ofTitle) \in Seq(T)
  <2> DEFINE f == [i \in DOMAIN s |-> ofTitle(s[i])]
  <2>1. Each(s, ofTitle) = SubSeq(f, 1, Len(s))
    BY DEF Each, With
  <2>2. f \in [DOMAIN s -> T]
    BY <1>2, <1>4
  <2> HIDE DEF f
  <2> QED
    BY <1>2, <2>1, <2>2, RowTyped
<1>6. Each(t, ofDepartment) \in Seq(T)
  <2> DEFINE f == [i \in DOMAIN t |-> ofDepartment(t[i])]
  <2>1. Each(t, ofDepartment) = SubSeq(f, 1, Len(t))
    BY DEF Each, With
  <2>2. f \in [DOMAIN t -> T]
    BY <1>2, <1>4
  <2> HIDE DEF f
  <2> QED
    BY <1>2, <2>1, <2>2, RowTyped
<1>7. DecisionMakerQueries(q) = FirstFew(IF s # <<>> THEN Each(s, ofTitle)
                                                    ELSE Each(t, ofDepartment))
  BY DEF DecisionMakerQueries, ofTitle, ofDepartment, s, t
<1> QED
  BY <1>5, <1>6, <1>7, FirstFewBuilt DEF T

\* For the technology stack.
LEMMA TechnologyBuilt ==
    ASSUME NEW q \in IcpQueries
    PROVE  Built(TechnologyStackQueries(q), "technology_stack")
<1> DEFINE hint == UpTo(q.industries, 1)
           P == PlannedQueries("technology_stack")
           T == Seq(P)
           ofTech(tech) ==
             <<Query("technology_stack", 2, "company using", <<tech>> \o hint, "anywhere"),
               Query("technology_stack", 3, "tech stack", <<tech>> \o hint, "stack sites")>>
           ofMove(move) == Query("technology_stack", 3, "migrating", move \o hint, "anywhere")
           s == UpTo(Techs(q), MostPerSignal)
           moves == Zip(q.leaving, q.adopting)
<1>1. hint \in Seq(Text)
  BY Fields, UpToTakes
<1>2. s \in Seq(Text)
  BY Fields, IndustriesTyped, UpToTakes, QueryPlannerAssumption DEF QueryPlannerAssumption
<1>3. \A x \in Text : <<x>> \o hint \in Seq(Text)
  <2> HIDE DEF hint
  <2> QED
    BY <1>1, TermsTyped
<1>4. \A x \in Text : ofTech(x) \in T
  <2> HIDE DEF hint
  <2> TAKE x \in Text
  <2>1. /\ Query("technology_stack", 2, "company using", <<x>> \o hint, "anywhere") \in P
        /\ Query("technology_stack", 3, "tech stack", <<x>> \o hint, "stack sites") \in P
    BY <1>3 DEF Query, PlannedQueries
  <2> HIDE DEF P
  <2> QED
    BY <2>1, ListOfTwo
<1>5. moves \in Seq(Seq(Text))
  <2> DEFINE n == IF Len(q.leaving) <= Len(q.adopting) THEN Len(q.leaving) ELSE Len(q.adopting)
  <2>1. n \in Nat /\ n <= Len(q.leaving) /\ n <= Len(q.adopting)
    BY Fields
  <2>2. moves = [i \in 1..n |-> <<q.leaving[i], q.adopting[i]>>]
    BY DEF Zip
  <2> HIDE DEF n, moves
  <2>3. \A i \in 1..n : q.leaving[i] \in Text /\ q.adopting[i] \in Text
    BY Fields, <2>1
  <2>4. \A i \in 1..n : <<q.leaving[i], q.adopting[i]>> \in Seq(Text)
    BY <2>3, ListOfTwo
  <2>5. moves \in [1..n -> Seq(Text)]
    BY <2>2, <2>4
  <2> QED
    BY <2>1, <2>5, ListTyped
<1>6. \A move \in Seq(Text) : ofMove(move) \in P
  <2> HIDE DEF hint
  <2>1. \A move \in Seq(Text) : move \o hint \in Seq(Text)
    BY <1>1, ConcatProperties
  <2> QED
    BY <2>1 DEF Query, PlannedQueries
<1> HIDE DEF ofTech, ofMove, s, moves, T
<1>7. Each(s, ofTech) \in Seq(T)
  <2> DEFINE f == [i \in DOMAIN s |-> ofTech(s[i])]
  <2>1. Each(s, ofTech) = SubSeq(f, 1, Len(s))
    BY DEF Each, With
  <2>2. f \in [DOMAIN s -> T]
    BY <1>2, <1>4
  <2> HIDE DEF f
  <2> QED
    BY <1>2, <2>1, <2>2, RowTyped
<1>8. Each(moves, ofMove) \in Seq(P)
  <2> DEFINE f == [i \in DOMAIN moves |-> ofMove(moves[i])]
  <2>1. Each(moves, ofMove) = SubSeq(f, 1, Len(moves))
    BY DEF Each, With
  <2>2. f \in [DOMAIN moves -> P]
    <3> HIDE DEF P
    <3> QED
      BY <1>5, <1>6
  <2> HIDE DEF f, P
  <2> QED
    BY <1>5, <2>1, <2>2, RowTyped
<1>9. Joined(Each(s, ofTech)) \in Seq(P)
  <2> HIDE DEF P
  <2> QED
    BY <1>7, JoinedTyped DEF T
<1>10. TechnologyStackQueries(q) = FirstFew(Joined(Each(s, ofTech)) \o Each(moves, ofMove))
  BY DEF TechnologyStackQueries, ofTech, ofMove, s, moves
<1> HIDE DEF P
<1>11. Joined(Each(s, ofTech)) \o Each(moves, ofMove) \in Seq(P)
  BY <1>8, <1>9, ConcatProperties
<1> QED
  BY <1>10, <1>11, FirstFewBuilt DEF P

Planned == UNION {PlannedQueries(signal) : signal \in Signals}

\* The plan is a list of queries.
LEMMA PlanTyped ==
    ASSUME NEW q \in IcpQueries
    PROVE  PlanOf(q) \in Seq(Planned)
<1>1. \A signal \in Signals : PlannedQueries(signal) \subseteq Planned
  BY DEF Planned
<1>2. ASSUME NEW signal \in Signals, NEW s, Built(s, signal) PROVE s \in Seq(Planned)
  BY <1>1, <1>2, SeqMonotonic DEF Built
<1>3. /\ CompanyProfileQueries(q) \in Seq(Planned)
      /\ TechnologyStackQueries(q) \in Seq(Planned)
      /\ HiringSignalQueries(q) \in Seq(Planned)
      /\ OutsourcingSignalQueries(q) \in Seq(Planned)
      /\ BusinessEventQueries(q) \in Seq(Planned)
      /\ DecisionMakerQueries(q) \in Seq(Planned)
  <2>1. /\ "company_profile" \in Signals /\ "technology_stack" \in Signals
        /\ "hiring_signals" \in Signals /\ "outsourcing_signals" \in Signals
        /\ "business_events" \in Signals /\ "decision_makers" \in Signals
    BY DEF Signals
  <2> QED
    BY <1>2, <2>1, CompanyBuilt, TechnologyBuilt, HiringBuilt, OutsourcingBuilt, EventsBuilt,
       DecisionMakersBuilt
<1> QED
  BY <1>3 DEF PlanOf

\* What the searches read of a query.
LEMMA PlannedFields ==
    ASSUME NEW x \in Planned PROVE x.signal \in Signals /\ x.priority \in Int
<1>1. PICK signal \in Signals : x \in PlannedQueries(signal)
  BY DEF Planned
<1>2. x.signal \in {signal} /\ x.priority \in 1..5
  BY <1>1, Zenon DEF PlannedQueries
<1> QED
  BY <1>2

\* The sort by priority keeps the type.
LEMMA ByPriorityTyped ==
    ASSUME NEW plan_ \in Seq(Planned)
    PROVE  ByPriority(plan_) \in Seq(Planned)
<1> DEFINE keys == [i \in DOMAIN plan_ |-> plan_[i].priority]
<1>1. ByPriority(plan_) = InOrderOf(keys, plan_)
  BY DEF ByPriority, SortedOn, With
<1>2. keys \in [DOMAIN plan_ -> Int]
  BY PlannedFields
<1> HIDE DEF keys
<1> QED
  BY <1>1, <1>2, SortTakes

\* What a request says of a list of words.
LEMMA SaidTyped ==
    ASSUME NEW terms \in Seq(Text), NEW text PROVE Said(terms, text) \in Seq(Text)
<1> DEFINE I == {i \in DOMAIN terms : Says(text, terms[i])}
<1>1. Said(terms, text) = At(terms, I)
  BY DEF Said, Filter, With
<1> QED
  BY <1>1, AtTakes

\* Whatever the request is made of is an ICP.
LEMMA IcpTyped ==
    Icps \subseteq IcpQueries /\ NoIcp \in IcpQueries
<1>1. NoIcp \in IcpQueries
  BY DEF NoIcp, IcpQueries
<1>2. Understandings \subseteq IcpQueries
  <2>1. \A s \in Seq(STRING) : s \in Seq(Text)
    BY SeqMonotonic DEF Text
  <2> QED
    BY <2>1, IcpParserAssumption DEF IcpParserAssumption, IcpQueries
<1>3. KeywordIcp(Request) \in IcpQueries
  <2> DEFINE sizes == <<"startup", "mid_market", "enterprise">>
             I == {i \in DOMAIN sizes : \E word \in KwsOfSize(sizes[i]) : Says(Request, word)}
             f == Filter(sizes, LAMBDA size : \E word \in KwsOfSize(size) : Says(Request, word))
  <2>1. /\ LocationKws \in Seq(Text) /\ TechKws \in Seq(Text) /\ TitleKws \in Seq(Text)
        /\ IndustryKws \in Seq(Text) /\ sizes \in Seq(Text)
    BY DEF LocationKws, TechKws, TitleKws, IndustryKws, Text
  <2>2. f = At(sizes, I)
    <3> HIDE DEF sizes
    <3> QED
      BY DEF Filter, With
  <2>3. f \in Seq(Text)
    <3> HIDE DEF sizes, f
    <3> QED
      BY <2>1, <2>2, AtTakes
  <2>4. /\ Said(LocationKws, Request) \in Seq(Text) /\ Said(TechKws, Request) \in Seq(Text)
        /\ Said(TitleKws, Request) \in Seq(Text) /\ Said(IndustryKws, Request) \in Seq(Text)
    BY <2>1, SaidTyped
  <2>5. KeywordIcp(Request) =
          [NoIcp EXCEPT
             !.countries = Said(LocationKws, Request), !.required = Said(TechKws, Request),
             !.titles = Said(TitleKws, Request), !.industries = Said(IndustryKws, Request),
             !.sizes = f]
    BY DEF KeywordIcp
  <2> HIDE DEF f
  <2> QED
    BY <1>1, <2>3, <2>4, <2>5 DEF IcpQueries
<1> QED
  BY <1>1, <1>2, <1>3 DEF Icps

--------------------------------------------------------------------------------

(* Selecting from what was found. *)

\* Some position is the greatest.
LEMMA Greatest ==
    ASSUME NEW n \in Nat, NEW I, I \subseteq 1..n, I # {}
    PROVE  \E x \in I : \A y \in I : y <= x
<1> DEFINE J == {n + 1 - i : i \in I}
<1>0. J \subseteq 1..n
  OBVIOUS
<1>1. J \subseteq 1..n /\ J # {}
  BY <1>0
<1>2. PICK m \in J : \A y \in J : m <= y
  <2> HIDE DEF J
  <2> QED
    BY <1>1, Least
<1>3. PICK x \in I : m = n + 1 - x
  OBVIOUS
<1>4. ASSUME NEW y \in I PROVE y <= x
  <2>1. n + 1 - y \in J
    OBVIOUS
  <2>2. m <= n + 1 - y /\ x \in 1..n /\ y \in 1..n
    BY <1>2, <2>1
  <2> QED
    BY <1>3, <2>2
<1> QED
  BY <1>4

\* What At takes from a list without repetitions has none.
LEMMA AtInjective ==
    ASSUME NEW S, NEW s \in Seq(S), NEW I, I \subseteq DOMAIN s, IsInjective(s)
    PROVE  IsInjective(At(s, I))
<1> DEFINE t == At(s, I)
<1>1. PICK p \in [DOMAIN t -> I] :
        /\ \A k \in DOMAIN t : t[k] = s[p[k]]
        /\ \A k, l \in DOMAIN t : k < l => p[k] < p[l]
  BY AtMembers
<1>2. DOMAIN t \subseteq Nat /\ I \subseteq Nat
  <2>1. t \in Seq(S)
    BY AtTakes
  <2> QED
    BY <2>1
<1>3. \A i, j \in I : s[i] = s[j] => i = j
  BY DEF IsInjective
<1> HIDE DEF t
<1>4. ASSUME NEW k \in DOMAIN t, NEW l \in DOMAIN t, t[k] = t[l] PROVE k = l
  <2>1. p[k] = p[l]
    BY <1>1, <1>3, <1>4
  <2>2. ~(k < l) /\ ~(l < k)
    BY <1>1, <1>2, <2>1
  <2> QED
    BY <1>2, <2>2
<1> QED
  BY <1>4 DEF IsInjective, t

\* A prefix has the members of the list, each once if the list has.
LEMMA UpToInjective ==
    ASSUME NEW S, NEW s \in Seq(S), NEW n \in Nat
    PROVE  /\ ToSet(UpTo(s, n)) \subseteq ToSet(s)
           /\ IsInjective(s) => IsInjective(UpTo(s, n))
           /\ Len(s) <= n => UpTo(s, n) = s
<1> DEFINE t == UpTo(s, n)
<1>1. /\ t \in Seq(S) /\ Len(t) = IF n < Len(s) THEN n ELSE Len(s)
      /\ \A k \in 1..Len(t) : k \in 1..Len(s) /\ t[k] = s[k]
  BY UpToTakes
<1> HIDE DEF t
<1>2. DOMAIN t = 1..Len(t) /\ DOMAIN s = 1..Len(s)
  BY <1>1
<1>3. ToSet(t) \subseteq ToSet(s)
  BY <1>1, <1>2 DEF ToSet
<1>4. IsInjective(s) => IsInjective(t)
  BY <1>1, <1>2 DEF IsInjective
<1>5. Len(s) <= n => t = s
  BY <1>1
<1> QED
  BY <1>3, <1>4, <1>5 DEF t

\* What two lists have together, and when each member is there once.
LEMMA ConcatMembers ==
    ASSUME NEW S, NEW s \in Seq(S), NEW t \in Seq(S)
    PROVE  /\ ToSet(s \o t) = ToSet(s) \cup ToSet(t)
           /\ IsInjective(s) /\ IsInjective(t) /\ ToSet(s) \cap ToSet(t) = {}
                => IsInjective(s \o t)
<1> DEFINE c == s \o t
<1>1. /\ c \in Seq(S) /\ Len(c) = Len(s) + Len(t) /\ Len(s) \in Nat /\ Len(t) \in Nat
      /\ \A i \in 1..Len(s) + Len(t) : c[i] = IF i <= Len(s) THEN s[i] ELSE t[i - Len(s)]
      /\ DOMAIN c = 1..Len(s) + Len(t) /\ DOMAIN s = 1..Len(s) /\ DOMAIN t = 1..Len(t)
  OBVIOUS
<1> HIDE DEF c
<1>2. ASSUME NEW x \in ToSet(c) PROVE x \in ToSet(s) \cup ToSet(t)
  <2>1. PICK i \in 1..Len(s) + Len(t) : x = c[i]
    BY <1>1 DEF ToSet
  <2>2. CASE i <= Len(s)
    <3>1. i \in 1..Len(s) /\ x = s[i]
      BY <1>1, <2>1, <2>2
    <3> QED
      BY <1>1, <3>1 DEF ToSet
  <2>3. CASE ~(i <= Len(s))
    <3>1. i - Len(s) \in 1..Len(t) /\ x = t[i - Len(s)]
      BY <1>1, <2>1, <2>3
    <3> QED
      BY <1>1, <3>1 DEF ToSet
  <2> QED
    BY <2>2, <2>3
<1>3. ASSUME NEW x \in ToSet(s) PROVE x \in ToSet(c)
  <2>1. PICK i \in 1..Len(s) : x = s[i]
    BY <1>1 DEF ToSet
  <2>2. i \in 1..Len(s) + Len(t) /\ c[i] = x
    BY <1>1, <2>1
  <2> QED
    BY <1>1, <2>2 DEF ToSet
<1>4. ASSUME NEW x \in ToSet(t) PROVE x \in ToSet(c)
  <2>1. PICK i \in 1..Len(t) : x = t[i]
    BY <1>1 DEF ToSet
  <2>2. i + Len(s) \in 1..Len(s) + Len(t) /\ c[i + Len(s)] = x
    BY <1>1, <2>1
  <2> QED
    BY <1>1, <2>2 DEF ToSet
<1>5. ASSUME IsInjective(s), IsInjective(t), ToSet(s) \cap ToSet(t) = {}
      PROVE  IsInjective(c)
  <2>1. ASSUME NEW i \in 1..Len(c), NEW j \in 1..Len(c), c[i] = c[j], i <= Len(s)
        PROVE  i = j
    <3>1. c[i] = s[i] /\ i \in 1..Len(s)
      BY <1>1, <2>1
    <3>2. CASE j <= Len(s)
      <4>1. c[j] = s[j] /\ j \in 1..Len(s)
        BY <1>1, <3>2
      <4> QED
        BY <1>1, <1>5, <2>1, <3>1, <4>1 DEF IsInjective
    <3>3. CASE ~(j <= Len(s))
      <4>1. c[j] = t[j - Len(s)] /\ j - Len(s) \in 1..Len(t)
        BY <1>1, <3>3
      <4>2. c[i] \in ToSet(s) /\ c[j] \in ToSet(t)
        BY <1>1, <3>1, <4>1 DEF ToSet
      <4> QED
        BY <1>5, <2>1, <4>2
    <3> QED
      BY <3>2, <3>3
  <2>2. ASSUME NEW i \in 1..Len(c), NEW j \in 1..Len(c), c[i] = c[j],
               ~(i <= Len(s)), ~(j <= Len(s))
        PROVE  i = j
    <3>1. /\ c[i] = t[i - Len(s)] /\ i - Len(s) \in 1..Len(t)
          /\ c[j] = t[j - Len(s)] /\ j - Len(s) \in 1..Len(t)
      BY <1>1, <2>2
    <3>2. i - Len(s) = j - Len(s)
      BY <1>1, <1>5, <2>2, <3>1 DEF IsInjective
    <3> QED
      BY <1>1, <3>2
  <2>3. \A i, j \in 1..Len(c) : c[i] = c[j] => i = j
    BY <2>1, <2>2
  <2> QED
    BY <1>1, <2>3 DEF IsInjective
<1> QED
  BY <1>2, <1>3, <1>4, <1>5 DEF c

--------------------------------------------------------------------------------

\* No two of the URLs are of one page.
OfOwnPages(urls) == \A u, v \in urls : PageOf[u] = PageOf[v] => u = v

\* The merge keeps one URL for each page that was found.
LEMMA MergeTakes ==
    ASSUME NEW urls \in Seq(Urls)
    PROVE  LET first == FirstOfEachPage(urls)
               pagesFound == {PageOf[u] : u \in ToSet(urls)} IN
           /\ first \in Seq(Urls) /\ IsInjective(first) /\ OfOwnPages(ToSet(first))
           /\ {PageOf[u] : u \in ToSet(first)} = pagesFound
           /\ Len(first) = Cardinality(pagesFound)
<1> DEFINE I == FirstOnes(urls, PageOf)
           first == FirstOfEachPage(urls)
           n == Len(first)
           P == {PageOf[u] : u \in ToSet(urls)}
           f == [k \in 1..n |-> PageOf[first[k]]]
<1>1. first = At(urls, I)
  BY DEF FirstOfEachPage, FirstOfEach, FirstOnes, With
<1>2. /\ I \subseteq DOMAIN urls
      /\ \A i, j \in I : PageOf[urls[i]] = PageOf[urls[j]] => i = j
      /\ \A i \in DOMAIN urls : \E j \in I : PageOf[urls[j]] = PageOf[urls[i]]
  BY FirstPlaces
<1> HIDE DEF I
<1>3. first \in Seq(Urls)
  BY <1>1, <1>2, AtTakes
<1>4. ToSet(first) = {urls[i] : i \in I}
  BY <1>1, <1>2, AtMembers
<1>5. \A k, l \in DOMAIN first : PageOf[first[k]] = PageOf[first[l]] => k = l
  BY <1>1, <1>2, AtDistinct
<1> HIDE DEF first
<1>6. n \in Nat /\ DOMAIN first = 1..n
  BY <1>3
<1>7. IsInjective(first)
  BY <1>5 DEF IsInjective
<1>8. OfOwnPages(ToSet(first))
  BY <1>5 DEF OfOwnPages, ToSet
<1>9. {PageOf[u] : u \in ToSet(first)} = P
  <2>1. \A u \in ToSet(first) : u \in ToSet(urls)
    BY <1>2, <1>4 DEF ToSet
  <2>2. ASSUME NEW u \in ToSet(urls) PROVE \E v \in ToSet(first) : PageOf[v] = PageOf[u]
    <3>1. PICK i \in DOMAIN urls : u = urls[i]
      BY DEF ToSet
    <3> QED
      BY <1>2, <1>4, <3>1
  <2> QED
    BY <2>1, <2>2
<1>10. f \in Bijection(1..n, P)
  <2>1. \A x : x \in P <=> \E k \in 1..n : x = PageOf[first[k]]
    BY <1>6, <1>9 DEF ToSet
  <2>2. f \in [1..n -> P]
    BY <2>1
  <2>3. \A x \in P : \E k \in 1..n : f[k] = x
    BY <2>1
  <2>4. \A k, l \in 1..n : f[k] = f[l] => k = l
    BY <1>5, <1>6
  <2> HIDE DEF f, P, n
  <2> QED
    BY <2>2, <2>3, <2>4 DEF Bijection, Injection, Surjection, IsInjective
<1>11. Cardinality(P) = n
  <2> HIDE DEF f, P, n
  <2> QED
    BY <1>6, <1>10, FS_CountingElements DEF ExistsBijection
<1> QED
  BY <1>3, <1>7, <1>8, <1>9, <1>11 DEF first

\* The members of a list that are in T, in their order.
Those(s, T) == At(s, {i \in DOMAIN s : s[i] \in T})

\* What a filter by a set keeps.
LEMMA ThoseTaken ==
    ASSUME NEW S, NEW s \in Seq(S), NEW T
    PROVE  /\ Those(s, T) \in Seq(S) /\ Those(s, T) \in Seq(S \cap T)
           /\ ToSet(Those(s, T)) = ToSet(s) \cap T
           /\ IsInjective(s) => IsInjective(Those(s, T))
<1> DEFINE I == {i \in DOMAIN s : s[i] \in T}
           t == Those(s, T)
<1>1. I \subseteq DOMAIN s /\ t = At(s, I)
  BY DEF Those
<1>2. t \in Seq(S)
  BY <1>1, AtTakes
<1>3. ToSet(t) = {s[i] : i \in I}
  BY <1>1, AtMembers
<1>4. ToSet(t) = ToSet(s) \cap T
  BY <1>3 DEF ToSet
<1>5. IsInjective(s) => IsInjective(t)
  BY <1>1, AtInjective
<1>6. \A k \in 1..Len(t) : t[k] \in S \cap T
  <2> HIDE DEF t
  <2> QED
    BY <1>2, <1>4 DEF ToSet
<1>7. t \in Seq(S \cap T)
  <2> HIDE DEF t
  <2> QED
    BY <1>2, <1>6
<1> QED
  BY <1>2, <1>4, <1>5, <1>7

--------------------------------------------------------------------------------

Visitable == [url : Urls \ Skipped, signal : BOOLEAN]

\* The signal pages of a domain, if something of the domain is not skipped.
LEMMA VisitTyped ==
    ASSUME NEW u \in Urls \ Skipped
    PROVE  <<[url |-> u, signal |-> FALSE]>>
             \o Each(SignalPages[DomainOf[u]], LAMBDA v : [url |-> v, signal |-> TRUE])
             \in Seq(Visitable)
<1> DEFINE s == SignalPages[DomainOf[u]]
           Of(v) == [url |-> v, signal |-> TRUE]
           made == [i \in DOMAIN s |-> Of(s[i])]
<1>1. s \in Seq(Urls) /\ ToSet(s) \cap Skipped = {}
  BY PipelineAssumption, WebCrawlAssumption, SignalPathsAssumption
     DEF PipelineAssumption, WebCrawlAssumption, SignalPathsAssumption
<1>2. made \in [DOMAIN s -> Visitable]
  <2> HIDE DEF s
  <2>1. \A i \in DOMAIN s : s[i] \in Urls \ Skipped
    BY <1>1 DEF ToSet
  <2> QED
    BY <2>1 DEF Visitable
<1>3. Each(s, Of) = SubSeq(made, 1, Len(s))
  <2> HIDE DEF Of, s
  <2> QED
    BY DEF Each, With
<1>4. Each(s, Of) \in Seq(Visitable)
  <2> HIDE DEF made, s, Of
  <2> QED
    BY <1>1, <1>2, <1>3, RowTyped
<1>5. [url |-> u, signal |-> FALSE] \in Visitable
  BY DEF Visitable
<1>6. <<[url |-> u, signal |-> FALSE]>> \in Seq(Visitable)
  BY <1>5, ListOfOne, Zenon
<1>7. <<[url |-> u, signal |-> FALSE]>> \o Each(s, Of) \in Seq(Visitable)
  <2> HIDE DEF s, Of
  <2> QED
    BY <1>4, <1>6, ConcatProperties, Zenon
<1> QED
  BY <1>7

\* What is visited are URLs, none of them skipped if the selected ones are not.
LEMMA VisitsTyped ==
    ASSUME NEW urls \in Seq(Urls \ Skipped)
    PROVE  Visits(urls) \in Seq(Visitable)
<1> DEFINE Of(u) == <<[url |-> u, signal |-> FALSE]>>
                      \o Each(SignalPages[DomainOf[u]], LAMBDA v : [url |-> v, signal |-> TRUE])
           made == [i \in DOMAIN urls |-> Of(urls[i])]
<1>1. \A u \in Urls \ Skipped : Of(u) \in Seq(Visitable)
  BY VisitTyped
<1>2. made \in [DOMAIN urls -> Seq(Visitable)]
  <2> HIDE DEF Of
  <2> QED
    BY <1>1
<1>3. Each(urls, Of) = SubSeq(made, 1, Len(urls))
  <2> HIDE DEF Of
  <2> QED
    BY DEF Each, With
<1>4. Each(urls, Of) \in Seq(Seq(Visitable))
  <2> HIDE DEF made, Of
  <2> QED
    BY <1>2, <1>3, RowTyped
<1>5. Visits(urls) = Joined(Each(urls, Of))
  BY DEF Visits
<1> QED
  BY <1>4, <1>5, JoinedTyped

OfDomain(I, dom, d) == {i \in I : dom[i] = d}
SameBefore(i, dom) == {j \in 1..i-1 : dom[j] = dom[i]}

\* A list has at most n members at the positions in I that are of domain d, if each of
\* them has less than n before it in the whole list.
LEMMA FewOfDomain ==
    ASSUME NEW m \in Nat, NEW dom, NEW n \in Nat \ {0}, NEW I, I \subseteq 1..m,
           \A i \in I : Cardinality(SameBefore(i, dom)) < n, NEW d
    PROVE  IsFiniteSet(OfDomain(I, dom, d)) /\ Cardinality(OfDomain(I, dom, d)) \in 0..n
<1> DEFINE D == {i \in I : dom[i] = d}
<1> SUFFICES IsFiniteSet(D) /\ Cardinality(D) \in 0..n
  BY DEF OfDomain
<1>1. IsFiniteSet(D)
  <2>1. IsFiniteSet(1..m)
    BY FS_Interval
  <2> QED
    BY <2>1, FS_Subset
<1>2. Cardinality(D) \in Nat
  BY <1>1, FS_CardinalityType
<1>3. CASE D = {}
  <2> HIDE DEF D
  <2> QED
    BY <1>1, <1>3, FS_EmptySet
<1>4. CASE D # {}
  <2>1. D \subseteq 1..m
    OBVIOUS
  <2>2. PICK x \in D : \A y \in D : y <= x
    <3> HIDE DEF D
    <3> QED
      BY <1>4, <2>1, Greatest
  <2> DEFINE B == {j \in 1..x-1 : dom[j] = dom[x]}
  <2>3. Cardinality(B) < n
    BY <2>2 DEF SameBefore
  <2>4. IsFiniteSet(B) /\ Cardinality(B) \in Nat
    <3>1. IsFiniteSet(1..x-1)
      BY <2>1, FS_Interval
    <3>2. IsFiniteSet(B)
      BY <3>1, FS_Subset
    <3> HIDE DEF B
    <3> QED
      BY <3>2, FS_CardinalityType
  <2>5. D \ {x} \subseteq B
    <3> SUFFICES ASSUME NEW y \in D, y # x PROVE y \in B
      OBVIOUS
    <3>1. y <= x /\ y \in 1..m /\ x \in 1..m /\ dom[y] = d /\ dom[x] = d
      BY <2>1, <2>2
    <3>2. y \in 1..x-1
      BY <3>1
    <3> QED
      BY <3>1, <3>2
  <2>6. Cardinality(D \ {x}) <= Cardinality(B)
    <3> HIDE DEF D, B
    <3> QED
      BY <2>4, <2>5, FS_Subset
  <2>7. Cardinality(D \ {x}) = Cardinality(D) - 1
    <3> HIDE DEF D, B
    <3> QED
      BY <1>1, <2>2, FS_RemoveElement
  <2> HIDE DEF D, B
  <2> QED
    BY <1>1, <1>2, <2>3, <2>4, <2>6, <2>7
<1> QED
  BY <1>1, <1>3, <1>4

\* With several pages per domain, no domain has more than perDomain.
LEMMA ExpandTakes ==
    ASSUME NEW urls \in Seq(Urls \ Skipped), perDomain \in Nat \ {0}
    PROVE  /\ Expand(urls) \in Seq(Urls \ Skipped)
           /\ \A d \in Domains :
                LET K == {k \in DOMAIN Expand(urls) : DomainOf[Expand(urls)[k]] = d}
                IN IsFiniteSet(K) /\ Cardinality(K) <= perDomain
<1> DEFINE v == Visits(urls)
           I == {i \in DOMAIN v : v[i].signal => \A j \in 1..i-1 : v[j].url # v[i].url}
           w == At(v, I)
           dom == [i \in DOMAIN w |-> DomainOf[w[i].url]]
           J == {i \in DOMAIN w : Cardinality({j \in 1..i-1 : dom[j] = dom[i]}) < perDomain}
           x == At(w, J)
           e == [k \in DOMAIN x |-> x[k].url]
           Url(visit) == visit.url
<1>1. v \in Seq(Visitable)
  BY VisitsTyped
<1>2. NotMet(v) = w /\ With(v, NotMet) = w
  BY DEF NotMet, With
<1> HIDE DEF v
<1>3. w \in Seq(Visitable)
  BY <1>1, AtTakes
<1> HIDE DEF w
<1>4. FirstOfDomain(w) = x
  <2>1. \A i \in DOMAIN w : \A j \in 1..i-1 : dom[j] = DomainOf[w[j].url]
    BY <1>3
  <2>2. J = {i \in DOMAIN w : Cardinality({j \in 1..i-1 : DomainOf[w[j].url] = DomainOf[w[i].url]})
                               < perDomain}
    <3>1. ASSUME NEW i \in DOMAIN w
          PROVE {j \in 1..i-1 : dom[j] = dom[i]}
                  = {j \in 1..i-1 : DomainOf[w[j].url] = DomainOf[w[i].url]}
      BY <2>1
    <3> HIDE DEF dom
    <3> QED
      BY <3>1
  <2> HIDE DEF J
  <2> QED
    BY <2>2 DEF FirstOfDomain
<1>5. J \subseteq DOMAIN w /\ DOMAIN w = 1..Len(w) /\ Len(w) \in Nat
  BY <1>3
<1>6. \A i \in J : Cardinality(SameBefore(i, dom)) < perDomain
  BY DEF SameBefore
<1> HIDE DEF J, dom
<1>7. x \in Seq(Visitable)
  BY <1>3, <1>5, AtTakes
<1>8. PICK p \in [DOMAIN x -> J] :
        /\ \A k \in DOMAIN x : x[k] = w[p[k]]
        /\ \A k, l \in DOMAIN x : k < l => p[k] < p[l]
  BY <1>3, <1>5, AtMembers
<1> HIDE DEF x
<1>9. Expand(urls) = e /\ e \in Seq(Urls \ Skipped) /\ DOMAIN e = DOMAIN x
  <2>1. Expand(urls) = Each(x, Url)
    <3>1. With(w, FirstOfDomain) = x
      BY <1>4 DEF With
    <3> QED
      BY <1>2, <3>1 DEF Expand, v
  <2>2. Each(x, Url) = SubSeq(e, 1, Len(x))
    BY DEF Each, With
  <2>3. e \in [DOMAIN x -> Urls \ Skipped]
    <3>1. \A k \in DOMAIN x : x[k] \in Visitable
      BY <1>7
    <3>2. \A k \in DOMAIN x : x[k].url \in Urls \ Skipped
      BY <3>1 DEF Visitable
    <3> QED
      BY <3>2
  <2> HIDE DEF e
  <2>4. SubSeq(e, 1, Len(x)) = e /\ e \in Seq(Urls \ Skipped)
    BY <1>7, <2>3, RowTyped
  <2>5. DOMAIN e = DOMAIN x
    BY <2>3
  <2> QED
    BY <2>1, <2>2, <2>4, <2>5
<1>10. ASSUME NEW d \in Domains
       PROVE  LET K == {k \in DOMAIN e : DomainOf[e[k]] = d}
              IN IsFiniteSet(K) /\ Cardinality(K) <= perDomain
  <2> DEFINE K == {k \in DOMAIN x : DomainOf[e[k]] = d}
             D == {i \in J : dom[i] = d}
             f == [k \in K |-> p[k]]
  <2>1. IsFiniteSet(D) /\ Cardinality(D) \in 0..perDomain
    <3>1. D = OfDomain(J, dom, d)
      BY DEF OfDomain
    <3> HIDE DEF D
    <3> QED
      BY <1>5, <1>6, <3>1, FewOfDomain
  <2>2. \A k \in K : p[k] \in D
    <3> TAKE k \in K
    <3>1. k \in DOMAIN x /\ p[k] \in J /\ x[k] = w[p[k]] /\ DomainOf[x[k].url] = d
      BY <1>8
    <3> QED
      BY <1>5, <3>1 DEF dom
  <2>3. \A k, l \in K : p[k] = p[l] => k = l
    <3>1. DOMAIN x \subseteq Nat /\ J \subseteq Nat
      BY <1>5, <1>7
    <3>2. ASSUME NEW k \in K, NEW l \in K, p[k] = p[l] PROVE k = l
      <4>1. k \in DOMAIN x /\ l \in DOMAIN x /\ p[k] \in Nat /\ p[l] \in Nat
        BY <1>8, <3>1
      <4>2. ~(k < l) /\ ~(l < k)
        BY <1>8, <3>2, <4>1
      <4> QED
        BY <3>1, <4>1, <4>2
    <3> QED
      BY <3>2
  <2>4. f \in Injection(K, D)
    <3> HIDE DEF K, D
    <3> QED
      BY <2>2, <2>3 DEF Injection, IsInjective
  <2>5. IsFiniteSet(K) /\ Cardinality(K) <= Cardinality(D)
    <3> HIDE DEF K, D, f
    <3> QED
      BY <2>1, <2>4, FS_Injection
  <2>6. Cardinality(K) \in Nat
    <3> HIDE DEF K
    <3> QED
      BY <2>5, FS_CardinalityType
  <2>7. Cardinality(K) <= perDomain
    <3> HIDE DEF K, D
    <3> QED
      BY <2>1, <2>5, <2>6
  <2>8. K = {k \in DOMAIN e : DomainOf[e[k]] = d}
    OBVIOUS
  <2> HIDE DEF K, e
  <2> QED
    BY <2>5, <2>7, <2>8
<1> HIDE DEF e
<1> QED
  BY <1>9, <1>10

\* What ChosenWell says of the URLs found and those selected among them.
WellSelected(urls, selected) ==
    LET spare == ToSet(urls) \ (Skipped \cup ToSet(selected)) IN
    /\ Len(selected) <= MaxUrls
    /\ ToSet(selected) \cap Skipped = {}
    /\ perDomain = 1 =>
         /\ spare # {} => Len(selected) = MaxUrls
         /\ spare \cap Preferred # {} => ToSet(selected) \subseteq Preferred
    /\ perDomain > 1 =>
         \A d \in Domains :
            Cardinality({k \in DOMAIN selected : DomainOf[selected[k]] = d}) <= perDomain

\* The URLs that are ranked first are those of prefer_domains.
LEMMA RankedWell ==
    ASSUME NEW p \in Seq(Urls), NEW r \in Seq(Urls), NEW n \in Nat, NEW s, s = UpTo(p \o r, n),
           NEW u \in (ToSet(p) \cup ToSet(r)) \ ToSet(s)
    PROVE  Len(s) = n /\ (u \in ToSet(p) => ToSet(s) \subseteq ToSet(p))
<1> DEFINE c == p \o r
<1>1. /\ c \in Seq(Urls) /\ Len(p) \in Nat /\ Len(c) = Len(p) + Len(r) /\ Len(r) \in Nat
      /\ DOMAIN p = 1..Len(p) /\ \A i \in 1..Len(p) : i \in 1..Len(c) /\ c[i] = p[i]
  OBVIOUS
<1>2. ToSet(c) = ToSet(p) \cup ToSet(r)
  BY ConcatMembers
<1>3. s = UpTo(c, n)
  OBVIOUS
<1> HIDE DEF c
<1>4. /\ s \in Seq(Urls) /\ Len(s) = IF n < Len(c) THEN n ELSE Len(c)
      /\ \A k \in 1..Len(s) : k \in 1..Len(c) /\ s[k] = c[k]
  BY <1>1, <1>3, UpToTakes
<1>5. n < Len(c) /\ Len(s) = n /\ DOMAIN s = 1..n
  <2>1. ~(Len(c) <= n)
    <3> SUFFICES ASSUME Len(c) <= n PROVE FALSE
      OBVIOUS
    <3>1. s = c
      BY <1>1, <1>3, UpToInjective
    <3> QED
      BY <1>2, <3>1
  <2> QED
    BY <1>1, <1>4, <2>1
<1>6. ASSUME u \in ToSet(p) PROVE n < Len(p)
  <2>1. PICK i \in 1..Len(p) : u = p[i]
    BY <1>1, <1>6 DEF ToSet
  <2>2. ~(i \in 1..n)
    <3> SUFFICES ASSUME i \in 1..n PROVE FALSE
      OBVIOUS
    <3>1. s[i] = u
      BY <1>1, <1>4, <1>5, <2>1
    <3> QED
      BY <1>5, <3>1 DEF ToSet
  <2> QED
    BY <1>1, <2>1, <2>2
<1>7. ASSUME u \in ToSet(p), NEW x \in ToSet(s) PROVE x \in ToSet(p)
  <2>1. PICK k \in 1..n : x = s[k]
    BY <1>5 DEF ToSet
  <2>2. k \in 1..Len(p) /\ s[k] = p[k]
    BY <1>1, <1>4, <1>5, <1>6, <1>7, <2>1
  <2> QED
    BY <1>1, <2>1, <2>2 DEF ToSet
<1> QED
  BY <1>5, <1>7

\* The selection is as ChosenWell says.
LEMMA SelectTakes ==
    ASSUME NEW urls \in Seq(Urls), perDomain \in Nat \ {0}
    PROVE  /\ Select(urls) \in Seq(Urls)
           /\ WellSelected(urls, Select(urls))
           /\ perDomain = 1 =>
                /\ ToSet(Select(urls)) \subseteq ToSet(urls)
                /\ IsInjective(urls) => IsInjective(Select(urls))
<1> DEFINE wanted == Those(urls, Urls \ Skipped)
           p == Those(wanted, Preferred)
           r == Those(wanted, Urls \ Preferred)
           first == UpTo(p \o r, MaxUrls)
           second == IF perDomain > 1 THEN Expand(first) ELSE first
           selected == UpTo(second, MaxUrls)
<1>0. MaxUrls \in Nat
  BY PipelineAssumption DEF PipelineAssumption
<1>1. Filter(urls, LAMBDA u : u \notin Skipped) = wanted
  <2>1. {i \in DOMAIN urls : urls[i] \notin Skipped} = {i \in DOMAIN urls : urls[i] \in Urls \ Skipped}
    OBVIOUS
  <2> QED
    BY <2>1 DEF Filter, With, Those
<1>2. /\ wanted \in Seq(Urls) /\ wanted \in Seq(Urls \ Skipped)
      /\ ToSet(wanted) = ToSet(urls) \ Skipped
      /\ IsInjective(urls) => IsInjective(wanted)
  <2>1. ToSet(urls) \subseteq Urls /\ Urls \cap (Urls \ Skipped) = Urls \ Skipped
    BY DEF ToSet
  <2> HIDE DEF wanted
  <2>2. /\ wanted \in Seq(Urls) /\ wanted \in Seq(Urls \cap (Urls \ Skipped))
        /\ ToSet(wanted) = ToSet(urls) \cap (Urls \ Skipped)
        /\ IsInjective(urls) => IsInjective(wanted)
    BY ThoseTaken DEF wanted
  <2> QED
    BY <2>1, <2>2
<1> HIDE DEF wanted
<1>3. /\ Filter(wanted, LAMBDA u : u \in Preferred) = p
      /\ Filter(wanted, LAMBDA u : u \notin Preferred) = r
  <2>1. {i \in DOMAIN wanted : wanted[i] \notin Preferred}
          = {i \in DOMAIN wanted : wanted[i] \in Urls \ Preferred}
    BY <1>2
  <2> QED
    BY <2>1 DEF Filter, With, Those
<1>4. Select(urls) = selected
  BY <1>1, <1>3 DEF Select
<1>5. /\ p \in Seq(Urls \ Skipped) /\ r \in Seq(Urls \ Skipped)
      /\ ToSet(p) = ToSet(wanted) \cap Preferred
      /\ ToSet(r) = ToSet(wanted) \ Preferred
      /\ IsInjective(wanted) => IsInjective(p) /\ IsInjective(r)
  <2>1. ToSet(wanted) \subseteq Urls
    BY <1>2 DEF ToSet
  <2> HIDE DEF p, r
  <2>2. /\ p \in Seq(Urls \ Skipped) /\ ToSet(p) = ToSet(wanted) \cap Preferred
        /\ IsInjective(wanted) => IsInjective(p)
    BY <1>2, ThoseTaken DEF p
  <2>3. /\ r \in Seq(Urls \ Skipped) /\ ToSet(r) = ToSet(wanted) \cap (Urls \ Preferred)
        /\ IsInjective(wanted) => IsInjective(r)
    BY <1>2, ThoseTaken DEF r
  <2> QED
    BY <2>1, <2>2, <2>3
<1> HIDE DEF p, r
<1>6. p \in Seq(Urls) /\ r \in Seq(Urls)
  <2>1. Urls \ Skipped \subseteq Urls
    OBVIOUS
  <2> QED
    BY <1>5, <2>1, SeqMonotonic
<1>7. /\ p \o r \in Seq(Urls \ Skipped)
      /\ ToSet(p \o r) = ToSet(p) \cup ToSet(r)
      /\ IsInjective(wanted) => IsInjective(p \o r)
  <2>1. p \o r \in Seq(Urls \ Skipped)
    BY <1>5
  <2>2. ToSet(p) \cap ToSet(r) = {}
    BY <1>5
  <2> QED
    BY <1>5, <1>6, <2>1, <2>2, ConcatMembers
<1>8. /\ first \in Seq(Urls \ Skipped)
      /\ Len(first) <= MaxUrls
      /\ ToSet(first) \subseteq ToSet(p) \cup ToSet(r)
      /\ IsInjective(wanted) => IsInjective(first)
  <2>1. /\ first \in Seq(Urls \ Skipped)
        /\ Len(first) = IF MaxUrls < Len(p \o r) THEN MaxUrls ELSE Len(p \o r)
    BY <1>0, <1>7, UpToTakes
  <2>2. Len(p \o r) \in Nat
    BY <1>7
  <2>3. /\ ToSet(first) \subseteq ToSet(p \o r)
        /\ IsInjective(p \o r) => IsInjective(first)
    BY <1>0, <1>7, UpToInjective
  <2> HIDE DEF first
  <2> QED
    BY <1>0, <1>7, <2>1, <2>2, <2>3
<1>9. \A u \in (ToSet(p) \cup ToSet(r)) \ ToSet(first) :
         Len(first) = MaxUrls /\ (u \in ToSet(p) => ToSet(first) \subseteq ToSet(p))
  BY <1>0, <1>6, RankedWell
<1> HIDE DEF first
<1>10. CASE perDomain = 1
  <2>1. selected = first
    <3>1. second = first
      BY <1>10
    <3> QED
      BY <1>0, <1>8, <3>1, UpToInjective
  <2> HIDE DEF selected
  <2>2. first \in Seq(Urls) /\ ToSet(first) \cap Skipped = {}
    <3>1. Urls \ Skipped \subseteq Urls
      OBVIOUS
    <3>2. first \in Seq(Urls)
      BY <1>8, <3>1, SeqMonotonic
    <3> QED
      BY <1>8, <3>2 DEF ToSet
  <2>3. ToSet(first) \subseteq ToSet(urls)
    BY <1>2, <1>5, <1>8
  <2>4. WellSelected(urls, first)
    <3> DEFINE spare == ToSet(urls) \ (Skipped \cup ToSet(first))
    <3>1. spare \subseteq (ToSet(p) \cup ToSet(r)) \ ToSet(first)
      BY <1>2, <1>5
    <3>2. spare # {} => Len(first) = MaxUrls
      BY <1>9, <3>1
    <3>3. spare \cap Preferred # {} => ToSet(first) \subseteq Preferred
      <4> SUFFICES ASSUME NEW u \in spare \cap Preferred PROVE ToSet(first) \subseteq Preferred
        OBVIOUS
      <4>1. u \in ToSet(p) /\ u \in (ToSet(p) \cup ToSet(r)) \ ToSet(first)
        BY <1>2, <1>5
      <4> QED
        BY <1>5, <1>9, <4>1
    <3>4. ~(perDomain > 1)
      BY <1>10
    <3> QED
      BY <1>8, <2>2, <3>2, <3>3, <3>4 DEF WellSelected
  <2> QED
    BY <1>2, <1>4, <1>8, <2>1, <2>2, <2>3, <2>4
<1>11. CASE perDomain > 1
  <2>1. second = Expand(first) /\ perDomain # 1
    BY <1>11
  <2>2. /\ second \in Seq(Urls \ Skipped)
        /\ \A d \in Domains :
             LET K == {k \in DOMAIN second : DomainOf[second[k]] = d}
             IN IsFiniteSet(K) /\ Cardinality(K) <= perDomain
    BY <1>8, <2>1, ExpandTakes
  <2> HIDE DEF second
  <2>3. /\ selected \in Seq(Urls \ Skipped)
        /\ Len(selected) = IF MaxUrls < Len(second) THEN MaxUrls ELSE Len(second)
        /\ \A k \in 1..Len(selected) : k \in 1..Len(second) /\ selected[k] = second[k]
    BY <1>0, <2>2, UpToTakes
  <2> HIDE DEF selected
  <2>4. Len(selected) <= MaxUrls
    BY <1>0, <2>2, <2>3
  <2>5. selected \in Seq(Urls) /\ ToSet(selected) \cap Skipped = {}
    <3>1. Urls \ Skipped \subseteq Urls
      OBVIOUS
    <3>2. selected \in Seq(Urls)
      BY <2>3, <3>1, SeqMonotonic
    <3> QED
      BY <2>3, <3>2 DEF ToSet
  <2>6. ASSUME NEW d \in Domains
        PROVE  Cardinality({k \in DOMAIN selected : DomainOf[selected[k]] = d}) <= perDomain
    <3> DEFINE K == {k \in DOMAIN second : DomainOf[second[k]] = d}
               L == {k \in DOMAIN selected : DomainOf[selected[k]] = d}
    <3>1. IsFiniteSet(K) /\ Cardinality(K) <= perDomain
      BY <2>2
    <3>2. L \subseteq K
      BY <2>2, <2>3
    <3> SUFFICES Cardinality(L) <= perDomain
      OBVIOUS
    <3> HIDE DEF K, L
    <3>3. /\ Cardinality(L) <= Cardinality(K) /\ Cardinality(K) \in Nat
          /\ Cardinality(L) \in Nat
      BY <3>1, <3>2, FS_Subset, FS_CardinalityType
    <3> QED
      BY <3>1, <3>3
  <2>7. WellSelected(urls, selected)
    BY <2>1, <2>4, <2>5, <2>6 DEF WellSelected
  <2> QED
    BY <1>4, <2>1, <2>5, <2>7
<1> QED
  BY <1>10, <1>11

--------------------------------------------------------------------------------

(* The searches. *)

Stages == {"parse", "plan", "search", "crawl", "crawling", "enrich", "leads", "failed",
           "score", "research", "contacts", "completed"}
Responses == [waiting : SUBSET Providers, urls : Seq(Urls)]

\* The types of what the search works on.
SearchTypes ==
    /\ icp \in IcpQueries /\ perDomain \in PerDomain /\ stage \in Stages
    /\ plan \in Seq(Planned)
    /\ query \in [DOMAIN plan -> {"queued", "running", "over"}]
    /\ responses \in [DOMAIN plan -> Responses]
    /\ results \in Seq(Urls) /\ found \in Seq(Urls) /\ chosen \in Seq(Urls)
    /\ answered \subseteq Urls

\* The plan is there while it is searched for.
PlanInUse == stage # "search" => plan = <<>>

\* The URLs in the answers to searches that are over and to those that are not.
UrlsIn(D, all) == UNION {ToSet(all[q].urls) : q \in D}
Gathered == ToSet(results) \cup UrlsIn(DOMAIN plan, responses)

\* No answer is lost while the searches run, and only a running one holds any.
NothingLost ==
    ~Searched =>
        /\ answered = Gathered
        /\ \A q \in DOMAIN plan : query[q] # "running" => responses[q].urls = <<>>

\* What the merge made of them is what the rest of the run works on.
Merged ==
    Searched =>
        /\ {PageOf[u] : u \in ToSet(found)} = {PageOf[u] : u \in answered}
        /\ Len(found) = Cardinality({PageOf[u] : u \in answered})
        /\ OfOwnPages(ToSet(found))
        /\ WellSelected(found, chosen)
        /\ perDomain = 1 => ToSet(chosen) \subseteq ToSet(found) /\ IsInjective(chosen)

SearchInv == SearchTypes /\ PlanInUse /\ NothingLost /\ Merged

searchPart == <<icp, perDomain, searchVars, found, chosen>>

\* The actions after the merge.
AfterMerge ==
    \/ StartCrawl \/ CrawlStep \/ EndCrawl \/ Enrich
    \/ FoundNothing \/ StartScoring \/ EndScoring
    \/ \E i \in unscored : ScoreOne(i)
    \/ Research \/ FindContacts

\* After the merge, nothing changes what the searches made.
LEMMA AfterMergeKeeps ==
    ASSUME AfterMerge, stage \in Stages
    PROVE  /\ UNCHANGED searchPart /\ Searched
           /\ stage' \in Stages \ {"parse", "plan", "search"}
<1>1. CASE StartCrawl
  BY <1>1 DEF StartCrawl, searchPart, searchVars, Searched, Stages
<1>2. CASE CrawlStep
  BY <1>2 DEF CrawlStep, searchPart, searchVars, Searched, Stages
<1>3. CASE EndCrawl
  BY <1>3 DEF EndCrawl, searchPart, searchVars, Searched, Stages
<1>4. CASE Enrich
  BY <1>4 DEF Enrich, searchPart, searchVars, Searched, Stages
<1>5. CASE FoundNothing
  BY <1>5 DEF FoundNothing, Serve, searchPart, searchVars, Searched, Stages
<1>6. CASE StartScoring
  BY <1>6 DEF StartScoring, Serve, searchPart, searchVars, Searched, Stages
<1>7. CASE EndScoring
  BY <1>7 DEF EndScoring, Serve, searchPart, searchVars, Searched, Stages
<1>8. CASE \E i \in unscored : ScoreOne(i)
  BY <1>8 DEF ScoreOne, Serve, searchPart, searchVars, Searched, Stages
<1>9. CASE Research
  BY <1>9 DEF Research, Serve, searchPart, searchVars, Searched, Stages
<1>10. CASE FindContacts
  BY <1>10 DEF FindContacts, Serve, searchPart, searchVars, Searched, Stages
<1> QED
  BY <1>1, <1>2, <1>3, <1>4, <1>5, <1>6, <1>7, <1>8, <1>9, <1>10 DEF AfterMerge

\* The actions, by the part of the run they belong to.
LEMMA ActionsOfRun ==
    ASSUME Next
    PROVE  \/ Parse \/ AfterMerge
           \/ MakePlan \/ Merge
           \/ \E q \in Queries :
                 \/ StartQuery(q) \/ QueryRaises(q) \/ Return(q)
                 \/ \E p \in Providers : Answer(q, p) \/ ProviderFails(q, p)
BY DEF Next, Discover, PipelineNext, AfterMerge

\* Nothing is found in the beginning.
LEMMA SearchInit == ASSUME Init PROVE SearchInv
<1>1. /\ icp = NoIcp /\ stage = "parse" /\ perDomain \in PerDomain
      /\ plan = <<>> /\ query = <<>> /\ responses = <<>> /\ results = <<>>
      /\ answered = {} /\ found = <<>> /\ chosen = <<>>
  BY DEF Init, PipelineInit
<1>2. SearchTypes
  <2>1. DOMAIN <<>> = {}
    OBVIOUS
  <2>2. query \in [DOMAIN plan -> {"queued", "running", "over"}]
        /\ responses \in [DOMAIN plan -> Responses]
    BY <1>1, <2>1
  <2> QED
    BY <1>1, <2>2, IcpTyped DEF SearchTypes, Stages
<1>3. NothingLost /\ Merged
  <2>1. ToSet(results) = {} /\ DOMAIN plan = {}
    BY <1>1 DEF ToSet
  <2> QED
    BY <1>1, <2>1 DEF NothingLost, Merged, Gathered, UrlsIn, Searched
<1> QED
  BY <1>1, <1>2, <1>3 DEF SearchInv, PlanInUse

\* Steps that leave the searches alone.
LEMMA SearchKept ==
    ASSUME SearchInv, UNCHANGED searchPart,
           \/ UNCHANGED stage
           \/ Searched /\ stage' \in Stages \ {"parse", "plan", "search"}
    PROVE  SearchInv'
<1>0. PlanInUse'
  BY DEF SearchInv, SearchTypes, PlanInUse, Searched, searchPart, searchVars, Stages
<1>1. stage' \in Stages /\ (Searched' <=> Searched)
  BY DEF SearchInv, SearchTypes, Searched, Stages
<1>2. SearchTypes'
  BY <1>1 DEF SearchInv, SearchTypes, searchPart, searchVars
<1>3. Gathered' = Gathered
  BY DEF Gathered, searchPart, searchVars
<1>4. NothingLost'
  BY <1>1, <1>3 DEF SearchInv, NothingLost, searchPart, searchVars
<1>5. WellSelected(found, chosen)' <=> WellSelected(found, chosen)
  BY DEF WellSelected, searchPart
<1>6. Merged'
  BY <1>1, <1>5 DEF SearchInv, Merged, searchPart, searchVars
<1> QED
  BY <1>0, <1>2, <1>4, <1>6 DEF SearchInv

\* The request becomes an ICP.
LEMMA ParseKeeps == ASSUME SearchInv, Parse PROVE SearchInv'
<1>1. /\ stage = "parse" /\ stage' = "plan" /\ icp' \in IcpQueries
      /\ UNCHANGED <<perDomain, searchVars, found, chosen>>
  BY IcpTyped DEF Parse
<1>2. SearchTypes'
  BY <1>1 DEF SearchInv, SearchTypes, searchVars, Stages
<1>3. Gathered' = Gathered
  BY <1>1 DEF Gathered, searchVars
<1>4. ~Searched /\ ~Searched'
  BY <1>1 DEF Searched
<1>5. NothingLost' /\ Merged'
  BY <1>1, <1>3, <1>4 DEF SearchInv, NothingLost, Merged, searchVars
<1> QED
  BY <1>1, <1>2, <1>5 DEF SearchInv, PlanInUse, searchVars

\* Every query of the plan is queued and holds no answer.
LEMMA MakePlanKeeps == ASSUME SearchInv, MakePlan PROVE SearchInv'
<1>1. /\ stage = "plan" /\ stage' = "search"
      /\ plan' = ByPriority(PlanOf(icp))
      /\ query' = [q \in DOMAIN plan' |-> "queued"]
      /\ responses' = [q \in DOMAIN plan' |-> [waiting |-> Providers, urls |-> <<>>]]
      /\ UNCHANGED <<icp, perDomain, results, answered, found, chosen>>
  BY DEF MakePlan
<1>2. plan' \in Seq(Planned)
  BY <1>1, PlanTyped, ByPriorityTyped DEF SearchInv, SearchTypes
<1>3. SearchTypes'
  <2>1. [waiting |-> Providers, urls |-> <<>>] \in Responses
    BY DEF Responses
  <2>2. responses' \in [DOMAIN plan' -> Responses]
    BY <1>1, <2>1
  <2> QED
    BY <1>1, <1>2, <2>2 DEF SearchInv, SearchTypes, Stages
<1>4. Gathered = ToSet(results)
  <2>1. plan = <<>>
    BY <1>1 DEF SearchInv, PlanInUse
  <2> QED
    BY <2>1 DEF Gathered, UrlsIn
<1>5. Gathered' = ToSet(results)
  <2>1. \A q \in DOMAIN plan' : responses'[q].urls = <<>>
    BY <1>1
  <2>2. ToSet(<<>>) = {}
    BY DEF ToSet
  <2>3. UrlsIn(DOMAIN plan', responses') = {}
    BY <2>1, <2>2 DEF UrlsIn
  <2> QED
    BY <1>1, <2>3 DEF Gathered
<1>6. ~Searched /\ ~Searched'
  BY <1>1 DEF Searched
<1>7. NothingLost'
  BY <1>1, <1>4, <1>5, <1>6 DEF SearchInv, NothingLost
<1> QED
  BY <1>1, <1>3, <1>6, <1>7 DEF SearchInv, PlanInUse, Merged

\* A query that starts, or raises, holds no answer yet.
LEMMA StartQueryKeeps ==
    ASSUME SearchInv, NEW q \in Queries, stage = "search", StartQuery(q) \/ QueryRaises(q)
    PROVE  SearchInv'
<1>1. query[q] = "queued" /\ \E state \in {"running", "over"} : query' = [query EXCEPT ![q] = state]
  BY DEF StartQuery, QueryRaises, IsNext, Searching
<1>2. UNCHANGED <<icp, plan, perDomain, stage, answered, found, chosen, responses, results>>
  BY DEF StartQuery, QueryRaises, Searching
<1>3. SearchTypes'
  BY <1>1, <1>2 DEF SearchInv, SearchTypes
<1>4. Gathered' = Gathered
  BY <1>2 DEF Gathered
<1>5. \A r \in DOMAIN plan : query'[r] # "running" => responses[r].urls = <<>>
  BY <1>1 DEF SearchInv, SearchTypes, NothingLost, Searched
<1>6. NothingLost'
  BY <1>2, <1>4, <1>5 DEF SearchInv, NothingLost, Searched
<1> QED
  BY <1>2, <1>3, <1>6 DEF SearchInv, PlanInUse, Merged, Searched

\* More URLs in one response are more URLs in all of them.
LEMMA OneMoreOf ==
    ASSUME NEW D, NEW old, NEW new, NEW q \in D, NEW more,
           ToSet(new[q].urls) = ToSet(old[q].urls) \cup more,
           \A r \in D \ {q} : new[r] = old[r]
    PROVE  UrlsIn(D, new) = UrlsIn(D, old) \cup more
<1>1. ASSUME NEW x \in UrlsIn(D, new) PROVE x \in UrlsIn(D, old) \cup more
  <2>1. PICK r \in D : x \in ToSet(new[r].urls)
    BY DEF UrlsIn
  <2>2. x \in ToSet(old[r].urls) \/ x \in more
    BY <2>1
  <2> QED
    BY <2>2 DEF UrlsIn
<1>2. ASSUME NEW x \in UrlsIn(D, old) \cup more PROVE x \in UrlsIn(D, new)
  <2>1. \E r \in D : x \in ToSet(new[r].urls)
    BY DEF UrlsIn
  <2> QED
    BY <2>1 DEF UrlsIn
<1> QED
  BY <1>1, <1>2

\* What an answer makes of the responses.
LEMMA NewResponse ==
    ASSUME NEW r \in Responses, NEW x, NEW y
    PROVE  [r EXCEPT !.waiting = x, !.urls = y] = [waiting |-> x, urls |-> y]
<1> DEFINE m == [r EXCEPT !.waiting = x]
<1>1. m \in [waiting : {x}, urls : Seq(Urls)] /\ m.waiting = x
  BY DEF Responses
<1>2. [r EXCEPT !.waiting = x, !.urls = y] = [m EXCEPT !.urls = y]
  OBVIOUS
<1> HIDE DEF m
<1>3. [m EXCEPT !.urls = y] = [waiting |-> x, urls |-> y]
  BY <1>1
<1> QED
  BY <1>2, <1>3

\* An answer goes into the response of its query and into the history.
LEMMA RespondKeeps ==
    ASSUME SearchInv, NEW q \in Queries, NEW p \in Providers, stage = "search",
           Answer(q, p) \/ ProviderFails(q, p)
    PROVE  SearchInv'
<1>0. q \in DOMAIN plan
  BY DEF SearchInv, SearchTypes, Queries
<1>1. PICK urls \in Seq(Urls) : Respond(q, p, urls)
  <2>1. plan[q].signal \in Signals
    BY <1>0, PlannedFields DEF SearchInv, SearchTypes
  <2>2. Answers[plan[q].signal][p] \in Seq(Urls)
    BY <2>1, PipelineAssumption DEF PipelineAssumption
  <2> QED
    <3>1. <<>> \in Seq(Urls)
      OBVIOUS
    <3> QED
      BY <2>2, <3>1 DEF Answer, ProviderFails
<1>2. /\ query[q] = "running"
      /\ responses' = [responses EXCEPT ![q].waiting = @ \ {p}, ![q].urls = @ \o urls]
      /\ answered' = answered \cup ToSet(urls)
      /\ UNCHANGED <<icp, plan, perDomain, stage, query, results, found, chosen>>
  BY <1>1 DEF Respond
<1>3. ToSet(urls) \subseteq Urls
  BY DEF ToSet
<1>4. /\ responses' \in [DOMAIN plan -> Responses]
      /\ responses'[q].urls = responses[q].urls \o urls
      /\ \A r \in DOMAIN plan \ {q} : responses'[r] = responses[r]
  <2>1. /\ responses[q].waiting \in SUBSET Providers
        /\ responses[q].urls \in Seq(Urls) /\ responses[q] \in Responses
    BY <1>0 DEF SearchInv, SearchTypes, Responses
  <2> DEFINE new == [responses[q] EXCEPT !.waiting = @ \ {p}, !.urls = @ \o urls]
  <2>2. responses' = [r \in DOMAIN plan |-> IF r = q THEN new ELSE responses[r]]
    BY <1>0, <1>2 DEF SearchInv, SearchTypes
  <2>4. new = [waiting |-> responses[q].waiting \ {p}, urls |-> responses[q].urls \o urls]
    BY <2>1, NewResponse
  <2> HIDE DEF new
  <2>3. [waiting |-> responses[q].waiting \ {p}, urls |-> responses[q].urls \o urls] \in Responses
    BY <2>1 DEF Responses
  <2> QED
    BY <1>0, <2>2, <2>3, <2>4 DEF SearchInv, SearchTypes
<1>5. SearchTypes'
  BY <1>2, <1>3, <1>4 DEF SearchInv, SearchTypes
<1>6. Gathered' = Gathered \cup ToSet(urls)
  <2>1. ToSet(responses'[q].urls) = ToSet(responses[q].urls) \cup ToSet(urls)
    <3>1. responses[q].urls \in Seq(Urls)
      BY <1>0 DEF SearchInv, SearchTypes, Responses
    <3> QED
      BY <1>4, <3>1, ConcatMembers
  <2> QED
    <3>1. UrlsIn(DOMAIN plan, responses') = UrlsIn(DOMAIN plan, responses) \cup ToSet(urls)
      <4>1. \A r \in DOMAIN plan \ {q} : responses'[r] = responses[r]
        BY <1>4
      <4> QED
        BY <1>0, <2>1, <4>1, OneMoreOf
    <3> QED
      BY <1>2, <3>1 DEF Gathered
<1>7. \A r \in DOMAIN plan : query[r] # "running" => responses'[r].urls = <<>>
  BY <1>2, <1>4 DEF SearchInv, NothingLost, Searched
<1>8. NothingLost'
  BY <1>2, <1>6, <1>7 DEF SearchInv, NothingLost, Searched
<1> QED
  BY <1>2, <1>5, <1>8 DEF SearchInv, PlanInUse, Merged, Searched

\* What a search that is over held goes to the results.
LEMMA ReturnKeeps ==
    ASSUME SearchInv, NEW q \in Queries, stage = "search", Return(q)
    PROVE  SearchInv'
<1>0. q \in DOMAIN plan
  BY DEF SearchInv, SearchTypes, Queries
<1>2. /\ results' = results \o responses[q].urls
      /\ responses' = [responses EXCEPT ![q].urls = <<>>]
      /\ query' = [query EXCEPT ![q] = "over"]
      /\ UNCHANGED <<icp, plan, perDomain, stage, answered, found, chosen>>
  BY DEF Return, Searching
<1>3. responses[q].urls \in Seq(Urls) /\ results \in Seq(Urls)
  BY <1>0 DEF SearchInv, SearchTypes, Responses
<1>4. /\ responses' \in [DOMAIN plan -> Responses]
      /\ responses'[q].urls = <<>>
      /\ \A r \in DOMAIN plan \ {q} : responses'[r] = responses[r]
  <2> DEFINE new == [responses[q] EXCEPT !.urls = <<>>]
  <2>1. responses' = [r \in DOMAIN plan |-> IF r = q THEN new ELSE responses[r]]
    BY <1>0, <1>2 DEF SearchInv, SearchTypes
  <2>3. new = [waiting |-> responses[q].waiting, urls |-> <<>>]
    <3>1. responses[q] \in Responses
      BY <1>0 DEF SearchInv, SearchTypes
    <3> QED
      BY <3>1 DEF Responses
  <2> HIDE DEF new
  <2>2. [waiting |-> responses[q].waiting, urls |-> <<>>] \in Responses
    BY <1>0 DEF SearchInv, SearchTypes, Responses
  <2> QED
    BY <1>0, <2>1, <2>2, <2>3 DEF SearchInv, SearchTypes
<1>5. SearchTypes'
  BY <1>2, <1>3, <1>4 DEF SearchInv, SearchTypes
<1>6. Gathered' = Gathered
  <2>1. ToSet(results') = ToSet(results) \cup ToSet(responses[q].urls)
    BY <1>2, <1>3, ConcatMembers
  <2>2. ToSet(responses'[q].urls) = {}
    BY <1>4 DEF ToSet
  <2> QED
    <3>1. UrlsIn(DOMAIN plan, responses)
            = UrlsIn(DOMAIN plan, responses') \cup ToSet(responses[q].urls)
      BY <1>0, <1>4, <2>2, OneMoreOf
    <3> QED
      BY <1>2, <2>1, <3>1 DEF Gathered
<1>7. \A r \in DOMAIN plan : query'[r] # "running" => responses'[r].urls = <<>>
  BY <1>2, <1>4 DEF SearchInv, SearchTypes, NothingLost, Searched
<1>8. NothingLost'
  BY <1>2, <1>6, <1>7 DEF SearchInv, NothingLost, Searched
<1> QED
  BY <1>2, <1>5, <1>8 DEF SearchInv, PlanInUse, Merged, Searched

\* The merge takes all results, for all searches are over.
LEMMA MergeKeeps == ASSUME SearchInv, Merge PROVE SearchInv'
<1>1. /\ stage = "search" /\ \A q \in DOMAIN plan : query[q] = "over"
      /\ found' = FirstOfEachPage(results) /\ chosen' = Select(FirstOfEachPage(results))
      /\ stage' \in {"leads", "crawl"}
      /\ plan' = <<>> /\ query' = <<>> /\ responses' = <<>> /\ results' = <<>>
      /\ UNCHANGED <<icp, perDomain, answered>>
  BY DEF Merge, SearchInv, SearchTypes, Queries
<1>2. answered = ToSet(results) /\ results \in Seq(Urls)
  <2>1. answered = Gathered /\ \A q \in DOMAIN plan : responses[q].urls = <<>>
    BY <1>1 DEF SearchInv, NothingLost, Searched
  <2>2. ToSet(<<>>) = {}
    BY DEF ToSet
  <2>3. UrlsIn(DOMAIN plan, responses) = {}
    BY <2>1, <2>2 DEF UrlsIn
  <2> QED
    BY <2>1, <2>3 DEF Gathered, SearchInv, SearchTypes
<1>3. /\ found' \in Seq(Urls) /\ IsInjective(found') /\ OfOwnPages(ToSet(found'))
      /\ {PageOf[u] : u \in ToSet(found')} = {PageOf[u] : u \in answered}
      /\ Len(found') = Cardinality({PageOf[u] : u \in answered})
  BY <1>1, <1>2, MergeTakes
<1>4. perDomain \in Nat \ {0}
  BY PipelineAssumption DEF PipelineAssumption, SearchInv, SearchTypes
<1>5. /\ chosen' \in Seq(Urls) /\ WellSelected(found', chosen')
      /\ perDomain = 1 => ToSet(chosen') \subseteq ToSet(found') /\ IsInjective(chosen')
  <2> HIDE DEF FirstOfEachPage
  <2>1. chosen' = Select(found')
    BY <1>1
  <2> QED
    BY <1>3, <1>4, <2>1, SelectTakes
<1>6. SearchTypes'
  <2>1. DOMAIN <<>> = {}
    OBVIOUS
  <2>2. query' \in [DOMAIN plan' -> {"queued", "running", "over"}]
        /\ responses' \in [DOMAIN plan' -> Responses]
    BY <1>1, <2>1
  <2> QED
    BY <1>1, <1>3, <1>5, <2>2 DEF SearchInv, SearchTypes, Stages
<1>7. Searched'
  BY <1>1 DEF Searched
<1>8. WellSelected(found, chosen)'
  BY <1>1, <1>5 DEF WellSelected
<1>9. Merged'
  BY <1>1, <1>3, <1>5, <1>8 DEF Merged
<1> QED
  BY <1>1, <1>6, <1>7, <1>9 DEF SearchInv, PlanInUse, NothingLost

\* Every step keeps the invariant of the searches.
LEMMA SearchStep == ASSUME SearchInv, [Next]_vars PROVE SearchInv'
<1>1. CASE UNCHANGED vars
  BY <1>1, SearchKept DEF vars, pipelineVars, searchPart
<1>2. CASE AfterMerge
  BY <1>2, AfterMergeKeeps, SearchKept DEF SearchInv, SearchTypes
<1>3. ASSUME NEW q \in Queries,
             \/ StartQuery(q) \/ QueryRaises(q) \/ Return(q)
             \/ \E p \in Providers : Answer(q, p) \/ ProviderFails(q, p)
      PROVE  SearchInv'
  <2>1. stage = "search"
    <3>1. DOMAIN query = DOMAIN plan
      BY DEF SearchInv, SearchTypes
    <3>2. plan # <<>>
      BY <1>3, <3>1 DEF Queries
    <3> QED
      BY <3>2 DEF SearchInv, PlanInUse
  <2> QED
    BY <1>3, <2>1, StartQueryKeeps, RespondKeeps, ReturnKeeps
<1> QED
  BY <1>1, <1>2, <1>3, ActionsOfRun, ParseKeeps, MakePlanKeeps, MergeKeeps

\* The invariant of the searches: an answer of a provider is in the response of its
\* query until the search is over, and in the results from then on, whatever fails and
\* in whatever order queries and providers end (search_many and the merge).
THEOREM SearchesLoseNothing == Spec => []SearchInv
BY SearchInit, SearchStep, PTL DEF Spec

\* Every page that any provider found is in the merge, once (_merge_results).
THEOREM MergesAreComplete == Spec => []MergeComplete
<1>1. SearchInv => MergeComplete
  BY DEF SearchInv, Merged, MergeComplete
<1> QED
  BY <1>1, SearchesLoseNothing, PTL

\* _select_urls skips what it should, prefers what it should, and gives nothing up
\* below its cap, whatever was found.
THEOREM SelectionsAreWell == Spec => []ChosenWell
<1>1. SearchInv => ChosenWell
  BY DEF SearchInv, Merged, WellSelected, ChosenWell
<1> QED
  BY <1>1, SearchesLoseNothing, PTL

--------------------------------------------------------------------------------

(* The crawl. *)

Docs == DOMAIN Document
NotYetCrawled == {"parse", "plan", "search", "crawl"}

\* The document a chosen URL came to, from the cache or from the crawl.
DocOf(u) == IF u \in hits THEN cache[u] ELSE pages[u]

CrawlTypes ==
    /\ fetching \in Seq(Urls)
    /\ pages \in [Urls -> Docs \cup {Failed, NoPage}]
    /\ cache \in [Urls -> Docs \cup {NoPage}]
    /\ DOMAIN task = DOMAIN fetching /\ \A i \in DOMAIN task : "state" \in DOMAIN task[i]

\* What the crawl is given: all that the cache does not have.
ToFetch == Those(chosen, {u \in Urls : cache[u] = NoPage})

BeforeTheCrawl ==
    stage \in NotYetCrawled =>
        /\ \A u \in Urls : pages[u] = NoPage
        /\ crawled = <<>>

\* A page is there when its task is done, and not if the cache had it.
InTheCrawl ==
    /\ stage # "crawling" => fetching = <<>>
    /\ stage = "crawling" =>
         /\ fetching = ToFetch /\ hits = Hits
         /\ \A u \in Urls : pages[u] # NoPage => u \in ToSet(fetching)
         /\ \A i \in DOMAIN task : task[i].state = "done" => pages[fetching[i]] # NoPage

\* Every chosen URL came to a document or failed.
AfterTheCrawl ==
    stage \in Stages \ (NotYetCrawled \cup {"crawling"}) =>
        /\ crawled = [k \in DOMAIN chosen |-> [url |-> chosen[k], doc |-> DocOf(chosen[k])]]
        /\ \A k \in DOMAIN chosen : DocOf(chosen[k]) \in Docs \cup {Failed}

CrawlInv == CrawlTypes /\ BeforeTheCrawl /\ InTheCrawl /\ AfterTheCrawl

\* An empty list.
LEMMA EmptyTask == DOMAIN <<>> = {} /\ ToSet(<<>>) = {} /\ \A f : f = [k \in {} |-> f[k]] => f = <<>>
<1>1. DOMAIN <<>> = {} /\ ToSet(<<>>) = {}
  BY DEF ToSet
<1>2. ASSUME NEW f, f = [k \in {} |-> f[k]] PROVE f = <<>>
  <2>1. DOMAIN f = {}
    BY <1>2
  <2> QED
    BY <1>1, <1>2, <2>1
<1> QED
  BY <1>1, <1>2

\* The crawl has not begun in the beginning.
LEMMA CrawlInitially == ASSUME Init PROVE CrawlInv
<1>1. /\ fetching = <<>> /\ task = <<>> /\ pages = [u \in Urls |-> NoPage]
      /\ crawled = <<>> /\ stage = "parse"
  BY DEF Init, PipelineInit, CrawlInit
<1>2. cache \in [Urls -> Docs \cup {NoPage}]
  <2>1. PICK docs \in [CachedBefore -> Docs \cup {NoPage}] :
          cache = [u \in Urls |-> IF u \in CachedBefore THEN docs[u] ELSE NoPage]
    BY DEF Init, PipelineInit, Docs
  <2> QED
    BY <2>1
<1>3. CrawlTypes
  <2>1. fetching \in Seq(Urls) /\ DOMAIN task = {} /\ DOMAIN fetching = {}
    BY <1>1, EmptyTask
  <2> QED
    BY <1>1, <1>2, <2>1 DEF CrawlTypes
<1> QED
  BY <1>1, <1>3 DEF CrawlInv, BeforeTheCrawl, InTheCrawl, AfterTheCrawl, NotYetCrawled

\* Steps that leave the crawl alone, and its stage or what comes after it.
LEMMA CrawlKept ==
    ASSUME CrawlInv, UNCHANGED <<crawlStageVars, chosen>>,
           \/ UNCHANGED stage
           \/ stage \in NotYetCrawled /\ stage' \in NotYetCrawled
           \/ /\ stage \in Stages \ (NotYetCrawled \cup {"crawling"})
              /\ stage' \in Stages \ (NotYetCrawled \cup {"crawling"})
    PROVE  CrawlInv'
<1>1. UNCHANGED <<fetching, task, pages, since, idle, cache, hits, crawled, chosen>>
  BY DEF crawlStageVars, crawlVars
<1>2. CrawlTypes'
  BY <1>1 DEF CrawlInv, CrawlTypes
<1>3. ToFetch' = ToFetch /\ Hits' = Hits
  BY <1>1 DEF ToFetch, Hits
<1>4. \A u : DocOf(u)' = DocOf(u)
  BY <1>1 DEF DocOf
<1>5. (stage = "crawling" <=> stage' = "crawling")
  BY DEF NotYetCrawled, Stages
<1>6. BeforeTheCrawl' /\ InTheCrawl'
  BY <1>1, <1>3, <1>5 DEF CrawlInv, BeforeTheCrawl, InTheCrawl, NotYetCrawled, Stages
<1>7. AfterTheCrawl'
  BY <1>1, <1>4, <1>5 DEF CrawlInv, AfterTheCrawl, NotYetCrawled, Stages, DocOf
<1> QED
  BY <1>2, <1>6, <1>7 DEF CrawlInv

\* A step of the crawl leaves the tasks that are done; one more may be.
TaskKept ==
    /\ DOMAIN task' = DOMAIN task
    /\ \A j \in DOMAIN task : "state" \in DOMAIN task'[j]
    /\ \A j \in DOMAIN task : task'[j].state = "done" => task[j].state = "done"

\* A step of the crawl is that of one task.
LEMMA CrawlSteps ==
    ASSUME CrawlTypes, CrawlTick \/ \E i \in Tasks : Crawl(i)
    PROVE  /\ fetching' = fetching
           /\ \/ TaskKept /\ pages' = pages
              \/ \E i \in Tasks, outcome \in Docs \cup {Failed} : Finish(i, outcome)
<1>1. CASE CrawlTick
  <2>1. task' = [i \in DOMAIN task |-> [task[i] EXCEPT !.left = Sooner(@)]]
        /\ UNCHANGED <<fetching, pages>>
    BY <1>1 DEF CrawlTick, Tasks
  <2>2. TaskKept
    <3>1. DOMAIN task' = DOMAIN task
      BY <2>1
    <3>2. ASSUME NEW i \in DOMAIN task
          PROVE  "state" \in DOMAIN task'[i] /\ task'[i].state = task[i].state
      <4>1. task'[i] = [task[i] EXCEPT !.left = Sooner(@)] /\ "state" \in DOMAIN task[i]
        BY <2>1 DEF CrawlTypes
      <4> QED
        BY <4>1
    <3> QED
      BY <3>1, <3>2 DEF TaskKept
  <2> QED
    BY <2>1, <2>2
<1>2. ASSUME NEW i \in Tasks, Begin(i) \/ FirstRequest(i) \/ Rerequest(i)
      PROVE  fetching' = fetching /\ TaskKept /\ pages' = pages
  <2>1. \A state, left, attempt : /\ "state" \in DOMAIN Task(state, left, attempt)
                                   /\ Task(state, left, attempt).state = state
    BY DEF Task
  <2>2. PICK t : /\ "state" \in DOMAIN t /\ t.state # "done"
                 /\ task' = [task EXCEPT ![i] = t]
    <3>1. CASE Begin(i)
      BY <2>1, <3>1 DEF Begin
    <3>2. CASE FirstRequest(i)
      BY <2>1, <3>2 DEF FirstRequest
    <3>3. CASE Rerequest(i)
      <4>1. task' = [task EXCEPT ![i] = Task("requested", 0, task[i].attempt + 1)]
        BY <3>3 DEF Rerequest
      <4> QED
        BY <2>1, <4>1
    <3> QED
      BY <1>2, <3>1, <3>2, <3>3
  <2>3. TaskKept
    BY <2>1, <2>2 DEF TaskKept, Tasks, CrawlTypes
  <2> QED
    BY <1>2, <2>3 DEF Begin, FirstRequest, Rerequest
<1>3. ASSUME NEW i \in Tasks, Succeeds(i) \/ Refused(i) \/ FailsForGood(i)
      PROVE  fetching' = fetching /\ \E outcome \in Docs \cup {Failed} : Finish(i, outcome)
  <2>1. fetching[i] \in Urls
    BY DEF CrawlTypes, Tasks
  <2>2. Serves[fetching[i]] \subseteq Docs
    BY <2>1, WebCrawlAssumption DEF WebCrawlAssumption, Docs
  <2>3. \E outcome \in Docs \cup {Failed} : Finish(i, outcome)
    BY <1>3, <2>2 DEF Succeeds, Refused, FailsForGood
  <2> QED
    BY <2>3 DEF Finish
<1>4. ASSUME NEW i \in Tasks, FailsAndRetries(i)
      PROVE  fetching' = fetching /\ TaskKept /\ pages' = pages
  <2>1. PICK w : task' = [task EXCEPT ![i].state = "backing off", ![i].left = w]
    BY <1>4 DEF FailsAndRetries
  <2> DEFINE new == [task[i] EXCEPT !.state = "backing off", !.left = w]
  <2>2. task' = [task EXCEPT ![i] = new]
    BY <2>1 DEF Tasks
  <2>3. new.state = "backing off" /\ "state" \in DOMAIN new
    <3>1. "state" \in DOMAIN task[i]
      BY DEF CrawlTypes, Tasks
    <3> QED
      BY <3>1
  <2> HIDE DEF new
  <2>4. TaskKept
    BY <2>2, <2>3 DEF TaskKept, Tasks, CrawlTypes
  <2> QED
    BY <1>4, <2>4 DEF FailsAndRetries
<1> QED
  BY <1>1, <1>2, <1>3, <1>4 DEF Crawl

\* The crawl is given each chosen URL that the cache does not have.
LEMMA ToFetchTaken ==
    ASSUME chosen \in Seq(Urls)
    PROVE  /\ ToFetch \in Seq(Urls)
           /\ ToSet(ToFetch) = {u \in ToSet(chosen) : cache[u] = NoPage}
           /\ IsInjective(chosen) => IsInjective(ToFetch)
<1>1. ToSet(chosen) \subseteq Urls
  BY DEF ToSet
<1> DEFINE missing == {u \in Urls : cache[u] = NoPage}
<1>2. /\ Those(chosen, missing) \in Seq(Urls)
      /\ ToSet(Those(chosen, missing)) = ToSet(chosen) \cap missing
      /\ IsInjective(chosen) => IsInjective(Those(chosen, missing))
  <2> HIDE DEF missing
  <2> QED
    BY ThoseTaken
<1> QED
  BY <1>1, <1>2 DEF ToFetch

\* When it starts, no page is there.
LEMMA StartCrawlKeeps == ASSUME SearchInv, CrawlInv, StartCrawl PROVE CrawlInv'
<1>1. /\ stage = "crawl" /\ stage' = "crawling" /\ hits' = Hits
      /\ CrawlMany(Filter(chosen, LAMBDA u : u \notin Hits))
      /\ UNCHANGED <<chosen, cache, crawled>>
  BY DEF StartCrawl
<1>2. chosen \in Seq(Urls)
  BY DEF SearchInv, SearchTypes
<1>3. Filter(chosen, LAMBDA u : u \notin Hits) = ToFetch
  <2> DEFINE missing == {u \in Urls : cache[u] = NoPage}
  <2>1. \A i \in DOMAIN chosen : chosen[i] \notin Hits <=> chosen[i] \in missing
    BY <1>2 DEF Hits, ToSet
  <2>2. {i \in DOMAIN chosen : chosen[i] \notin Hits} = {i \in DOMAIN chosen : chosen[i] \in missing}
    BY <2>1
  <2> HIDE DEF missing
  <2>3. Filter(chosen, LAMBDA u : u \notin Hits) = Those(chosen, missing)
    BY <2>2 DEF Filter, With, Those
  <2> QED
    BY <2>3 DEF ToFetch, missing
<1>4. /\ fetching' = ToFetch /\ task' = [i \in 1..Len(ToFetch) |-> Queued]
      /\ pages' = pages
  BY <1>1, <1>3 DEF CrawlMany
<1>5. ToFetch \in Seq(Urls)
  BY <1>2, ToFetchTaken
<1>6. ToFetch' = ToFetch /\ Hits' = Hits
  BY <1>1 DEF ToFetch, Hits
<1>7. Queued.state = "queued" /\ "state" \in DOMAIN Queued
  BY DEF Queued, Task
<1>8. CrawlTypes'
  <2>1. DOMAIN ToFetch = 1..Len(ToFetch) /\ DOMAIN task' = 1..Len(ToFetch)
    BY <1>4, <1>5
  <2>2. \A i \in DOMAIN task' : "state" \in DOMAIN task'[i]
    BY <1>4, <1>7
  <2> QED
    BY <1>1, <1>4, <1>5, <2>1, <2>2 DEF CrawlInv, CrawlTypes
<1>9. InTheCrawl'
  <2>1. \A u \in Urls : pages[u] = NoPage
    BY <1>1 DEF CrawlInv, BeforeTheCrawl, NotYetCrawled
  <2>2. \A i \in DOMAIN task' : task'[i].state # "done"
    BY <1>4, <1>7
  <2> QED
    BY <1>1, <1>4, <1>6, <2>1, <2>2 DEF InTheCrawl
<1> QED
  BY <1>1, <1>8, <1>9 DEF CrawlInv, BeforeTheCrawl, AfterTheCrawl, NotYetCrawled

\* A task that ends has its page, or a failure, in the table.
LEMMA CrawlStepKeeps == ASSUME CrawlInv, CrawlStep PROVE CrawlInv'
<1>1. /\ stage = "crawling" /\ stage' = "crawling"
      /\ CrawlTick \/ \E i \in Tasks : Crawl(i)
      /\ UNCHANGED <<chosen, cache, hits, crawled>>
  BY DEF CrawlStep
<1>2. /\ fetching' = fetching
      /\ \/ TaskKept /\ pages' = pages
         \/ \E i \in Tasks, outcome \in Docs \cup {Failed} : Finish(i, outcome)
  BY <1>1, CrawlSteps DEF CrawlInv
<1>3. ToFetch' = ToFetch /\ Hits' = Hits
  BY <1>1 DEF ToFetch, Hits
<1>4. ASSUME CrawlTypes', 
             \A u \in Urls : pages'[u] # NoPage => u \in ToSet(fetching),
             \A i \in DOMAIN task' : task'[i].state = "done" => pages'[fetching[i]] # NoPage
      PROVE  CrawlInv'
  BY <1>1, <1>2, <1>3, <1>4
     DEF CrawlInv, BeforeTheCrawl, InTheCrawl, AfterTheCrawl, NotYetCrawled
<1>5. CASE TaskKept /\ pages' = pages
  <2>1. CrawlTypes'
    BY <1>1, <1>2, <1>5 DEF CrawlInv, CrawlTypes, TaskKept
  <2> QED
    BY <1>1, <1>4, <1>5, <2>1 DEF CrawlInv, InTheCrawl, TaskKept
<1>6. ASSUME NEW i \in Tasks, NEW outcome \in Docs \cup {Failed}, Finish(i, outcome)
      PROVE  CrawlInv'
  <2> DEFINE new == [task[i] EXCEPT !.state = "done"]
  <2>1. /\ task' = [task EXCEPT ![i] = new]
        /\ pages' = [pages EXCEPT ![fetching[i]] = outcome]
    BY <1>6 DEF Finish
  <2>2. "state" \in DOMAIN new /\ i \in DOMAIN task /\ DOMAIN task = DOMAIN fetching
    BY DEF CrawlInv, CrawlTypes, Tasks
  <2> HIDE DEF new
  <2>3. fetching[i] \in Urls /\ fetching[i] \in ToSet(fetching) /\ outcome # NoPage
    <3>1. outcome # NoPage
      BY WebCrawlAssumption DEF WebCrawlAssumption, Docs, Failed, NoPage
    <3> QED
      BY <2>2, <3>1 DEF CrawlInv, CrawlTypes, ToSet
  <2>4. CrawlTypes'
    <3>1. pages' \in [Urls -> Docs \cup {Failed, NoPage}]
      BY <2>1, <2>3 DEF CrawlInv, CrawlTypes
    <3>2. DOMAIN task' = DOMAIN fetching /\ \A j \in DOMAIN task' : "state" \in DOMAIN task'[j]
      BY <2>1, <2>2 DEF CrawlInv, CrawlTypes
    <3> QED
      BY <1>1, <1>2, <3>1, <3>2 DEF CrawlInv, CrawlTypes
  <2>5. \A u \in Urls : pages'[u] # NoPage => u \in ToSet(fetching)
    BY <1>1, <2>1, <2>3 DEF CrawlInv, CrawlTypes, InTheCrawl
  <2>6. ASSUME NEW j \in DOMAIN task', task'[j].state = "done" PROVE pages'[fetching[j]] # NoPage
    <3>1. j \in DOMAIN task /\ fetching[j] \in Urls
      BY <2>1, <2>2 DEF CrawlInv, CrawlTypes
    <3>2. CASE fetching[j] = fetching[i]
      BY <2>1, <2>3, <3>2 DEF CrawlInv, CrawlTypes
    <3>3. CASE fetching[j] # fetching[i]
      <4>1. task'[j] = task[j] /\ pages'[fetching[j]] = pages[fetching[j]]
        BY <2>1, <2>3, <3>1, <3>3 DEF CrawlInv, CrawlTypes
      <4> QED
        BY <1>1, <2>6, <3>1, <4>1 DEF CrawlInv, InTheCrawl
    <3> QED
      BY <3>2, <3>3
  <2> QED
    BY <1>4, <2>4, <2>5, <2>6
<1> QED
  BY <1>2, <1>5, <1>6

\* When all tasks are done, each chosen URL has its document or failed.
LEMMA EndCrawlKeeps == ASSUME SearchInv, CrawlInv, EndCrawl PROVE CrawlInv'
<1>1. /\ stage = "crawling" /\ stage' = "enrich" /\ CrawlOver
      /\ cache' = [u \in Urls |-> IF pages[u] \notin {Failed, NoPage} THEN pages[u] ELSE cache[u]]
      /\ crawled' = [k \in DOMAIN chosen |-> [url |-> chosen[k], doc |-> Outcome(chosen[k])]]
      /\ fetching' = <<>> /\ task' = <<>>
      /\ UNCHANGED <<pages, chosen, hits>>
  BY DEF EndCrawl, EndOfCrawl
<1>2. /\ fetching = ToFetch /\ hits = Hits /\ DOMAIN task = DOMAIN fetching
      /\ \A u \in Urls : pages[u] # NoPage => u \in ToSet(fetching)
      /\ \A i \in DOMAIN task : pages[fetching[i]] # NoPage
  BY <1>1 DEF CrawlInv, CrawlTypes, InTheCrawl, CrawlOver, Tasks
<1>3. chosen \in Seq(Urls) /\ ToSet(fetching) = {u \in ToSet(chosen) : cache[u] = NoPage}
  BY <1>2, ToFetchTaken DEF SearchInv, SearchTypes
<1> DEFINE New(u) == IF u \in hits THEN cache'[u] ELSE pages[u]
<1>4. ASSUME NEW u \in ToSet(chosen)
      PROVE  Outcome(u) = New(u) /\ New(u) \in Docs \cup {Failed}
  <2>1. u \in Urls
    BY <1>3 DEF ToSet
  <2>2. CASE cache[u] = NoPage
    <3>1. u \notin hits /\ u \in ToSet(fetching)
      BY <1>2, <1>3, <2>2 DEF Hits
    <3>2. pages[u] # NoPage
      BY <1>2, <3>1 DEF ToSet
    <3>3. New(u) = pages[u] /\ Outcome(u) = pages[u]
      BY <3>1, <3>2 DEF Outcome
    <3> QED
      BY <2>1, <3>2, <3>3 DEF CrawlInv, CrawlTypes
  <2>3. CASE cache[u] # NoPage
    <3>1. u \in hits /\ u \notin ToSet(fetching)
      BY <1>2, <1>3, <2>3 DEF Hits
    <3>2. pages[u] = NoPage
      BY <1>2, <2>1, <3>1
    <3>3. cache'[u] = cache[u]
      BY <1>1, <2>1, <3>2
    <3>4. New(u) = cache[u] /\ Outcome(u) = cache[u]
      BY <3>1, <3>2, <3>3 DEF Outcome
    <3> QED
      BY <2>1, <2>3, <3>4 DEF CrawlInv, CrawlTypes
  <2> QED
    BY <2>2, <2>3
<1>5. \A k \in DOMAIN chosen : chosen[k] \in ToSet(chosen)
  BY DEF ToSet
<1>6. AfterTheCrawl'
  <2>1. \A k \in DOMAIN chosen : Outcome(chosen[k]) = New(chosen[k])
                                 /\ New(chosen[k]) \in Docs \cup {Failed}
    BY <1>4, <1>5
  <2> QED
    BY <1>1, <2>1 DEF AfterTheCrawl, DocOf
<1>7. CrawlTypes'
  <2>1. cache' \in [Urls -> Docs \cup {NoPage}]
    BY <1>1 DEF CrawlInv, CrawlTypes
  <2>2. fetching' \in Seq(Urls) /\ DOMAIN task' = {} /\ DOMAIN fetching' = {}
    BY <1>1, EmptyTask
  <2> QED
    BY <1>1, <2>1, <2>2 DEF CrawlInv, CrawlTypes
<1> QED
  BY <1>1, <1>6, <1>7 DEF CrawlInv, BeforeTheCrawl, InTheCrawl, NotYetCrawled

\* The merge comes before the crawl, or instead of it.
LEMMA MergeKeepsCrawl == ASSUME SearchInv, CrawlInv, Merge PROVE CrawlInv'
<1>1. /\ stage = "search" /\ stage' = IF chosen' = <<>> THEN "leads" ELSE "crawl"
      /\ UNCHANGED <<fetching, task, pages, since, idle, cache, hits, crawled>>
  BY DEF Merge, crawlStageVars, crawlVars
<1>2. CrawlTypes' /\ BeforeTheCrawl'
  BY <1>1 DEF CrawlInv, CrawlTypes, BeforeTheCrawl, NotYetCrawled
<1>3. InTheCrawl'
  BY <1>1 DEF CrawlInv, InTheCrawl
<1>4. AfterTheCrawl'
  <2>1. CASE chosen' = <<>>
    <3>1. crawled' = <<>> /\ DOMAIN chosen' = {}
      BY <1>1, <2>1, EmptyTask DEF CrawlInv, BeforeTheCrawl, NotYetCrawled
    <3> DEFINE f == [k \in DOMAIN chosen' |-> [url |-> chosen'[k], doc |-> DocOf(chosen[k])']]
    <3>2. f = [k \in {} |-> f[k]]
      BY <3>1
    <3>3. f = <<>>
      <4> HIDE DEF f
      <4> QED
        BY <3>2, EmptyTask
    <3> QED
      BY <3>1, <3>3 DEF AfterTheCrawl
  <2>2. CASE chosen' # <<>>
    BY <1>1, <2>2 DEF AfterTheCrawl, NotYetCrawled
  <2> QED
    BY <2>1, <2>2
<1> QED
  BY <1>2, <1>3, <1>4 DEF CrawlInv

\* The actions that leave the crawl alone.
LEMMA OthersKeepCrawl ==
    ASSUME stage \in Stages,
           \/ Parse \/ MakePlan
           \/ \E q \in Queries :
                \/ StartQuery(q) \/ QueryRaises(q) \/ Return(q)
                \/ \E p \in Providers : Answer(q, p) \/ ProviderFails(q, p)
           \/ Enrich \/ FoundNothing \/ StartScoring \/ EndScoring
           \/ \E i \in unscored : ScoreOne(i)
           \/ Research \/ FindContacts
    PROVE  /\ UNCHANGED <<crawlStageVars, chosen>>
           /\ \/ UNCHANGED stage
              \/ stage \in NotYetCrawled /\ stage' \in NotYetCrawled
              \/ /\ stage \in Stages \ (NotYetCrawled \cup {"crawling"})
                 /\ stage' \in Stages \ (NotYetCrawled \cup {"crawling"})
<1> USE DEF Stages, NotYetCrawled
<1>1. CASE Parse
  BY <1>1 DEF Parse
<1>2. CASE MakePlan
  BY <1>2 DEF MakePlan
<1>3. ASSUME NEW q \in Queries, \/ StartQuery(q) \/ QueryRaises(q) \/ Return(q)
                                \/ \E p \in Providers : Answer(q, p) \/ ProviderFails(q, p)
      PROVE  UNCHANGED <<crawlStageVars, chosen, stage>>
  <2>1. CASE StartQuery(q) \/ QueryRaises(q) \/ Return(q)
    BY <2>1 DEF StartQuery, QueryRaises, Return, Searching
  <2>2. CASE \E p \in Providers : Answer(q, p) \/ ProviderFails(q, p)
    BY <2>2 DEF Answer, ProviderFails, Respond
  <2> QED
    BY <1>3, <2>1, <2>2
<1>4. CASE Enrich
  BY <1>4 DEF Enrich
<1>5. CASE FoundNothing
  BY <1>5 DEF FoundNothing, Serve
<1>6. CASE StartScoring
  BY <1>6 DEF StartScoring, Serve
<1>7. CASE EndScoring
  BY <1>7 DEF EndScoring, Serve
<1>8. CASE \E i \in unscored : ScoreOne(i)
  BY <1>8 DEF ScoreOne, Serve
<1>9. CASE Research
  BY <1>9 DEF Research, Serve
<1>10. CASE FindContacts
  BY <1>10 DEF FindContacts, Serve
<1> QED
  BY <1>1, <1>2, <1>3, <1>4, <1>5, <1>6, <1>7, <1>8, <1>9, <1>10

\* Every step keeps the invariant of the crawl.
LEMMA CrawlInvStep == ASSUME SearchInv, CrawlInv, [Next]_vars PROVE CrawlInv'
<1>1. CASE UNCHANGED vars
  BY <1>1, CrawlKept DEF vars, pipelineVars
<1>2. CASE StartCrawl \/ CrawlStep \/ EndCrawl \/ Merge
  BY <1>2, StartCrawlKeeps, CrawlStepKeeps, EndCrawlKeeps, MergeKeepsCrawl
<1>3. ASSUME Next, ~(StartCrawl \/ CrawlStep \/ EndCrawl \/ Merge) PROVE CrawlInv'
  <2>1. stage \in Stages
    BY DEF SearchInv, SearchTypes
  <2> QED
    BY <1>3, <2>1, ActionsOfRun, OthersKeepCrawl, CrawlKept DEF AfterMerge
<1> QED
  BY <1>1, <1>2, <1>3

\* The invariant of the crawl: each chosen URL comes to a document, from the cache or
\* from the crawl, or to a failure, and has its place among the pages.
THEOREM CrawlsAccountForAll == Spec => []CrawlInv
BY SearchesLoseNothing, CrawlInitially, CrawlInvStep, PTL DEF Spec

\* With one page per domain, no page is fetched twice in a run, nor when it is in the
\* cache (_run_crawl_stage).
THEOREM PagesAreCrawledOnce == Spec => []CrawledOnce
<1>1. ASSUME SearchInv, CrawlInv PROVE CrawledOnce
  <2> SUFFICES ASSUME perDomain = 1, NEW i \in Tasks
               PROVE  /\ \A j \in Tasks \ {i} : PageOf[fetching[i]] # PageOf[fetching[j]]
                      /\ stage = "crawling" => cache[fetching[i]] = NoPage
    BY DEF CrawledOnce
  <2>1. DOMAIN task = DOMAIN fetching
    BY <1>1 DEF CrawlInv, CrawlTypes
  <2>2. stage = "crawling" /\ fetching = ToFetch
    <3>1. fetching # <<>>
      BY <2>1 DEF Tasks
    <3> QED
      BY <1>1, <3>1 DEF CrawlInv, InTheCrawl
  <2>3. /\ ToSet(chosen) \subseteq ToSet(found) /\ IsInjective(chosen) /\ OfOwnPages(ToSet(found))
        /\ chosen \in Seq(Urls)
    BY <1>1, <2>2 DEF SearchInv, SearchTypes, Merged, Searched
  <2>4. /\ ToSet(fetching) = {u \in ToSet(chosen) : cache[u] = NoPage} /\ IsInjective(fetching)
    BY <2>2, <2>3, ToFetchTaken
  <2>5. fetching[i] \in ToSet(fetching)
    BY <2>1 DEF Tasks, ToSet
  <2>6. ASSUME NEW j \in Tasks \ {i} PROVE PageOf[fetching[i]] # PageOf[fetching[j]]
    <3>1. fetching[j] \in ToSet(fetching)
      BY <2>1 DEF Tasks, ToSet
    <3>2. fetching[i] # fetching[j]
      BY <2>1, <2>4 DEF IsInjective, Tasks
    <3> QED
      BY <2>3, <2>4, <2>5, <3>1, <3>2 DEF OfOwnPages
  <2> QED
    BY <2>2, <2>4, <2>5, <2>6
<1> QED
  BY <1>1, SearchesLoseNothing, CrawlsAccountForAll, PTL

--------------------------------------------------------------------------------

(* Scores. *)

\* The least of two numbers.
LEMMA LeastOfTwo ==
    ASSUME NEW m \in Int, NEW n \in Int
    PROVE  Min({m, n}) \in {m, n} /\ Min({m, n}) <= m /\ Min({m, n}) <= n
<1>1. \E x \in {m, n} : \A y \in {m, n} : x <= y
  <2>1. CASE m <= n
    BY <2>1
  <2>2. CASE ~(m <= n)
    BY <2>2
  <2> QED
    BY <2>1, <2>2
<1> QED
  BY <1>1 DEF Min

\* The members of a list are finitely many.
LEMMA FinitelyMany ==
    ASSUME NEW S, NEW s \in Seq(S)
    PROVE  /\ IsFiniteSet(ToSet(s)) /\ ToSet(s) \subseteq S
           /\ Cardinality(ToSet(s)) \in Nat
<1>1. s \in Surjection(1..Len(s), ToSet(s)) /\ Len(s) \in Nat
  BY DEF Surjection, ToSet
<1>2. IsFiniteSet(1..Len(s))
  BY <1>1, FS_Interval
<1>3. IsFiniteSet(ToSet(s))
  BY <1>1, <1>2, FS_Surjection
<1> QED
  BY <1>3, FS_CardinalityType DEF ToSet

\* Numbers of members of finite sets.
LEMMA SomeOfFinite ==
    ASSUME NEW S, IsFiniteSet(S), NEW T, T \subseteq S
    PROVE  /\ IsFiniteSet(T) /\ Cardinality(T) \in Nat /\ Cardinality(S) \in Nat
           /\ S # {} => Cardinality(S) # 0
<1>1. IsFiniteSet(T)
  BY FS_Subset
<1> QED
  BY <1>1, FS_CardinalityType, FS_EmptySet

\* Sets of five.
LEMMA FiveFinite ==
    ASSUME NEW a, NEW b, NEW c, NEW d, NEW e PROVE IsFiniteSet({a, b, c, d, e})
<1>1. IsFiniteSet({a})
  BY FS_Singleton
<1>2. IsFiniteSet({a} \cup {b})
  BY <1>1, FS_AddElement
<1>3. IsFiniteSet({a} \cup {b} \cup {c})
  BY <1>2, FS_AddElement
<1>4. IsFiniteSet({a} \cup {b} \cup {c} \cup {d})
  BY <1>3, FS_AddElement
<1>5. IsFiniteSet({a} \cup {b} \cup {c} \cup {d} \cup {e})
  BY <1>4, FS_AddElement
<1>6. {a, b, c, d, e} = {a} \cup {b} \cup {c} \cup {d} \cup {e}
  OBVIOUS
<1> QED
  BY <1>5, <1>6

\* The three parts of a score are numbers.
LEMMA FewScores ==
    ASSUME NEW q \in IcpQueries, NEW page, NEW text
    PROVE  TechScore(q, page) \in Int /\ HiringScore(text) \in Int /\ ProfileScore(q, text) \in Int
<1>1. TechScore(q, page) \in Int
  <2> DEFINE detected == page.techs \cup {tech \in IcpTechs(q) : Says(page.text, tech)}
             S == IcpTechs(q)
             T == detected \cap IcpTechs(q)
  <2>1. IsFiniteSet(S)
    BY Fields, FinitelyMany, FS_Union DEF IcpTechs
  <2>2. /\ Cardinality(T) \in Nat /\ Cardinality(S) \in Nat
        /\ S # {} => Cardinality(S) # 0
    <3>1. T \subseteq S
      OBVIOUS
    <3> HIDE DEF S, T
    <3> QED
      BY <2>1, <3>1, SomeOfFinite
  <2>3. TechScore(q, page) = IF S = {} THEN Whole \div 2
                             ELSE (Whole * Cardinality(T)) \div Cardinality(S)
    BY DEF TechScore
  <2>4. S = {} => TechScore(q, page) \in Int
    <3>1. Whole \div 2 \in Int
      BY DEF Whole
    <3> QED
      BY <2>3, <3>1
  <2>5. S # {} => (Whole * Cardinality(T)) \div Cardinality(S) \in Int
    <3> HIDE DEF S, T
    <3>1. Whole * Cardinality(T) \in Int
      BY <2>2 DEF Whole
    <3> QED
      BY <2>2, <3>1
  <2> QED
    BY <2>3, <2>4, <2>5
<1>2. HiringScore(text) \in Int
  <2> DEFINE S == HiringSignals(text)
  <2>1. IsFiniteSet(HiringRoles)
    BY FiveFinite DEF HiringRoles
  <2>2. Cardinality(S) \in Nat
    <3>1. S \subseteq HiringRoles
      BY DEF HiringSignals
    <3> QED
      BY <2>1, <3>1, SomeOfFinite
  <2> DEFINE n == 2000 * Cardinality(S)
  <2>3. Whole \in Int /\ n \in Int
    BY <2>2 DEF Whole
  <2>4. HiringScore(text) = Min({Whole, n})
    BY DEF HiringScore
  <2> HIDE DEF n
  <2>5. HiringScore(text) \in {Whole, n}
    BY <2>3, <2>4, LeastOfTwo
  <2> QED
    BY <2>3, <2>5
<1>3. ProfileScore(q, text) \in Int
  <2> DEFINE S == IcpIndustries(q)
             said == {industry \in IcpIndustries(q) : Says(text, industry)}
             a == IF q.industries # <<>> THEN 5000 ELSE 0
             b == IF q.countries # <<>> THEN 3000 ELSE 0
             c == IF q.sizes # <<>> THEN 2000 ELSE 0
             x == IF said # {} THEN (5000 * Cardinality(said)) \div Cardinality(S) ELSE 0
             y == IF \E place \in ToSet(q.countries) : Says(text, place) THEN 3000 ELSE 0
             z == IF \E size \in ToSet(q.sizes) : \E word \in SizeWords(size) : Says(text, word)
                    THEN 2000 ELSE 0
             total == a + b + c
             score == x + y + z
  <2>1. IsFiniteSet(S)
    BY Fields, FinitelyMany DEF IcpIndustries
  <2>2. /\ Cardinality(said) \in Nat /\ Cardinality(S) \in Nat
        /\ said # {} => Cardinality(S) # 0
    <3>1. said \subseteq S
      OBVIOUS
    <3> HIDE DEF S, said
    <3> QED
      BY <2>1, <3>1, SomeOfFinite
  <2>3. x \in Int
    <3> HIDE DEF S, said
    <3>1. 5000 * Cardinality(said) \in Int
      BY <2>2
    <3> QED
      BY <2>2, <3>1
  <2>4. y \in Int /\ z \in Int /\ total \in Nat
    OBVIOUS
  <2>5. ProfileScore(q, text) = IF total = 0 THEN Whole \div 2
                                ELSE Min({Whole, (Whole * score) \div total})
    BY DEF ProfileScore
  <2> HIDE DEF x, y, z, total
  <2>6. Whole \in Int /\ Whole \div 2 \in Int
    BY DEF Whole
  <2>7. total # 0 => (Whole * score) \div total \in Int
    <3>1. Whole * score \in Int
      BY <2>3, <2>4, <2>6
    <3> HIDE DEF score
    <3> QED
      BY <2>4, <3>1
  <2>8. total # 0 => Min({Whole, (Whole * score) \div total}) \in Int
    <3> HIDE DEF score
    <3> QED
      BY <2>6, <2>7, LeastOfTwo
  <2> QED
    BY <2>5, <2>6, <2>8
<1> QED
  BY <1>1, <1>2, <1>3

\* And so is the score.
LEMMA ScoreTyped ==
    ASSUME NEW q \in IcpQueries, NEW page, NEW age \in Ages
    PROVE  Score(q, page, age) \in Int
<1> DEFINE w == Weights(q)
           t == TechScore(q, page)
           h == HiringScore(page.text)
           r == ProfileScore(q, page.text)
           composite == (w[1] * t + w[2] * h + w[3] * r) \div 100
           n == (composite * Freshness(age)) \div 100
<1>1. w[1] \in Int /\ w[2] \in Int /\ w[3] \in Int
  BY DEF Weights
<1>2. t \in Int /\ h \in Int /\ r \in Int
  BY FewScores
<1>3. Freshness(age) \in Int
  BY DEF Freshness, Ages
<1>4. Score(q, page, age) = Min({Whole, n})
  BY DEF Score
<1> HIDE DEF w, t, h, r
<1>5. composite \in Int
  <2>1. w[1] * t \in Int /\ w[2] * h \in Int /\ w[3] * r \in Int
    BY <1>1, <1>2
  <2>2. w[1] * t + w[2] * h + w[3] * r \in Int
    BY <2>1
  <2> QED
    BY <2>2
<1> HIDE DEF composite
<1>6. n \in Int
  <2>1. composite * Freshness(age) \in Int
    BY <1>3, <1>5
  <2> QED
    BY <2>1
<1> HIDE DEF n
<1>7. Whole \in Int
  BY DEF Whole
<1> QED
  BY <1>4, <1>6, <1>7, LeastOfTwo

--------------------------------------------------------------------------------

\* A page that has been through the cache is worth what it was worth.
LEMMA CachedPageIsWorthTheSame ==
    ASSUME NEW d \in Docs, NEW q, NEW age
    PROVE  LET page == Parsed[d]
               back == FromCache(page) IN
           /\ Keeps(q, back, age) <=> Keeps(q, page, age)
           /\ Keeps(q, page, age) =>
                /\ Score(q, back, age) = Score(q, page, age)
                /\ back.text = page.text
                /\ NamingRaises(back) <=> NamingRaises(page)
<1> DEFINE page == Parsed[d]
           back == FromCache(page)
           p == Feed(Document[d])
<1>1. \/ page = FailedPage
      \/ page = [success |-> TRUE, title |-> p.title, text |-> p.text, siteName |-> p.siteName,
                 jsonLd |-> p.jsonLd, links |-> p.links,
                 techs |-> {tech \in TechKeywords : Says(p.text, tech)}]
  BY DEF Parsed, PageFrom, Docs
<1>2. back = [page EXCEPT !.links = <<>>]
  BY DEF FromCache
<1> HIDE DEF p, page, back
<1>3. CASE page = FailedPage
  <2>1. page.success = FALSE /\ back.success = FALSE
    BY <1>2, <1>3 DEF FailedPage
  <2> QED
    BY <2>1 DEF Keeps, page, back
<1>4. CASE page # FailedPage
  <2>1. /\ back.success = page.success /\ back.text = page.text /\ back.jsonLd = page.jsonLd
        /\ back.techs = page.techs
    BY <1>1, <1>2, <1>4
  <2>2. Score(q, back, age) = Score(q, page, age)
    BY <2>1 DEF Score, TechScore
  <2>3. NamingRaises(back) <=> NamingRaises(page)
    BY <2>1 DEF NamingRaises
  <2>4. Keeps(q, back, age) <=> Keeps(q, page, age)
    BY <2>1, <2>2 DEF Keeps
  <2> QED
    BY <2>1, <2>2, <2>3, <2>4 DEF page, back
<1> QED
  BY <1>3, <1>4

\* The page of a URL is worth what its document is, from the cache or not.
LEMMA PageIsWorthItsDocument ==
    ASSUME NEW c, NEW q, NEW age, c.doc \in Docs \cup {Failed}
    PROVE  /\ Keeps(q, PageAt(c), age) <=> c.doc # Failed /\ Keeps(q, Parsed[c.doc], age)
           /\ Keeps(q, PageAt(c), age) =>
                /\ Score(q, PageAt(c), age) = Score(q, Parsed[c.doc], age)
                /\ NamingRaises(PageAt(c)) <=> NamingRaises(Parsed[c.doc])
<1>1. CASE c.doc = Failed
  <2>1. PageAt(c) = FailedPage
    BY <1>1 DEF PageAt
  <2>2. ~Keeps(q, FailedPage, age)
    BY DEF Keeps, FailedPage
  <2> QED
    BY <1>1, <2>1, <2>2
<1>2. CASE c.doc # Failed /\ c.url \in hits
  <2>1. PageAt(c) = FromCache(Parsed[c.doc])
    BY <1>2 DEF PageAt
  <2> QED
    BY <1>2, <2>1, CachedPageIsWorthTheSame
<1>3. CASE c.doc # Failed /\ c.url \notin hits
  <2>1. PageAt(c) = Parsed[c.doc]
    BY <1>3 DEF PageAt
  <2> QED
    BY <1>3, <2>1
<1> QED
  BY <1>1, <1>2, <1>3

--------------------------------------------------------------------------------

(* The leads. *)

Titles == Text \cup Executives
Lead == [url : Urls, domain : Domains, score : Int,
         hints : {hints \in SUBSET Titles : IsFiniteSet(hints)}, odd : BOOLEAN]

\* The worth of what is sorted, and what is the best first.
ByScore(s) == [i \in DOMAIN s |-> -s[i].score]
BestFirst(s) == \A j, k \in DOMAIN s : j < k => s[j].score >= s[k].score

\* The sort of enrich_many and of the scorer puts the best first.
LEMMA BestAreFirst ==
    ASSUME NEW S, \A x \in S : x.score \in Int, NEW s \in Seq(S)
    PROVE  LET t == InOrderOf(ByScore(s), s) IN
           /\ t \in Seq(S) /\ Len(t) = Len(s) /\ ToSet(t) = ToSet(s)
           /\ BestFirst(t)
<1> DEFINE t == InOrderOf(ByScore(s), s)
           keys == ByScore(s)
           n == Len(s)
<1>1. keys \in [DOMAIN s -> Int] /\ \A i \in DOMAIN s : keys[i] = -s[i].score
  BY DEF ByScore
<1> HIDE DEF keys
<1>2. t \in Seq(S) /\ Len(t) = n
  BY <1>1, SortTakes DEF keys
<1>3. PICK p : Sorts(p, keys, n) /\ t = [k \in 1..n |-> s[p[k]]]
  BY <1>1, SortTakes DEF keys
<1>4. ToSet(t) = ToSet(s)
  BY <1>1, SortMembers DEF keys
<1> HIDE DEF t
<1>5. n \in Nat /\ DOMAIN s = 1..n /\ DOMAIN t = 1..n
  BY <1>2
<1>6. ASSUME NEW j \in 1..n, NEW k \in 1..n, j < k PROVE t[j].score >= t[k].score
  <2>1. p[j] \in 1..n /\ p[k] \in 1..n /\ keys[p[j]] <= keys[p[k]]
    BY <1>3, <1>6 DEF Sorts
  <2>2. t[j] = s[p[j]] /\ t[k] = s[p[k]]
    BY <1>3
  <2>3. s[p[j]].score \in Int /\ s[p[k]].score \in Int
    BY <1>5, <2>1
  <2>4. keys[p[j]] = -s[p[j]].score /\ keys[p[k]] = -s[p[k]].score
    BY <1>1, <1>5, <2>1
  <2> QED
    BY <2>1, <2>2, <2>3, <2>4
<1>7. BestFirst(t)
  BY <1>5, <1>6 DEF BestFirst
<1> QED
  BY <1>2, <1>4, <1>7 DEF t

--------------------------------------------------------------------------------

\* The chosen search results whose page came and is worth enough.
GoodUrls ==
    {u \in ToSet(chosen) \cap ToSet(found) :
       DocOf(u) \notin {Failed, NoPage} /\ Keeps(icp, Parsed[DocOf(u)], Age[u])}

WorthIts(lead) == lead.score = Score(icp, Parsed[DocOf(lead.url)], Age[lead.url])

LeadsOfAllGood ==
    /\ stage = "failed" => \E u \in GoodUrls : NamingRaises(Parsed[DocOf(u)])
    /\ Discovered =>
         /\ {leads[k].url : k \in DOMAIN leads} = GoodUrls
         /\ perDomain = 1 => Len(leads) = Cardinality(GoodUrls)
         /\ \A k \in DOMAIN leads : WorthIts(leads[k])
         /\ BestFirst(leads)

LeadsInv ==
    /\ leads \in Seq(Lead)
    /\ ~Discovered => leads = <<>>
    /\ LeadsOfAllGood

\* What enrich() makes is a lead.
LEMMA LeadTyped ==
    ASSUME NEW u \in Urls, NEW page, icp \in IcpQueries
    PROVE  LeadFrom(icp, u, DomainOf[u], page, Age[u]) \in Lead
<1>1. DomainOf[u] \in Domains /\ Age[u] \in Ages
  BY WebCrawlAssumption, PipelineAssumption DEF WebCrawlAssumption, PipelineAssumption
<1>2. Score(icp, page, Age[u]) \in Int
  BY <1>1, ScoreTyped
<1>3. TitleHints(icp, page.text) \in {hints \in SUBSET Titles : IsFiniteSet(hints)}
  <2> DEFINE all == ToSet(icp.titles) \cup Executives
  <2>1. IsFiniteSet(ToSet(icp.titles)) /\ ToSet(icp.titles) \subseteq Text
    BY Fields, FinitelyMany
  <2>2. IsFiniteSet(Executives)
    <3>1. IsFiniteSet({"cto"}) /\ IsFiniteSet({"vp engineering"})
      BY FS_Singleton
    <3>2. IsFiniteSet({"cto"} \cup {"vp engineering"})
      BY <3>1, FS_Union
    <3>3. Executives = {"cto"} \cup {"vp engineering"}
      BY DEF Executives
    <3> QED
      BY <3>2, <3>3
  <2>3. IsFiniteSet(all)
    BY <2>1, <2>2, FS_Union
  <2>4. TitleHints(icp, page.text) \subseteq all
    BY DEF TitleHints
  <2>5. all \subseteq Titles
    BY <2>1 DEF Titles
  <2> HIDE DEF all
  <2>6. IsFiniteSet(TitleHints(icp, page.text))
    BY <2>3, <2>4, FS_Subset
  <2> QED
    BY <2>4, <2>5, <2>6
<1>4. NameIsOdd(page) \in BOOLEAN
  BY DEF NameIsOdd
<1> QED
  BY <1>1, <1>2, <1>3, <1>4, Zenon DEF LeadFrom, Lead

\* The parts of a lead.
LEMMA LeadFields ==
    ASSUME NEW x \in Lead
    PROVE  /\ x.url \in Urls /\ x.domain \in Domains /\ x.score \in Int
           /\ x.hints \subseteq Titles /\ IsFiniteSet(x.hints) /\ x.odd \in BOOLEAN
BY DEF Lead

\* There are no leads in the beginning.
LEMMA LeadsInitially == ASSUME Init PROVE LeadsInv
BY DEF Init, PipelineInit, LeadsInv, LeadsOfAllGood, Discovered

Beyond == {"leads", "score", "research", "contacts", "completed"}

\* Steps that leave the leads and their pages alone.
LEMMA LeadsKept ==
    ASSUME LeadsInv, UNCHANGED <<icp, perDomain, found, chosen, crawlStageVars, leads>>,
           \/ UNCHANGED stage
           \/ stage \in Beyond /\ stage' \in Beyond
    PROVE  LeadsInv'
<1>1. UNCHANGED <<pages, cache, hits>>
  BY DEF crawlStageVars, crawlVars
<1>2. GoodUrls' = GoodUrls
  BY <1>1 DEF GoodUrls, DocOf
<1>3. \A k \in DOMAIN leads : WorthIts(leads[k])' <=> WorthIts(leads[k])
  BY <1>1 DEF WorthIts, DocOf
<1>4. (Discovered' <=> Discovered) /\ (stage' = "failed" <=> stage = "failed")
  BY DEF Discovered, Beyond
<1>5. LeadsOfAllGood'
  BY <1>1, <1>2, <1>3, <1>4 DEF LeadsInv, LeadsOfAllGood, BestFirst, DocOf
<1> QED
  BY <1>4, <1>5 DEF LeadsInv

\* Before there are leads.
LEMMA NoLeadsYet ==
    ASSUME LeadsInv, UNCHANGED leads, ~Discovered, ~Discovered', stage' # "failed"
    PROVE  LeadsInv'
BY DEF LeadsInv, LeadsOfAllGood

\* There are none if nothing was chosen.
LEMMA MergeKeepsLeads == ASSUME LeadsInv, Merge PROVE LeadsInv'
<1>1. /\ stage = "search" /\ stage' = (IF chosen' = <<>> THEN "leads" ELSE "crawl")
      /\ leads' = leads /\ leads = <<>>
  BY DEF Merge, LeadsInv, Discovered
<1>2. CASE chosen' # <<>>
  BY <1>1, <1>2, NoLeadsYet DEF Discovered
<1>3. CASE chosen' = <<>>
  <2>1. GoodUrls' = {}
    BY <1>3, EmptyTask DEF GoodUrls
  <2>2. Cardinality({}) = 0 /\ Len(<<>>) = 0 /\ DOMAIN <<>> = {}
    BY FS_EmptySet
  <2>3. LeadsOfAllGood'
    BY <1>1, <1>3, <2>1, <2>2 DEF LeadsOfAllGood, BestFirst
  <2> QED
    BY <1>1, <1>3, <2>3 DEF LeadsInv, Discovered
<1> QED
  BY <1>2, <1>3

\* The leads are made of all good pages, or a page that is no object ends the run.
LEMMA EnrichKeeps == ASSUME SearchInv, CrawlInv, LeadsInv, Enrich PROVE LeadsInv'
<1> DEFINE C == [url : Urls, doc : Docs \cup {Failed}]
           I == {i \in DOMAIN crawled : /\ crawled[i].url \in ToSet(found)
                                        /\ Keeps(icp, PageAt(crawled[i]), Age[crawled[i].url])}
           kept == At(crawled, I)
           made == [i \in DOMAIN kept |-> LeadOf(kept[i])]
<1>1. /\ stage = "enrich" /\ icp \in IcpQueries /\ chosen \in Seq(Urls)
      /\ UNCHANGED <<icp, perDomain, found, chosen, pages, cache, hits>>
  BY DEF Enrich, SearchInv, SearchTypes, crawlStageVars, crawlVars
<1>2. /\ crawled = [k \in DOMAIN chosen |-> [url |-> chosen[k], doc |-> DocOf(chosen[k])]]
      /\ \A k \in DOMAIN chosen : DocOf(chosen[k]) \in Docs \cup {Failed}
  BY <1>1 DEF CrawlInv, AfterTheCrawl, Stages, NotYetCrawled
<1>3. /\ crawled \in Seq(C) /\ DOMAIN crawled = DOMAIN chosen
      /\ \A k \in DOMAIN chosen : crawled[k].url = chosen[k] /\ crawled[k].doc = DocOf(chosen[k])
  <2>1. \A k \in DOMAIN chosen : [url |-> chosen[k], doc |-> DocOf(chosen[k])] \in C
    BY <1>1, <1>2
  <2>2. crawled \in [1..Len(chosen) -> C] /\ Len(chosen) \in Nat
    BY <1>1, <1>2, <2>1
  <2>3. \A k \in DOMAIN chosen : crawled[k].url = chosen[k] /\ crawled[k].doc = DocOf(chosen[k])
    BY <1>2
  <2> HIDE DEF C
  <2> QED
    BY <1>1, <2>2, <2>3
<1>4. \A k \in DOMAIN chosen : DocOf(chosen[k]) \in Docs \cup {Failed} /\ NoPage \notin Docs
                               /\ Failed \notin Docs /\ Failed # NoPage
  BY <1>2, WebCrawlAssumption DEF WebCrawlAssumption, Docs, Failed, NoPage
<1>5. /\ I \subseteq DOMAIN crawled
      /\ \A k \in DOMAIN chosen : k \in I <=> chosen[k] \in GoodUrls
  <2>1. ASSUME NEW k \in DOMAIN chosen PROVE k \in I <=> chosen[k] \in GoodUrls
    <3>1. Keeps(icp, PageAt(crawled[k]), Age[chosen[k]])
            <=> DocOf(chosen[k]) # Failed /\ Keeps(icp, Parsed[DocOf(chosen[k])], Age[chosen[k]])
      BY <1>2, <1>3, PageIsWorthItsDocument
    <3>2. chosen[k] \in ToSet(chosen)
      BY DEF ToSet
    <3> QED
      BY <1>3, <1>4, <3>1, <3>2 DEF GoodUrls
  <2> QED
    BY <2>1
<1>6. /\ kept \in Seq(C)
      /\ \E p \in [DOMAIN kept -> I] :
           /\ \A k \in DOMAIN kept : kept[k] = crawled[p[k]]
           /\ \A k, l \in DOMAIN kept : k < l => p[k] < p[l]
           /\ \A i \in I : \E k \in DOMAIN kept : p[k] = i
  <2> HIDE DEF C, I
  <2> QED
    BY <1>3, <1>5, AtTakes, AtMembers
<1>7. PICK p \in [DOMAIN kept -> I] :
        /\ \A k \in DOMAIN kept : kept[k] = crawled[p[k]]
        /\ \A k, l \in DOMAIN kept : k < l => p[k] < p[l]
        /\ \A i \in I : \E k \in DOMAIN kept : p[k] = i
  BY <1>6
<1>8. Filter(crawled, LAMBDA c : /\ c.url \in ToSet(found)
                                 /\ Keeps(icp, PageAt(c), Age[c.url])) = kept
  BY DEF Filter, With
<1>9. \/ /\ \E i \in DOMAIN kept : NamingRaises(PageAt(kept[i]))
         /\ stage' = "failed" /\ leads' = leads
      \/ /\ ~\E i \in DOMAIN kept : NamingRaises(PageAt(kept[i]))
         /\ leads' = SortedOn(Each(kept, LeadOf), LAMBDA lead : -lead.score)
         /\ stage' = "leads"
  <2> HIDE DEF kept
  <2> QED
    BY <1>8 DEF Enrich
<1>10. \A k \in DOMAIN kept :
         /\ p[k] \in DOMAIN chosen /\ p[k] \in I /\ kept[k].url = chosen[p[k]]
         /\ kept[k].doc = DocOf(chosen[p[k]]) /\ chosen[p[k]] \in GoodUrls
  BY <1>3, <1>5, <1>7
<1> HIDE DEF I, kept
<1>11. \A k \in DOMAIN kept :
         /\ Keeps(icp, PageAt(kept[k]), Age[kept[k].url])
         /\ Score(icp, PageAt(kept[k]), Age[kept[k].url])
              = Score(icp, Parsed[DocOf(kept[k].url)], Age[kept[k].url])
         /\ NamingRaises(PageAt(kept[k])) <=> NamingRaises(Parsed[DocOf(kept[k].url)])
  <2> TAKE k \in DOMAIN kept
  <2>1. kept[k].doc = DocOf(kept[k].url) /\ kept[k].doc \in Docs \cup {Failed}
    BY <1>2, <1>10
  <2>2. Keeps(icp, PageAt(kept[k]), Age[kept[k].url])
    BY <1>3, <1>7, <1>10 DEF I
  <2> QED
    BY <2>1, <2>2, PageIsWorthItsDocument
<1>12. GoodUrls' = GoodUrls
  BY <1>1 DEF GoodUrls, DocOf
<1>13. CASE stage' = "failed"
  <2>1. PICK i \in DOMAIN kept : NamingRaises(PageAt(kept[i])) /\ leads' = leads
    BY <1>9, <1>13
  <2>2. kept[i].url \in GoodUrls /\ NamingRaises(Parsed[DocOf(kept[i].url)])
    BY <1>10, <1>11, <2>1
  <2>3. \E u \in GoodUrls : NamingRaises(Parsed[DocOf(u)])
    BY <2>2
  <2>4. (\E u \in GoodUrls : NamingRaises(Parsed[DocOf(u)]))'
    BY <1>1, <1>12, <2>3 DEF DocOf
  <2> QED
    BY <1>1, <1>13, <2>1, <2>4 DEF LeadsInv, LeadsOfAllGood, Discovered
<1>14. CASE stage' # "failed"
  <2>1. stage' = "leads" /\ leads' = SortedOn(Each(kept, LeadOf), LAMBDA lead : -lead.score)
    BY <1>9, <1>14
  <2>2. made \in [DOMAIN kept -> Lead]
    <3>1. ASSUME NEW k \in DOMAIN kept PROVE LeadOf(kept[k]) \in Lead
      <4>1. kept[k].url \in Urls
        BY <1>1, <1>10
      <4> QED
        BY <1>1, <4>1, LeadTyped DEF LeadOf
    <3> QED
      BY <3>1
  <2>3. Each(kept, LeadOf) = SubSeq(made, 1, Len(kept))
    BY DEF Each, With
  <2>4. \A k \in DOMAIN kept : /\ made[k].url = kept[k].url
                               /\ made[k].score = Score(icp, PageAt(kept[k]), Age[kept[k].url])
    BY DEF LeadOf, LeadFrom
  <2>5. DOMAIN made = DOMAIN kept
    OBVIOUS
  <2> HIDE DEF made
  <2>6. made \in Seq(Lead) /\ Each(kept, LeadOf) = made /\ Len(made) = Len(kept)
    BY <1>6, <2>2, <2>3, RowTyped
  <2>7. leads' = InOrderOf(ByScore(made), made)
    BY <2>1, <2>6 DEF SortedOn, With, ByScore
  <2>8. \A x \in Lead : x.score \in Int
    BY LeadFields
  <2>9. /\ leads' \in Seq(Lead) /\ Len(leads') = Len(kept) /\ ToSet(leads') = ToSet(made)
        /\ BestFirst(leads')
    BY <2>6, <2>7, <2>8, BestAreFirst
  <2>10. \A k \in DOMAIN made : WorthIts(made[k])
    BY <1>11, <2>4, <2>5 DEF WorthIts
  <2>11. ASSUME NEW k \in DOMAIN leads' PROVE WorthIts(leads'[k]) /\ leads'[k].url \in GoodUrls
    <3>1. leads'[k] \in ToSet(made)
      BY <2>9 DEF ToSet
    <3>2. PICK i \in DOMAIN made : leads'[k] = made[i]
      BY <3>1 DEF ToSet
    <3> QED
      BY <1>10, <2>4, <2>5, <2>10, <3>2
  <2>12. ASSUME NEW u \in GoodUrls PROVE \E k \in DOMAIN leads' : leads'[k].url = u
    <3>1. PICK i \in DOMAIN chosen : u = chosen[i]
      BY DEF GoodUrls, ToSet
    <3>2. PICK k \in DOMAIN kept : p[k] = i
      BY <1>5, <1>7, <3>1
    <3>3. made[k].url = u /\ made[k] \in ToSet(made)
      BY <1>10, <2>4, <2>5, <3>1, <3>2 DEF ToSet
    <3> QED
      BY <2>9, <3>3 DEF ToSet
  <2>13. {leads'[k].url : k \in DOMAIN leads'} = GoodUrls
    BY <2>11, <2>12
  <2>14. ASSUME perDomain = 1 PROVE Len(leads') = Cardinality(GoodUrls)
    <3> DEFINE n == Len(kept)
               f == [k \in 1..n |-> kept[k].url]
    <3>1. n \in Nat /\ DOMAIN kept = 1..n
      BY <1>6
    <3>2. IsInjective(chosen)
      BY <1>1, <2>14 DEF SearchInv, Merged, Searched
    <3>3. \A k \in 1..n : kept[k].url \in GoodUrls
      BY <1>10, <3>1
    <3>4. ASSUME NEW u \in GoodUrls PROVE \E k \in 1..n : kept[k].url = u
      <4>1. PICK i \in DOMAIN chosen : u = chosen[i]
        BY DEF GoodUrls, ToSet
      <4>2. PICK k \in DOMAIN kept : p[k] = i
        BY <1>5, <1>7, <4>1
      <4> QED
        BY <1>10, <3>1, <4>1, <4>2
    <3>5. ASSUME NEW k \in 1..n, NEW l \in 1..n, kept[k].url = kept[l].url PROVE k = l
      <4>1. p[k] = p[l]
        BY <1>10, <3>1, <3>2, <3>5 DEF IsInjective
      <4>2. p[k] \in Nat /\ p[l] \in Nat
        BY <1>1, <1>10, <3>1
      <4>3. ~(k < l) /\ ~(l < k)
        BY <1>7, <3>1, <4>1, <4>2
      <4> QED
        BY <4>3
    <3>6. f \in Bijection(1..n, GoodUrls)
      <4>1. f \in [1..n -> GoodUrls] /\ \A k \in 1..n : f[k] = kept[k].url
        BY <3>3
      <4> HIDE DEF f, n
      <4> QED
        BY <3>4, <3>5, <4>1 DEF Bijection, Injection, Surjection, IsInjective
    <3> HIDE DEF f, n
    <3>7. Cardinality(GoodUrls) = n
      BY <3>1, <3>6, FS_CountingElements DEF ExistsBijection
    <3> QED
      BY <2>9, <3>7 DEF n
  <2>15. \A k \in DOMAIN leads' : (WorthIts(leads[k]))'
    BY <1>1, <2>11 DEF WorthIts, DocOf
  <2>16. LeadsOfAllGood'
    BY <1>1, <1>12, <1>14, <2>9, <2>13, <2>14, <2>15 DEF LeadsOfAllGood, BestFirst
  <2> QED
    BY <2>1, <2>9, <2>16 DEF LeadsInv, Discovered
<1> QED
  BY <1>13, <1>14

\* Every step keeps the invariant of the leads.
LEMMA LeadsInvStep == ASSUME SearchInv, CrawlInv, LeadsInv, [Next]_vars PROVE LeadsInv'
<1>1. CASE UNCHANGED vars
  BY <1>1, LeadsKept DEF vars, pipelineVars
<1>2. ASSUME Parse \/ MakePlan \/ StartCrawl \/ CrawlStep \/ EndCrawl
             \/ \E q \in Queries :
                  \/ StartQuery(q) \/ QueryRaises(q) \/ Return(q)
                  \/ \E p \in Providers : Answer(q, p) \/ ProviderFails(q, p)
      PROVE  LeadsInv'
  <2>1. CASE Parse
    BY <2>1, NoLeadsYet DEF Parse, Discovered
  <2>2. CASE MakePlan
    BY <2>2, NoLeadsYet DEF MakePlan, Discovered
  <2>3. CASE StartCrawl
    BY <2>3, NoLeadsYet DEF StartCrawl, Discovered
  <2>4. CASE CrawlStep
    BY <2>4, NoLeadsYet DEF CrawlStep, Discovered
  <2>5. CASE EndCrawl
    BY <2>5, NoLeadsYet DEF EndCrawl, Discovered
  <2>6. ASSUME NEW q \in Queries, StartQuery(q) \/ QueryRaises(q) \/ Return(q) PROVE LeadsInv'
    BY <2>6, LeadsKept DEF StartQuery, QueryRaises, Return, Searching
  <2>7. ASSUME NEW q \in Queries, NEW p \in Providers, Answer(q, p) \/ ProviderFails(q, p)
        PROVE  LeadsInv'
    BY <2>7, LeadsKept DEF Answer, ProviderFails, Respond
  <2> QED
    BY <1>2, <2>1, <2>2, <2>3, <2>4, <2>5, <2>6, <2>7
<1>3. ASSUME \/ FoundNothing \/ StartScoring \/ EndScoring \/ Research \/ FindContacts
             \/ \E i \in unscored : ScoreOne(i)
      PROVE  LeadsInv'
  <2>1. \E from \in Beyond, to \in Beyond : Serve(from, to)
    BY <1>3 DEF FoundNothing, StartScoring, EndScoring, Research, FindContacts, ScoreOne, Beyond
  <2> QED
    BY <2>1, LeadsKept DEF Serve
<1> QED
  BY <1>1, <1>2, <1>3, ActionsOfRun, MergeKeepsLeads, EnrichKeeps DEF AfterMerge

\* The invariant of the leads, which says of them what LeadsComplete does.
THEOREM LeadsAreTheGoodPages == Spec => []LeadsInv
BY SearchesLoseNothing, CrawlsAccountForAll, LeadsInitially, LeadsInvStep, PTL DEF Spec

\* Every good page is a lead, once, worth what its document is worth, the best first;
\* a run fails only on a page whose JSON-LD holds what is no object (enrich_many).
THEOREM LeadsAreComplete == Spec => []LeadsComplete
<1>1. LeadsInv => LeadsComplete
  BY DEF LeadsInv, LeadsOfAllGood, GoodUrls, WorthIts, DocOf, BestFirst, LeadsComplete
<1> QED
  BY <1>1, LeadsAreTheGoodPages, PTL

--------------------------------------------------------------------------------

(* Scoring the leads. *)

AllTitles == Titles \cup STRING
Notes == STRING \cup {"", "no model"}
Persons == [title : AllTitles, confidence : Int, email : {""}, linkedin : {""}]

\* Each title is that of one person.
OneEach(people) ==
    \A i, j \in DOMAIN people : people[i].title = people[j].title => i = j

\* A person as the scorer makes one.
LEMMA PersonTyped ==
    ASSUME NEW title \in AllTitles, NEW n \in Int
    PROVE  Person(title, n) \in Persons /\ Person(title, n).title = title
BY DEF Person, Persons

\* A set as a list has each member once.
LEMMA SetToSeqOnce ==
    ASSUME NEW S, IsFiniteSet(S)
    PROVE  SetToSeq(S) \in Seq(S) /\ IsInjective(SetToSeq(S))
<1>1. Cardinality(S) \in Nat /\ ExistsBijection(1..Cardinality(S), S)
  BY FS_CardinalityType
<1>2. \E f \in [1..Cardinality(S) -> S] : IsInjective(f)
  <2>1. PICK f \in Bijection(1..Cardinality(S), S) : TRUE
    BY <1>1 DEF ExistsBijection
  <2>2. f \in [1..Cardinality(S) -> S]
    BY <2>1 DEF Bijection, Injection
  <2>3. IsInjective(f)
    BY <2>1, <2>2 DEF Bijection, Injection, IsInjective
  <2> QED
    BY <2>2, <2>3
<1>3. SetToSeq(S) \in [1..Cardinality(S) -> S] /\ IsInjective(SetToSeq(S))
  BY <1>2 DEF SetToSeq
<1> QED
  BY <1>1, <1>3

\* A list made of titles that are all different.
LEMMA MadeOfTitles ==
    ASSUME NEW titles \in Seq(AllTitles), IsInjective(titles),
           NEW f, f \in [DOMAIN titles -> Persons],
           \A i \in DOMAIN titles : f[i].title = titles[i]
    PROVE  /\ SubSeq(f, 1, Len(titles)) \in Seq(Persons)
           /\ OneEach(SubSeq(f, 1, Len(titles)))
           /\ SubSeq(f, 1, Len(titles)) = f
<1>1. SubSeq(f, 1, Len(titles)) = f /\ f \in Seq(Persons)
  BY RowTyped
<1>2. OneEach(f)
  BY DEF OneEach, IsInjective
<1> QED
  BY <1>1, <1>2

\* The people the rules name have titles of their own.
LEMMA HintedOnce ==
    ASSUME NEW lead \in Lead
    PROVE  Hinted(lead) \in Seq(Persons) /\ OneEach(Hinted(lead))
<1> DEFINE Of(title) == Person(title, IF title \in ToSet(icp.titles) THEN 90 ELSE 50)
           s == SetToSeq(lead.hints)
           f == [i \in DOMAIN s |-> Of(s[i])]
<1>1. lead.hints \subseteq AllTitles /\ IsFiniteSet(lead.hints)
  BY LeadFields DEF AllTitles
<1>2. s \in Seq(lead.hints) /\ IsInjective(s)
  BY <1>1, SetToSeqOnce
<1> HIDE DEF s
<1>3. s \in Seq(AllTitles)
  BY <1>1, <1>2, SeqMonotonic
<1>4. \A x \in AllTitles : Of(x) \in Persons /\ Of(x).title = x
  BY PersonTyped
<1>5. f \in [DOMAIN s -> Persons] /\ \A i \in DOMAIN s : f[i].title = s[i]
  <2> HIDE DEF Of
  <2> QED
    BY <1>3, <1>4
<1>6. Each(s, Of) = SubSeq(f, 1, Len(s))
  <2> HIDE DEF Of
  <2> QED
    BY DEF Each, With
<1>7. Each(s, Of) \in Seq(Persons) /\ OneEach(Each(s, Of))
  <2> HIDE DEF f, Of
  <2> QED
    BY <1>2, <1>3, <1>5, <1>6, MadeOfTitles
<1> QED
  BY <1>7 DEF Hinted, s

\* Two lists of people without a common title.
LEMMA ConcatOnce ==
    ASSUME NEW S, NEW s \in Seq(S), NEW t \in Seq(S), OneEach(s), OneEach(t),
           \A i \in DOMAIN s, j \in DOMAIN t : s[i].title # t[j].title
    PROVE  OneEach(s \o t)
<1> DEFINE c == s \o t
<1>1. /\ c \in Seq(S) /\ Len(c) = Len(s) + Len(t) /\ Len(s) \in Nat /\ Len(t) \in Nat
      /\ \A i \in 1..Len(s) + Len(t) : c[i] = IF i <= Len(s) THEN s[i] ELSE t[i - Len(s)]
      /\ DOMAIN c = 1..Len(s) + Len(t) /\ DOMAIN s = 1..Len(s) /\ DOMAIN t = 1..Len(t)
  OBVIOUS
<1> HIDE DEF c
<1>2. ASSUME NEW i \in 1..Len(s) + Len(t), NEW j \in 1..Len(s) + Len(t),
             c[i].title = c[j].title, i <= Len(s)
      PROVE  i = j
  <2>1. c[i] = s[i] /\ i \in 1..Len(s)
    BY <1>1, <1>2
  <2>2. CASE j <= Len(s)
    <3>1. c[j] = s[j] /\ j \in 1..Len(s)
      BY <1>1, <2>2
    <3> QED
      BY <1>1, <1>2, <2>1, <3>1 DEF OneEach
  <2>3. CASE ~(j <= Len(s))
    <3>1. c[j] = t[j - Len(s)] /\ j - Len(s) \in 1..Len(t)
      BY <1>1, <2>3
    <3> QED
      BY <1>1, <1>2, <2>1, <3>1
  <2> QED
    BY <2>2, <2>3
<1>3. ASSUME NEW i \in 1..Len(s) + Len(t), NEW j \in 1..Len(s) + Len(t),
             c[i].title = c[j].title, ~(i <= Len(s)), ~(j <= Len(s))
      PROVE  i = j
  <2>1. /\ c[i] = t[i - Len(s)] /\ i - Len(s) \in 1..Len(t)
        /\ c[j] = t[j - Len(s)] /\ j - Len(s) \in 1..Len(t)
    BY <1>1, <1>3
  <2>2. i - Len(s) = j - Len(s)
    BY <1>1, <1>3, <2>1 DEF OneEach
  <2> QED
    BY <1>1, <2>2
<1>4. \A i, j \in 1..Len(s) + Len(t) : c[i].title = c[j].title => i = j
  BY <1>2, <1>3
<1> QED
  BY <1>1, <1>4 DEF OneEach, c

\* The titles of the model are added if they are new, and each once.
LEMMA WithTitlesOnce ==
    ASSUME NEW people \in Seq(Persons), OneEach(people), NEW titles \in Seq(STRING)
    PROVE  WithTitles(people, titles) \in Seq(Persons) /\ OneEach(WithTitles(people, titles))
<1> DEFINE N == {i \in DOMAIN titles : \A j \in DOMAIN people : people[j].title # titles[i]}
           new == At(titles, N)
           same == [x \in STRING |-> x]
           first == At(new, FirstOnes(new, same))
           Of(title) == Person(title, 70)
           f == [i \in DOMAIN first |-> Of(first[i])]
           added == Each(first, Of)
<1>1. Filter(titles, LAMBDA title : \A i \in DOMAIN people : people[i].title # title) = new
  BY DEF Filter, With
<1>2. new \in Seq(STRING) /\ ToSet(new) = {titles[i] : i \in N}
  BY AtTakes, AtMembers
<1> HIDE DEF new
<1>3. FirstOfEach(new, LAMBDA title : title) = first
  <2>1. FirstOnes(new, same) = {i \in DOMAIN new : \A j \in 1..i-1 : new[j] # new[i]}
    <3>1. \A i \in DOMAIN new : new[i] \in STRING /\ \A j \in 1..i-1 : j \in DOMAIN new
      BY <1>2
    <3> QED
      BY <3>1 DEF FirstOnes
  <2> HIDE DEF same
  <2> QED
    BY <2>1 DEF FirstOfEach, With
<1>4. /\ FirstOnes(new, same) \subseteq DOMAIN new
      /\ \A i, j \in FirstOnes(new, same) : same[new[i]] = same[new[j]] => i = j
  <2> HIDE DEF same
  <2> QED
    BY <1>2, FirstPlaces
<1>5. first \in Seq(STRING) /\ ToSet(first) \subseteq ToSet(new)
  <2> HIDE DEF same
  <2>1. ToSet(first) = {new[i] : i \in FirstOnes(new, same)}
    BY <1>2, <1>4, AtMembers
  <2> QED
    BY <1>2, <1>4, <2>1, AtTakes DEF ToSet
<1>6. IsInjective(first)
  <2>1. \A k, l \in DOMAIN first : same[first[k]] = same[first[l]] => k = l
    <3> HIDE DEF same
    <3> QED
      BY <1>2, <1>4, AtDistinct
  <2> HIDE DEF first
  <2> QED
    BY <1>5, <2>1 DEF IsInjective
<1> HIDE DEF first
<1>7. first \in Seq(AllTitles)
  BY <1>5, SeqMonotonic DEF AllTitles
<1>8. \A x \in AllTitles : Of(x) \in Persons /\ Of(x).title = x
  BY PersonTyped
<1>9. f \in [DOMAIN first -> Persons] /\ \A i \in DOMAIN first : f[i].title = first[i]
  <2> HIDE DEF Of
  <2> QED
    BY <1>7, <1>8
<1>10. added = SubSeq(f, 1, Len(first))
  <2> HIDE DEF Of
  <2> QED
    BY DEF Each, With
<1>11. added \in Seq(Persons) /\ OneEach(added) /\ added = f
  <2> HIDE DEF f, Of, added
  <2> QED
    BY <1>6, <1>7, <1>9, <1>10, MadeOfTitles
<1>12. \A i \in DOMAIN people, j \in DOMAIN added : people[i].title # added[j].title
  <2> TAKE i \in DOMAIN people, j \in DOMAIN added
  <2>1. j \in DOMAIN first /\ added[j].title = first[j]
    BY <1>9, <1>11
  <2>2. first[j] \in ToSet(new)
    BY <1>5, <2>1 DEF ToSet
  <2> QED
    BY <1>2, <2>1, <2>2
<1>13. WithTitles(people, titles) = people \o added
  BY <1>1, <1>3 DEF WithTitles
<1> HIDE DEF added, f
<1>14. people \o added \in Seq(Persons)
  BY <1>11
<1> QED
  BY <1>11, <1>12, <1>13, <1>14, ConcatOnce

\* What find_contacts makes of a list of people.
LEMMA ContactsOnce ==
    ASSUME NEW P, \A x \in P : x.confidence \in Int, NEW people \in Seq(P)
    PROVE  OneEach(Contacts(people))
<1> DEFINE title == [x \in P |-> x.title]
           first == At(people, FirstOnes(people, title))
           keys == [i \in DOMAIN first |-> -first[i].confidence]
           sorted == InOrderOf(keys, first)
<1>1. FirstOfEach(people, LAMBDA person : person.title) = first
  <2>1. FirstOnes(people, title)
          = {i \in DOMAIN people : \A j \in 1..i-1 : people[j].title # people[i].title}
    <3>1. \A i \in DOMAIN people : people[i] \in P /\ \A j \in 1..i-1 : j \in DOMAIN people
      OBVIOUS
    <3> QED
      BY <3>1 DEF FirstOnes
  <2> HIDE DEF title
  <2> QED
    BY <2>1 DEF FirstOfEach, With
<1>2. /\ FirstOnes(people, title) \subseteq DOMAIN people
      /\ \A i, j \in FirstOnes(people, title) : title[people[i]] = title[people[j]] => i = j
  <2> HIDE DEF title
  <2> QED
    BY FirstPlaces
<1>3. first \in Seq(P)
  <2> HIDE DEF title
  <2> QED
    BY <1>2, AtTakes
<1>4. OneEach(first)
  <2>1. \A k, l \in DOMAIN first : title[first[k]] = title[first[l]] => k = l
    <3> HIDE DEF title
    <3> QED
      BY <1>2, AtDistinct
  <2>2. \A k \in DOMAIN first : title[first[k]] = first[k].title
    <3> HIDE DEF first
    <3> QED
      BY <1>3
  <2> HIDE DEF first, title
  <2> QED
    BY <2>1, <2>2 DEF OneEach
<1> HIDE DEF first
<1>5. keys \in [DOMAIN first -> Int]
  <2>1. \A i \in DOMAIN first : first[i].confidence \in Int
    BY <1>3
  <2> QED
    BY <2>1
<1>6. SortedOn(first, LAMBDA person : -person.confidence) = sorted
  BY DEF SortedOn, With
<1> HIDE DEF keys
<1>7. sorted \in Seq(P) /\ Len(sorted) = Len(first)
  BY <1>3, <1>5, SortTakes
<1>8. PICK p : Sorts(p, keys, Len(first)) /\ sorted = [k \in 1..Len(first) |-> first[p[k]]]
  BY <1>3, <1>5, SortTakes
<1> HIDE DEF sorted
<1>9. OneEach(sorted)
  <2>1. DOMAIN sorted = 1..Len(first) /\ DOMAIN first = 1..Len(first) /\ Len(first) \in Nat
    BY <1>3, <1>7
  <2>2. ASSUME NEW k \in 1..Len(first), NEW l \in 1..Len(first),
               sorted[k].title = sorted[l].title
        PROVE  k = l
    <3>1. p[k] \in DOMAIN first /\ p[l] \in DOMAIN first
      BY <1>8, <2>1 DEF Sorts
    <3>2. p[k] = p[l]
      BY <1>4, <1>8, <2>2, <3>1 DEF OneEach
    <3>3. ~(k < l) /\ ~(l < k)
      BY <1>8, <3>2 DEF Sorts
    <3> QED
      BY <2>1, <3>3
  <2> QED
    BY <2>1, <2>2 DEF OneEach
<1>10. Contacts(people) = UpTo(sorted, 10)
  BY <1>1, <1>6 DEF Contacts
<1>11. /\ UpTo(sorted, 10) \in Seq(P)
       /\ \A k \in 1..Len(UpTo(sorted, 10)) : k \in 1..Len(sorted) /\ UpTo(sorted, 10)[k] = sorted[k]
  BY <1>7, UpToTakes
<1>12. /\ DOMAIN UpTo(sorted, 10) = 1..Len(UpTo(sorted, 10)) /\ DOMAIN sorted = 1..Len(sorted)
  BY <1>7, <1>11
<1> QED
  BY <1>9, <1>10, <1>11, <1>12 DEF OneEach

--------------------------------------------------------------------------------

\* The address and the profile that are found in the text of a page.
MailIn(page, domain) ==
    FirstOr(Filter(page.text, LAMBDA word :
              word \in DOMAIN DomainOfMail /\ DomainOfMail[word] = domain), "")
LinkIn(page) == FirstOr(Filter(page.text, LAMBDA word : word \in ProfileLinks), "")

\* Whom the finder may find in the pages of a domain.
PeopleOf(domain) ==
    [title : STRING \cup {"contact"}, confidence : Int,
     email : STRING \cup {""} \cup {MailIn(PageAt(crawled[i]), domain) : i \in DOMAIN crawled},
     linkedin : STRING \cup {""} \cup {LinkIn(PageAt(crawled[i])) : i \in DOMAIN crawled}]

\* The people on a page.
LEMMA SeenOnPage ==
    ASSUME NEW domain, NEW i \in DOMAIN crawled, NEW extraction \in Seq(People)
    PROVE  PeopleOn(PageAt(crawled[i]), domain, extraction) \in Seq(PeopleOf(domain))
<1> DEFINE page == PageAt(crawled[i])
           emails == Filter(page.text, LAMBDA word :
                       word \in DOMAIN DomainOfMail /\ DomainOfMail[word] = domain)
           links == Filter(page.text, LAMBDA word : word \in ProfileLinks)
           J == {j \in DOMAIN extraction : extraction[j].title # ""}
           seen == IF Len(page.text) > ShortText
                     THEN Filter(extraction, LAMBDA person : person.title # "") ELSE <<>>
           e == MailIn(page, domain)
           l == LinkIn(page)
           whole(person) == [person EXCEPT
                               !.email = IF @ = "" THEN FirstOr(emails, "") ELSE @,
                               !.linkedin = IF @ = "" THEN FirstOr(links, "") ELSE @]
           Them == People \cup {Person("contact", 30)}
           E == STRING \cup {""} \cup {MailIn(PageAt(crawled[k]), domain) : k \in DOMAIN crawled}
           L == STRING \cup {""} \cup {LinkIn(PageAt(crawled[k])) : k \in DOMAIN crawled}
           made == [k \in DOMAIN seen |-> whole(seen[k])]
<1>1. PeopleOn(page, domain, extraction)
        = IF seen = <<>> /\ emails \o links # <<>> THEN <<whole(Person("contact", 30))>>
          ELSE Each(seen, whole)
  BY DEF PeopleOn
<1>2. e \in E /\ l \in L /\ e = FirstOr(emails, "") /\ l = FirstOr(links, "")
  BY DEF MailIn, LinkIn
<1>3. seen \in Seq(Them)
  <2>1. Filter(extraction, LAMBDA person : person.title # "") = At(extraction, J)
    BY DEF Filter, With
  <2>2. At(extraction, J) \in Seq(People)
    BY AtTakes
  <2>3. seen \in Seq(People)
    <3>1. <<>> \in Seq(People)
      OBVIOUS
    <3> QED
      BY <2>1, <2>2, <3>1
  <2> HIDE DEF seen
  <2>4. People \subseteq Them
    OBVIOUS
  <2> HIDE DEF Them
  <2> QED
    BY <2>3, <2>4, SeqMonotonic
<1>4. \A x \in Them : x \in [title : STRING \cup {"contact"}, confidence : Int,
                             email : STRING \cup {""}, linkedin : STRING \cup {""}]
  <2>1. \A x \in People : x \in [title : STRING \cup {"contact"}, confidence : Int,
                                 email : STRING \cup {""}, linkedin : STRING \cup {""}]
    <3> TAKE x \in People
    <3>1. /\ x = [title |-> x.title, confidence |-> x.confidence, email |-> x.email,
                  linkedin |-> x.linkedin]
          /\ x.title \in STRING /\ x.confidence \in 0..100 /\ x.email \in STRING
          /\ x.linkedin \in STRING
      BY DEF People
    <3>2. x.confidence \in Int
      <4>1. \A n \in 0..100 : n \in Int
        OBVIOUS
      <4> QED
        BY <3>1, <4>1, Zenon
    <3> QED
      BY <3>1, <3>2
  <2>2. Person("contact", 30) \in [title : STRING \cup {"contact"}, confidence : Int,
                                 email : STRING \cup {""}, linkedin : STRING \cup {""}]
    BY DEF Person
  <2> QED
    BY <2>1, <2>2, Zenon
<1>5. ASSUME NEW x \in Them PROVE whole(x) \in PeopleOf(domain)
  <2> DEFINE em == IF x.email = "" THEN e ELSE x.email
             li == IF x.linkedin = "" THEN l ELSE x.linkedin
  <2>1. x = [title |-> x.title, confidence |-> x.confidence, email |-> x.email,
             linkedin |-> x.linkedin]
        /\ x.title \in STRING \cup {"contact"} /\ x.confidence \in Int
        /\ x.email \in STRING \cup {""} /\ x.linkedin \in STRING \cup {""}
    BY <1>4
  <2>2. em \in E /\ li \in L
    <3> HIDE DEF e, l
    <3> QED
      BY <1>2, <2>1
  <2>3. whole(x) = [title |-> x.title, confidence |-> x.confidence, email |-> em, linkedin |-> li]
    <3> HIDE DEF e, l, emails, links
    <3>1. whole(x) = [x EXCEPT !.email = em, !.linkedin = li]
      BY <1>2
    <3> HIDE DEF em, li, whole
    <3> QED
      BY <2>1, <3>1
  <2> HIDE DEF whole, em, li
  <2>4. whole(x) \in [title : STRING \cup {"contact"}, confidence : Int, email : E, linkedin : L]
    <3> HIDE DEF E, L
    <3>1. [title |-> x.title, confidence |-> x.confidence, email |-> em, linkedin |-> li]
            \in [title : STRING \cup {"contact"}, confidence : Int, email : E, linkedin : L]
      BY <2>1, <2>2
    <3> QED
      BY <2>3, <3>1, Zenon
  <2> QED
    BY <2>4 DEF PeopleOf
<1>6. Person("contact", 30) \in Them
  OBVIOUS
<1>7. Each(seen, whole) = SubSeq(made, 1, Len(seen))
  <2> HIDE DEF seen, whole
  <2> QED
    BY DEF Each, With
<1> HIDE DEF whole, seen, Them
<1>8. made \in [DOMAIN seen -> PeopleOf(domain)]
  BY <1>3, <1>5
<1>9. Each(seen, whole) \in Seq(PeopleOf(domain))
  <2> HIDE DEF made
  <2> QED
    BY <1>3, <1>7, <1>8, RowTyped
<1>10. <<whole(Person("contact", 30))>> \in Seq(PeopleOf(domain))
  BY <1>5, <1>6, ListOfOne
<1> QED
  BY <1>1, <1>9, <1>10

\* The people of the pages of a domain have titles of their own.
LEMMA FoundInPages ==
    ASSUME NEW S, crawled \in Seq(S), NEW domain, NEW extractions,
           \A i \in DOMAIN crawled : extractions[crawled[i].url] \in Seq(People)
    PROVE  OneEach(Contacts(PeopleIn(domain, extractions)))
<1> DEFINE C == ToSet(crawled)
           P == PeopleOf(domain)
           T == Seq(P)
           I == {i \in DOMAIN crawled : DomainOf[crawled[i].url] = domain
                                        /\ PageAt(crawled[i]).success}
           ofDomain == At(crawled, I)
           J == {i \in DOMAIN ofDomain : PageAt(ofDomain[i]).text # <<>>}
           pages_ == At(ofDomain, J)
           Of(c) == PeopleOn(PageAt(c), domain, extractions[c.url])
           f == [i \in DOMAIN pages_ |-> Of(pages_[i])]
<1>1. crawled \in Seq(C) /\ I \subseteq DOMAIN crawled
  BY DEF ToSet
<1>2. PagesOf(domain) = ofDomain
  BY DEF PagesOf, Filter, With
<1>3. ofDomain \in Seq(C)
  <2> HIDE DEF C, I
  <2> QED
    BY <1>1, AtTakes
<1>4. Filter(PagesOf(domain), LAMBDA c : PageAt(c).text # <<>>) = pages_
  <2> HIDE DEF ofDomain
  <2> QED
    BY <1>2 DEF Filter, With
<1>5. pages_ \in Seq(C)
  <2>1. J \subseteq DOMAIN ofDomain
    OBVIOUS
  <2> HIDE DEF C, ofDomain, J
  <2> QED
    BY <1>3, <2>1, AtTakes
<1>6. PeopleIn(domain, extractions) = Joined(Each(pages_, Of))
  <2> HIDE DEF pages_
  <2> QED
    BY <1>4 DEF PeopleIn
<1> HIDE DEF pages_
<1>7. \A c \in C : Of(c) \in T
  <2> TAKE c \in C
  <2>1. PICK i \in DOMAIN crawled : c = crawled[i]
    BY DEF ToSet
  <2> QED
    BY <2>1, SeenOnPage
<1>8. Each(pages_, Of) = SubSeq(f, 1, Len(pages_))
  <2> HIDE DEF Of
  <2> QED
    BY DEF Each, With
<1> HIDE DEF Of, T, C
<1>9. f \in [DOMAIN pages_ -> T]
  BY <1>5, <1>7
<1>10. Each(pages_, Of) \in Seq(T)
  <2> HIDE DEF f
  <2> QED
    BY <1>5, <1>8, <1>9, RowTyped
<1>11. PeopleIn(domain, extractions) \in Seq(P)
  <2> HIDE DEF P
  <2> QED
    BY <1>6, <1>10, JoinedTyped DEF T
<1>12. \A x \in P : x.confidence \in Int
  BY DEF PeopleOf
<1> HIDE DEF P
<1> QED
  BY <1>11, <1>12, ContactsOnce

ScoredLead == [url : Urls, domain : Domains, score : Int, tier : Tiers, summary : Notes,
               why : Notes, people : Seq(Persons)]

Scoring == {"score", "research", "contacts"}

ScoredTypes ==
    /\ stage # "score" => unscored = {}
    /\ stage = "score" => unscored \subseteq DOMAIN Batch
    /\ stage \notin Scoring \cup {"completed"} => scored = <<>>
    /\ stage \in Scoring =>
         /\ scored \in Seq(ScoredLead)
         /\ \A k \in Positions : OneEach(scored[k].people)

\* The leads of the pool that are through it, and have not been refused.
ScoredOfBatch == {i \in DOMAIN Batch \ unscored : ~Batch[i].odd}

\* Every scored lead is one of them, and each of them is one scored lead.
IsOf(lead, i) == lead.url = Batch[i].url /\ lead.score = Batch[i].score
Matches(f) ==
    /\ f \in Bijection(Positions, ScoredOfBatch)
    /\ \A k \in Positions : IsOf(scored[k], f[k])
PoolKeeps == stage = "score" => \E f : Matches(f)

ScoringInv == ScoredTypes /\ PoolKeeps /\ BestLeadsScored /\ TitlesOnce

\* The batch depends on nothing but the leads.
LEMMA BatchKept == ASSUME leads' = leads PROVE Batch' = Batch
<1>1. Batch = UpTo(InOrderOf(ByScore(leads), leads), 2 * TopLeads)
  BY DEF Batch, SortedOn, With, Better, ByScore
<1>2. Batch' = UpTo(InOrderOf(ByScore(leads'), leads'), 2 * TopLeads)
  BY DEF Batch, SortedOn, With, Better, ByScore
<1> QED
  BY <1>1, <1>2

\* The batch is made of the leads.
LEMMA BatchTaken ==
    ASSUME LeadsInv
    PROVE  /\ Batch \in Seq(Lead)
           /\ \A i \in DOMAIN Batch : Batch[i] \in ToSet(leads)
<1> DEFINE sorted == InOrderOf(ByScore(leads), leads)
<1>1. leads \in Seq(Lead) /\ \A x \in Lead : x.score \in Int
  BY LeadFields DEF LeadsInv
<1>2. sorted \in Seq(Lead) /\ ToSet(sorted) = ToSet(leads)
  BY <1>1, BestAreFirst
<1>3. SortedOn(leads, Better) = sorted
  BY DEF SortedOn, With, Better, ByScore
<1>4. Batch = UpTo(sorted, 2 * TopLeads) /\ 2 * TopLeads \in Nat
  BY <1>3, LeadRunAssumption DEF Batch, LeadRunAssumption
<1> HIDE DEF sorted
<1>5. /\ Batch \in Seq(Lead)
      /\ \A k \in 1..Len(Batch) : k \in 1..Len(sorted) /\ Batch[k] = sorted[k]
  BY <1>2, <1>4, UpToTakes
<1>6. ASSUME NEW i \in DOMAIN Batch PROVE Batch[i] \in ToSet(leads)
  <2>1. i \in 1..Len(Batch) /\ DOMAIN sorted = 1..Len(sorted)
    BY <1>2, <1>5
  <2>2. Batch[i] = sorted[i] /\ i \in DOMAIN sorted
    BY <1>5, <2>1
  <2>3. Batch[i] \in ToSet(sorted)
    BY <2>2 DEF ToSet
  <2> QED
    BY <1>2, <2>3
<1> QED
  BY <1>5, <1>6

\* A page that is a lead twice is worth the same both times.
LEMMA SamePageSameScore ==
    ASSUME LeadsInv, Discovered
    PROVE  \A i, j \in DOMAIN Batch : Batch[i].url = Batch[j].url => Batch[i].score = Batch[j].score
<1>1. \A k \in DOMAIN leads : WorthIts(leads[k])
  BY DEF LeadsInv, LeadsOfAllGood
<1>2. \A x \in ToSet(leads) : WorthIts(x)
  BY <1>1 DEF ToSet
<1>3. \A i \in DOMAIN Batch : WorthIts(Batch[i])
  BY <1>2, BatchTaken
<1> QED
  BY <1>3 DEF WorthIts

\* Nothing is scored in the beginning.
LEMMA ScoringInitially == ASSUME Init PROVE ScoringInv
BY DEF Init, ScoringInv, ScoredTypes, PoolKeeps, BestLeadsScored, TitlesOnce, Scoring

\* The steps before the scoring and those of no scoring.
LEMMA NothingScored ==
    ASSUME ScoringInv, UNCHANGED <<unscored, scored>>,
           stage \notin Scoring, stage \notin {"completed"},
           stage' \notin Scoring, stage' = "completed" => leads' = <<>>
    PROVE  ScoringInv'
<1>1. scored = <<>> /\ scored' = <<>> /\ unscored' = {} /\ DOMAIN <<>> = {}
  BY DEF ScoringInv, ScoredTypes, Scoring
<1>2. ScoredTypes' /\ PoolKeeps'
  BY <1>1 DEF ScoredTypes, PoolKeeps, Scoring
<1>3. BestLeadsScored' /\ TitlesOnce'
  BY <1>1 DEF BestLeadsScored, TitlesOnce, Positions, Scoring
<1> QED
  BY <1>2, <1>3 DEF ScoringInv

\* Nor does a stuttering step score anything.
LEMMA ScoringStutters == ASSUME ScoringInv, UNCHANGED vars PROVE ScoringInv'
<1>1. UNCHANGED <<stage, unscored, scored, leads, Batch, Positions>>
  BY BatchKept DEF vars, pipelineVars, serviceVars, Positions
<1>2. ScoredTypes'
  BY <1>1 DEF ScoringInv, ScoredTypes
<1>3. UNCHANGED ScoredOfBatch
  BY <1>1 DEF ScoredOfBatch
<1>4. PoolKeeps'
  BY <1>1, <1>3 DEF ScoringInv, PoolKeeps, Matches, IsOf
<1>5. BestLeadsScored' /\ TitlesOnce'
  BY <1>1 DEF ScoringInv, BestLeadsScored, TitlesOnce
<1> QED
  BY <1>2, <1>4, <1>5 DEF ScoringInv

\* The pool is given the whole batch.
LEMMA StartScoringKeeps == ASSUME ScoringInv, StartScoring PROVE ScoringInv'
<1>1. /\ stage = "leads" /\ stage' = "score" /\ leads' = leads
      /\ unscored' = DOMAIN Batch /\ scored' = <<>> /\ scored = <<>>
  BY DEF StartScoring, Serve, ScoringInv, ScoredTypes, Scoring
<1>2. Batch' = Batch
  BY <1>1, BatchKept
<1>3. Positions' = {}
  BY <1>1 DEF Positions
<1>4. ScoredTypes'
  <2>1. <<>> \in Seq(ScoredLead)
    OBVIOUS
  <2> QED
    BY <1>1, <1>2, <1>3, <2>1 DEF ScoredTypes
<1>5. ScoredOfBatch' = {}
  BY <1>1, <1>2 DEF ScoredOfBatch
<1>6. PoolKeeps'
  <2>1. [k \in {} |-> k] \in Bijection({}, {})
    BY DEF Bijection, Injection, Surjection, IsInjective
  <2>2. (Matches([k \in {} |-> k]))'
    BY <1>3, <1>5, <2>1 DEF Matches
  <2> QED
    BY <2>2 DEF PoolKeeps
<1>7. BestLeadsScored' /\ TitlesOnce'
  BY <1>1 DEF BestLeadsScored, TitlesOnce
<1> QED
  BY <1>4, <1>6, <1>7 DEF ScoringInv

\* What the scorer may make of a lead.
LEMMA OutcomeTyped ==
    ASSUME NEW lead \in Lead, NEW outcome \in Outcomes(lead), ~lead.odd
    PROVE  \E s \in ScoredLead : /\ outcome = <<s>> /\ OneEach(s.people)
                                 /\ s.url = lead.url /\ s.score = lead.score
<1>1. Hinted(lead) \in Seq(Persons) /\ OneEach(Hinted(lead))
  BY HintedOnce
<1>2. lead.url \in Urls /\ lead.domain \in Domains /\ lead.score \in Int
  BY LeadFields
<1>3. \A tier \in Tiers, summary \in Notes, why \in Notes, people \in Seq(Persons) :
        LET s == Scored(lead, tier, summary, why, people) IN
        s \in ScoredLead /\ s.people = people /\ s.url = lead.url /\ s.score = lead.score
  BY <1>2 DEF Scored, ScoredLead
<1>4. CASE outcome = <<ByRule(lead)>>
  <2>1. RuleTier(lead.score) \in Tiers /\ "" \in Notes
    BY DEF RuleTier, Tiers, Notes
  <2>2. /\ ByRule(lead) \in ScoredLead /\ ByRule(lead).people = Hinted(lead)
        /\ ByRule(lead).url = lead.url /\ ByRule(lead).score = lead.score
    BY <1>1, <1>3, <2>1 DEF ByRule
  <2> QED
    BY <1>1, <1>4, <2>2
<1>5. CASE \E e \in Enrichments : outcome = <<ByModel(lead, e)>>
  <2>1. PICK e \in Enrichments : outcome = <<ByModel(lead, e)>>
    BY <1>5
  <2>2. e.tier \in Tiers /\ e.summary \in Notes /\ e.why \in Notes /\ e.titles \in Seq(STRING)
    BY LeadRunAssumption DEF LeadRunAssumption, Notes
  <2> DEFINE people == WithTitles(Hinted(lead), e.titles)
  <2>3. people \in Seq(Persons) /\ OneEach(people)
    BY <1>1, <2>2, WithTitlesOnce
  <2>4. /\ ByModel(lead, e) \in ScoredLead /\ ByModel(lead, e).people = people
        /\ ByModel(lead, e).url = lead.url /\ ByModel(lead, e).score = lead.score
    <3> HIDE DEF people
    <3> QED
      BY <1>3, <2>2, <2>3 DEF ByModel, people
  <2> QED
    BY <2>1, <2>3, <2>4
<1> QED
  BY <1>4, <1>5 DEF Outcomes

\* A thread takes one lead out of the pool and, unless it is refused, into the result.
LEMMA ScoreOneKeeps ==
    ASSUME ScoringInv, LeadsInv, NEW i \in unscored, ScoreOne(i)
    PROVE  ScoringInv'
<1>1. /\ stage = "score" /\ stage' = "score" /\ leads' = leads
      /\ unscored' = unscored \ {i} /\ unscored \subseteq DOMAIN Batch
      /\ scored \in Seq(ScoredLead) /\ \A k \in Positions : OneEach(scored[k].people)
  BY DEF ScoreOne, Serve, ScoringInv, ScoredTypes, Scoring
<1>2. PICK outcome \in Outcomes(Batch[i]) : scored' = scored \o outcome
  BY DEF ScoreOne
<1>3. Batch' = Batch /\ Batch \in Seq(Lead) /\ Batch[i] \in Lead
  <2>1. Batch' = Batch /\ Batch \in Seq(Lead)
    BY <1>1, BatchKept, BatchTaken
  <2> QED
    BY <1>1, <2>1
<1>4. PICK f : Matches(f)
  BY <1>1 DEF ScoringInv, PoolKeeps
<1>5. BestLeadsScored' /\ TitlesOnce'
  BY <1>1 DEF BestLeadsScored, TitlesOnce
<1>6. CASE Batch[i].odd
  <2>1. outcome = <<>>
    BY <1>6 DEF Outcomes
  <2>2. scored' = scored
    BY <1>1, <1>2, <2>1
  <2>3. ScoredOfBatch' = ScoredOfBatch
    BY <1>1, <1>3, <1>6 DEF ScoredOfBatch
  <2>4. (Matches(f))'
    BY <1>3, <1>4, <2>2, <2>3 DEF Matches, Positions, IsOf
  <2>5. ScoredTypes'
    BY <1>1, <1>3, <2>2 DEF ScoredTypes, Scoring, Positions
  <2> QED
    BY <1>5, <2>4, <2>5 DEF ScoringInv, PoolKeeps
<1>7. CASE ~Batch[i].odd
  <2>1. PICK s \in ScoredLead : /\ outcome = <<s>> /\ OneEach(s.people)
                                /\ s.url = Batch[i].url /\ s.score = Batch[i].score
    BY <1>3, <1>7, OutcomeTyped
  <2> DEFINE n == Len(scored)
             g == [k \in 1..n+1 |-> IF k <= n THEN f[k] ELSE i]
  <2>2. /\ scored' \in Seq(ScoredLead) /\ n \in Nat
        /\ Positions = 1..n /\ Positions' = 1..n+1
        /\ \A k \in 1..n : scored'[k] = scored[k] /\ scored'[n+1] = s
    BY <1>1, <1>2, <2>1 DEF Positions
  <2>3. scored'[n+1] = s
    BY <1>1, <1>2, <2>1
  <2> HIDE DEF n
  <2>4. ScoredOfBatch' = ScoredOfBatch \cup {i} /\ i \notin ScoredOfBatch
    BY <1>1, <1>3, <1>7 DEF ScoredOfBatch
  <2>5. /\ f \in [1..n -> ScoredOfBatch] /\ \A k \in 1..n : IsOf(scored[k], f[k])
        /\ \A k, l \in 1..n : f[k] = f[l] => k = l
        /\ \A j \in ScoredOfBatch : \E k \in 1..n : f[k] = j
    BY <1>4, <2>2 DEF Matches, Bijection, Injection, Surjection, IsInjective
  <2>6. /\ \A k \in 1..n : g[k] = f[k] /\ g[n+1] = i
        /\ \A k \in 1..n+1 : k \in 1..n \/ k = n+1
        /\ \A k \in 1..n : k \in 1..n+1
        /\ n+1 \in 1..n+1 /\ g[n+1] = i
    BY <2>2
  <2>7. g \in [1..n+1 -> ScoredOfBatch']
    <3>1. \A k \in 1..n+1 : (IF k <= n THEN f[k] ELSE i) \in ScoredOfBatch'
      BY <2>2, <2>4, <2>5
    <3> QED
      BY <3>1
  <2> HIDE DEF g
  <2>8. \A k, l \in 1..n+1 : g[k] = g[l] => k = l
    BY <2>4, <2>5, <2>6
  <2>9. \A j \in ScoredOfBatch' : \E k \in 1..n+1 : g[k] = j
    BY <2>4, <2>5, <2>6
  <2>10. \A k \in 1..n+1 : scored'[k].url = Batch[g[k]].url /\ scored'[k].score = Batch[g[k]].score
    BY <2>1, <2>2, <2>3, <2>5, <2>6 DEF IsOf
  <2>11. \E h : (Matches(h))'
    <3>1. g \in Bijection(1..n+1, ScoredOfBatch')
      BY <2>7, <2>8, <2>9 DEF Bijection, Injection, Surjection, IsInjective
    <3>2. PICK h : /\ h \in Bijection(1..n+1, ScoredOfBatch')
                   /\ \A k \in 1..n+1 : /\ scored'[k].url = Batch[h[k]].url
                                       /\ scored'[k].score = Batch[h[k]].score
      BY <2>10, <3>1
    <3>3. (Matches(h))'
      BY <1>3, <2>2, <3>2 DEF Matches, IsOf
    <3> QED
      BY <3>3
  <2>12. ScoredTypes'
    <3>1. \A k \in 1..n+1 : OneEach(scored'[k].people)
      BY <1>1, <2>1, <2>2, <2>3, <2>6
    <3> QED
      BY <1>1, <1>3, <2>2, <3>1 DEF ScoredTypes, Scoring
  <2> QED
    BY <1>5, <2>11, <2>12 DEF ScoringInv, PoolKeeps
<1> QED
  BY <1>6, <1>7

\* The best of the scored leads are kept.
LEMMA EndScoringKeeps ==
    ASSUME ScoringInv, LeadsInv, EndScoring
    PROVE  ScoringInv'
<1> DEFINE sorted == InOrderOf(ByScore(scored), scored)
           valid == {j \in DOMAIN Batch : ~Batch[j].odd}
           n == Len(scored)
           new == scored'
           kept == {j \in valid : \E k \in DOMAIN new : new[k].url = Batch[j].url}
<1>1. /\ stage = "score" /\ stage' = "research" /\ UNCHANGED <<leads, unscored>>
      /\ unscored = {} /\ new = UpTo(SortedOn(scored, Better), TopLeads)
      /\ scored \in Seq(ScoredLead) /\ \A k \in Positions : OneEach(scored[k].people)
  BY DEF EndScoring, Serve, ScoringInv, ScoredTypes, Scoring
<1>2. Batch' = Batch
  BY <1>1, BatchKept
<1>3. PICK f : Matches(f)
  BY <1>1 DEF ScoringInv, PoolKeeps
<1>4. ScoredOfBatch = valid
  BY <1>1 DEF ScoredOfBatch
<1>5. /\ f \in Bijection(1..n, valid) /\ \A k \in 1..n : IsOf(scored[k], f[k])
      /\ n \in Nat /\ Positions = 1..n
  BY <1>1, <1>3, <1>4 DEF Matches, Positions
<1> HIDE DEF valid
<1>6. Cardinality(valid) = n
  <2> HIDE DEF n
  <2> QED
    BY <1>5, FS_CountingElements DEF ExistsBijection
<1>7. \A x \in ScoredLead : x.score \in Int
  BY DEF ScoredLead
<1>8. /\ sorted \in Seq(ScoredLead) /\ Len(sorted) = n /\ ToSet(sorted) = ToSet(scored)
      /\ BestFirst(sorted)
  BY <1>1, <1>7, BestAreFirst
<1>9. new = UpTo(sorted, TopLeads) /\ TopLeads \in Nat
  <2>1. SortedOn(scored, Better) = sorted
    BY DEF SortedOn, With, Better, ByScore
  <2> QED
    BY <1>1, <2>1, LeadRunAssumption DEF LeadRunAssumption
<1> HIDE DEF sorted, new
<1>10. /\ new \in Seq(ScoredLead) /\ Len(new) = IF TopLeads < n THEN TopLeads ELSE n
       /\ \A k \in 1..Len(new) : k \in 1..n /\ new[k] = sorted[k]
  BY <1>8, <1>9, UpToTakes
<1>11. /\ DOMAIN new = 1..Len(new) /\ Len(new) \in Nat /\ DOMAIN sorted = 1..n
       /\ DOMAIN scored = 1..n
  BY <1>1, <1>8, <1>10
<1>12. Len(new) = Min({TopLeads, Cardinality(valid)})
  <2> HIDE DEF n
  <2>1. /\ Min({TopLeads, n}) \in {TopLeads, n}
        /\ Min({TopLeads, n}) <= TopLeads /\ Min({TopLeads, n}) <= n
    <3>1. TopLeads \in Int /\ n \in Int
      BY <1>5, <1>9
    <3> QED
      BY <3>1, LeastOfTwo
  <2> QED
    BY <1>5, <1>6, <1>9, <1>10, <2>1
<1>13. ASSUME NEW l \in 1..n
       PROVE  \E m \in 1..n : /\ sorted[l] = scored[m] /\ f[m] \in valid
                              /\ sorted[l].url = Batch[f[m]].url
                              /\ sorted[l].score = Batch[f[m]].score
  <2>1. sorted[l] \in ToSet(scored)
    BY <1>8, <1>11 DEF ToSet
  <2>2. PICK m \in 1..n : sorted[l] = scored[m]
    BY <1>11, <2>1 DEF ToSet
  <2>3. f[m] \in valid
    <3> HIDE DEF n
    <3> QED
      BY <1>5 DEF Bijection, Injection
  <2> QED
    BY <1>5, <2>2, <2>3 DEF IsOf
<1>14. \A k \in DOMAIN new : \E j \in kept : new[k].url = Batch[j].url
  <2> TAKE k \in DOMAIN new
  <2>1. k \in 1..n /\ new[k] = sorted[k]
    BY <1>10, <1>11
  <2>2. PICK m \in 1..n : f[m] \in valid /\ sorted[k].url = Batch[f[m]].url
    BY <1>13, <2>1
  <2> QED
    BY <2>1, <2>2
<1>15. ASSUME NEW j \in kept, NEW u \in valid \ kept PROVE Batch[j].score >= Batch[u].score
  <2>1. PICK k \in DOMAIN new : new[k].url = Batch[j].url
    OBVIOUS
  <2>2. k \in 1..n /\ new[k] = sorted[k] /\ k \in 1..Len(new)
    BY <1>10, <1>11
  <2>3. PICK m \in 1..n : f[m] \in valid /\ sorted[k].url = Batch[f[m]].url
                          /\ sorted[k].score = Batch[f[m]].score
    BY <1>13, <2>2
  <2>4. sorted[k].score = Batch[j].score
    <3>1. Discovered
      BY <1>1 DEF Discovered
    <3>2. j \in DOMAIN Batch /\ f[m] \in DOMAIN Batch
      BY <2>3 DEF valid
    <3> QED
      BY <2>1, <2>2, <2>3, <3>1, <3>2, SamePageSameScore
  <2>5. PICK v \in 1..n : f[v] = u
    <3> HIDE DEF n
    <3> QED
      BY <1>5 DEF Bijection, Surjection
  <2>6. scored[v].url = Batch[u].url /\ scored[v].score = Batch[u].score
    BY <1>5, <2>5 DEF IsOf
  <2>7. PICK l \in 1..n : sorted[l] = scored[v]
    <3>1. scored[v] \in ToSet(sorted)
      BY <1>8, <1>11 DEF ToSet
    <3> QED
      BY <1>11, <3>1 DEF ToSet
  <2>8. ~(l \in 1..Len(new))
    <3>1. ASSUME l \in 1..Len(new) PROVE FALSE
      <4>1. new[l].url = Batch[u].url /\ l \in DOMAIN new
        BY <1>10, <1>11, <2>6, <2>7, <3>1
      <4> QED
        BY <4>1
    <3> QED
      BY <3>1
  <2>9. k < l
    BY <1>5, <1>11, <2>2, <2>8
  <2>10. sorted[k].score >= sorted[l].score
    BY <1>8, <1>11, <2>2, <2>9 DEF BestFirst
  <2> QED
    BY <2>4, <2>6, <2>7, <2>10
<1>16. \A j, k \in DOMAIN new : j < k => new[j].score >= new[k].score
  BY <1>8, <1>10, <1>11 DEF BestFirst
<1>17. BestLeadsScored'
  <2>1. Len(new) = Min({TopLeads, Cardinality(valid)})
        /\ (\A k \in DOMAIN new : \E j \in kept : new[k].url = Batch[j].url)
        /\ (\A j \in kept, u \in valid \ kept : Batch[j].score >= Batch[u].score)
        /\ (\A j, k \in DOMAIN new : j < k => new[j].score >= new[k].score)
    BY <1>12, <1>14, <1>15, <1>16
  <2> QED
    BY <1>2, <2>1 DEF BestLeadsScored, Positions, valid, new
<1>18. TitlesOnce'
  BY <1>1 DEF TitlesOnce
<1>19. ScoredTypes'
  <2>1. ASSUME NEW k \in DOMAIN new PROVE OneEach(new[k].people)
    <3>1. k \in 1..n /\ new[k] = sorted[k]
      BY <1>10, <1>11
    <3>2. PICK m \in 1..n : sorted[k] = scored[m]
      BY <1>13, <3>1
    <3> QED
      BY <1>1, <1>5, <3>1, <3>2
  <2> QED
    BY <1>1, <1>10, <2>1 DEF ScoredTypes, Scoring, Positions, new
<1>20. PoolKeeps'
  BY <1>1 DEF PoolKeeps
<1> QED
  BY <1>17, <1>18, <1>19, <1>20 DEF ScoringInv

\* What the agents after the scorer may do to a lead.
OnlyFilled(old, new) ==
    /\ new.url = old.url /\ new.tier = old.tier /\ new.score = old.score
    /\ Kept(old.summary, new.summary) /\ Kept(old.why, new.why)
    /\ old.people = <<>> \/ new.people = old.people

\* The parts of a scored lead.
LEMMA ScoredFields ==
    ASSUME NEW x \in ScoredLead
    PROVE  /\ x = [url |-> x.url, domain |-> x.domain, score |-> x.score, tier |-> x.tier,
                   summary |-> x.summary, why |-> x.why, people |-> x.people]
           /\ x.summary \in Notes /\ x.why \in Notes /\ x.url \in Urls /\ x.domain \in Domains
           /\ x.score \in Int /\ x.tier \in Tiers /\ x.people \in Seq(Persons)
BY DEF ScoredLead

\* A profile only fills what is empty.
LEMMA FilledTyped ==
    ASSUME NEW x \in ScoredLead, NEW profile \in Profiles \cup {FallbackProfile}
    PROVE  /\ Filled(x, profile) \in ScoredLead /\ OnlyFilled(x, Filled(x, profile))
           /\ Filled(x, profile).people = x.people
<1> DEFINE summary == IF x.summary = "" THEN profile.description ELSE x.summary
           why == IF x.why = "" THEN profile.pitch ELSE x.why
           new == [url |-> x.url, domain |-> x.domain, score |-> x.score, tier |-> x.tier,
                   summary |-> summary, why |-> why, people |-> x.people]
<1>1. profile.description \in Notes /\ profile.pitch \in Notes
  <2>1. CASE profile \in Profiles
    BY <2>1, LeadRunAssumption DEF LeadRunAssumption, Notes
  <2>2. CASE profile = FallbackProfile
    BY <2>2 DEF FallbackProfile, Notes
  <2> QED
    BY <2>1, <2>2
<1>2. summary \in Notes /\ why \in Notes
  BY <1>1, ScoredFields
<1>3. Filled(x, profile) = new
  <2>1. Filled(x, profile) = [x EXCEPT !.summary = summary, !.why = why]
    BY DEF Filled
  <2> HIDE DEF summary, why
  <2> QED
    BY <2>1, ScoredFields
<1>4. Kept(x.summary, summary) /\ Kept(x.why, why)
  BY DEF Kept
<1> HIDE DEF summary, why
<1>5. new \in ScoredLead
  BY <1>2, ScoredFields DEF ScoredLead
<1>6. OnlyFilled(x, new) /\ new.people = x.people
  BY <1>4 DEF OnlyFilled
<1> QED
  BY <1>3, <1>5, <1>6

\* The same pages with the same scores stay the best.
LEMMA BestStay ==
    ASSUME BestLeadsScored, stage \in {"research", "contacts"},
           leads' = leads, Positions' = Positions,
           \A k \in Positions : scored'[k].url = scored[k].url /\ scored'[k].score = scored[k].score,
           Len(scored') = Len(scored)
    PROVE  BestLeadsScored'
<1>1. Batch' = Batch
  BY BatchKept
<1> QED
  BY <1>1 DEF BestLeadsScored

\* Research fills some leads and leaves the others.
LEMMA ResearchKeeps ==
    ASSUME ScoringInv, Research
    PROVE  /\ ScoringInv'
           /\ \A k \in Positions : OnlyFilled(scored[k], scored'[k])
<1>1. /\ stage = "research" /\ stage' = "contacts" /\ leads' = leads /\ unscored' = unscored
      /\ unscored = {} /\ scored \in Seq(ScoredLead) /\ BestLeadsScored
      /\ \A k \in Positions : OneEach(scored[k].people)
  BY DEF Research, Serve, ScoringInv, ScoredTypes, Scoring
<1>2. /\ scored' \in Seq(ScoredLead) /\ Positions' = Positions /\ Len(scored') = Len(scored)
      /\ \A k \in Positions : /\ OnlyFilled(scored[k], scored'[k])
                              /\ scored'[k].people = scored[k].people
  <2>1. CASE scored' = scored
    BY <1>1, <2>1 DEF OnlyFilled, Kept, Positions
  <2>2. CASE scored' # scored
    <3> DEFINE hot == FirstOf({k \in Positions : scored[k].tier = "hot"}, 5)
               known == {k \in hot : PagesOf(scored[k].domain) # <<>>}
               n == Len(scored)
    <3>1. PICK profile \in [known -> Profiles \cup {FallbackProfile}] :
            scored' = [k \in Positions |->
                         IF k \in known THEN Filled(scored[k], profile[k]) ELSE scored[k]]
      BY <2>2 DEF Research
    <3> HIDE DEF known
    <3>6. ASSUME NEW k \in Positions
          PROVE  /\ scored'[k] \in ScoredLead /\ OnlyFilled(scored[k], scored'[k])
                 /\ scored'[k].people = scored[k].people
      <4>1. scored[k] \in ScoredLead
        BY <1>1 DEF Positions
      <4>2. CASE k \in known
        <5>1. scored'[k] = Filled(scored[k], profile[k])
          BY <3>1, <4>2
        <5>2. profile[k] \in Profiles \cup {FallbackProfile}
          BY <3>1, <4>2
        <5> QED
          BY <4>1, <5>1, <5>2, FilledTyped
      <4>3. CASE k \notin known
        <5>1. scored'[k] = scored[k]
          BY <3>1, <4>3
        <5> QED
          BY <4>1, <5>1 DEF OnlyFilled, Kept
      <4> QED
        BY <4>2, <4>3
    <3>7. DOMAIN scored = 1..n /\ n \in Nat
      BY <1>1
    <3> HIDE DEF n
    <3>8. scored' \in [1..n -> ScoredLead]
      <4>1. scored' = [k \in Positions |-> scored'[k]]
        BY <3>1
      <4> QED
        BY <3>6, <3>7, <4>1 DEF Positions
    <3>9. scored' \in Seq(ScoredLead) /\ Len(scored') = n
      BY <3>7, <3>8
    <3> QED
      BY <3>6, <3>7, <3>8, <3>9 DEF Positions, n
  <2> QED
    BY <2>1, <2>2
<1>3. ScoredTypes'
  BY <1>1, <1>2 DEF ScoredTypes, Scoring
<1>4. BestLeadsScored'
  BY <1>1, <1>2, BestStay DEF OnlyFilled
<1>5. PoolKeeps' /\ TitlesOnce'
  BY <1>1 DEF PoolKeeps, TitlesOnce
<1> QED
  BY <1>2, <1>3, <1>4, <1>5 DEF ScoringInv

\* The contact finder names people for leads that had none.
LEMMA FindContactsKeeps ==
    ASSUME ScoringInv, SearchInv, CrawlInv, FindContacts
    PROVE  /\ ScoringInv'
           /\ \A k \in Positions : OnlyFilled(scored[k], scored'[k])
<1>1. /\ stage = "contacts" /\ stage' = "completed" /\ leads' = leads /\ unscored' = unscored
      /\ unscored = {} /\ scored \in Seq(ScoredLead) /\ BestLeadsScored
      /\ \A k \in Positions : OneEach(scored[k].people)
  BY DEF FindContacts, Serve, ScoringInv, ScoredTypes, Scoring
<1>2. crawled \in Seq(ToSet(crawled))
  <2>1. crawled = [k \in DOMAIN chosen |-> [url |-> chosen[k], doc |-> DocOf(chosen[k])]]
    BY <1>1 DEF CrawlInv, AfterTheCrawl, Stages, NotYetCrawled
  <2>2. crawled = [k \in DOMAIN chosen |-> crawled[k]] /\ DOMAIN chosen = 1..Len(chosen)
        /\ Len(chosen) \in Nat
    BY <2>1 DEF SearchInv, SearchTypes
  <2> QED
    BY <2>2 DEF ToSet
<1>3. /\ scored' \in [Positions -> {scored'[k] : k \in Positions}]
      /\ \A k \in Positions : /\ OnlyFilled(scored[k], scored'[k])
                              /\ OneEach(scored'[k].people)
  <2>1. CASE scored' = scored
    <3>1. scored = [k \in Positions |-> scored[k]]
      BY <1>1 DEF Positions
    <3> QED
      BY <1>1, <2>1, <3>1 DEF OnlyFilled, Kept
  <2>2. CASE scored' # scored
    <3> DEFINE silent == {k \in FirstOf(Positions, 10) : scored[k].people = <<>>}
               urls == {crawled[i].url : i \in DOMAIN crawled}
               Of(k, e) == Contacts(PeopleIn(scored[k].domain, e[k]))
    <3>1. PICK e \in [silent -> [urls -> Extractions \cup {<<>>}]] :
            scored' = [k \in Positions |-> IF k \in silent
                                              THEN [scored[k] EXCEPT !.people = Of(k, e)]
                                              ELSE scored[k]]
      BY <2>2 DEF FindContacts
    <3>2. Extractions \cup {<<>>} \subseteq Seq(People)
      <4>1. <<>> \in Seq(People)
        OBVIOUS
      <4> QED
        BY <4>1, LeadRunAssumption DEF LeadRunAssumption
    <3>3. ASSUME NEW k \in silent PROVE OneEach(Of(k, e)) /\ scored[k].people = <<>>
      <4>1. e[k] \in [urls -> Extractions \cup {<<>>}] /\ scored[k].people = <<>>
        BY <3>1
      <4>2. \A i \in DOMAIN crawled : e[k][crawled[i].url] \in Seq(People)
        BY <3>2, <4>1
      <4> QED
        BY <1>2, <4>1, <4>2, FoundInPages
    <3> HIDE DEF silent, Of
    <3>4. ASSUME NEW k \in Positions
          PROVE  OnlyFilled(scored[k], scored'[k]) /\ OneEach(scored'[k].people)
      <4>1. scored[k] \in ScoredLead
        BY <1>1 DEF Positions
      <4>2. CASE k \in silent
        <5> DEFINE p == Of(k, e)
        <5>1. scored'[k] = [scored[k] EXCEPT !.people = p]
          BY <3>1, <4>2
        <5>2. OneEach(p) /\ scored[k].people = <<>>
          BY <3>3, <4>2
        <5> HIDE DEF p
        <5>3. /\ scored'[k].url = scored[k].url /\ scored'[k].tier = scored[k].tier
              /\ scored'[k].score = scored[k].score /\ scored'[k].summary = scored[k].summary
              /\ scored'[k].why = scored[k].why /\ scored'[k].people = p
          BY <4>1, <5>1, ScoredFields
        <5> QED
          BY <5>2, <5>3 DEF OnlyFilled, Kept
      <4>3. CASE k \notin silent
        <5>1. scored'[k] = scored[k]
          BY <3>1, <4>3
        <5> QED
          BY <1>1, <5>1 DEF OnlyFilled, Kept
      <4> QED
        BY <4>2, <4>3
    <3>5. scored' = [k \in Positions |-> scored'[k]]
      BY <3>1
    <3> QED
      BY <3>4, <3>5
  <2> QED
    BY <2>1, <2>2
<1>4. Positions' = Positions /\ Len(scored') = Len(scored)
  <2>1. DOMAIN scored' = Positions
    BY <1>3
  <2>2. DOMAIN scored = 1..Len(scored) /\ Len(scored) \in Nat
    BY <1>1
  <2>3. Len(scored') = Len(scored)
    BY <1>3, <2>1, <2>2 DEF Positions
  <2> QED
    BY <2>1, <2>3 DEF Positions
<1>5. ScoredTypes' /\ PoolKeeps'
  BY <1>1 DEF ScoredTypes, PoolKeeps, Scoring
<1>6. BestLeadsScored'
  BY <1>1, <1>3, <1>4, BestStay DEF OnlyFilled
<1>7. TitlesOnce'
  BY <1>3, <1>4 DEF TitlesOnce, OneEach
<1> QED
  BY <1>3, <1>5, <1>6, <1>7 DEF ScoringInv

\* Every step keeps the invariant of the scoring.
LEMMA ScoringStep ==
    ASSUME SearchInv, CrawlInv, LeadsInv, ScoringInv, [Next]_vars PROVE ScoringInv'
<1>1. CASE UNCHANGED vars
  BY <1>1, ScoringStutters
<1>2. CASE Parse \/ Discover
  <2>1. CASE Parse
    BY <2>1, NothingScored DEF Parse, serviceVars, Scoring
  <2>2. ASSUME PipelineNext, UNCHANGED serviceVars PROVE ScoringInv'
    <3>1. /\ stage \notin Scoring \cup {"completed"}
          /\ stage' \notin Scoring \cup {"completed"}
      <4>1. CASE MakePlan \/ Merge \/ StartCrawl \/ CrawlStep \/ EndCrawl \/ Enrich
        BY <4>1 DEF MakePlan, Merge, StartCrawl, CrawlStep, EndCrawl, Enrich, Scoring
      <4>2. ASSUME NEW q \in Queries,
                   \/ StartQuery(q) \/ QueryRaises(q) \/ Return(q)
                   \/ \E p \in Providers : Answer(q, p) \/ ProviderFails(q, p)
            PROVE  stage' = stage /\ stage = "search"
        <5>1. stage' = stage
          BY <4>2 DEF StartQuery, QueryRaises, Return, Searching, Answer, ProviderFails, Respond
        <5>2. q \in DOMAIN plan
          BY DEF Queries, SearchInv, SearchTypes
        <5>3. plan # <<>>
          BY <5>2
        <5> QED
          BY <5>1, <5>3 DEF SearchInv, PlanInUse
      <4>3. ASSUME stage' = stage, stage = "search"
            PROVE  stage \notin Scoring \cup {"completed"} /\ stage' \notin Scoring \cup {"completed"}
        BY <4>3 DEF Scoring
      <4> QED
        BY <2>2, <4>1, <4>2, <4>3 DEF PipelineNext
    <3> QED
      BY <2>2, <3>1, NothingScored DEF serviceVars
  <2> QED
    BY <1>2, <2>1, <2>2 DEF Discover
<1>3. CASE FoundNothing
  BY <1>3, NothingScored DEF FoundNothing, Serve, serviceVars, Scoring
<1>4. CASE StartScoring
  BY <1>4, StartScoringKeeps
<1>5. CASE EndScoring
  BY <1>5, EndScoringKeeps
<1>6. CASE \E i \in unscored : ScoreOne(i)
  BY <1>6, ScoreOneKeeps
<1>7. CASE Research
  BY <1>7, ResearchKeeps
<1>8. CASE FindContacts
  BY <1>8, FindContactsKeeps
<1> QED
  BY <1>1, <1>2, <1>3, <1>4, <1>5, <1>6, <1>7, <1>8 DEF Next

\* The invariant of the scoring: the scored leads are those of the batch that are
\* through the pool, one for one, whatever the order in which the threads end.
THEOREM ScoringIsSafe == Spec => []ScoringInv
BY SearchesLoseNothing, CrawlsAccountForAll, LeadsAreTheGoodPages, ScoringInitially, ScoringStep,
   PTL DEF Spec

\* The result are the best leads, in the order of their scores, whatever the model
\* answers and whichever thread ends first (score_many and PipelineService.run).
THEOREM BestAreScored == Spec => []BestLeadsScored
BY ScoringIsSafe, PTL DEF ScoringInv

\* No lead of the result names two people with one title, whether a page, the model or
\* the contact finder named them.
THEOREM PeopleHaveOwnTitles == Spec => []TitlesOnce
BY ScoringIsSafe, PTL DEF ScoringInv

\* After the scorer, leads are only filled.
LEMMA OnlyFillStep ==
    ASSUME SearchInv, CrawlInv, ScoringInv, [Next]_vars, stage \in {"research", "contacts"}
    PROVE  \A k \in Positions : OnlyFilled(scored[k], scored'[k])
<1>1. CASE Research
  BY <1>1, ResearchKeeps
<1>2. CASE FindContacts
  BY <1>2, FindContactsKeeps
<1>3. ASSUME Parse \/ MakePlan \/ Merge \/ StartCrawl \/ CrawlStep \/ EndCrawl \/ Enrich
             \/ FoundNothing \/ StartScoring \/ EndScoring
             \/ \E i \in unscored : ScoreOne(i)
      PROVE  FALSE
  BY <1>3 DEF Parse, MakePlan, Merge, StartCrawl, CrawlStep, EndCrawl, Enrich, FoundNothing,
              StartScoring, EndScoring, ScoreOne, Serve
<1>4. Queries = {}
  <2>1. plan = <<>> /\ DOMAIN <<>> = {}
    BY DEF SearchInv, PlanInUse
  <2> QED
    BY <2>1 DEF Queries, SearchInv, SearchTypes
<1>5. CASE UNCHANGED vars
  BY <1>5 DEF vars, serviceVars, OnlyFilled, Kept
<1> QED
  BY <1>1, <1>2, <1>3, <1>4, <1>5 DEF Next, Discover, PipelineNext

\* Research and the contact finder fill in what the scorer left empty, and lose
\* nothing of what it wrote.
THEOREM AgentsOnlyFill == Spec => LaterAgentsOnlyFill
<1>1. SearchInv /\ CrawlInv /\ ScoringInv /\ [Next]_vars
        => [(stage \in {"research", "contacts"}) =>
              \A k \in Positions :
                LET old == scored[k] IN
                LET new == scored'[k] IN
                /\ new.url = old.url /\ new.tier = old.tier
                /\ Kept(old.summary, new.summary) /\ Kept(old.why, new.why)
                /\ old.people = <<>> \/ new.people = old.people]_vars
  BY OnlyFillStep DEF OnlyFilled
<1> QED
  BY <1>1, SearchesLoseNothing, CrawlsAccountForAll, ScoringIsSafe, PTL
     DEF Spec, LaterAgentsOnlyFill

--------------------------------------------------------------------------------

(* Scores that make sense. *)

\* Rounding down keeps the order.
LEMMA QuotientsInOrder ==
    ASSUME NEW m \in Nat, NEW n \in Nat, NEW d \in Nat, d # 0, m <= n
    PROVE  m \div d \in Nat /\ n \div d \in Nat /\ m \div d <= n \div d
<1> DEFINE p == m \div d
           r == n \div d
<1>1. /\ p \in Int /\ d * p <= m /\ m < d * p + d
      /\ r \in Int /\ d * r <= n /\ n < d * r + d
  BY Z3
<1> HIDE DEF p, r
<1>2. p \in Nat /\ r \in Nat /\ p <= r
  BY <1>1, Z3
<1> QED
  BY <1>2 DEF p, r

\* A part of a whole.
LEMMA ShareOf ==
    ASSUME NEW whole \in Nat, NEW m \in Nat, NEW d \in Nat, d # 0, m <= d
    PROVE  (whole * m) \div d \in 0..whole
<1> DEFINE p == (whole * m) \div d
<1>1. whole * m \in Nat /\ whole * m <= whole * d
  BY Z3
<1>2. p \in Int /\ d * p <= whole * m /\ whole * m < d * p + d
  BY <1>1, Z3
<1> HIDE DEF p
<1>3. p \in 0..whole
  BY <1>1, <1>2, Z3
<1> QED
  BY <1>3 DEF p

\* The page of a text, and a text that says all that another one says.
PageSaying(text) ==
    [success |-> TRUE, text |-> text, techs |-> {tech \in TechKeywords : Says(text, tech)}]
SaysAll(more, text) == \A term : Says(text, term) => Says(more, term)

\* More words say whatever fewer do.
LEMMA MoreWordsSayMore ==
    ASSUME NEW text, NEW more, ToSet(text) \subseteq ToSet(more)
    PROVE  SaysAll(more, text)
<1> SUFFICES ASSUME NEW term, Says(text, term) PROVE Says(more, term)
  BY DEF SaysAll
<1>1. PICK i \in DOMAIN text : text[i] = term \/ <<term, text[i]>> \in Inside
  BY DEF Says
<1>2. PICK j \in DOMAIN more : more[j] = text[i]
  BY <1>1 DEF ToSet
<1> QED
  BY <1>1, <1>2 DEF Says

\* Numbers of members of a set and of its subsets.
LEMMA PartsOfFinite ==
    ASSUME NEW S, IsFiniteSet(S), NEW T, NEW U, T \subseteq U, U \subseteq S
    PROVE  /\ Cardinality(T) \in Nat /\ Cardinality(U) \in Nat /\ Cardinality(S) \in Nat
           /\ Cardinality(T) <= Cardinality(U) /\ Cardinality(U) <= Cardinality(S)
           /\ S # {} => Cardinality(S) # 0
<1>1. IsFiniteSet(U) /\ IsFiniteSet(T)
  BY FS_Subset
<1> QED
  BY <1>1, FS_Subset, FS_CardinalityType, FS_EmptySet

\* The technologies a text names: a part of those of the ICP, and more of them in more.
LEMMA TechScoreInOrder ==
    ASSUME NEW q \in IcpQueries, NEW text, NEW more, SaysAll(more, text)
    PROVE  /\ TechScore(q, PageSaying(text)) \in 0..Whole
           /\ TechScore(q, PageSaying(more)) \in 0..Whole
           /\ TechScore(q, PageSaying(text)) <= TechScore(q, PageSaying(more))
<1> DEFINE S == IcpTechs(q)
           Found(words) == ({tech \in TechKeywords : Says(words, tech)}
                              \cup {tech \in IcpTechs(q) : Says(words, tech)}) \cap IcpTechs(q)
           T == Found(text)
           U == Found(more)
<1>1. IsFiniteSet(S)
  BY Fields, FinitelyMany, FS_Union DEF IcpTechs
<1>2. T \subseteq U /\ U \subseteq S
  BY DEF SaysAll
<1>3. \A words : TechScore(q, PageSaying(words)) =
                   IF S = {} THEN Whole \div 2
                   ELSE (Whole * Cardinality(Found(words))) \div Cardinality(S)
  BY DEF TechScore, PageSaying
<1>4. /\ TechScore(q, PageSaying(text)) =
           IF S = {} THEN Whole \div 2 ELSE (Whole * Cardinality(T)) \div Cardinality(S)
      /\ TechScore(q, PageSaying(more)) =
           IF S = {} THEN Whole \div 2 ELSE (Whole * Cardinality(U)) \div Cardinality(S)
  BY <1>3
<1> HIDE DEF S, T, U, Found
<1>5. /\ Cardinality(T) \in Nat /\ Cardinality(U) \in Nat /\ Cardinality(S) \in Nat
      /\ Cardinality(T) <= Cardinality(U) /\ Cardinality(U) <= Cardinality(S)
      /\ S # {} => Cardinality(S) # 0
  BY <1>1, <1>2, PartsOfFinite
<1>6. CASE S = {}
  BY <1>4, <1>6 DEF Whole
<1>7. CASE S # {}
  <2>1. Whole \in Nat
    BY DEF Whole
  <2>2. /\ (Whole * Cardinality(T)) \div Cardinality(S) \in 0..Whole
        /\ (Whole * Cardinality(U)) \div Cardinality(S) \in 0..Whole
    <3>1. Cardinality(T) <= Cardinality(S) /\ Cardinality(S) # 0
      BY <1>5, <1>7
    <3>2. (Whole * Cardinality(T)) \div Cardinality(S) \in 0..Whole
      BY <1>5, <2>1, <3>1, ShareOf
    <3>3. (Whole * Cardinality(U)) \div Cardinality(S) \in 0..Whole
      BY <1>5, <2>1, <3>1, ShareOf
    <3> QED
      BY <3>2, <3>3
  <2>3. /\ Whole * Cardinality(T) \in Nat /\ Whole * Cardinality(U) \in Nat
        /\ Whole * Cardinality(T) <= Whole * Cardinality(U)
    BY <1>5 DEF Whole
  <2>4. (Whole * Cardinality(T)) \div Cardinality(S) <= (Whole * Cardinality(U)) \div Cardinality(S)
    BY <1>5, <1>7, <2>3, QuotientsInOrder
  <2> QED
    BY <1>4, <1>7, <2>2, <2>4
<1> QED
  BY <1>6, <1>7

\* A cap keeps the order.
LEMMA CappedInOrder ==
    ASSUME NEW m \in Nat, NEW n \in Nat, m <= n
    PROVE  Min({Whole, m}) \in 0..Whole /\ Min({Whole, n}) \in 0..Whole
           /\ Min({Whole, m}) <= Min({Whole, n})
<1>1. Whole \in Nat
  BY DEF Whole
<1>2. ASSUME NEW k \in Nat
      PROVE  /\ Min({Whole, k}) \in {Whole, k} /\ Min({Whole, k}) <= Whole
             /\ Min({Whole, k}) <= k
  <2>1. Whole \in Int /\ k \in Int
    BY <1>1
  <2> QED
    BY <2>1, LeastOfTwo
<1> QED
  BY <1>1, <1>2

\* The hiring signals of a text.
LEMMA HiringScoreInOrder ==
    ASSUME NEW text, NEW more, SaysAll(more, text)
    PROVE  /\ HiringScore(text) \in 0..Whole /\ HiringScore(more) \in 0..Whole
           /\ HiringScore(text) <= HiringScore(more)
<1> DEFINE T == HiringSignals(text)
           U == HiringSignals(more)
<1>1. IsFiniteSet(HiringRoles)
  BY FiveFinite DEF HiringRoles
<1>2. T \subseteq U /\ U \subseteq HiringRoles
  BY DEF HiringSignals, SaysAll
<1>3. HiringScore(text) = Min({Whole, 2000 * Cardinality(T)})
      /\ HiringScore(more) = Min({Whole, 2000 * Cardinality(U)})
  BY DEF HiringScore
<1> HIDE DEF T, U
<1>4. Cardinality(T) \in Nat /\ Cardinality(U) \in Nat /\ Cardinality(T) <= Cardinality(U)
  BY <1>1, <1>2, PartsOfFinite
<1>5. /\ 2000 * Cardinality(T) \in Nat /\ 2000 * Cardinality(U) \in Nat
      /\ 2000 * Cardinality(T) <= 2000 * Cardinality(U)
  BY <1>4
<1> QED
  BY <1>3, <1>5, CappedInOrder

\* What the industries, the places and the sizes that a text names are worth.
IndustryShare(q, text) ==
    LET said == {industry \in IcpIndustries(q) : Says(text, industry)} IN
    IF said # {} THEN (5000 * Cardinality(said)) \div Cardinality(IcpIndustries(q)) ELSE 0
PlaceShare(q, text) ==
    IF \E place \in ToSet(q.countries) : Says(text, place) THEN 3000 ELSE 0
SizeShare(q, text) ==
    IF \E size \in ToSet(q.sizes) : \E word \in SizeWords(size) : Says(text, word) THEN 2000 ELSE 0

\* A part of the half of the score that the industries are worth.
LEMMA HalfOfScore ==
    ASSUME NEW m \in Nat, NEW d \in Nat, d # 0, m <= d
    PROVE  (5000 * m) \div d \in Nat /\ (5000 * m) \div d <= 5000
OBVIOUS

\* Its industries are worth a part of what all of them are worth.
LEMMA IndustryShareInOrder ==
    ASSUME NEW q \in IcpQueries, NEW text, NEW more, SaysAll(more, text)
    PROVE  /\ IndustryShare(q, text) \in Nat /\ IndustryShare(q, more) \in Nat
           /\ IndustryShare(q, text) <= IndustryShare(q, more) /\ IndustryShare(q, more) <= 5000
           /\ q.industries = <<>> => IndustryShare(q, text) = 0 /\ IndustryShare(q, more) = 0
<1> DEFINE S == IcpIndustries(q)
           T == {industry \in IcpIndustries(q) : Says(text, industry)}
           U == {industry \in IcpIndustries(q) : Says(more, industry)}
<1>1. IsFiniteSet(S)
  BY Fields, FinitelyMany DEF IcpIndustries
<1>2. T \subseteq U /\ U \subseteq S
  BY DEF SaysAll
<1>3. q.industries = <<>> => T = {} /\ U = {}
  BY DEF IcpIndustries, ToSet
<1>4. /\ IndustryShare(q, text) =
           IF T # {} THEN (5000 * Cardinality(T)) \div Cardinality(S) ELSE 0
      /\ IndustryShare(q, more) =
           IF U # {} THEN (5000 * Cardinality(U)) \div Cardinality(S) ELSE 0
  BY DEF IndustryShare
<1> HIDE DEF S, T, U
<1>5. /\ Cardinality(T) \in Nat /\ Cardinality(U) \in Nat /\ Cardinality(S) \in Nat
      /\ Cardinality(T) <= Cardinality(U) /\ Cardinality(U) <= Cardinality(S)
      /\ S # {} => Cardinality(S) # 0
  BY <1>1, <1>2, PartsOfFinite
<1>6. q.industries = <<>> => IndustryShare(q, text) = 0 /\ IndustryShare(q, more) = 0
  BY <1>3, <1>4
<1>7. /\ IndustryShare(q, text) \in Nat /\ IndustryShare(q, more) \in Nat
      /\ IndustryShare(q, text) <= IndustryShare(q, more) /\ IndustryShare(q, more) <= 5000
  <2>1. CASE U = {}
    BY <1>2, <1>4, <2>1
  <2>2. CASE U # {}
    <3>1. S # {} /\ Cardinality(S) # 0 /\ Cardinality(T) <= Cardinality(S)
      BY <1>2, <1>5, <2>2
    <3>2. /\ (5000 * Cardinality(T)) \div Cardinality(S) \in Nat
          /\ (5000 * Cardinality(T)) \div Cardinality(S) <= 5000
      BY <1>5, <3>1, HalfOfScore, SMT
    <3>3. /\ (5000 * Cardinality(U)) \div Cardinality(S) \in Nat
          /\ (5000 * Cardinality(U)) \div Cardinality(S) <= 5000
      BY <1>5, <3>1, HalfOfScore, SMT
    <3>4. /\ 5000 * Cardinality(T) \in Nat /\ 5000 * Cardinality(U) \in Nat
          /\ 5000 * Cardinality(T) <= 5000 * Cardinality(U)
      BY <1>5
    <3>5. (5000 * Cardinality(T)) \div Cardinality(S) <= (5000 * Cardinality(U)) \div Cardinality(S)
      BY <1>5, <3>1, <3>4, QuotientsInOrder
    <3>6. CASE T = {}
      <4>1. IndustryShare(q, text) = 0
        BY <1>4, <3>6
      <4>2. IndustryShare(q, more) \in Nat /\ IndustryShare(q, more) <= 5000
        BY <1>4, <2>2, <3>3
      <4> QED
        BY <2>2, <4>1, <4>2
    <3>7. CASE T # {}
      <4>1. IndustryShare(q, text) = (5000 * Cardinality(T)) \div Cardinality(S)
        BY <1>4, <3>7
      <4>2. IndustryShare(q, more) = (5000 * Cardinality(U)) \div Cardinality(S)
        BY <1>4, <2>2
      <4> QED
        BY <2>2, <3>2, <3>3, <3>5, <4>1, <4>2
    <3> QED
      BY <3>6, <3>7
  <2> QED
    BY <2>1, <2>2
<1> QED
  BY <1>6, <1>7

\* The profile: what is named, of what could be.
LEMMA ProfileScoreInOrder ==
    ASSUME NEW q \in IcpQueries, NEW text, NEW more, SaysAll(more, text)
    PROVE  /\ ProfileScore(q, text) \in 0..Whole /\ ProfileScore(q, more) \in 0..Whole
           /\ ProfileScore(q, text) <= ProfileScore(q, more)
<1> DEFINE a == IF q.industries # <<>> THEN 5000 ELSE 0
           b == IF q.countries # <<>> THEN 3000 ELSE 0
           c == IF q.sizes # <<>> THEN 2000 ELSE 0
           total == a + b + c
           Sum(words) == IndustryShare(q, words) + PlaceShare(q, words) + SizeShare(q, words)
           m == Sum(text)
           n == Sum(more)
<1>1. /\ IndustryShare(q, text) \in 0..a /\ IndustryShare(q, more) \in 0..a
      /\ IndustryShare(q, text) <= IndustryShare(q, more)
  <2>1. /\ IndustryShare(q, text) \in Nat /\ IndustryShare(q, more) \in Nat
        /\ IndustryShare(q, text) <= IndustryShare(q, more) /\ IndustryShare(q, more) <= 5000
    BY IndustryShareInOrder
  <2>2. q.industries = <<>> => IndustryShare(q, text) = 0 /\ IndustryShare(q, more) = 0
    BY IndustryShareInOrder
  <2>3. CASE q.industries = <<>>
    BY <2>1, <2>2, <2>3
  <2>4. CASE q.industries # <<>>
    <3>1. a = 5000
      BY <2>4
    <3> QED
      BY <2>1, <3>1
  <2> QED
    BY <2>3, <2>4
<1>2. /\ PlaceShare(q, text) \in 0..b /\ PlaceShare(q, more) \in 0..b
      /\ PlaceShare(q, text) <= PlaceShare(q, more)
  <2>1. (\E place \in ToSet(q.countries) : Says(text, place))
           => \E place \in ToSet(q.countries) : Says(more, place)
    BY DEF SaysAll
  <2>2. q.countries = <<>> => ToSet(q.countries) = {}
    BY DEF ToSet
  <2> QED
    BY <2>1, <2>2 DEF PlaceShare
<1>3. /\ SizeShare(q, text) \in 0..c /\ SizeShare(q, more) \in 0..c
      /\ SizeShare(q, text) <= SizeShare(q, more)
  <2>1. (\E size \in ToSet(q.sizes) : \E word \in SizeWords(size) : Says(text, word))
           => \E size \in ToSet(q.sizes) : \E word \in SizeWords(size) : Says(more, word)
    BY DEF SaysAll
  <2>2. q.sizes = <<>> => ToSet(q.sizes) = {}
    BY DEF ToSet
  <2> QED
    BY <2>1, <2>2 DEF SizeShare
<1>4. total \in {0, 2000, 3000, 5000, 7000, 8000, 10000} /\ total \in Nat
  OBVIOUS
<1>5. a \in Nat /\ b \in Nat /\ c \in Nat /\ total = a + b + c
  OBVIOUS
<1>6. \A words : ProfileScore(q, words) =
                   IF total = 0 THEN Whole \div 2
                                ELSE Min({Whole, (Whole * Sum(words)) \div total})
  BY DEF ProfileScore, IndustryShare, PlaceShare, SizeShare
<1> HIDE DEF total, Sum
<1>7. /\ ProfileScore(q, text) =
           IF total = 0 THEN Whole \div 2 ELSE Min({Whole, (Whole * m) \div total})
      /\ ProfileScore(q, more) =
           IF total = 0 THEN Whole \div 2 ELSE Min({Whole, (Whole * n) \div total})
  BY <1>6, Zenon
<1> USE DEF Sum
<1> HIDE DEF a, b, c
<1>8. m \in Nat /\ n \in Nat /\ m <= n
  BY <1>1, <1>2, <1>3, <1>5
<1> HIDE DEF m, n
<1>9. CASE total = 0
  BY <1>7, <1>9 DEF Whole
<1>10. CASE total # 0
  <2>1. Whole * m \in Nat /\ Whole * n \in Nat /\ Whole * m <= Whole * n
    BY <1>8 DEF Whole
  <2>2. /\ (Whole * m) \div total \in Nat /\ (Whole * n) \div total \in Nat
        /\ (Whole * m) \div total <= (Whole * n) \div total
    BY <1>4, <1>10, <2>1, QuotientsInOrder
  <2> QED
    BY <1>7, <1>10, <2>2, CappedInOrder
<1> QED
  BY <1>9, <1>10

\* Products of numbers that are in order.
LEMMA TimesInOrder ==
    ASSUME NEW m \in Nat, NEW n \in Nat, NEW k \in Nat, m <= n
    PROVE  /\ m * k \in Nat /\ n * k \in Nat /\ m * k <= n * k
           /\ k * m \in Nat /\ k * n \in Nat /\ k * m <= k * n
BY Z3

\* The three weights are a whole.
LEMMA WeightsAreWhole ==
    ASSUME NEW q
    PROVE  /\ Weights(q)[1] \in Nat /\ Weights(q)[2] \in Nat /\ Weights(q)[3] \in Nat
           /\ Weights(q)[1] + Weights(q)[2] + Weights(q)[3] = 100
BY DEF Weights

\* The score: a sum of the three, and less of it the less fresh the result is.
LEMMA ScoreInOrder ==
    ASSUME NEW q \in IcpQueries, NEW text, NEW more, SaysAll(more, text), NEW age \in Ages,
           NEW other \in Ages, Freshness(other) <= Freshness(age)
    PROVE  /\ Score(q, PageSaying(text), age) \in 0..Whole
           /\ Score(q, PageSaying(text), age) <= Score(q, PageSaying(more), age)
           /\ Score(q, PageSaying(text), other) <= Score(q, PageSaying(text), age)
<1> DEFINE w == Weights(q)
           Sum(words) == w[1] * TechScore(q, PageSaying(words)) + w[2] * HiringScore(words)
                           + w[3] * ProfileScore(q, words)
           Composite(words) == Sum(words) \div 100
           m == Sum(text)
           n == Sum(more)
           f == Freshness(age)
           g == Freshness(other)
<1>1. \A words, when : Score(q, PageSaying(words), when) =
                         Min({Whole, (Composite(words) * Freshness(when)) \div 100})
  BY DEF Score, PageSaying
<1>2. /\ Score(q, PageSaying(text), age) = Min({Whole, ((m \div 100) * f) \div 100})
      /\ Score(q, PageSaying(more), age) = Min({Whole, ((n \div 100) * f) \div 100})
      /\ Score(q, PageSaying(text), other) = Min({Whole, ((m \div 100) * g) \div 100})
  BY <1>1
<1>3. f \in Nat /\ g \in Nat /\ g <= f
  BY DEF Freshness, Ages
<1>4. m \in Nat /\ n \in Nat /\ m <= n
  <2>1. w[1] \in Nat /\ w[2] \in Nat /\ w[3] \in Nat
    BY WeightsAreWhole
  <2>2. /\ TechScore(q, PageSaying(text)) \in Nat /\ TechScore(q, PageSaying(more)) \in Nat
        /\ TechScore(q, PageSaying(text)) <= TechScore(q, PageSaying(more))
    BY TechScoreInOrder
  <2>3. /\ HiringScore(text) \in Nat /\ HiringScore(more) \in Nat
        /\ HiringScore(text) <= HiringScore(more)
    BY HiringScoreInOrder
  <2>4. /\ ProfileScore(q, text) \in Nat /\ ProfileScore(q, more) \in Nat
        /\ ProfileScore(q, text) <= ProfileScore(q, more)
    BY ProfileScoreInOrder
  <2>5. /\ w[1] * TechScore(q, PageSaying(text)) \in Nat
        /\ w[1] * TechScore(q, PageSaying(more)) \in Nat
        /\ w[1] * TechScore(q, PageSaying(text)) <= w[1] * TechScore(q, PageSaying(more))
    <3> HIDE DEF w
    <3> QED
      BY <2>1, <2>2, TimesInOrder
  <2>6. /\ w[2] * HiringScore(text) \in Nat /\ w[2] * HiringScore(more) \in Nat
        /\ w[2] * HiringScore(text) <= w[2] * HiringScore(more)
    <3> HIDE DEF w
    <3> QED
      BY <2>1, <2>3, TimesInOrder
  <2>7. /\ w[3] * ProfileScore(q, text) \in Nat /\ w[3] * ProfileScore(q, more) \in Nat
        /\ w[3] * ProfileScore(q, text) <= w[3] * ProfileScore(q, more)
    <3> HIDE DEF w
    <3> QED
      BY <2>1, <2>4, TimesInOrder
  <2> QED
    BY <2>5, <2>6, <2>7
<1> HIDE DEF w, m, n, f, g
<1>5. m \div 100 \in Nat /\ n \div 100 \in Nat /\ m \div 100 <= n \div 100
  BY <1>4, QuotientsInOrder
<1>6. /\ (m \div 100) * f \in Nat /\ (n \div 100) * f \in Nat
      /\ (m \div 100) * f <= (n \div 100) * f
  BY <1>3, <1>5, TimesInOrder
<1>7. (m \div 100) * g \in Nat /\ (m \div 100) * g <= (m \div 100) * f
  BY <1>3, <1>5, TimesInOrder
<1>8. /\ ((m \div 100) * f) \div 100 \in Nat /\ ((n \div 100) * f) \div 100 \in Nat
      /\ ((m \div 100) * f) \div 100 <= ((n \div 100) * f) \div 100
  BY <1>6, QuotientsInOrder
<1>9. /\ ((m \div 100) * g) \div 100 \in Nat
      /\ ((m \div 100) * g) \div 100 <= ((m \div 100) * f) \div 100
  BY <1>6, <1>7, QuotientsInOrder
<1> QED
  BY <1>2, <1>8, <1>9, CappedInOrder

\* The scores of every ICP make sense, of whatever texts: more words are worth no
\* less, and of two dates that can be read the newer is, through every rounding.
THEOREM ScoresAlwaysMakeSense ==
    ASSUME NEW q \in IcpQueries, NEW texts, NEW ages \in SUBSET Ages
    PROVE  ScoresMakeSense(q, texts, ages)
<1>1. Weights(q)[1] + Weights(q)[2] + Weights(q)[3] = 100
  BY WeightsAreWhole
<1>2. ASSUME NEW text \in texts, NEW age \in ages
      PROVE  /\ Score(q, PageSaying(text), age) \in 0..Whole
             /\ Score(q, PageSaying(text), "older") <= Score(q, PageSaying(text), age)
  <2>1. Freshness("older") <= Freshness(age) /\ age \in Ages /\ "older" \in Ages
    BY DEF Freshness, Ages
  <2> QED
    BY <2>1, ScoreInOrder DEF SaysAll
<1>3. ASSUME NEW text \in texts, NEW more \in texts, NEW age \in ages,
             ToSet(text) \subseteq ToSet(more)
      PROVE  Score(q, PageSaying(text), age) <= Score(q, PageSaying(more), age)
  <2>1. age \in Ages /\ Freshness(age) <= Freshness(age)
    BY DEF Freshness, Ages
  <2>2. SaysAll(more, text)
    BY <1>3, MoreWordsSayMore
  <2> QED
    BY <2>1, <2>2, ScoreInOrder
<1>4. ASSUME NEW text \in texts, NEW i \in DOMAIN ByAge, NEW j \in DOMAIN ByAge, i <= j
      PROVE  Score(q, PageSaying(text), ByAge[j]) <= Score(q, PageSaying(text), ByAge[i])
  <2>1. /\ ByAge[i] \in Ages /\ ByAge[j] \in Ages
        /\ Freshness(ByAge[j]) <= Freshness(ByAge[i])
    <3>1. i \in 1..4 /\ j \in 1..4
      BY DEF ByAge
    <3> QED
      BY <1>4, <3>1 DEF ByAge, Ages, Freshness
  <2> QED
    BY <2>1, ScoreInOrder DEF SaysAll
<1> QED
  BY <1>1, <1>2, <1>3, <1>4 DEF ScoresMakeSense, PageSaying

--------------------------------------------------------------------------------

(* What a plan never drops. *)

\* A list of queries that has one with this signal and this term.
Holds(queries, signal, term) ==
    \E x \in ToSet(queries) : x.signal = signal /\ term \in ToSet(x.terms)

\* What comes first is not cut off.
LEMMA FirstFewHas ==
    ASSUME NEW S, NEW s \in Seq(S), NEW k \in 1..Len(s), k <= MostPerSignal
    PROVE  s[k] \in ToSet(FirstFew(s))
<1>1. MostPerSignal \in Nat
  BY QueryPlannerAssumption DEF QueryPlannerAssumption
<1> DEFINE t == UpTo(s, MostPerSignal)
<1>2. /\ t \in Seq(S) /\ Len(t) = IF MostPerSignal < Len(s) THEN MostPerSignal ELSE Len(s)
      /\ \A j \in 1..Len(t) : t[j] = s[j]
  BY <1>1, UpToTakes
<1> HIDE DEF t
<1>3. k \in DOMAIN t /\ t[k] = s[k]
  BY <1>1, <1>2
<1> QED
  BY <1>3 DEF FirstFew, t, ToSet

\* A query has the term it was made for.
LEMMA FirstTerm ==
    ASSUME NEW x \in Text, NEW t \in Seq(Text) PROVE x \in ToSet(<<x>> \o t)
<1>1. <<x>> \o t \in Seq(Text) /\ Len(<<x>> \o t) = 1 + Len(t) /\ (<<x>> \o t)[1] = x
  BY ListOfOne, ConcatProperties
<1>2. 1 \in DOMAIN (<<x>> \o t)
  BY <1>1
<1> QED
  BY <1>1, <1>2 DEF ToSet

\* And its signal.
LEMMA QueryAsks ==
    ASSUME NEW signal, NEW priority, NEW asks, NEW x \in Text, NEW hints \in Seq(Text), NEW only
    PROVE  LET asked == Query(signal, priority, asks, <<x>> \o hints, only) IN
           asked.signal = signal /\ x \in ToSet(asked.terms)
<1> DEFINE terms == <<x>> \o hints
<1>1. x \in ToSet(terms)
  BY FirstTerm
<1> HIDE DEF terms
<1>2. /\ Query(signal, priority, asks, terms, only).signal = signal
      /\ Query(signal, priority, asks, terms, only).terms = terms
  BY DEF Query
<1> QED
  BY <1>1, <1>2 DEF terms

\* The places of a prefix.
LEMMA UpToPlaces ==
    ASSUME NEW S, NEW s \in Seq(S), NEW n \in Nat, NEW i \in DOMAIN UpTo(s, n)
    PROVE  i \in 1..Len(s) /\ i \in Nat /\ i >= 1 /\ i <= n
<1>1. /\ UpTo(s, n) \in Seq(S)
      /\ Len(UpTo(s, n)) = IF n < Len(s) THEN n ELSE Len(s)
  BY UpToTakes
<1>2. i \in 1..Len(UpTo(s, n))
  BY <1>1
<1> QED
  BY <1>1, <1>2

\* Each of the first industries has a query.
LEMMA IndustriesAreAsked ==
    ASSUME NEW q \in IcpQueries, NEW k \in 1..Len(Industries(q)), k <= MostPerSignal
    PROVE  Holds(CompanyProfileQueries(q), "company_profile", Industries(q)[k])
<1> DEFINE hints == SizeTerms(q) \o UpTo(q.countries, 2) \o UpTo(q.maturity, 1)
           Of(industry) == Query("company_profile", 1, "company", <<industry>> \o hints, "anywhere")
           s == Industries(q)
           made == [i \in DOMAIN s |-> Of(s[i])]
           P == PlannedQueries("company_profile")
           first == {i \in DOMAIN q.sizes : \A j \in 1..i-1 : q.sizes[j] # q.sizes[i]}
<1>1. SizeTerms(q) = At(q.sizes, first)
  BY DEF SizeTerms, FirstOfEach, With
<1>2. SizeTerms(q) \in Seq(Text)
  BY <1>1, Fields, AtTakes
<1>3. hints \in Seq(Text)
  <2>1. UpTo(q.countries, 2) \in Seq(Text) /\ UpTo(q.maturity, 1) \in Seq(Text)
    BY Fields, UpToTakes
  <2> QED
    BY <1>2, <2>1
<1>4. s \in Seq(Text)
  BY IndustriesTyped
<1>5. \A x \in Text : /\ Of(x) \in P /\ Of(x).signal = "company_profile"
                      /\ x \in ToSet(Of(x).terms)
  <2> HIDE DEF hints
  <2>1. \A x \in Text : <<x>> \o hints \in Seq(Text)
    BY <1>3, TermsTyped
  <2>2. \A x \in Text : Of(x) \in P
    BY <2>1 DEF Query, PlannedQueries
  <2>3. \A x \in Text : Of(x).signal = "company_profile" /\ x \in ToSet(Of(x).terms)
    BY <1>3, QueryAsks
  <2> QED
    BY <2>2, <2>3
<1>6. Each(s, Of) = SubSeq(made, 1, Len(s))
  <2> HIDE DEF Of, s
  <2> QED
    BY DEF Each, With
<1>7. made \in [DOMAIN s -> P]
  <2> HIDE DEF Of, s
  <2> QED
    BY <1>4, <1>5
<1>8. Each(s, Of) = made /\ made \in Seq(P) /\ Len(made) = Len(s)
  <2> HIDE DEF made, s, Of, P
  <2> QED
    BY <1>4, <1>6, <1>7, RowTyped
<1>9. CompanyProfileQueries(q) = FirstFew(Each(s, Of))
  BY DEF CompanyProfileQueries
<1>10. made[k] = Of(s[k]) /\ s[k] \in Text
  <2> HIDE DEF Of
  <2> QED
    BY <1>4
<1>11. made[k] \in ToSet(FirstFew(made))
  <2> HIDE DEF made, P
  <2> QED
    BY <1>8, FirstFewHas
<1> HIDE DEF made, Of, s
<1> QED
  BY <1>5, <1>8, <1>9, <1>10, <1>11 DEF Holds, s

\* So has each of the first titles.
LEMMA TitlesAreAsked ==
    ASSUME NEW q \in IcpQueries, NEW k \in 1..Len(q.titles), k <= MostPerSignal
    PROVE  Holds(DecisionMakerQueries(q), "decision_makers", q.titles[k])
<1> DEFINE industry == UpTo(q.industries, 1)
           Of(title) == Query("decision_makers", 4, "title", <<title>> \o industry, "linkedin")
           s == q.titles
           made == [i \in DOMAIN s |-> Of(s[i])]
           P == PlannedQueries("decision_makers")
<1>1. industry \in Seq(Text)
  BY Fields, UpToTakes
<1>2. s \in Seq(Text)
  BY Fields
<1>3. \A x \in Text : /\ Of(x) \in P /\ Of(x).signal = "decision_makers"
                      /\ x \in ToSet(Of(x).terms)
  <2> HIDE DEF industry
  <2>1. \A x \in Text : <<x>> \o industry \in Seq(Text)
    BY <1>1, TermsTyped
  <2>2. \A x \in Text : Of(x) \in P
    BY <2>1 DEF Query, PlannedQueries
  <2>3. \A x \in Text : Of(x).signal = "decision_makers" /\ x \in ToSet(Of(x).terms)
    BY <1>1, QueryAsks
  <2> QED
    BY <2>2, <2>3
<1>4. Each(s, Of) = SubSeq(made, 1, Len(s))
  <2> HIDE DEF Of, s
  <2> QED
    BY DEF Each, With
<1>5. made \in [DOMAIN s -> P]
  <2> HIDE DEF Of, s
  <2> QED
    BY <1>2, <1>3
<1>6. Each(s, Of) = made /\ made \in Seq(P) /\ Len(made) = Len(s)
  <2> HIDE DEF made, s, Of, P
  <2> QED
    BY <1>2, <1>4, <1>5, RowTyped
<1>7. DecisionMakerQueries(q) = FirstFew(Each(s, Of))
  <2>1. s # <<>>
    OBVIOUS
  <2> QED
    BY <2>1 DEF DecisionMakerQueries
<1>8. made[k] = Of(s[k]) /\ s[k] \in Text
  <2> HIDE DEF Of
  <2> QED
    BY <1>2
<1>9. made[k] \in ToSet(FirstFew(made))
  <2> HIDE DEF made, P
  <2> QED
    BY <1>6, FirstFewHas
<1> HIDE DEF made, Of, s
<1> QED
  BY <1>3, <1>6, <1>7, <1>8, <1>9 DEF Holds, s

\* The places of the first of two lists.
LEMMA FirstOfConcat ==
    ASSUME NEW S, NEW s \in Seq(S), NEW t \in Seq(S), NEW k \in 1..Len(s)
    PROVE  s \o t \in Seq(S) /\ k \in 1..Len(s \o t) /\ (s \o t)[k] = s[k]
BY ConcatProperties

\* The place of the first of each of some pairs.
LEMMA PairsJoined ==
    ASSUME NEW S, NEW lists \in Seq(Seq(S)), \A i \in DOMAIN lists : Len(lists[i]) = 2,
           NEW k \in 1..Len(lists)
    PROVE  2 * k - 1 \in 1..Len(Joined(lists)) /\ Joined(lists)[2 * k - 1] = lists[k][1]
<1> DEFINE I == PlacesIn(lists)
           x == <<k, 1>>
           E == EarlierPlaces(I, x)
<1>1. /\ Len(lists) \in Nat /\ DOMAIN lists = 1..Len(lists) /\ k \in Nat
      /\ \A i \in 1..Len(lists) : DOMAIN lists[i] = 1..2
  <2>1. \A i \in 1..Len(lists) : lists[i] \in Seq(S) /\ Len(lists[i]) = 2
    OBVIOUS
  <2> QED
    BY <2>1
<1>2. I = (1..Len(lists)) \X (1..2)
  BY <1>1 DEF PlacesIn
<1>3. x \in I /\ x[1] = k /\ x[2] = 1
  BY <1>1, <1>2
<1>4. E = (1..k-1) \X (1..2)
  <2>1. \A y \in (1..Len(lists)) \X (1..2) :
           y = <<y[1], y[2]>> /\ y[1] \in 1..Len(lists) /\ y[2] \in 1..2
    OBVIOUS
  <2>2. ASSUME NEW y \in E PROVE y \in (1..k-1) \X (1..2)
    <3>1. y = <<y[1], y[2]>> /\ y[1] \in 1..Len(lists) /\ y[2] \in 1..2
      BY <1>2, <2>1 DEF EarlierPlaces
    <3>2. y[1] < k \/ (y[1] = k /\ y[2] < 1)
      BY <1>3 DEF EarlierPlaces
    <3>3. y[1] \in 1..k-1
      BY <1>1, <3>1, <3>2
    <3> QED
      BY <3>1, <3>3
  <2>3. ASSUME NEW y \in (1..k-1) \X (1..2) PROVE y \in E
    <3>1. y = <<y[1], y[2]>> /\ y[1] \in 1..k-1 /\ y[2] \in 1..2
      OBVIOUS
    <3>2. y[1] \in 1..Len(lists) /\ y[1] < k
      BY <1>1, <3>1
    <3>3. y \in I
      BY <1>2, <3>1, <3>2
    <3> QED
      BY <1>3, <3>2, <3>3 DEF EarlierPlaces
  <2> QED
    BY <2>2, <2>3
<1>5. Cardinality(E) = 2 * (k - 1)
  <2>1. IsFiniteSet(1..k-1) /\ Cardinality(1..k-1) = k - 1
    <3>1. 1 \in Int /\ k - 1 \in Int
      BY <1>1
    <3>2. /\ IsFiniteSet(1..k-1)
          /\ Cardinality(1..k-1) = IF 1 > k - 1 THEN 0 ELSE k - 1 - 1 + 1
      BY <3>1, FS_Interval
    <3> QED
      BY <1>1, <3>2
  <2>2. IsFiniteSet(1..2) /\ Cardinality(1..2) = 2
    <3>1. 1 \in Int /\ 2 \in Int
      OBVIOUS
    <3>2. IsFiniteSet(1..2) /\ Cardinality(1..2) = IF 1 > 2 THEN 0 ELSE 2 - 1 + 1
      BY <3>1, FS_Interval, Zenon
    <3> QED
      BY <3>2
  <2>3. Cardinality((1..k-1) \X (1..2)) = (k - 1) * 2
    BY <2>1, <2>2, FS_Product
  <2>4. Cardinality(E) = (k - 1) * 2
    BY <1>4, <2>3
  <2> HIDE DEF E
  <2> QED
    BY <1>1, <2>4
<1> HIDE DEF E, I
<1>6. Cardinality(E) + 1 \in 1..Len(Joined(lists))
  BY <1>3, PlacesOrdered, JoinedTyped DEF E, I
<1>7. Joined(lists)[Cardinality(E) + 1] = lists[x[1]][x[2]]
  BY <1>3, JoinedTyped DEF E, I
<1> QED
  BY <1>1, <1>3, <1>5, <1>6, <1>7

\* Engineers of the first three technologies are looked for.
LEMMA EngineersAreAsked ==
    ASSUME NEW q \in IcpQueries, NEW k \in 1..Len(Techs(q)), k <= 3, k <= MostPerSignal
    PROVE  Holds(HiringSignalQueries(q), "hiring_signals", Techs(q)[k])
<1> DEFINE industry == UpTo(q.industries, 1)
           place == UpTo(q.countries, 1)
           P == PlannedQueries("hiring_signals")
           ofTech(tech) == Query("hiring_signals", 2, "hiring engineer",
                              <<tech>> \o industry \o place, "job boards")
           ofKeyword(word) == Query("hiring_signals", 3, "hiring",
                                 <<word>> \o industry \o place, "anywhere")
           ofProject(type) == Query("hiring_signals", 3, "engineer hiring",
                                 <<type>> \o industry, "anywhere")
           s == UpTo(Techs(q), 3)
           t == UpTo(q.hiring, 2)
           u == UpTo(q.projects, 2)
           made == [i \in DOMAIN s |-> ofTech(s[i])]
<1>1. industry \in Seq(Text) /\ place \in Seq(Text)
  BY Fields, UpToTakes
<1>2. s \in Seq(Text) /\ t \in Seq(Text) /\ u \in Seq(Text)
  BY Fields, IndustriesTyped, UpToTakes
<1>3. \A x \in Text : <<x>> \o industry \o place \in Seq(Text) /\ <<x>> \o industry \in Seq(Text)
  <2> HIDE DEF industry, place
  <2> QED
    BY <1>1, TermsTyped
<1>4. \A x \in Text : ofTech(x) \in P /\ ofKeyword(x) \in P /\ ofProject(x) \in P
  <2> HIDE DEF industry, place
  <2> QED
    BY <1>3 DEF Query, PlannedQueries
<1>5. \A x \in Text : ofTech(x).signal = "hiring_signals" /\ x \in ToSet(ofTech(x).terms)
  <2> HIDE DEF industry, place
  <2>1. industry \o place \in Seq(Text)
    BY <1>1, ConcatProperties
  <2>2. \A x \in Text : <<x>> \o industry \o place = <<x>> \o (industry \o place)
    <3> TAKE x \in Text
    <3>1. <<x>> \in Seq(Text)
      BY ListOfOne, Zenon
    <3> QED
      BY <1>1, <3>1, ConcatAssociative
  <2>3. \A x \in Text :
           ofTech(x) = Query("hiring_signals", 2, "hiring engineer",
                             <<x>> \o (industry \o place), "job boards")
    BY <2>2
  <2> TAKE x \in Text
  <2> DEFINE asked == Query("hiring_signals", 2, "hiring engineer",
                            <<x>> \o (industry \o place), "job boards")
  <2>4. asked.signal = "hiring_signals" /\ x \in ToSet(asked.terms)
    BY <2>1, QueryAsks
  <2>5. ofTech(x) = asked
    BY <2>3
  <2> HIDE DEF ofTech, asked
  <2> QED
    BY <2>4, <2>5
<1> HIDE DEF ofTech, ofKeyword, ofProject, t, u, P, industry, place
<1>6. Each(s, ofTech) = made /\ made \in Seq(P) /\ Len(made) = Len(s)
  <2>1. Each(s, ofTech) = SubSeq(made, 1, Len(s))
    <3> HIDE DEF s
    <3> QED
      BY DEF Each, With
  <2>2. made \in [DOMAIN s -> P]
    <3> HIDE DEF s
    <3> QED
      BY <1>2, <1>4
  <2> HIDE DEF made, s
  <2> QED
    BY <1>2, <2>1, <2>2, RowTyped
<1> HIDE DEF s
<1>7. Each(t, ofKeyword) \in Seq(P)
  <2> DEFINE f == [i \in DOMAIN t |-> ofKeyword(t[i])]
  <2>1. Each(t, ofKeyword) = SubSeq(f, 1, Len(t))
    BY DEF Each, With
  <2>2. f \in [DOMAIN t -> P]
    BY <1>2, <1>4
  <2> HIDE DEF f
  <2> QED
    BY <1>2, <2>1, <2>2, RowTyped
<1>8. Each(u, ofProject) \in Seq(P)
  <2> DEFINE f == [i \in DOMAIN u |-> ofProject(u[i])]
  <2>1. Each(u, ofProject) = SubSeq(f, 1, Len(u))
    BY DEF Each, With
  <2>2. f \in [DOMAIN u -> P]
    BY <1>2, <1>4
  <2> HIDE DEF f
  <2> QED
    BY <1>2, <2>1, <2>2, RowTyped
<1>9. HiringSignalQueries(q) = FirstFew(made \o Each(t, ofKeyword) \o Each(u, ofProject))
  <2>1. HiringSignalQueries(q)
          = FirstFew(Each(s, ofTech) \o Each(t, ofKeyword) \o Each(u, ofProject))
    BY DEF HiringSignalQueries, ofTech, ofKeyword, ofProject, s, t, u, industry, place
  <2> QED
    BY <1>6, <2>1
<1>10. k \in 1..Len(s) /\ s[k] = Techs(q)[k] /\ s[k] \in Text
  <2>1. /\ Len(s) = IF 3 < Len(Techs(q)) THEN 3 ELSE Len(Techs(q))
        /\ \A j \in 1..Len(s) : s[j] = Techs(q)[j]
    BY IndustriesTyped, UpToTakes DEF s
  <2>2. k \in 1..Len(s)
    BY <2>1, IndustriesTyped
  <2> QED
    BY <1>2, <2>1, <2>2
<1>11. made[k] = ofTech(s[k])
  BY <1>2, <1>10
<1> HIDE DEF made
<1> DEFINE all == made \o Each(t, ofKeyword) \o Each(u, ofProject)
<1>12. all \in Seq(P) /\ k \in 1..Len(all) /\ all[k] = made[k]
  <2> DEFINE two == made \o Each(t, ofKeyword)
  <2>1. two \in Seq(P) /\ k \in 1..Len(two) /\ two[k] = made[k]
    BY <1>6, <1>7, <1>10, FirstOfConcat
  <2> HIDE DEF two
  <2>2. two \o Each(u, ofProject) \in Seq(P)
        /\ k \in 1..Len(two \o Each(u, ofProject)) /\ (two \o Each(u, ofProject))[k] = two[k]
    BY <1>8, <2>1, FirstOfConcat
  <2> QED
    BY <2>1, <2>2 DEF two
<1> HIDE DEF all
<1>13. all[k] \in ToSet(FirstFew(all))
  BY <1>12, FirstFewHas
<1> QED
  BY <1>5, <1>9, <1>10, <1>11, <1>12, <1>13 DEF Holds, all

\* Two queries for each technology: the first of them is at an odd place.
LEMMA TechnologiesAreAsked ==
    ASSUME NEW q \in IcpQueries, NEW k \in 1..Len(Techs(q)), 2 * k <= MostPerSignal + 1
    PROVE  Holds(TechnologyStackQueries(q), "technology_stack", Techs(q)[k])
<1> DEFINE hint == UpTo(q.industries, 1)
           P == PlannedQueries("technology_stack")
           T == Seq(P)
           using(tech) == Query("technology_stack", 2, "company using", <<tech>> \o hint, "anywhere")
           ofTech(tech) ==
             <<Query("technology_stack", 2, "company using", <<tech>> \o hint, "anywhere"),
               Query("technology_stack", 3, "tech stack", <<tech>> \o hint, "stack sites")>>
           ofMove(move) == Query("technology_stack", 3, "migrating", move \o hint, "anywhere")
           s == UpTo(Techs(q), MostPerSignal)
           moves == Zip(q.leaving, q.adopting)
           made == [i \in DOMAIN s |-> ofTech(s[i])]
<1>0. MostPerSignal \in Nat /\ MostPerSignal >= 1 /\ k \in Nat /\ k >= 1
  BY IndustriesTyped, QueryPlannerAssumption DEF QueryPlannerAssumption
<1>1. hint \in Seq(Text)
  BY Fields, UpToTakes
<1>2. s \in Seq(Text)
  BY <1>0, IndustriesTyped, UpToTakes
<1>3. \A x \in Text : <<x>> \o hint \in Seq(Text)
  <2> HIDE DEF hint
  <2> QED
    BY <1>1, TermsTyped
<1>4. \A x \in Text : ofTech(x) \in T /\ Len(ofTech(x)) = 2 /\ ofTech(x)[1] = using(x)
  <2> HIDE DEF hint
  <2> TAKE x \in Text
  <2>1. /\ Query("technology_stack", 2, "company using", <<x>> \o hint, "anywhere") \in P
        /\ Query("technology_stack", 3, "tech stack", <<x>> \o hint, "stack sites") \in P
    BY <1>3 DEF Query, PlannedQueries
  <2> HIDE DEF P
  <2> QED
    BY <2>1, ListOfTwo
<1>5. \A x \in Text : using(x).signal = "technology_stack" /\ x \in ToSet(using(x).terms)
  <2> HIDE DEF hint
  <2> QED
    BY <1>1, QueryAsks
<1>6. moves \in Seq(Seq(Text))
  <2> DEFINE n == IF Len(q.leaving) <= Len(q.adopting) THEN Len(q.leaving) ELSE Len(q.adopting)
  <2>1. n \in Nat /\ n <= Len(q.leaving) /\ n <= Len(q.adopting)
    BY Fields
  <2>2. moves = [i \in 1..n |-> <<q.leaving[i], q.adopting[i]>>]
    BY DEF Zip
  <2> HIDE DEF n, moves
  <2>3. \A i \in 1..n : q.leaving[i] \in Text /\ q.adopting[i] \in Text
    BY Fields, <2>1
  <2>4. \A i \in 1..n : <<q.leaving[i], q.adopting[i]>> \in Seq(Text)
    BY <2>3, ListOfTwo
  <2>5. moves \in [1..n -> Seq(Text)]
    BY <2>2, <2>4
  <2> QED
    BY <2>1, <2>5, ListTyped
<1>7. \A move \in Seq(Text) : ofMove(move) \in P
  <2> HIDE DEF hint
  <2>1. \A move \in Seq(Text) : move \o hint \in Seq(Text)
    BY <1>1, ConcatProperties
  <2> QED
    BY <2>1 DEF Query, PlannedQueries
<1> HIDE DEF using, ofTech, ofMove, moves, T, hint
<1>8. Each(s, ofTech) = made /\ made \in Seq(T) /\ Len(made) = Len(s)
  <2>1. Each(s, ofTech) = SubSeq(made, 1, Len(s))
    <3> HIDE DEF s
    <3> QED
      BY DEF Each, With
  <2>2. made \in [DOMAIN s -> T]
    <3> HIDE DEF s
    <3> QED
      BY <1>2, <1>4
  <2> HIDE DEF made, s
  <2> QED
    BY <1>2, <2>1, <2>2, RowTyped
<1>9. k \in 1..Len(s) /\ s[k] = Techs(q)[k] /\ s[k] \in Text
  <2>1. /\ Len(s) = IF MostPerSignal < Len(Techs(q)) THEN MostPerSignal ELSE Len(Techs(q))
        /\ \A j \in 1..Len(s) : s[j] = Techs(q)[j]
    BY <1>0, IndustriesTyped, UpToTakes
  <2>2. k \in 1..Len(s)
    <3> HIDE DEF s
    <3> QED
      BY <1>0, <2>1, IndustriesTyped
  <2> HIDE DEF s
  <2> QED
    BY <1>2, <2>1, <2>2
<1> HIDE DEF s
<1>10. made[k] = ofTech(s[k]) /\ \A i \in DOMAIN made : Len(made[i]) = 2
  <2>1. \A i \in DOMAIN s : made[i] = ofTech(s[i]) /\ s[i] \in Text
    BY <1>2
  <2>2. DOMAIN made = DOMAIN s
    OBVIOUS
  <2> HIDE DEF made
  <2> QED
    BY <1>2, <1>4, <1>9, <2>1, <2>2
<1> HIDE DEF made
<1>11. Each(moves, ofMove) \in Seq(P)
  <2> DEFINE f == [i \in DOMAIN moves |-> ofMove(moves[i])]
  <2>1. Each(moves, ofMove) = SubSeq(f, 1, Len(moves))
    BY DEF Each, With
  <2>2. f \in [DOMAIN moves -> P]
    <3> HIDE DEF P
    <3> QED
      BY <1>6, <1>7
  <2> HIDE DEF f, P
  <2> QED
    BY <1>6, <2>1, <2>2, RowTyped
<1>12. TechnologyStackQueries(q) = FirstFew(Joined(made) \o Each(moves, ofMove))
  <2>1. TechnologyStackQueries(q) = FirstFew(Joined(Each(s, ofTech)) \o Each(moves, ofMove))
    BY DEF TechnologyStackQueries, ofTech, ofMove, s, moves, hint
  <2> QED
    BY <1>8, <2>1
<1> HIDE DEF P
<1>13. /\ Joined(made) \in Seq(P)
       /\ 2 * k - 1 \in 1..Len(Joined(made)) /\ Joined(made)[2 * k - 1] = made[k][1]
  BY <1>8, <1>9, <1>10, JoinedTyped, PairsJoined DEF T
<1> DEFINE all == Joined(made) \o Each(moves, ofMove)
<1>14. all \in Seq(P) /\ 2 * k - 1 \in 1..Len(all) /\ all[2 * k - 1] = made[k][1]
  BY <1>11, <1>13, FirstOfConcat
<1> HIDE DEF all
<1>15. all[2 * k - 1] \in ToSet(FirstFew(all))
  <2>1. 2 * k - 1 <= MostPerSignal
    BY <1>0
  <2> QED
    BY <1>14, <2>1, FirstFewHas
<1>16. all[2 * k - 1] = using(s[k])
  BY <1>4, <1>9, <1>10, <1>14
<1> QED
  BY <1>5, <1>9, <1>12, <1>15, <1>16 DEF Holds, all

\* Vendors are always asked for.
LEMMA OutsourcingIsAsked ==
    ASSUME NEW q \in IcpQueries PROVE OutsourcingSignalQueries(q) # <<>>
<1> DEFINE industry == UpTo(Industries(q), 1)
           P == PlannedQueries("outsourcing_signals")
           vendors == Query("outsourcing_signals", 3, "outsource vendor", industry, "anywhere")
           more(term) == Query("outsourcing_signals", 4, "outsourcing",
                            <<term>> \o industry, "anywhere")
           s == UpTo(q.models, 2)
           t == UpTo(q.outsourcing, 2)
<1>1. industry \in Seq(Text)
  BY IndustriesTyped, UpToTakes
<1>2. s \in Seq(Text) /\ t \in Seq(Text)
  BY Fields, UpToTakes
<1>3. \A x \in Text : <<x>> \o industry \in Seq(Text)
  <2> HIDE DEF industry
  <2> QED
    BY <1>1, TermsTyped
<1>4. vendors \in P /\ \A x \in Text : more(x) \in P
  <2> HIDE DEF industry
  <2> QED
    BY <1>1, <1>3 DEF Query, PlannedQueries
<1> HIDE DEF vendors, more, s, t, P
<1>5. Each(s, more) \in Seq(P)
  <2> DEFINE f == [i \in DOMAIN s |-> more(s[i])]
  <2>1. Each(s, more) = SubSeq(f, 1, Len(s))
    BY DEF Each, With
  <2>2. f \in [DOMAIN s -> P]
    BY <1>2, <1>4
  <2> HIDE DEF f
  <2> QED
    BY <1>2, <2>1, <2>2, RowTyped
<1>6. Each(t, more) \in Seq(P)
  <2> DEFINE f == [i \in DOMAIN t |-> more(t[i])]
  <2>1. Each(t, more) = SubSeq(f, 1, Len(t))
    BY DEF Each, With
  <2>2. f \in [DOMAIN t -> P]
    BY <1>2, <1>4
  <2> HIDE DEF f
  <2> QED
    BY <1>2, <2>1, <2>2, RowTyped
<1>7. <<vendors>> \in Seq(P) /\ 1 \in 1..Len(<<vendors>>)
  BY <1>4, ListOfOne
<1>8. OutsourcingSignalQueries(q) = FirstFew(<<vendors>> \o Each(s, more) \o Each(t, more))
  BY DEF OutsourcingSignalQueries, vendors, more, s, t
<1> DEFINE all == <<vendors>> \o Each(s, more) \o Each(t, more)
<1>9. all \in Seq(P) /\ 1 \in 1..Len(all)
  <2> DEFINE two == <<vendors>> \o Each(s, more)
  <2>1. two \in Seq(P) /\ 1 \in 1..Len(two)
    BY <1>5, <1>7, FirstOfConcat
  <2> HIDE DEF two
  <2>2. two \o Each(t, more) \in Seq(P) /\ 1 \in 1..Len(two \o Each(t, more))
    BY <1>6, <2>1, FirstOfConcat
  <2> QED
    BY <2>2 DEF two
<1> HIDE DEF all
<1>10. all[1] \in ToSet(FirstFew(all))
  <2>1. 1 <= MostPerSignal
    BY QueryPlannerAssumption DEF QueryPlannerAssumption
  <2> QED
    BY <1>9, <2>1, FirstFewHas
<1>11. FirstFew(all) # <<>>
  BY <1>10 DEF ToSet
<1> QED
  BY <1>8, <1>11 DEF all

\* So is some news.
LEMMA EventsAreAsked ==
    ASSUME NEW q \in IcpQueries PROVE BusinessEventQueries(q) # <<>>
<1> DEFINE hints == UpTo(Industries(q), 1) \o UpTo(q.countries, 1)
           P == PlannedQueries("business_events")
           ofEvent(event) == Query("business_events", 3, "news", <<event>> \o hints, "last month")
           funding == Query("business_events", 4, "funding news", hints, "last month")
           s == UpTo(q.events, MostPerSignal)
<1>1. hints \in Seq(Text)
  <2>1. UpTo(Industries(q), 1) \in Seq(Text) /\ UpTo(q.countries, 1) \in Seq(Text)
    BY Fields, IndustriesTyped, UpToTakes
  <2> QED
    BY <2>1
<1>2. s \in Seq(Text)
  BY Fields, UpToTakes, QueryPlannerAssumption DEF QueryPlannerAssumption
<1>3. \A x \in Text : <<x>> \o hints \in Seq(Text)
  <2> HIDE DEF hints
  <2> QED
    BY <1>1, TermsTyped
<1>4. funding \in P /\ \A x \in Text : ofEvent(x) \in P
  <2> HIDE DEF hints
  <2> QED
    BY <1>1, <1>3 DEF Query, PlannedQueries
<1> HIDE DEF funding, ofEvent, s, P
<1>5. Each(s, ofEvent) \in Seq(P)
  <2> DEFINE f == [i \in DOMAIN s |-> ofEvent(s[i])]
  <2>1. Each(s, ofEvent) = SubSeq(f, 1, Len(s))
    BY DEF Each, With
  <2>2. f \in [DOMAIN s -> P]
    BY <1>2, <1>4
  <2> HIDE DEF f
  <2> QED
    BY <1>2, <2>1, <2>2, RowTyped
<1>6. BusinessEventQueries(q) = FirstFew(Each(s, ofEvent) \o <<funding>>)
  BY DEF BusinessEventQueries, funding, ofEvent, s
<1> DEFINE few == Each(s, ofEvent)
           all == few \o <<funding>>
<1>7. all \in Seq(P) /\ 1 \in 1..Len(all)
  <2>1. <<funding>> \in Seq(P) /\ Len(<<funding>>) = 1
    BY <1>4, ListOfOne
  <2>2. few \in Seq(P) /\ Len(few) \in Nat
    BY <1>5
  <2> HIDE DEF few
  <2>3. few \o <<funding>> \in Seq(P) /\ Len(few \o <<funding>>) = Len(few) + 1
    BY <2>1, <2>2, ConcatProperties
  <2> QED
    BY <2>2, <2>3
<1> HIDE DEF all
<1>8. all[1] \in ToSet(FirstFew(all))
  <2>1. 1 <= MostPerSignal
    BY QueryPlannerAssumption DEF QueryPlannerAssumption
  <2> QED
    BY <1>7, <2>1, FirstFewHas
<1>9. FirstFew(all) # <<>>
  BY <1>8 DEF ToSet
<1> QED
  BY <1>6, <1>9 DEF all, few

\* No signal is asked for more often than the limit.
Few(queries) ==
    \A signal : /\ IsFiniteSet(Asked(queries, signal))
                /\ Cardinality(Asked(queries, signal)) <= MostPerSignal
SignalsIn(queries, X) == \A i \in DOMAIN queries : queries[i].signal \in X

\* Positions among so many are not more.
LEMMA SomeOfFew ==
    ASSUME NEW a \in Nat, NEW n \in Nat, n <= MostPerSignal, NEW T, T \subseteq a + 1 .. a + n
    PROVE  IsFiniteSet(T) /\ Cardinality(T) <= MostPerSignal
<1>1. MostPerSignal \in Nat
  BY QueryPlannerAssumption DEF QueryPlannerAssumption
<1> DEFINE I == a + 1 .. a + n
<1>2. IsFiniteSet(I) /\ Cardinality(I) = n
  <2>1. a + 1 \in Int /\ a + n \in Int
    OBVIOUS
  <2>2. /\ IsFiniteSet(I)
        /\ Cardinality(I) = IF a + 1 > a + n THEN 0 ELSE (a + n) - (a + 1) + 1
    BY <2>1, FS_Interval
  <2> QED
    BY <2>2
<1> HIDE DEF I
<1>3. IsFiniteSet(T) /\ Cardinality(T) <= Cardinality(I) /\ Cardinality(T) \in Nat
  BY <1>2, FS_Subset, FS_CardinalityType DEF I
<1> QED
  BY <1>1, <1>2, <1>3

\* A builder asks for its own signal, within the limit.
LEMMA FewOfBuilder ==
    ASSUME NEW signal \in Signals, NEW s, Built(s, signal)
    PROVE  Few(s) /\ SignalsIn(s, {signal}) /\ s \in Seq(Planned)
<1>1. s \in Seq(PlannedQueries(signal)) /\ Len(s) \in Nat /\ Len(s) <= MostPerSignal
  BY DEF Built
<1>2. PlannedQueries(signal) \subseteq Planned
  BY DEF Planned
<1>3. s \in Seq(Planned)
  BY <1>1, <1>2, SeqMonotonic
<1>4. \A x \in PlannedQueries(signal) : x.signal = signal
  BY DEF PlannedQueries
<1>5. SignalsIn(s, {signal})
  BY <1>1, <1>4 DEF SignalsIn
<1>6. \A other : Asked(s, other) \subseteq 0 + 1 .. 0 + Len(s)
  BY <1>1 DEF Asked
<1>7. \A other : IsFiniteSet(Asked(s, other)) /\ Cardinality(Asked(s, other)) <= MostPerSignal
  BY <1>1, <1>6, SomeOfFew
<1> QED
  BY <1>3, <1>5, <1>7 DEF Few

\* So does a list with the queries of another signal behind it.
LEMMA FewOfBoth ==
    ASSUME NEW s \in Seq(Planned), NEW X, Few(s), SignalsIn(s, X),
           NEW signal \in Signals, signal \notin X, NEW t, Built(t, signal)
    PROVE  s \o t \in Seq(Planned) /\ Few(s \o t) /\ SignalsIn(s \o t, X \cup {signal})
<1> DEFINE c == s \o t
<1>1. t \in Seq(Planned) /\ SignalsIn(t, {signal}) /\ Len(t) \in Nat /\ Len(t) <= MostPerSignal
  BY FewOfBuilder DEF Built
<1>2. /\ c \in Seq(Planned) /\ Len(c) = Len(s) + Len(t) /\ Len(s) \in Nat
      /\ DOMAIN c = 1..Len(s) + Len(t)
      /\ \A i \in 1..Len(s) + Len(t) : c[i] = IF i <= Len(s) THEN s[i] ELSE t[i - Len(s)]
  BY <1>1, ConcatProperties
<1> HIDE DEF c
<1>3. ASSUME NEW i \in DOMAIN c
      PROVE  IF i <= Len(s) THEN i \in DOMAIN s /\ c[i] = s[i] /\ c[i].signal \in X
                            ELSE i \in Len(s) + 1 .. Len(s) + Len(t) /\ c[i].signal = signal
  <2>1. CASE i <= Len(s)
    <3>1. i \in DOMAIN s /\ c[i] = s[i]
      BY <1>2, <2>1
    <3> QED
      BY <2>1, <3>1 DEF SignalsIn
  <2>2. CASE ~(i <= Len(s))
    <3>1. i - Len(s) \in DOMAIN t /\ c[i] = t[i - Len(s)] /\ i \in Len(s) + 1 .. Len(s) + Len(t)
      BY <1>1, <1>2, <2>2
    <3>2. c[i].signal \in {signal}
      BY <1>1, <3>1 DEF SignalsIn
    <3> QED
      BY <2>2, <3>1, <3>2
  <2> QED
    BY <2>1, <2>2
<1>4. SignalsIn(c, X \cup {signal})
  BY <1>3 DEF SignalsIn
<1>5. ASSUME NEW other
      PROVE  IsFiniteSet(Asked(c, other)) /\ Cardinality(Asked(c, other)) <= MostPerSignal
  <2>1. CASE other = signal
    <3>1. Asked(c, other) \subseteq Len(s) + 1 .. Len(s) + Len(t)
      BY <1>3, <2>1 DEF Asked
    <3> QED
      BY <1>1, <1>2, <3>1, SomeOfFew
  <2>2. CASE other # signal
    <3>1. Asked(c, other) \subseteq Asked(s, other)
      BY <1>3, <2>2 DEF Asked
    <3>2. IsFiniteSet(Asked(s, other)) /\ Cardinality(Asked(s, other)) <= MostPerSignal
      BY DEF Few
    <3>3. /\ IsFiniteSet(Asked(c, other)) /\ Cardinality(Asked(c, other)) \in Nat
          /\ Cardinality(Asked(s, other)) \in Nat
          /\ Cardinality(Asked(c, other)) <= Cardinality(Asked(s, other))
      BY <3>1, <3>2, FS_Subset, FS_CardinalityType
    <3> QED
      BY <3>2, <3>3, QueryPlannerAssumption DEF QueryPlannerAssumption
  <2> QED
    BY <2>1, <2>2
<1> QED
  BY <1>2, <1>4, <1>5 DEF c, Few

\* And the plan.
LEMMA FewInPlan ==
    ASSUME NEW q \in IcpQueries PROVE Few(PlanOf(q))
<1> DEFINE s1 == CompanyProfileQueries(q)
           s2 == s1 \o TechnologyStackQueries(q)
           s3 == s2 \o HiringSignalQueries(q)
           s4 == s3 \o OutsourcingSignalQueries(q)
           s5 == s4 \o BusinessEventQueries(q)
           s6 == s5 \o DecisionMakerQueries(q)
           X1 == {"company_profile"}
           X2 == X1 \cup {"technology_stack"}
           X3 == X2 \cup {"hiring_signals"}
           X4 == X3 \cup {"outsourcing_signals"}
           X5 == X4 \cup {"business_events"}
<1>1. /\ "company_profile" \in Signals /\ "technology_stack" \in Signals
      /\ "hiring_signals" \in Signals /\ "outsourcing_signals" \in Signals
      /\ "business_events" \in Signals /\ "decision_makers" \in Signals
  BY DEF Signals
<1>2. /\ "technology_stack" \notin X1 /\ "hiring_signals" \notin X2
      /\ "outsourcing_signals" \notin X3 /\ "business_events" \notin X4
      /\ "decision_makers" \notin X5
  OBVIOUS
<1>3. PlanOf(q) = s6
  BY DEF PlanOf
<1>4. s1 \in Seq(Planned) /\ Few(s1) /\ SignalsIn(s1, X1)
  BY <1>1, CompanyBuilt, FewOfBuilder
<1> HIDE DEF s1, X1
<1>5. s2 \in Seq(Planned) /\ Few(s2) /\ SignalsIn(s2, X2)
  BY <1>1, <1>2, <1>4, TechnologyBuilt, FewOfBoth
<1> HIDE DEF s2, X2
<1>6. s3 \in Seq(Planned) /\ Few(s3) /\ SignalsIn(s3, X3)
  BY <1>1, <1>2, <1>5, HiringBuilt, FewOfBoth
<1> HIDE DEF s3, X3
<1>7. s4 \in Seq(Planned) /\ Few(s4) /\ SignalsIn(s4, X4)
  BY <1>1, <1>2, <1>6, OutsourcingBuilt, FewOfBoth
<1> HIDE DEF s4, X4
<1>8. s5 \in Seq(Planned) /\ Few(s5) /\ SignalsIn(s5, X5)
  BY <1>1, <1>2, <1>7, EventsBuilt, FewOfBoth
<1> HIDE DEF s5, X5
<1>9. Few(s6)
  BY <1>1, <1>2, <1>8, DecisionMakersBuilt, FewOfBoth
<1> QED
  BY <1>3, <1>9

\* Each builder's queries are in the plan.
LEMMA PlanHasAll ==
    ASSUME NEW q \in IcpQueries
    PROVE  /\ ToSet(CompanyProfileQueries(q)) \subseteq ToSet(PlanOf(q))
           /\ ToSet(TechnologyStackQueries(q)) \subseteq ToSet(PlanOf(q))
           /\ ToSet(HiringSignalQueries(q)) \subseteq ToSet(PlanOf(q))
           /\ ToSet(OutsourcingSignalQueries(q)) \subseteq ToSet(PlanOf(q))
           /\ ToSet(BusinessEventQueries(q)) \subseteq ToSet(PlanOf(q))
           /\ ToSet(DecisionMakerQueries(q)) \subseteq ToSet(PlanOf(q))
<1> DEFINE s1 == CompanyProfileQueries(q)
           s2 == s1 \o TechnologyStackQueries(q)
           s3 == s2 \o HiringSignalQueries(q)
           s4 == s3 \o OutsourcingSignalQueries(q)
           s5 == s4 \o BusinessEventQueries(q)
           s6 == s5 \o DecisionMakerQueries(q)
<1>1. /\ CompanyProfileQueries(q) \in Seq(Planned)
      /\ TechnologyStackQueries(q) \in Seq(Planned)
      /\ HiringSignalQueries(q) \in Seq(Planned)
      /\ OutsourcingSignalQueries(q) \in Seq(Planned)
      /\ BusinessEventQueries(q) \in Seq(Planned)
      /\ DecisionMakerQueries(q) \in Seq(Planned)
  <2>1. /\ "company_profile" \in Signals /\ "technology_stack" \in Signals
        /\ "hiring_signals" \in Signals /\ "outsourcing_signals" \in Signals
        /\ "business_events" \in Signals /\ "decision_makers" \in Signals
    BY DEF Signals
  <2> QED
    BY <2>1, FewOfBuilder, CompanyBuilt, TechnologyBuilt, HiringBuilt, OutsourcingBuilt,
       EventsBuilt, DecisionMakersBuilt
<1>2. PlanOf(q) = s6
  BY DEF PlanOf
<1>3. s1 \in Seq(Planned)
  BY <1>1
<1> HIDE DEF s1
<1>4. s2 \in Seq(Planned) /\ ToSet(s2) = ToSet(s1) \cup ToSet(TechnologyStackQueries(q))
  BY <1>1, <1>3, ConcatProperties, ConcatMembers
<1> HIDE DEF s2
<1>5. s3 \in Seq(Planned) /\ ToSet(s3) = ToSet(s2) \cup ToSet(HiringSignalQueries(q))
  BY <1>1, <1>4, ConcatProperties, ConcatMembers
<1> HIDE DEF s3
<1>6. s4 \in Seq(Planned) /\ ToSet(s4) = ToSet(s3) \cup ToSet(OutsourcingSignalQueries(q))
  BY <1>1, <1>5, ConcatProperties, ConcatMembers
<1> HIDE DEF s4
<1>7. s5 \in Seq(Planned) /\ ToSet(s5) = ToSet(s4) \cup ToSet(BusinessEventQueries(q))
  BY <1>1, <1>6, ConcatProperties, ConcatMembers
<1> HIDE DEF s5
<1>8. ToSet(s6) = ToSet(s5) \cup ToSet(DecisionMakerQueries(q))
  BY <1>1, <1>7, ConcatMembers
<1> HIDE DEF s6
<1> QED
  BY <1>2, <1>4, <1>5, <1>6, <1>7, <1>8 DEF s1

\* The sort by urgency keeps what the plan has, and how often.
LEMMA ByPriorityKeeps ==
    ASSUME NEW s \in Seq(Planned), Few(s)
    PROVE  /\ \A i, j \in DOMAIN ByPriority(s) :
                i < j => ByPriority(s)[i].priority <= ByPriority(s)[j].priority
           /\ ToSet(ByPriority(s)) = ToSet(s)
           /\ Few(ByPriority(s))
<1> DEFINE keys == [i \in DOMAIN s |-> s[i].priority]
           n == Len(s)
           t == ByPriority(s)
<1>1. t = InOrderOf(keys, s)
  BY DEF ByPriority, SortedOn, With
<1>2. keys \in [DOMAIN s -> Int]
  BY PlannedFields
<1>3. ToSet(t) = ToSet(s)
  <2> HIDE DEF keys, t
  <2> QED
    BY <1>1, <1>2, SortMembers
<1>4. PICK p : Sorts(p, keys, n) /\ InOrderOf(keys, s) = [k \in 1..n |-> s[p[k]]]
  <2> HIDE DEF keys
  <2> QED
    BY <1>2, SortTakes
<1>5. /\ n \in Nat /\ DOMAIN s = 1..n /\ DOMAIN t = 1..n
      /\ \A k \in 1..n : p[k] \in 1..n /\ t[k] = s[p[k]] /\ keys[p[k]] = t[k].priority
  <2>1. n \in Nat /\ DOMAIN s = 1..n
    OBVIOUS
  <2>2. \A i \in 1..n : keys[i] = s[i].priority
    BY <2>1
  <2>3. \A k \in 1..n : p[k] \in 1..n
    BY <1>4 DEF Sorts
  <2>4. t = [k \in 1..n |-> s[p[k]]]
    BY <1>1, <1>4
  <2> HIDE DEF keys, t, n
  <2> QED
    BY <2>1, <2>2, <2>3, <2>4
<1>6. \A k, l \in 1..n : k < l => p[k] # p[l] /\ keys[p[k]] <= keys[p[l]]
  BY <1>4 DEF Sorts
<1> HIDE DEF keys, t, n
<1>7. \A i, j \in DOMAIN t : i < j => t[i].priority <= t[j].priority
  BY <1>5, <1>6
<1>8. ASSUME NEW signal
      PROVE  IsFiniteSet(Asked(t, signal)) /\ Cardinality(Asked(t, signal)) <= MostPerSignal
  <2> DEFINE A == Asked(t, signal)
             B == Asked(s, signal)
             f == [k \in A |-> p[k]]
  <2>1. A \subseteq 1..n /\ \A k \in A : p[k] \in B
    BY <1>5 DEF Asked
  <2>2. \A k, l \in A : p[k] = p[l] => k = l
    <3> HIDE DEF A
    <3>1. \A k, l \in 1..n : k < l \/ l < k \/ k = l
      BY <1>5
    <3> QED
      BY <1>6, <2>1, <3>1
  <2>3. f \in Injection(A, B)
    <3> HIDE DEF A, B
    <3> QED
      BY <2>1, <2>2 DEF Injection, IsInjective
  <2>4. IsFiniteSet(B) /\ Cardinality(B) <= MostPerSignal
    BY DEF Few
  <2> HIDE DEF A, B, f
  <2>5. /\ IsFiniteSet(A) /\ Cardinality(A) <= Cardinality(B)
        /\ Cardinality(A) \in Nat /\ Cardinality(B) \in Nat
    BY <2>3, <2>4, FS_Injection, FS_CardinalityType
  <2>6. Cardinality(A) <= MostPerSignal
    BY <2>4, <2>5, QueryPlannerAssumption DEF QueryPlannerAssumption
  <2> QED
    BY <2>5, <2>6 DEF A
<1> QED
  BY <1>3, <1>7, <1>8 DEF t, Few

\* What a builder asks for, the plan does.
LEMMA HeldIsNamed ==
    ASSUME NEW s, NEW t, ToSet(s) \subseteq ToSet(t), NEW signal, NEW term, Holds(s, signal, term)
    PROVE  Names(t, signal, term)
<1>1. PICK x \in ToSet(t) : x.signal = signal /\ term \in ToSet(x.terms)
  BY DEF Holds
<1>2. PICK i \in DOMAIN t : t[i] = x
  BY <1>1 DEF ToSet
<1> QED
  BY <1>1, <1>2 DEF Names, Asked

\* A builder that has a query gives the plan one of its signal.
LEMMA BuiltIsAsked ==
    ASSUME NEW signal, NEW s, Built(s, signal), s # <<>>, NEW t, ToSet(s) \subseteq ToSet(t)
    PROVE  Asked(t, signal) # {}
<1>1. s \in Seq(PlannedQueries(signal)) /\ s # <<>>
  BY DEF Built
<1>2. 1 \in DOMAIN s /\ s[1] \in PlannedQueries(signal)
  BY <1>1
<1>3. s[1] \in ToSet(t) /\ s[1].signal = signal
  BY <1>2 DEF ToSet, PlannedQueries
<1>4. PICK i \in DOMAIN t : t[i] = s[1]
  BY <1>3 DEF ToSet
<1> QED
  BY <1>3, <1>4 DEF Asked

\* What an ICP asks for first is searched for: for every ICP and every limit.
THEOREM PlansNeverLoseEssentials ==
    ASSUME NEW q \in IcpQueries
    PROVE  PlanKeepsEssentials(q)
<1> DEFINE plan_ == ByPriority(PlanOf(q))
<1>1. MostPerSignal \in Nat /\ MostPerSignal >= 1
  BY QueryPlannerAssumption DEF QueryPlannerAssumption
<1>2. Industries(q) \in Seq(Text) /\ Techs(q) \in Seq(Text) /\ q.titles \in Seq(Text)
  BY IndustriesTyped, Fields
<1>3. PlanOf(q) \in Seq(Planned) /\ Few(PlanOf(q))
  BY PlanTyped, FewInPlan
<1>4. /\ \A i, j \in DOMAIN plan_ : i < j => plan_[i].priority <= plan_[j].priority
      /\ ToSet(plan_) = ToSet(PlanOf(q))
      /\ Few(plan_)
  BY <1>3, ByPriorityKeeps
<1>5. /\ ToSet(CompanyProfileQueries(q)) \subseteq ToSet(plan_)
      /\ ToSet(TechnologyStackQueries(q)) \subseteq ToSet(plan_)
      /\ ToSet(HiringSignalQueries(q)) \subseteq ToSet(plan_)
      /\ ToSet(OutsourcingSignalQueries(q)) \subseteq ToSet(plan_)
      /\ ToSet(BusinessEventQueries(q)) \subseteq ToSet(plan_)
      /\ ToSet(DecisionMakerQueries(q)) \subseteq ToSet(plan_)
  BY <1>4, PlanHasAll
<1> HIDE DEF plan_
<1>6. \A i \in DOMAIN plan_ : Cardinality(Asked(plan_, plan_[i].signal)) <= MostPerSignal
  BY <1>4 DEF Few
<1>7. ASSUME NEW i \in DOMAIN UpTo(Industries(q), MostPerSignal)
      PROVE  Names(plan_, "company_profile", Industries(q)[i])
  <2>1. i \in 1..Len(Industries(q)) /\ i <= MostPerSignal
    BY <1>1, <1>2, UpToPlaces
  <2> QED
    BY <1>5, <2>1, IndustriesAreAsked, HeldIsNamed
<1>8. ASSUME NEW i \in DOMAIN UpTo(Techs(q), Min({3, (MostPerSignal + 1) \div 2}))
      PROVE  /\ Names(plan_, "technology_stack", Techs(q)[i])
             /\ Names(plan_, "hiring_signals", Techs(q)[i])
  <2> DEFINE half == (MostPerSignal + 1) \div 2
  <2>1. half \in Nat /\ 2 * half <= MostPerSignal + 1
    BY <1>1
  <2> HIDE DEF half
  <2>2. Min({3, half}) \in Nat /\ Min({3, half}) <= 3 /\ Min({3, half}) <= half
    <3>1. 3 \in Int /\ half \in Int
      BY <2>1
    <3>2. Min({3, half}) \in {3, half} /\ Min({3, half}) <= 3 /\ Min({3, half}) <= half
      BY <3>1, LeastOfTwo
    <3> QED
      BY <2>1, <3>2
  <2> DEFINE most == Min({3, half})
  <2>3. i \in DOMAIN UpTo(Techs(q), most)
    BY DEF half
  <2> HIDE DEF most
  <2>4. i \in 1..Len(Techs(q)) /\ i \in Nat /\ i <= most
    BY <1>2, <2>2, <2>3, UpToPlaces DEF most
  <2>5. i <= 3 /\ i <= half
    BY <2>1, <2>2, <2>4 DEF most
  <2>6. 2 * i <= MostPerSignal + 1 /\ i <= MostPerSignal
    BY <1>1, <2>1, <2>4, <2>5
  <2>7. Holds(TechnologyStackQueries(q), "technology_stack", Techs(q)[i])
    BY <2>4, <2>6, TechnologiesAreAsked
  <2>8. Holds(HiringSignalQueries(q), "hiring_signals", Techs(q)[i])
    BY <2>4, <2>5, <2>6, EngineersAreAsked
  <2> QED
    BY <1>5, <2>7, <2>8, HeldIsNamed
<1>9. ASSUME NEW i \in DOMAIN UpTo(q.titles, MostPerSignal)
      PROVE  Names(plan_, "decision_makers", q.titles[i])
  <2>1. i \in 1..Len(q.titles) /\ i <= MostPerSignal
    BY <1>1, <1>2, UpToPlaces
  <2> QED
    BY <1>5, <2>1, TitlesAreAsked, HeldIsNamed
<1>10. Asked(plan_, "company_profile") # {}
  <2>1. 1 \in 1..Len(Industries(q))
    BY Fields DEF Industries
  <2>2. Holds(CompanyProfileQueries(q), "company_profile", Industries(q)[1])
    BY <1>1, <2>1, IndustriesAreAsked
  <2> QED
    BY <1>5, <2>2, HeldIsNamed DEF Names
<1>11. Asked(plan_, "outsourcing_signals") # {} /\ Asked(plan_, "business_events") # {}
  BY <1>5, OutsourcingIsAsked, OutsourcingBuilt, EventsAreAsked, EventsBuilt, BuiltIsAsked
<1> QED
  BY <1>4, <1>6, <1>7, <1>8, <1>9, <1>10, <1>11 DEF PlanKeepsEssentials, plan_

\* Whatever ICP a request becomes, what it asks for first is searched for, and its
\* pages are scored as ScoresMakeSense says: more words, and a newer date among
\* those that can be read, never lower the score.
THEOREM RunsPlanAndRankWell ==
    Spec => [](PlanKeepsEssentials(icp)
                 /\ ScoresMakeSense(icp, {Parsed[d].text : d \in Docs}, Ages))
<1>1. ASSUME SearchInv
      PROVE  PlanKeepsEssentials(icp)
               /\ ScoresMakeSense(icp, {Parsed[d].text : d \in Docs}, Ages)
  <2>1. icp \in IcpQueries
    BY <1>1 DEF SearchInv, SearchTypes
  <2> QED
    BY <2>1, PlansNeverLoseEssentials, ScoresAlwaysMakeSense
<1> QED
  BY <1>1, SearchesLoseNothing, PTL

================================================================================
