---------------------------- MODULE LeadCacheProofs ----------------------------
(***************************************************************************)
(* Proofs about LeadCache, for every number of calls, keys and sets, every *)
(* size and ttl, and each of the stores: its types, the order of eviction, *)
(* the bound on L1, and that a process never reads an older value after a  *)
(* newer one.                                                              *)
(***************************************************************************)
EXTENDS LeadCache, FiniteSetTheorems, SequenceTheorems, TLAPS

KeysOf(s) == {s[i].key : i \in 1..Len(s)}

\* An L1 has a key once.
Once(s) == \A i, j \in 1..Len(s) : s[i].key = s[j].key => i = j

\* In L1, and in the order of use, x comes before y.
Before(s, x, y) == \E i, j \in 1..Len(s) : i < j /\ s[i].key = x /\ s[j].key = y
Earlier(s, x, y) == \E i, j \in 1..Len(s) : i < j /\ s[i] = x /\ s[j] = y

\* L1 is in the order of use.
InUseOrder == \A x, y \in Keys : Before(lru, x, y) => Earlier(recency, x, y)

\* While all is orderly, one call at a time is under way, for a key that L1 has not.
OneCall ==
    orderly =>
        /\ \A c, d \in Calls : call[c].stage # "idle" /\ call[d].stage # "idle" => c = d
        /\ \A c \in Calls : call[c].stage \notin {"idle", "storing"} => ~Holds(call[c].key)

\* L1 holds a key once, and only keys that have been used.
L1Sound ==
    /\ lru \in Seq(Entries) /\ Once(lru)
    /\ recency \in Seq(Keys) /\ IsInjective(recency)
    /\ KeysOf(lru) \subseteq ToSet(recency)

Order == L1Sound /\ OneCall /\ ((store = "summaries" => orderly) => InUseOrder)

\* What is in L1 beyond its size has been read back.
Sized ==
    /\ store \in {"objects", "responses"} => Len(lru) <= MaxSize
    /\ IsFiniteSet(readBack)
    /\ Cardinality(KeysOf(lru) \ readBack) <= MaxSize

\* What was served is no newer than L1, nor L1 than Redis, once a set is through.
ServedIsMade == \A k \in Keys : served[k] <= sets

CachedIsNewer ==
    \A i \in 1..Len(lru) : served[lru[i].key] <= lru[i].value /\ lru[i].value <= sets

StoredIsNewer ==
    linked => \A k \in Keys : redis[k] # NoEntry =>
        /\ served[k] <= redis[k].value /\ redis[k].value <= sets
        /\ \A i \in 1..Len(lru) : lru[i].key = k =>
             \/ lru[i].value <= redis[k].value
             \/ \E c \in Calls : call[c].stage = "storing" /\ call[c].key = k

\* And the call under way carries what Redis has, or will have.
CallsCarry ==
    \A c \in Calls :
        /\ call[c].stage \in {"missed", "warming", "storing"} => linked
        /\ call[c].stage = "warming" =>
             redis[call[c].key] # NoEntry /\ call[c].value = redis[call[c].key].value
        /\ call[c].stage = "storing" => call[c].value = sets

Rising == orderly => ServedIsMade /\ CachedIsNewer /\ StoredIsNewer /\ CallsCarry

--------------------------------------------------------------------------------

\* What is left of a sequence when one of its entries is taken out.
LEMMA RemoveAtShifts ==
    ASSUME NEW S, NEW s \in Seq(S), NEW i \in DOMAIN s
    PROVE  /\ RemoveAt(s, i) \in Seq(S) /\ Len(RemoveAt(s, i)) = Len(s) - 1
           /\ \A j \in 1..(Len(s) - 1) : RemoveAt(s, i)[j] = IF j < i THEN s[j] ELSE s[j + 1]
<1>1. i \in 1..Len(s) /\ Len(s) \in Nat
  OBVIOUS
<1> DEFINE a == SubSeq(s, 1, i - 1)
           b == SubSeq(s, i + 1, Len(s))
<1>2. a \in Seq(S) /\ Len(a) = i - 1 /\ \A j \in 1..(i - 1) : a[j] = s[j]
  BY <1>1
<1>3. /\ b \in Seq(S) /\ Len(b) = Len(s) - i
      /\ \A j \in 1..(Len(s) - i) : b[j] = s[i + j]
  BY <1>1
<1> HIDE DEF a, b
<1>4. /\ a \o b \in Seq(S) /\ Len(a \o b) = Len(a) + Len(b)
      /\ \A j \in 1..(Len(a) + Len(b)) :
            (a \o b)[j] = IF j <= Len(a) THEN a[j] ELSE b[j - Len(a)]
  BY <1>2, <1>3, ConcatProperties
<1> DEFINE c == a \o b
<1> HIDE DEF c
<1>5. c \in Seq(S) /\ Len(c) = Len(s) - 1
  BY <1>1, <1>2, <1>3, <1>4 DEF c
<1>6. ASSUME NEW j \in 1..(Len(s) - 1)
      PROVE  c[j] = IF j < i THEN s[j] ELSE s[j + 1]
  <2>1. c[j] = IF j <= Len(a) THEN a[j] ELSE b[j - Len(a)]
    <3>1. Len(a) + Len(b) = Len(s) - 1
      BY <1>1, <1>2, <1>3
    <3> QED BY <1>4, <1>6, <3>1 DEF c
  <2>2. CASE j < i
    BY <1>1, <1>2, <1>6, <2>1, <2>2
  <2>3. CASE j >= i
    <3>1. c[j] = b[j - (i - 1)] /\ j - (i - 1) \in 1..(Len(s) - i)
      BY <1>1, <1>2, <1>6, <2>1, <2>3
    <3>2. b[j - (i - 1)] = s[i + (j - (i - 1))]
      BY <1>3, <3>1
    <3>3. i + (j - (i - 1)) = j + 1
      BY <1>1, <1>6
    <3> QED BY <1>1, <1>6, <2>3, <3>1, <3>2, <3>3
  <2> QED BY <1>1, <1>6, <2>2, <2>3
<1> QED BY <1>5, <1>6 DEF RemoveAt, a, b, c

\* The keys of an L1, one by one.
LEMMA KeysAre ==
    ASSUME NEW s, NEW x
    PROVE  x \in KeysOf(s) <=> \E i \in 1..Len(s) : s[i].key = x
BY DEF KeysOf

\* A part of L1, in the same order.
Within(t, s) ==
    /\ t \in Seq(Entries) /\ Once(t) /\ Len(t) <= Len(s)
    /\ \A i \in 1..Len(t) : \E j \in 1..Len(s) : t[i] = s[j]
    /\ \A x, y : Before(t, x, y) => Before(s, x, y)

LEMMA WithinKeys ==
    ASSUME NEW t, NEW s, Within(t, s)
    PROVE  KeysOf(t) \subseteq KeysOf(s)
BY DEF Within, KeysOf

\* A sequence whose places go up in another one is within it.
LEMMA PlacesGoUp ==
    ASSUME NEW s \in Seq(Entries), Once(s), NEW t \in Seq(Entries), Len(t) <= Len(s),
           NEW at,
           \A i \in 1..Len(t) : at[i] \in 1..Len(s) /\ t[i] = s[at[i]],
           \A i, j \in 1..Len(t) : i < j => at[i] < at[j]
    PROVE  Within(t, s)
<1>0. Len(s) \in Nat /\ Len(t) \in Nat
  OBVIOUS
<1>1. ASSUME NEW i \in 1..Len(t), NEW j \in 1..Len(t), t[i].key = t[j].key
      PROVE  i = j
  <2>1. at[i] = at[j]
    BY <1>1 DEF Once
  <2>2. ~ (i < j) /\ ~ (j < i)
    BY <1>0, <2>1
  <2> QED BY <1>0, <2>2
<1>2. ASSUME NEW x, NEW y, Before(t, x, y)
      PROVE  Before(s, x, y)
  <2>1. PICK i \in 1..Len(t), j \in 1..Len(t) : i < j /\ t[i].key = x /\ t[j].key = y
    BY <1>2 DEF Before
  <2>2. /\ at[i] \in 1..Len(s) /\ at[j] \in 1..Len(s) /\ at[i] < at[j]
        /\ s[at[i]].key = x /\ s[at[j]].key = y
    BY <2>1
  <2> QED BY <2>2 DEF Before
<1> QED BY <1>1, <1>2 DEF Within, Once

\* What Without(k) leaves is the rest of L1, in its order, without k.
LEMMA WithoutLeaves ==
    ASSUME lru \in Seq(Entries), Once(lru), NEW k
    PROVE  Within(Without(k), lru) /\ k \notin KeysOf(Without(k))
<1>0. Len(lru) \in Nat
  OBVIOUS
<1>1. CASE ~Holds(k)
  <2>1. Without(k) = lru
    BY <1>1 DEF Without
  <2> QED BY <1>0, <1>1, <2>1 DEF Within, Holds, KeysOf
<1>2. CASE Holds(k)
  <2> DEFINE p == Place(k)
             t == RemoveAt(lru, p)
             at == [i \in 1..(Len(lru) - 1) |-> IF i < p THEN i ELSE i + 1]
  <2>1. p \in 1..Len(lru) /\ lru[p].key = k
    BY <1>2 DEF Holds, Place
  <2>2. Without(k) = t
    BY <1>2 DEF Without
  <2> HIDE DEF p
  <2>3. /\ t \in Seq(Entries) /\ Len(t) = Len(lru) - 1
        /\ \A j \in 1..(Len(lru) - 1) : t[j] = IF j < p THEN lru[j] ELSE lru[j + 1]
    BY <2>1, RemoveAtShifts
  <2> HIDE DEF t
  <2>4. \A i \in 1..Len(t) : at[i] \in 1..Len(lru) /\ t[i] = lru[at[i]] /\ at[i] # p
    BY <1>0, <2>1, <2>3
  <2>5. \A i, j \in 1..Len(t) : i < j => at[i] < at[j]
    BY <1>0, <2>1, <2>3
  <2>6. Len(t) <= Len(lru)
    BY <1>0, <2>3
  <2> HIDE DEF at
  <2>7. Within(t, lru)
    BY <2>3, <2>4, <2>5, <2>6, PlacesGoUp
  <2>8. \A i \in 1..Len(t) : t[i].key # k
    BY <2>1, <2>4 DEF Once
  <2> QED BY <2>2, <2>7, <2>8, KeysAre
<1> QED BY <1>1, <1>2

\* Evict() leaves the end of an L1, no longer than its size.
LEMMA EvictLeaves ==
    ASSUME NEW s \in Seq(Entries), Once(s)
    PROVE  Within(Evict(s), s) /\ Len(Evict(s)) <= MaxSize
<1>0. Len(s) \in Nat /\ MaxSize \in Nat \ {0}
  BY LeadCacheAssumption DEF LeadCacheAssumption
<1>1. CASE Len(s) <= MaxSize
  <2>1. Evict(s) = s
    BY <1>0, <1>1 DEF Evict
  <2> QED BY <1>0, <1>1, <2>1 DEF Within
<1>2. CASE Len(s) > MaxSize
  <2> DEFINE d == Len(s) - MaxSize
             t == SubSeq(s, d + 1, Len(s))
             at == [i \in 1..MaxSize |-> i + d]
  <2>1. d \in Nat /\ d < Len(s)
    BY <1>0, <1>2
  <2>2. Evict(s) = t
    BY <1>0, <1>2 DEF Evict
  <2>3. t \in Seq(Entries) /\ Len(t) = MaxSize /\ \A i \in 1..Len(t) : t[i] = s[i + d]
    BY <1>0, <1>2
  <2> HIDE DEF t
  <2>4. /\ \A i \in 1..Len(t) : at[i] \in 1..Len(s) /\ t[i] = s[at[i]]
        /\ \A i, j \in 1..Len(t) : i < j => at[i] < at[j]
    BY <1>0, <1>2, <2>3
  <2>5. Len(t) <= Len(s) /\ Len(t) <= MaxSize
    BY <1>0, <1>2, <2>3
  <2> HIDE DEF at
  <2> QED BY <2>2, <2>3, <2>4, <2>5, PlacesGoUp
<1> QED BY <1>0, <1>1, <1>2

\* L1 after the entry e of the key k has come in as the most recently used.
Renewed(t, s, k, e) ==
    /\ t \in Seq(Entries) /\ Once(t) /\ KeysOf(t) \subseteq KeysOf(s) \cup {k}
    /\ \A i \in 1..Len(t) :
         t[i] = e \/ (t[i].key # k /\ \E j \in 1..Len(s) : t[i] = s[j])
    /\ \A x, y : Before(t, x, y) =>
         x # k /\ ((y # k /\ Before(s, x, y)) \/ (y = k /\ x \in KeysOf(s)))

LEMMA RenewedBy ==
    ASSUME lru \in Seq(Entries), Once(lru), NEW k \in Keys, NEW e \in Entries, e.key = k
    PROVE  /\ Renewed(Append(Without(k), e), lru, k, e)
           /\ Renewed(Evict(Append(Without(k), e)), lru, k, e)
           /\ Len(Evict(Append(Without(k), e))) <= MaxSize
<1> DEFINE w == Without(k)
           t == Append(w, e)
<1>1. Within(w, lru) /\ k \notin KeysOf(w)
  BY WithoutLeaves
<1> HIDE DEF w
<1>2. w \in Seq(Entries) /\ Len(w) \in Nat /\ Once(w)
  BY <1>1 DEF Within
<1>3. /\ t \in Seq(Entries) /\ Len(t) = Len(w) + 1 /\ t[Len(w) + 1] = e
      /\ \A i \in 1..Len(w) : t[i] = w[i]
  BY <1>2
<1> HIDE DEF t
<1>4. \A i \in 1..Len(w) : t[i].key # k
  BY <1>1, <1>3, KeysAre
<1>5. Once(t)
  BY <1>2, <1>3, <1>4 DEF Once
<1>6. ASSUME NEW i \in 1..Len(t)
      PROVE  t[i] = e \/ (t[i].key # k /\ \E j \in 1..Len(lru) : t[i] = lru[j])
  BY <1>1, <1>2, <1>3, <1>4 DEF Within
<1>7. KeysOf(t) \subseteq KeysOf(lru) \cup {k}
  BY <1>6 DEF KeysOf
<1>8. ASSUME NEW x, NEW y, Before(t, x, y)
      PROVE  x # k /\ ((y # k /\ Before(lru, x, y)) \/ (y = k /\ x \in KeysOf(lru)))
  <2>1. PICK i \in 1..Len(t), j \in 1..Len(t) : i < j /\ t[i].key = x /\ t[j].key = y
    BY <1>8 DEF Before
  <2>2. i \in 1..Len(w) /\ w[i].key = x /\ x # k
    BY <1>2, <1>3, <1>4, <2>1
  <2>3. CASE j = Len(w) + 1
    <3>1. y = k
      BY <1>3, <2>1, <2>3
    <3>2. x \in KeysOf(w)
      BY <2>2, KeysAre
    <3> QED BY <1>1, <2>2, <3>1, <3>2, WithinKeys
  <2>4. CASE j # Len(w) + 1
    <3>1. j \in 1..Len(w) /\ w[j].key = y /\ y # k
      <4>1. j \in 1..Len(w)
        BY <1>2, <1>3, <2>1, <2>4
      <4> QED BY <1>3, <1>4, <2>1, <4>1
    <3>2. Before(w, x, y)
      BY <2>1, <2>2, <3>1 DEF Before
    <3> QED BY <1>1, <2>2, <3>1, <3>2 DEF Within
  <2> QED BY <2>3, <2>4
<1>9. Renewed(t, lru, k, e)
  BY <1>3, <1>5, <1>6, <1>7, <1>8 DEF Renewed
<1>10. Within(Evict(t), t) /\ Len(Evict(t)) <= MaxSize
  BY <1>3, <1>5, EvictLeaves
<1>11. Renewed(Evict(t), lru, k, e)
  <2> DEFINE v == Evict(t)
  <2> HIDE DEF v
  <2>1. Within(v, t)
    BY <1>10 DEF v
  <2>2. KeysOf(v) \subseteq KeysOf(lru) \cup {k}
    BY <1>7, <2>1, WithinKeys
  <2>3. \A i \in 1..Len(v) :
          v[i] = e \/ (v[i].key # k /\ \E j \in 1..Len(lru) : v[i] = lru[j])
    <3> SUFFICES ASSUME NEW i \in 1..Len(v)
                 PROVE  v[i] = e \/ (v[i].key # k /\ \E j \in 1..Len(lru) : v[i] = lru[j])
      OBVIOUS
    <3>1. PICK m \in 1..Len(t) : v[i] = t[m]
      BY <2>1 DEF Within
    <3> QED BY <1>6, <3>1
  <2>4. Renewed(v, lru, k, e)
    BY <1>8, <2>1, <2>2, <2>3 DEF Within, Renewed
  <2> QED BY <2>4 DEF v
<1> QED BY <1>9, <1>10, <1>11 DEF w, t

\* A hit moves an entry, and a set or a warming brings one in.
LEMMA TouchRenews ==
    ASSUME lru \in Seq(Entries), Once(lru), NEW k \in Keys, Holds(k), Touch(k)
    PROVE  /\ Place(k) \in 1..Len(lru) /\ lru[Place(k)].key = k /\ EntryOf(k) \in Entries
           /\ Renewed(lru', lru, k, EntryOf(k)) /\ Len(lru') = Len(lru)
<1>1. Place(k) \in 1..Len(lru) /\ lru[Place(k)].key = k
  BY DEF Holds, Place
<1>2. EntryOf(k) \in Entries /\ EntryOf(k).key = k
  BY <1>1 DEF EntryOf
<1>3. lru' = Append(Without(k), EntryOf(k))
  BY DEF Touch
<1>4. Renewed(lru', lru, k, EntryOf(k))
  BY <1>2, <1>3, RenewedBy
<1>5. Len(lru') = Len(lru)
  <2>1. Without(k) = RemoveAt(lru, Place(k))
    BY DEF Without
  <2> DEFINE w == Without(k)
  <2>2. w \in Seq(Entries) /\ Len(w) = Len(lru) - 1
    BY <1>1, <2>1, RemoveAtShifts
  <2> HIDE DEF w
  <2>3. Len(Append(w, EntryOf(k))) = Len(lru)
    BY <1>2, <2>2
  <2> QED BY <1>3, <2>3 DEF w
<1> QED BY <1>1, <1>2, <1>4, <1>5

LEMMA InsertedRenews ==
    ASSUME lru \in Seq(Entries), Once(lru), NEW k \in Keys, NEW v \in Values, NEW x \in Nat,
           NEW e, e = [key |-> k, value |-> v, expires |-> x]
    PROVE  /\ e \in Entries
           /\ Renewed(Inserted(k, v, x), lru, k, e)
           /\ Renewed(Evict(Inserted(k, v, x)), lru, k, e)
           /\ Len(Evict(Inserted(k, v, x))) <= MaxSize
<1>1. e \in Entries /\ e.key = k
  BY DEF Entries
<1>2. Inserted(k, v, x) = Append(Without(k), e)
  BY DEF Inserted
<1> QED BY <1>1, <1>2, RenewedBy

\* A key that is used goes to the end of the order of use.
LEMMA UsedLast ==
    ASSUME recency \in Seq(Keys), IsInjective(recency), NEW k \in Keys, Used(k)
    PROVE  /\ recency' \in Seq(Keys) /\ IsInjective(recency')
           /\ ToSet(recency) \cup {k} \subseteq ToSet(recency')
           /\ \A x, y : x # k /\ y # k /\ Earlier(recency, x, y) => Earlier(recency', x, y)
           /\ \A x \in ToSet(recency) : x # k => Earlier(recency', x, k)
<1>0. Len(recency) \in Nat /\ DOMAIN recency = 1..Len(recency)
  OBVIOUS
<1> DEFINE w == IF k \in ToSet(recency) THEN RemoveAt(recency, Position(recency, k)) ELSE recency
<1>1. \E at : /\ w \in Seq(Keys) /\ Len(w) <= Len(recency)
              /\ \A i \in 1..Len(w) : w[i] # k
              /\ \A i \in 1..Len(recency) :
                   recency[i] # k => at[i] \in 1..Len(w) /\ w[at[i]] = recency[i]
              /\ \A i, j \in 1..Len(recency) :
                   i < j /\ recency[i] # k /\ recency[j] # k => at[i] < at[j]
              /\ \A i, j \in 1..Len(w) : w[i] = w[j] => i = j
  <2>1. CASE k \notin ToSet(recency)
    <3>1. w = recency
      BY <2>1
    <3> DEFINE at == [i \in 1..Len(recency) |-> i]
    <3>2. \A i \in 1..Len(recency) : at[i] = i
      OBVIOUS
    <3>3. \A i \in 1..Len(recency) : recency[i] # k
      BY <2>1 DEF ToSet
    <3>4. \A i, j \in 1..Len(recency) : recency[i] = recency[j] => i = j
      BY <1>0 DEF IsInjective
    <3> HIDE DEF w, at
    <3> QED BY <1>0, <3>1, <3>2, <3>3, <3>4
  <2>2. CASE k \in ToSet(recency)
    <3> DEFINE p == Position(recency, k)
    <3>1. p \in 1..Len(recency) /\ recency[p] = k
      BY <1>0, <2>2 DEF ToSet, Position
    <3>2. w = RemoveAt(recency, p)
      BY <2>2
    <3> HIDE DEF p, w
    <3>3. /\ w \in Seq(Keys) /\ Len(w) = Len(recency) - 1
          /\ \A j \in 1..(Len(recency) - 1) : w[j] = IF j < p THEN recency[j] ELSE recency[j + 1]
      BY <1>0, <3>1, <3>2, RemoveAtShifts
    <3>4. \A i \in 1..Len(recency) : recency[i] = k <=> i = p
      BY <1>0, <3>1 DEF IsInjective
    <3>5. \A i \in 1..Len(w) : w[i] # k
      BY <1>0, <3>1, <3>3, <3>4
    <3> DEFINE at == [i \in 1..Len(recency) |-> IF i < p THEN i ELSE i - 1]
    <3>6. \A i \in 1..Len(recency) : at[i] = IF i < p THEN i ELSE i - 1
      OBVIOUS
    <3> HIDE DEF at
    <3>7. \A i \in 1..Len(recency) :
             recency[i] # k => at[i] \in 1..Len(w) /\ w[at[i]] = recency[i]
      <4> SUFFICES ASSUME NEW i \in 1..Len(recency), recency[i] # k
                   PROVE  at[i] \in 1..Len(w) /\ w[at[i]] = recency[i]
        OBVIOUS
      <4>1. i # p
        BY <3>4
      <4>2. CASE i < p
        <5>1. at[i] = i
          BY <3>6, <4>2
        <5>2. i \in 1..(Len(recency) - 1)
          BY <1>0, <3>1, <4>2
        <5> QED BY <3>3, <4>2, <5>1, <5>2
      <4>3. CASE i > p
        <5>1. at[i] = i - 1
          BY <1>0, <3>1, <3>6, <4>3
        <5>3. i - 1 \in 1..Len(w)
          BY <1>0, <3>1, <3>3, <4>3
        <5>2. w[i - 1] = recency[(i - 1) + 1]
          BY <1>0, <3>1, <3>3, <4>3
        <5> QED BY <1>0, <5>1, <5>2, <5>3
      <4> QED BY <1>0, <3>1, <4>1, <4>2, <4>3
    <3>8. \A i, j \in 1..Len(recency) :
             i < j /\ recency[i] # k /\ recency[j] # k => at[i] < at[j]
      BY <1>0, <3>1, <3>4, <3>6
    <3>9. ASSUME NEW i \in 1..Len(w), NEW j \in 1..Len(w), w[i] = w[j]
          PROVE  i = j
      <4> DEFINE a == IF i < p THEN i ELSE i + 1
                 b == IF j < p THEN j ELSE j + 1
      <4>1. a \in 1..Len(recency) /\ b \in 1..Len(recency) /\ recency[a] = recency[b]
        BY <1>0, <3>1, <3>3, <3>9
      <4>2. a = b
        <5> HIDE DEF a, b
        <5> QED BY <1>0, <4>1 DEF IsInjective
      <4> QED BY <1>0, <3>1, <3>3, <4>2
    <3>10. Len(w) <= Len(recency)
      BY <1>0, <3>3
    <3> QED BY <3>3, <3>5, <3>7, <3>8, <3>9, <3>10
  <2> QED BY <2>1, <2>2
<1>2. recency' = Append(w, k)
  BY DEF Used
<1> HIDE DEF w
<1>3. PICK at : /\ w \in Seq(Keys) /\ Len(w) <= Len(recency)
                /\ \A i \in 1..Len(w) : w[i] # k
                /\ \A i \in 1..Len(recency) :
                     recency[i] # k => at[i] \in 1..Len(w) /\ w[at[i]] = recency[i]
                /\ \A i, j \in 1..Len(recency) :
                     i < j /\ recency[i] # k /\ recency[j] # k => at[i] < at[j]
                /\ \A i, j \in 1..Len(w) : w[i] = w[j] => i = j
  BY <1>1
<1> DEFINE t == Append(w, k)
<1>4. /\ t \in Seq(Keys) /\ Len(t) = Len(w) + 1 /\ Len(w) \in Nat /\ t[Len(w) + 1] = k
      /\ DOMAIN t = 1..Len(t) /\ \A i \in 1..Len(w) : t[i] = w[i]
  BY <1>3
<1> HIDE DEF t
<1>5. \A i, j \in 1..Len(t) : t[i] = t[j] => i = j
  BY <1>3, <1>4
<1>6. IsInjective(t)
  BY <1>4, <1>5 DEF IsInjective
<1>7. ASSUME NEW x \in ToSet(recency) \cup {k} PROVE x \in ToSet(t)
  <2>1. CASE x = k
    <3>1. Len(w) + 1 \in DOMAIN t
      BY <1>4
    <3> QED BY <1>4, <2>1, <3>1 DEF ToSet
  <2>2. CASE x # k
    <3>1. PICK i \in 1..Len(recency) : recency[i] = x
      BY <1>0, <1>7, <2>2 DEF ToSet
    <3>2. at[i] \in 1..Len(w) /\ w[at[i]] = x
      BY <1>3, <2>2, <3>1
    <3>3. at[i] \in DOMAIN t /\ t[at[i]] = x
      BY <1>4, <3>2
    <3> QED BY <3>3 DEF ToSet
  <2> QED BY <2>1, <2>2
<1>8. ASSUME NEW x, NEW y, x # k, y # k, Earlier(recency, x, y)
      PROVE  Earlier(t, x, y)
  <2>1. PICK i \in 1..Len(recency), j \in 1..Len(recency) :
          i < j /\ recency[i] = x /\ recency[j] = y
    BY <1>8 DEF Earlier
  <2>2. /\ at[i] \in 1..Len(w) /\ at[j] \in 1..Len(w) /\ at[i] < at[j]
        /\ w[at[i]] = x /\ w[at[j]] = y
    BY <1>3, <1>8, <2>1
  <2>3. /\ at[i] \in 1..Len(t) /\ at[j] \in 1..Len(t) /\ t[at[i]] = x /\ t[at[j]] = y
    BY <1>4, <2>2
  <2> QED BY <2>2, <2>3 DEF Earlier
<1>9. ASSUME NEW x \in ToSet(recency), x # k PROVE Earlier(t, x, k)
  <2>1. PICK i \in 1..Len(recency) : recency[i] = x
    BY <1>0, <1>9 DEF ToSet
  <2>2. at[i] \in 1..Len(w) /\ w[at[i]] = x
    BY <1>3, <1>9, <2>1
  <2>3. /\ at[i] \in 1..Len(t) /\ Len(w) + 1 \in 1..Len(t) /\ at[i] < Len(w) + 1
        /\ t[at[i]] = x /\ t[Len(w) + 1] = k
    BY <1>4, <2>2
  <2> QED BY <2>3 DEF Earlier
<1>10. recency' = t
  BY <1>2 DEF t
<1> QED BY <1>4, <1>6, <1>7, <1>8, <1>9, <1>10

--------------------------------------------------------------------------------

\* What CacheTypeOK says of a call.
LEMMA CallIs ==
    ASSUME CacheTypeOK, NEW c \in Calls
    PROVE  /\ call[c].stage \in {"idle", "missed", "asking", "warming", "storing"}
           /\ call[c].stage = "idle" <=> call[c] = AtRest
           /\ call[c].stage # "idle" => call[c].key \in Keys
           /\ call[c].stage \in {"warming", "storing"} => call[c].value \in Values
<1>1. call[c] \in Steps
  BY DEF CacheTypeOK
<1>2. CASE call[c] = AtRest
  BY <1>2 DEF AtRest
<1>3. CASE call[c] \in [stage : {"missed", "asking"}, key : Keys]
  BY <1>3 DEF AtRest
<1>4. CASE call[c] \in [stage : {"warming", "storing"}, key : Keys, value : Values]
  BY <1>4 DEF AtRest
<1> QED BY <1>1, <1>2, <1>3, <1>4 DEF Steps

\* A step that uses a key k, with the entry e.
Uses(k, e) ==
    /\ k \in Keys /\ e \in Entries /\ e.key = k
    /\ Renewed(lru', lru, k, e) /\ Used(k)

LEMMA UsesKeep ==
    ASSUME L1Sound, NEW k, NEW e, Uses(k, e)
    PROVE  L1Sound' /\ (InUseOrder => InUseOrder')
<1>1. k \in Keys /\ Renewed(lru', lru, k, e)
  BY DEF Uses
<1>2. /\ recency' \in Seq(Keys) /\ IsInjective(recency')
      /\ ToSet(recency) \cup {k} \subseteq ToSet(recency')
      /\ \A x, y : x # k /\ y # k /\ Earlier(recency, x, y) => Earlier(recency', x, y)
      /\ \A x \in ToSet(recency) : x # k => Earlier(recency', x, k)
  BY <1>1, UsedLast DEF L1Sound, Uses
<1>3. L1Sound'
  BY <1>1, <1>2 DEF L1Sound, Renewed
<1>4. ASSUME InUseOrder, NEW x \in Keys, NEW y \in Keys, Before(lru', x, y)
      PROVE  Earlier(recency', x, y)
  <2>1. x # k /\ ((y # k /\ Before(lru, x, y)) \/ (y = k /\ x \in KeysOf(lru)))
    BY <1>1, <1>4 DEF Renewed
  <2>2. CASE y # k
    BY <1>2, <1>4, <2>1, <2>2 DEF InUseOrder
  <2>3. CASE y = k
    BY <1>2, <2>1, <2>3 DEF L1Sound
  <2> QED BY <2>2, <2>3
<1> QED BY <1>3, <1>4 DEF InUseOrder

LEMMA DropsKeep ==
    ASSUME L1Sound, NEW k, lru' = Without(k), recency' = recency
    PROVE  L1Sound' /\ (InUseOrder => InUseOrder')
<1>1. Within(lru', lru)
  BY WithoutLeaves DEF L1Sound
<1>2. KeysOf(lru') \subseteq KeysOf(lru)
  BY <1>1, WithinKeys
<1>3. L1Sound'
  BY <1>1, <1>2 DEF L1Sound, Within
<1>4. InUseOrder => InUseOrder'
  BY <1>1 DEF InUseOrder, Within
<1> QED BY <1>3, <1>4

LEMMA OverwritesKeep ==
    ASSUME L1Sound, NEW k \in Keys, NEW v \in Values, lru' = Overwritten(k, v), Used(k)
    PROVE  L1Sound' /\ KeysOf(lru') = KeysOf(lru)
<1>1. Len(lru) \in Nat /\ lru \in Seq(Entries)
  BY DEF L1Sound
<1> DEFINE new(i) == IF lru[i].key = k THEN [lru[i] EXCEPT !.value = v] ELSE lru[i]
<1>2. ASSUME NEW i \in 1..Len(lru)
      PROVE  new(i) \in Entries /\ new(i).key = lru[i].key
  <2>1. lru[i] \in Entries
    BY <1>1
  <2> QED BY <2>1 DEF Entries
<1>3. /\ lru' \in Seq(Entries) /\ Len(lru') = Len(lru)
      /\ \A i \in 1..Len(lru) : lru'[i].key = lru[i].key
  <2>1. lru' = [i \in 1..Len(lru) |-> new(i)]
    BY DEF Overwritten
  <2> HIDE DEF new
  <2>2. lru' \in [1..Len(lru) -> Entries]
    BY <1>2, <2>1
  <2>3. lru' \in Seq(Entries) /\ Len(lru') = Len(lru)
    BY <1>1, <2>2
  <2> QED BY <1>2, <2>1, <2>3
<1>4. KeysOf(lru') = KeysOf(lru)
  BY <1>3 DEF KeysOf
<1>5. Once(lru')
  BY <1>3 DEF Once, L1Sound
<1>6. /\ recency' \in Seq(Keys) /\ IsInjective(recency')
      /\ ToSet(recency) \cup {k} \subseteq ToSet(recency')
  BY UsedLast DEF L1Sound
<1> QED BY <1>3, <1>4, <1>5, <1>6 DEF L1Sound

--------------------------------------------------------------------------------

\* What the actions that go through L1 do to it.
LEMMA HitUses ==
    ASSUME L1Sound, NEW c \in Calls, NEW k \in Keys, HitL1(c, k)
    PROVE  /\ Place(k) \in 1..Len(lru) /\ lru[Place(k)].key = k
           /\ Uses(k, EntryOf(k)) /\ Len(lru') = Len(lru)
<1>1. Holds(k) /\ Touch(k) /\ Used(k)
  BY DEF HitL1
<1>2. /\ Place(k) \in 1..Len(lru) /\ lru[Place(k)].key = k /\ EntryOf(k) \in Entries
      /\ Renewed(lru', lru, k, EntryOf(k)) /\ Len(lru') = Len(lru)
  BY <1>1, TouchRenews DEF L1Sound
<1> QED BY <1>1, <1>2 DEF Uses, EntryOf

Warmed(c) == [key |-> call[c].key, value |-> call[c].value, expires |-> Never]

LEMMA WarmUses ==
    ASSUME CacheTypeOK, L1Sound, NEW c \in Calls,
           \/ WarmObject(c) \/ WarmResponse(c) \/ WarmText(c)
           \/ WarmSummary(c) /\ ~Holds(call[c].key)
    PROVE  /\ call[c].stage = "warming" /\ Uses(call[c].key, Warmed(c))
           /\ store \in {"objects", "responses"} => Len(lru') <= MaxSize
<1> DEFINE k == call[c].key
           v == call[c].value
           e == Warmed(c)
<1>1. call[c].stage = "warming" /\ Used(k)
  BY DEF WarmObject, WarmResponse, WarmText, WarmSummary, Warm
<1>2. k \in Keys /\ v \in Values
  BY <1>1, CallIs
<1>3. /\ e \in Entries
      /\ Renewed(Inserted(k, v, Never), lru, k, e)
      /\ Renewed(Evict(Inserted(k, v, Never)), lru, k, e)
      /\ Len(Evict(Inserted(k, v, Never))) <= MaxSize
  <2>1. Never \in Nat
    BY DEF Never
  <2>2. e = [key |-> k, value |-> v, expires |-> Never]
    BY DEF Warmed
  <2> HIDE DEF k, v, e
  <2> QED BY <1>2, <2>1, <2>2, InsertedRenews DEF L1Sound
<1>4. CASE WarmObject(c) \/ WarmResponse(c)
  <2>1. lru' = Evict(Inserted(k, v, Never))
    BY <1>4 DEF WarmObject, WarmResponse, Warm
  <2> QED BY <1>1, <1>2, <1>3, <2>1 DEF Uses, Warmed
<1>5. CASE WarmText(c) \/ (WarmSummary(c) /\ ~Holds(call[c].key))
  <2>1. lru' = Inserted(k, v, Never) /\ store \in {"texts", "summaries"}
    BY <1>5 DEF WarmText, WarmSummary, Warm
  <2> QED BY <1>1, <1>2, <1>3, <2>1 DEF Uses, Warmed
<1> QED BY <1>4, <1>5

LEMMA SetUses ==
    ASSUME CacheTypeOK, L1Sound, NEW c \in Calls, NEW k \in Keys, NEW x \in Nat, SetL1(c, k, x)
    PROVE  /\ Uses(k, [key |-> k, value |-> sets + 1, expires |-> x])
           /\ Len(lru') <= MaxSize /\ sets + 1 \in Values
<1> DEFINE v == sets + 1
           e == [key |-> k, value |-> v, expires |-> x]
<1>1. v \in Values
  BY LeadCacheAssumption DEF SetL1, CacheTypeOK, Values, LeadCacheAssumption
<1>2. lru' = Evict(Inserted(k, v, x)) /\ Used(k)
  BY DEF SetL1
<1> HIDE DEF v
<1>3. /\ e \in Entries
      /\ Renewed(Evict(Inserted(k, v, x)), lru, k, e)
      /\ Len(Evict(Inserted(k, v, x))) <= MaxSize
  BY <1>1, InsertedRenews DEF L1Sound
<1>4. e.key = k
  OBVIOUS
<1> HIDE DEF e
<1>5. Uses(k, e) /\ Len(lru') <= MaxSize /\ v \in Values
  BY <1>1, <1>2, <1>3, <1>4 DEF Uses
<1> QED BY <1>5 DEF v, e

--------------------------------------------------------------------------------

\* A set is a step of SetL1, with one of the ttls there are.
Sets(c, k) == SetObject(c, k) \/ StoreFullText(c, k) \/ StoreSummary(c, k)

LEMMA SetsAre ==
    ASSUME CacheTypeOK, NEW c \in Calls, NEW k \in Keys, Sets(c, k)
    PROVE  /\ BeginCall(c)
           /\ \E x \in Nat : SetL1(c, k, x)
<1>1. now + Ttl \in Nat /\ Never \in Nat
  BY LeadCacheAssumption DEF CacheTypeOK, LeadCacheAssumption, Never
<1> QED BY <1>1 DEF Sets, SetObject, StoreFullText, StoreSummary

\* The same actions, in the order in which the proofs go through them.
LEMMA NextIs ==
    ASSUME CacheNext
    PROVE  \/ \E c \in Calls, k \in Keys : HitL1(c, k) \/ MissL1(c, k) \/ Sets(c, k)
           \/ \E c \in Calls : HitL2(c) \/ MissL2(c) \/ Answer(c) \/ NoAnswer(c) \/ SetL2(c)
                                 \/ RedisError(c)
           \/ \E c \in Calls : \/ WarmObject(c) \/ WarmResponse(c) \/ WarmText(c)
                               \/ WarmSummary(c) /\ ~Holds(call[c].key)
           \/ \E c \in Calls : WarmSummary(c) /\ Holds(call[c].key)
           \/ \E k \in Keys : SetElsewhere(k) \/ EvictFullText(k)
           \/ NewProcess
           \/ Tick
BY DEF CacheNext, Sets

\* Order is only ever lost.
LEMMA OrderIsLost ==
    ASSUME CacheTypeOK, CacheNext
    PROVE  store' = store /\ orderly' \in BOOLEAN /\ (orderly' => orderly)
<1>0. orderly \in BOOLEAN
  BY DEF CacheTypeOK
<1>k. KeepOrder => orderly' \in BOOLEAN /\ (orderly' => orderly)
  <2> DEFINE idle == \A c \in Calls : call[c] = AtRest
  <2>1. KeepOrder <=> orderly' = (orderly /\ idle)
    BY Zenon DEF KeepOrder
  <2>2. idle \in BOOLEAN
    OBVIOUS
  <2> HIDE DEF idle
  <2> QED BY <1>0, <2>1, <2>2, Zenon
<1>1. ASSUME NEW c \in Calls, NEW k \in Keys, HitL1(c, k) \/ MissL1(c, k)
      PROVE  store' = store /\ orderly' \in BOOLEAN /\ (orderly' => orderly)
  <2>1. store' = store
    BY <1>1 DEF HitL1, MissL1
  <2>2. KeepOrder
    BY <1>1, Zenon DEF HitL1, MissL1, BeginCall
  <2> QED BY <1>k, <2>1, <2>2
<1>2. ASSUME NEW c \in Calls, NEW k \in Keys, Sets(c, k)
      PROVE  store' = store /\ orderly' \in BOOLEAN /\ (orderly' => orderly)
  <2>1. store' = store
    BY <1>2, SetsAre DEF SetL1
  <2>2. KeepOrder
    BY <1>2, SetsAre, Zenon DEF BeginCall
  <2> QED BY <1>k, <2>1, <2>2
<1>3. ASSUME NEW c \in Calls,
             HitL2(c) \/ MissL2(c) \/ Answer(c) \/ NoAnswer(c) \/ SetL2(c) \/ RedisError(c)
      PROVE  store' = store /\ orderly' \in BOOLEAN /\ (orderly' => orderly)
  <2>1. store' = store
    BY <1>3 DEF HitL2, MissL2, Answer, SetL1, NoAnswer, SetL2, RedisError
  <2>2. orderly' = orderly \/ orderly' = FALSE
    BY <1>3, Zenon DEF HitL2, MissL2, Answer, NoAnswer, SetL2, RedisError
  <2>3. orderly' \in BOOLEAN /\ (orderly' => orderly)
    <3>1. CASE orderly' = orderly
      BY <1>0, <3>1
    <3>2. CASE orderly' = FALSE
      BY <3>2
    <3> QED BY <2>2, <3>1, <3>2
  <2> QED BY <2>1, <2>3
<1>4. ASSUME NEW c \in Calls,
             WarmObject(c) \/ WarmResponse(c) \/ WarmText(c) \/ WarmSummary(c)
      PROVE  store' = store /\ orderly' \in BOOLEAN /\ (orderly' => orderly)
  <2>1. UNCHANGED <<store, orderly>>
    BY <1>4 DEF WarmObject, WarmResponse, WarmText, WarmSummary, Warm
  <2> QED BY <1>0, <2>1
<1>5. ASSUME NEW k \in Keys, SetElsewhere(k) \/ EvictFullText(k)
      PROVE  store' = store /\ orderly' \in BOOLEAN /\ (orderly' => orderly)
  <2>1. store' = store
    BY <1>5 DEF SetElsewhere, EvictFullText
  <2>2. KeepOrder
    BY <1>5, Zenon DEF SetElsewhere, EvictFullText
  <2> QED BY <1>k, <2>1, <2>2
<1>6. NewProcess \/ Tick => store' = store /\ orderly' \in BOOLEAN /\ (orderly' => orderly)
  <2> DEFINE same == linked' = linked
  <2>1. NewProcess => store' = store /\ orderly' = (orderly /\ same)
    BY DEF NewProcess
  <2>2. same \in BOOLEAN
    OBVIOUS
  <2> HIDE DEF same
  <2>3. NewProcess => orderly' \in BOOLEAN /\ (orderly' => orderly)
    BY <1>0, <2>1, <2>2, Zenon
  <2>4. Tick => store' = store /\ orderly' \in BOOLEAN /\ (orderly' => orderly)
    BY <1>0 DEF Tick
  <2> QED BY <2>1, <2>3, <2>4
<1> QED BY <1>1, <1>2, <1>3, <1>4, <1>5, <1>6, NextIs

\* An action that leaves L1 and the order of use alone.
LEMMA RestKeeps ==
    ASSUME L1Sound, UNCHANGED <<lru, recency>>
    PROVE  L1Sound' /\ (InUseOrder => InUseOrder')
BY DEF L1Sound, InUseOrder

LEMMA SoundStep ==
    ASSUME CacheTypeOK, Order, CacheNext
    PROVE  L1Sound' /\ ((store' = "summaries" => orderly') => InUseOrder')
<1>0. L1Sound /\ ((store' = "summaries" => orderly') => InUseOrder)
  BY OrderIsLost DEF Order
<1>1. ASSUME L1Sound' /\ (InUseOrder => InUseOrder')
      PROVE  L1Sound' /\ ((store' = "summaries" => orderly') => InUseOrder')
  BY <1>0, <1>1
<1>2. ASSUME NEW c \in Calls, NEW k \in Keys, HitL1(c, k)
      PROVE  L1Sound' /\ (InUseOrder => InUseOrder')
  BY <1>0, <1>2, HitUses, UsesKeep
<1>3. ASSUME NEW c \in Calls, NEW k \in Keys, MissL1(c, k)
      PROVE  L1Sound' /\ (InUseOrder => InUseOrder')
  <2>1. lru' = Without(k) /\ recency' = recency
    BY <1>3 DEF MissL1
  <2> QED BY <1>0, <2>1, DropsKeep
<1>4. ASSUME NEW c \in Calls, NEW k \in Keys, Sets(c, k)
      PROVE  L1Sound' /\ (InUseOrder => InUseOrder')
  <2>1. PICK x \in Nat : SetL1(c, k, x)
    BY <1>4, SetsAre
  <2> QED BY <1>0, <2>1, SetUses, UsesKeep
<1>5. ASSUME NEW c \in Calls, Answer(c)
      PROVE  L1Sound' /\ (InUseOrder => InUseOrder')
  <2>1. SetL1(c, call[c].key, Never) /\ call[c].key \in Keys /\ Never \in Nat
    BY <1>5, CallIs DEF Answer, Never
  <2> QED BY <1>0, <2>1, SetUses, UsesKeep
<1>6. ASSUME NEW c \in Calls,
             HitL2(c) \/ MissL2(c) \/ NoAnswer(c) \/ SetL2(c) \/ RedisError(c)
      PROVE  L1Sound' /\ (InUseOrder => InUseOrder')
  <2>1. UNCHANGED <<lru, recency>>
    BY <1>6 DEF HitL2, MissL2, NoAnswer, SetL2, RedisError
  <2> QED BY <1>0, <2>1, RestKeeps
<1>7. ASSUME NEW c \in Calls,
             \/ WarmObject(c) \/ WarmResponse(c) \/ WarmText(c)
             \/ WarmSummary(c) /\ ~Holds(call[c].key)
      PROVE  L1Sound' /\ (InUseOrder => InUseOrder')
  BY <1>0, <1>7, WarmUses, UsesKeep
<1>8. ASSUME NEW c \in Calls, WarmSummary(c), Holds(call[c].key)
      PROVE  L1Sound' /\ ((store' = "summaries" => orderly') => InUseOrder')
  <2> DEFINE k == call[c].key
             v == call[c].value
  <2>1. /\ call[c].stage = "warming" /\ store = "summaries" /\ UNCHANGED <<store, orderly>>
        /\ lru' = Overwritten(k, v) /\ Used(k)
    BY <1>8 DEF WarmSummary, Warm
  <2>2. k \in Keys /\ v \in Values
    BY <2>1, CallIs
  <2>3. ~orderly'
    BY <1>8, <2>1 DEF Order, OneCall
  <2> HIDE DEF k, v
  <2>4. L1Sound'
    BY <1>0, <2>1, <2>2, OverwritesKeep
  <2> QED BY <2>1, <2>3, <2>4
<1>9. ASSUME NEW k \in Keys, EvictFullText(k)
      PROVE  L1Sound' /\ (InUseOrder => InUseOrder')
  <2>1. lru' = Without(k) /\ recency' = recency
    BY <1>9 DEF EvictFullText
  <2> QED BY <1>0, <2>1, DropsKeep
<1>10. ASSUME NewProcess
       PROVE  L1Sound' /\ (InUseOrder => InUseOrder')
  <2>1. lru' = <<>> /\ recency' = <<>>
    BY <1>10 DEF NewProcess
  <2> QED BY <2>1 DEF L1Sound, InUseOrder, Before, Once, KeysOf, IsInjective, ToSet
<1>11. ASSUME (\E k \in Keys : SetElsewhere(k)) \/ Tick
       PROVE  L1Sound' /\ (InUseOrder => InUseOrder')
  <2>1. UNCHANGED <<lru, recency>>
    BY <1>11 DEF SetElsewhere, Tick
  <2> QED BY <1>0, <2>1, RestKeeps
<1>12. \/ \E c \in Calls : WarmSummary(c) /\ Holds(call[c].key)
       \/ L1Sound' /\ (InUseOrder => InUseOrder')
  BY <1>2, <1>3, <1>4, <1>5, <1>6, <1>7, <1>9, <1>10, <1>11, NextIs
<1> QED BY <1>1, <1>8, <1>12

--------------------------------------------------------------------------------

\* When the calls are done one by one, a beginning finds all of them idle,
LEMMA BeginsAlone ==
    ASSUME CacheTypeOK, KeepOrder, orderly', NEW c \in Calls
    PROVE  call[c] = AtRest /\ call[c].stage = "idle"
<1>1. call[c] = AtRest
  BY DEF KeepOrder
<1> QED BY <1>1 DEF AtRest

\* and whatever else steps, the others are.
LEMMA StepsAlone ==
    ASSUME CacheTypeOK, OneCall, orderly, NEW c \in Calls, call[c].stage # "idle"
    PROVE  \A d \in Calls : d # c => call[d].stage = "idle"
BY DEF OneCall

LEMMA OneCallAfter ==
    ASSUME CacheTypeOK, NEW c \in Calls, NEW step, Enter(c, step),
           \A d \in Calls : d # c => call[d].stage = "idle",
           step.stage \in {"idle", "storing"} \/ step.key \notin KeysOf(lru')
    PROVE  OneCall'
<1>1. \A d \in Calls : call'[d] = IF d = c THEN step ELSE call[d]
  BY DEF CacheTypeOK, Enter
<1>2. \A k : k \notin KeysOf(lru') => ~Holds(k)'
  BY DEF KeysOf, Holds
<1> QED BY <1>1, <1>2 DEF OneCall

LEMMA OneCallStep ==
    ASSUME CacheTypeOK, Order, CacheNext
    PROVE  OneCall'
<1> SUFFICES ASSUME orderly' PROVE OneCall'
  BY DEF OneCall
<1>0. L1Sound /\ OneCall /\ orderly
  BY OrderIsLost DEF Order
<1>1. ASSUME NEW c \in Calls, NEW k \in Keys, HitL1(c, k)
      PROVE  OneCall'
  <2>1. KeepOrder /\ call' = call
    BY <1>1 DEF HitL1, BeginCall
  <2> QED BY <2>1, BeginsAlone DEF OneCall
<1>2. ASSUME NEW c \in Calls, NEW k \in Keys, MissL1(c, k)
      PROVE  OneCall'
  <2> DEFINE step == IF linked THEN [stage |-> "missed", key |-> k] ELSE Unfound(k)
  <2>1. KeepOrder /\ Enter(c, step) /\ lru' = Without(k)
    BY <1>2 DEF MissL1, BeginCall
  <2>2. k \notin KeysOf(lru')
    BY <1>0, <2>1, WithoutLeaves DEF L1Sound
  <2>3. step.stage = "idle" \/ step.key = k
    BY DEF Unfound, AtRest
  <2> HIDE DEF step
  <2>4. \A d \in Calls : d # c => call[d].stage = "idle"
    BY <2>1, BeginsAlone
  <2> QED BY <2>1, <2>2, <2>3, <2>4, OneCallAfter
<1>3. ASSUME NEW c \in Calls, NEW k \in Keys, NEW x \in Nat, SetL1(c, k, x),
             \A d \in Calls : d # c => call[d].stage = "idle"
      PROVE  OneCall'
  <2> DEFINE step == IF linked THEN [stage |-> "storing", key |-> k, value |-> sets + 1] ELSE AtRest
  <2>1. Enter(c, step)
    BY <1>3 DEF SetL1
  <2>2. step.stage \in {"idle", "storing"}
    BY DEF AtRest
  <2> HIDE DEF step
  <2> QED BY <1>3, <2>1, <2>2, OneCallAfter
<1>4. ASSUME NEW c \in Calls, NEW k \in Keys, Sets(c, k)
      PROVE  OneCall'
  <2>1. BeginCall(c) /\ \E x \in Nat : SetL1(c, k, x)
    BY <1>4, SetsAre
  <2>2. KeepOrder
    BY <2>1, Zenon DEF BeginCall
  <2> QED BY <1>3, <2>1, <2>2, BeginsAlone
<1>5. ASSUME NEW c \in Calls, Answer(c)
      PROVE  OneCall'
  <2>1. SetL1(c, call[c].key, Never) /\ call[c].key \in Keys /\ Never \in Nat
    BY <1>5, CallIs DEF Answer, Never
  <2>2. call[c].stage # "idle"
    BY <1>5 DEF Answer
  <2> QED BY <1>0, <1>3, <2>1, <2>2, StepsAlone
<1>6. ASSUME NEW c \in Calls, HitL2(c) \/ MissL2(c)
      PROVE  OneCall'
  <2> DEFINE k == call[c].key
  <2>1. call[c].stage = "missed" /\ lru' = lru
    BY <1>6 DEF HitL2, MissL2
  <2>2. k \notin KeysOf(lru')
    BY <1>0, <2>1 DEF OneCall, KeysOf, Holds
  <2>3. \E step : Enter(c, step) /\ (step.stage = "idle" \/ step.key = k)
    <3>1. CASE HitL2(c)
      <4> DEFINE step == [stage |-> "warming", key |-> k, value |-> redis[k].value]
      <4>1. Enter(c, step) /\ step.key = k
        BY <3>1 DEF HitL2
      <4> HIDE DEF step
      <4> QED BY <4>1
    <3>2. CASE MissL2(c)
      <4>1. Enter(c, Unfound(k)) /\ (Unfound(k).stage = "idle" \/ Unfound(k).key = k)
        BY <3>2 DEF MissL2, Unfound, AtRest
      <4> QED BY <4>1
    <3> QED BY <1>6, <3>1, <3>2
  <2> HIDE DEF k
  <2>4. \A d \in Calls : d # c => call[d].stage = "idle"
    BY <1>0, <2>1, StepsAlone
  <2> QED BY <2>2, <2>3, <2>4, OneCallAfter
<1>7. ASSUME NEW c \in Calls,
             \/ WarmObject(c) \/ WarmResponse(c) \/ WarmText(c) \/ WarmSummary(c)
             \/ NoAnswer(c) \/ SetL2(c)
      PROVE  OneCall'
  <2>1. call[c].stage # "idle" /\ Enter(c, AtRest)
    BY <1>7 DEF WarmObject, WarmResponse, WarmText, WarmSummary, Warm, NoAnswer, SetL2
  <2>2. AtRest.stage = "idle"
    BY DEF AtRest
  <2> QED BY <1>0, <2>1, <2>2, StepsAlone, OneCallAfter
<1>8. ASSUME NEW c \in Calls, RedisError(c)
      PROVE  FALSE
  BY <1>8 DEF RedisError
<1>9. ASSUME NEW k \in Keys, SetElsewhere(k) \/ EvictFullText(k)
      PROVE  OneCall'
  <2>1. KeepOrder /\ call' = call
    BY <1>9 DEF SetElsewhere, EvictFullText
  <2> QED BY <2>1, BeginsAlone DEF OneCall
<1>10. NewProcess => OneCall'
  BY DEF NewProcess, OneCall, AtRest
<1>11. Tick => OneCall'
  BY <1>0 DEF Tick, OneCall, Holds
<1> QED BY <1>1, <1>2, <1>4, <1>5, <1>6, <1>7, <1>8, <1>9, <1>10, <1>11, NextIs

--------------------------------------------------------------------------------

\* The types but for L1 and the order of use, which are in L1Sound.
Redises == [Keys -> {NoEntry} \cup [value : Values, expires : Nat]]

LEMMA CallTyped ==
    ASSUME CacheTypeOK, NEW c, NEW step \in Steps, Enter(c, step)
    PROVE  call' \in [Calls -> Steps]
BY DEF CacheTypeOK, Enter

LEMMA StepsTyped ==
    /\ AtRest \in Steps
    /\ \A k \in Keys : Unfound(k) \in Steps /\ [stage |-> "missed", key |-> k] \in Steps
    /\ \A k \in Keys, v \in Values :
         /\ [stage |-> "warming", key |-> k, value |-> v] \in Steps
         /\ [stage |-> "storing", key |-> k, value |-> v] \in Steps
BY DEF Steps, Unfound

LEMMA ServedTyped ==
    ASSUME CacheTypeOK, NEW k \in Keys, NEW v \in Values, Serve(k, v)
    PROVE  served' \in [Keys -> Values \cup {NoValue}]
<1>1. CASE orderly'
  BY <1>1 DEF Serve, CacheTypeOK
<1>2. CASE ~orderly'
  BY <1>2 DEF Serve, NothingServed
<1> QED BY <1>1, <1>2

LEMMA SetTyped ==
    ASSUME CacheTypeOK, L1Sound, NEW c \in Calls, NEW k \in Keys, NEW x \in Nat, SetL1(c, k, x)
    PROVE  /\ UNCHANGED <<store, linked, now, redis, served>>
           /\ sets' \in 0..MaxSets /\ call' \in [Calls -> Steps] /\ readBack' \subseteq Keys
<1>1. UNCHANGED <<store, linked, now, redis, served>> /\ readBack' = {}
  BY DEF SetL1
<1>2. sets' \in 0..MaxSets
  BY LeadCacheAssumption DEF SetL1, CacheTypeOK, LeadCacheAssumption
<1>3. call' \in [Calls -> Steps]
  <2> DEFINE step == IF linked THEN [stage |-> "storing", key |-> k, value |-> sets + 1] ELSE AtRest
  <2>1. Enter(c, step)
    BY DEF SetL1
  <2>2. sets + 1 \in Values
    BY SetUses
  <2>3. step \in Steps
    BY <2>2, StepsTyped
  <2> HIDE DEF step
  <2> QED BY <2>1, <2>3, CallTyped
<1> QED BY <1>1, <1>2, <1>3

LEMMA RedisTyped ==
    ASSUME CacheTypeOK, NEW k \in Keys, NEW v \in Values,
           redis' = [redis EXCEPT ![k] = [value |-> v, expires |-> now + Ttl]]
    PROVE  redis' \in Redises
<1>1. now + Ttl \in Nat
  BY LeadCacheAssumption DEF CacheTypeOK, LeadCacheAssumption
<1> QED BY <1>1 DEF CacheTypeOK, Redises

LEMMA TypeStep ==
    ASSUME CacheTypeOK, Order, CacheNext
    PROVE  CacheTypeOK'
<1>0. /\ L1Sound /\ L1Sound' /\ orderly' \in BOOLEAN /\ store' = store
      /\ redis \in Redises /\ LeadCacheAssumption
  BY SoundStep, OrderIsLost, LeadCacheAssumption DEF Order, CacheTypeOK, Redises
<1>t. ASSUME linked' \in BOOLEAN, now' \in 0..MaxTime, sets' \in 0..MaxSets, redis' \in Redises,
             call' \in [Calls -> Steps], served' \in [Keys -> Values \cup {NoValue}],
             readBack' \subseteq Keys
      PROVE  CacheTypeOK'
  <2>1. store' \in Stores /\ lru' \in Seq(Entries) /\ recency' \in Seq(Keys)
    BY <1>0 DEF L1Sound, CacheTypeOK
  <2> QED BY <1>0, <1>t, <2>1, Zenon DEF CacheTypeOK, Redises
<1>1. ASSUME NEW c \in Calls, NEW k \in Keys, HitL1(c, k)
      PROVE  CacheTypeOK'
  <2>1. UNCHANGED <<linked, now, redis, call, sets, readBack>> /\ Serve(k, EntryOf(k).value)
    BY <1>1 DEF HitL1
  <2>2. EntryOf(k).value \in Values
    BY <1>0, <1>1, HitUses DEF Uses, Entries
  <2>3. served' \in [Keys -> Values \cup {NoValue}]
    BY <2>1, <2>2, ServedTyped
  <2> QED BY <1>0, <1>t, <2>1, <2>3 DEF CacheTypeOK
<1>2. ASSUME NEW c \in Calls, NEW k \in Keys, MissL1(c, k)
      PROVE  CacheTypeOK'
  <2> DEFINE step == IF linked THEN [stage |-> "missed", key |-> k] ELSE Unfound(k)
  <2>1. UNCHANGED <<linked, now, redis, sets, served, readBack>> /\ Enter(c, step)
    BY <1>2 DEF MissL1
  <2>2. step \in Steps
    BY StepsTyped
  <2> HIDE DEF step
  <2>3. call' \in [Calls -> Steps]
    BY <2>1, <2>2, CallTyped
  <2> QED BY <1>0, <1>t, <2>1, <2>3 DEF CacheTypeOK
<1>3. ASSUME NEW c \in Calls, NEW k \in Keys, NEW x \in Nat, SetL1(c, k, x)
      PROVE  CacheTypeOK'
  <2>1. /\ UNCHANGED <<store, linked, now, redis, served>>
        /\ sets' \in 0..MaxSets /\ call' \in [Calls -> Steps] /\ readBack' \subseteq Keys
    BY <1>0, <1>3, SetTyped
  <2> QED BY <1>0, <1>t, <2>1 DEF CacheTypeOK
<1>4. ASSUME NEW c \in Calls, NEW k \in Keys, Sets(c, k)
      PROVE  CacheTypeOK'
  BY <1>3, <1>4, SetsAre
<1>5. ASSUME NEW c \in Calls, Answer(c)
      PROVE  CacheTypeOK'
  <2>1. SetL1(c, call[c].key, Never) /\ call[c].key \in Keys /\ Never \in Nat
    BY <1>5, CallIs DEF Answer, Never
  <2> QED BY <1>3, <2>1
<1>6. ASSUME NEW c \in Calls, HitL2(c) \/ MissL2(c) \/ NoAnswer(c) \/ RedisError(c)
      PROVE  CacheTypeOK'
  <2> DEFINE k == call[c].key
  <2>1. /\ UNCHANGED <<linked, now, redis, sets, served, readBack>>
        /\ call[c].stage \in {"missed", "asking", "storing"}
    BY <1>6 DEF HitL2, MissL2, NoAnswer, RedisError
  <2>2. k \in Keys
    BY <2>1, CallIs
  <2>3. \E step \in Steps : Enter(c, step)
    <3>1. CASE HitL2(c)
      <4>1. /\ redis[k] # NoEntry
            /\ Enter(c, [stage |-> "warming", key |-> k, value |-> redis[k].value])
        BY <3>1 DEF HitL2
      <4>2. redis[k].value \in Values
        BY <1>0, <2>2, <4>1 DEF Redises
      <4> HIDE DEF k
      <4> QED BY <2>2, <4>1, <4>2, StepsTyped
    <3>2. CASE MissL2(c)
      BY <2>2, <3>2, StepsTyped DEF MissL2
    <3>3. CASE NoAnswer(c)
      BY <3>3, StepsTyped DEF NoAnswer
    <3>4. CASE RedisError(c)
      BY <2>2, <3>4, StepsTyped DEF RedisError
    <3> QED BY <1>6, <3>1, <3>2, <3>3, <3>4
  <2>4. call' \in [Calls -> Steps]
    BY <2>3, CallTyped
  <2> QED BY <1>0, <1>t, <2>1, <2>4 DEF CacheTypeOK
<1>7. ASSUME NEW c \in Calls, SetL2(c)
      PROVE  CacheTypeOK'
  <2> DEFINE k == call[c].key
             v == call[c].value
  <2>1. /\ UNCHANGED <<linked, now, sets, served, readBack>> /\ Enter(c, AtRest)
        /\ call[c].stage = "storing"
        /\ redis' = [redis EXCEPT ![k] = [value |-> v, expires |-> now + Ttl]]
    BY <1>7 DEF SetL2
  <2>2. k \in Keys /\ v \in Values
    BY <2>1, CallIs
  <2> HIDE DEF k, v
  <2>3. redis' \in Redises
    BY <2>1, <2>2, RedisTyped
  <2>4. call' \in [Calls -> Steps]
    BY <2>1, StepsTyped, CallTyped
  <2> QED BY <1>0, <1>t, <2>1, <2>3, <2>4 DEF CacheTypeOK
<1>8. ASSUME NEW c \in Calls,
             WarmObject(c) \/ WarmResponse(c) \/ WarmText(c) \/ WarmSummary(c)
      PROVE  CacheTypeOK'
  <2> DEFINE k == call[c].key
             v == call[c].value
  <2>1. /\ UNCHANGED <<linked, now, redis, sets>> /\ Enter(c, AtRest) /\ Serve(k, v)
        /\ call[c].stage = "warming" /\ readBack' = readBack \cup {k}
    BY <1>8 DEF WarmObject, WarmResponse, WarmText, WarmSummary, Warm
  <2>2. k \in Keys /\ v \in Values
    BY <2>1, CallIs
  <2> HIDE DEF k, v
  <2>3. served' \in [Keys -> Values \cup {NoValue}]
    BY <2>1, <2>2, ServedTyped
  <2>4. call' \in [Calls -> Steps]
    BY <2>1, StepsTyped, CallTyped
  <2> QED BY <1>0, <1>t, <2>1, <2>2, <2>3, <2>4 DEF CacheTypeOK
<1>9. ASSUME NEW k \in Keys, SetElsewhere(k)
      PROVE  CacheTypeOK'
  <2>1. /\ UNCHANGED <<linked, now, call, served, readBack>>
        /\ sets' \in 0..MaxSets /\ sets + 1 \in Values
        /\ redis' = [redis EXCEPT ![k] = [value |-> sets + 1, expires |-> now + Ttl]]
    BY <1>0, <1>9 DEF SetElsewhere, CacheTypeOK, Values, LeadCacheAssumption
  <2>2. redis' \in Redises
    BY <2>1, RedisTyped
  <2> QED BY <1>0, <1>t, <2>1, <2>2 DEF CacheTypeOK
<1>10. ASSUME NEW k \in Keys, EvictFullText(k)
       PROVE  CacheTypeOK'
  <2>1. UNCHANGED <<linked, now, redis, call, sets, served, readBack>>
    BY <1>10 DEF EvictFullText
  <2> QED BY <1>0, <1>t, <2>1 DEF CacheTypeOK
<1>11. ASSUME NewProcess
       PROVE  CacheTypeOK'
  <2>1. /\ UNCHANGED <<now, redis, sets, served>> /\ readBack' = {}
        /\ linked' \in BOOLEAN /\ call' = [c \in Calls |-> AtRest]
    BY <1>11 DEF NewProcess, Connections
  <2>2. call' \in [Calls -> Steps]
    BY <2>1, StepsTyped
  <2> QED BY <1>0, <1>t, <2>1, <2>2 DEF CacheTypeOK
<1>12. ASSUME Tick
       PROVE  CacheTypeOK'
  <2>1. /\ UNCHANGED <<linked, call, sets, served, readBack>> /\ now' \in 0..MaxTime
        /\ redis' = [k \in Keys |-> IF redis[k].expires <= now + 1 THEN NoEntry ELSE redis[k]]
    BY <1>0, <1>12 DEF Tick, CacheTypeOK, LeadCacheAssumption
  <2>2. redis' \in Redises
    BY <1>0, <2>1 DEF Redises
  <2> QED BY <1>0, <1>t, <2>1, <2>2 DEF CacheTypeOK
<1> QED BY <1>1, <1>2, <1>4, <1>5, <1>6, <1>7, <1>8, <1>9, <1>10, <1>11, <1>12, NextIs

--------------------------------------------------------------------------------

LEMMA InitOrder == CacheInit => CacheTypeOK /\ Order
<1> SUFFICES ASSUME CacheInit PROVE CacheTypeOK /\ Order
  OBVIOUS
<1>1. CacheTypeOK
  <2>0. linked \in BOOLEAN /\ orderly \in BOOLEAN
    BY Zenon DEF CacheInit, Connections
  <2>1. store \in Stores /\ now \in 0..MaxTime /\ sets \in 0..MaxSets /\ readBack \subseteq Keys
    BY LeadCacheAssumption DEF CacheInit, LeadCacheAssumption
  <2>2. lru \in Seq(Entries) /\ recency \in Seq(Keys)
    BY DEF CacheInit
  <2>3. redis \in [Keys -> {NoEntry} \cup [value : Values, expires : Nat]]
    BY DEF CacheInit
  <2>4. call \in [Calls -> Steps] /\ served \in [Keys -> Values \cup {NoValue}]
    BY DEF CacheInit, Steps, NothingServed
  <2> QED BY <2>0, <2>1, <2>2, <2>3, <2>4 DEF CacheTypeOK
<1>2. L1Sound
  BY DEF CacheInit, L1Sound, Once, KeysOf, IsInjective
<1>3. OneCall /\ InUseOrder
  BY DEF CacheInit, OneCall, InUseOrder, Before, AtRest
<1> QED BY <1>1, <1>2, <1>3 DEF Order

LEMMA OrderStep ==
    ASSUME CacheTypeOK, Order, [CacheNext]_cacheVars
    PROVE  CacheTypeOK' /\ Order'
<1>1. CASE CacheNext
  BY <1>1, TypeStep, SoundStep, OneCallStep DEF Order
<1>2. CASE UNCHANGED cacheVars
  BY <1>2 DEF cacheVars, CacheTypeOK, Order, L1Sound, OneCall, InUseOrder, Holds
<1> QED BY <1>1, <1>2

LEMMA OrderHolds == CacheSpec => [](CacheTypeOK /\ Order)
<1>1. CacheTypeOK /\ Order /\ [CacheNext]_cacheVars => (CacheTypeOK /\ Order)'
  BY OrderStep
<1> QED BY InitOrder, <1>1, PTL DEF CacheSpec

\* The types of the cache: whatever its calls, the other processes, Redis and the
\* clock do, each variable keeps to the values it may have.
THEOREM TypeCorrect == CacheSpec => []CacheTypeOK
BY OrderHolds, PTL

\* The place of a key in a sequence without repetitions.
LEMMA PositionIs ==
    ASSUME NEW s \in Seq(Keys), IsInjective(s), NEW i \in 1..Len(s)
    PROVE  Position(s, s[i]) = i
BY DEF Position, IsInjective

\* An overflow of L1 removes the key that was used longest ago (_LRUCache): what L1
\* holds is in the order of the last uses, whichever calls overlap; of the summaries,
\* as long as none do.
THEOREM EvictsLeastRecentlyUsed == CacheSpec => []LeastRecentlyUsedFirst
<1>1. CacheTypeOK /\ Order => LeastRecentlyUsedFirst
  <2> SUFFICES ASSUME CacheTypeOK, Order, store = "summaries" => orderly,
                      NEW i \in 1..Len(lru), NEW j \in 1..Len(lru), i < j
               PROVE  Position(recency, lru[i].key) < Position(recency, lru[j].key)
    BY DEF LeastRecentlyUsedFirst
  <2>1. InUseOrder /\ L1Sound
    BY DEF Order
  <2>2. lru[i].key \in Keys /\ lru[j].key \in Keys
    <3>1. lru \in Seq(Entries)
      BY <2>1 DEF L1Sound
    <3>2. lru[i] \in Entries /\ lru[j] \in Entries
      BY <3>1
    <3> QED BY <3>2 DEF Entries
  <2>3. Before(lru, lru[i].key, lru[j].key)
    BY DEF Before
  <2>4. PICK a \in 1..Len(recency), b \in 1..Len(recency) :
          a < b /\ recency[a] = lru[i].key /\ recency[b] = lru[j].key
    BY <2>1, <2>2, <2>3 DEF InUseOrder, Earlier
  <2>5. Position(recency, recency[a]) = a /\ Position(recency, recency[b]) = b
    BY <2>1, PositionIs DEF L1Sound
  <2> QED BY <2>4, <2>5
<1> QED BY OrderHolds, <1>1, PTL

--------------------------------------------------------------------------------

\* An L1 without repetitions has as many entries as keys.
LEMMA KeysCounted ==
    ASSUME NEW s \in Seq(Entries)
    PROVE  /\ IsFiniteSet(KeysOf(s)) /\ Cardinality(KeysOf(s)) <= Len(s)
           /\ Once(s) => Cardinality(KeysOf(s)) = Len(s)
<1> DEFINE n == Len(s)
           f == [i \in 1..n |-> s[i].key]
<1>1. n \in Nat
  OBVIOUS
<1> HIDE DEF n
<1>2. IsFiniteSet(1..n) /\ Cardinality(1..n) = n
  BY <1>1, FS_Interval
<1>3. f \in Surjection(1..n, KeysOf(s))
  BY DEF Surjection, KeysOf, n
<1>4. Once(s) => f \in Injection(1..n, KeysOf(s))
  BY DEF Once, Injection, IsInjective, KeysOf, n
<1> HIDE DEF f
<1>5. /\ IsFiniteSet(KeysOf(s)) /\ Cardinality(KeysOf(s)) <= Cardinality(1..n)
      /\ Cardinality(KeysOf(s)) = Cardinality(1..n) <=> f \in Injection(1..n, KeysOf(s))
  BY <1>2, <1>3, FS_Surjection
<1> QED BY <1>2, <1>4, <1>5 DEF n

\* L1 stays within its size when it brings no key in, or has read it back,
LEMMA NothingNew ==
    ASSUME L1Sound, Sized, IsFiniteSet(readBack'),
           KeysOf(lru') \ readBack' \subseteq KeysOf(lru) \ readBack
    PROVE  IsFiniteSet(readBack') /\ Cardinality(KeysOf(lru') \ readBack') <= MaxSize
<1> DEFINE A == KeysOf(lru) \ readBack
           B == KeysOf(lru') \ readBack'
<1>1. IsFiniteSet(KeysOf(lru))
  BY KeysCounted DEF L1Sound
<1>2. IsFiniteSet(A) /\ Cardinality(A) <= MaxSize
  BY <1>1, FS_Difference DEF Sized
<1>3. B \subseteq A
  OBVIOUS
<1> HIDE DEF A, B
<1>4. IsFiniteSet(B) /\ Cardinality(B) <= Cardinality(A)
  BY <1>2, <1>3, FS_Subset
<1>5. Cardinality(A) \in Nat /\ Cardinality(B) \in Nat /\ MaxSize \in Nat
  BY <1>2, <1>4, FS_CardinalityType, LeadCacheAssumption DEF LeadCacheAssumption
<1>6. Cardinality(B) <= MaxSize
  BY <1>2, <1>4, <1>5
<1> QED BY <1>6 DEF B

\* and when it has just made room.
LEMMA MadeRoom ==
    ASSUME L1Sound', Len(lru') <= MaxSize, readBack' = {}
    PROVE  Sized'
<1>1. /\ IsFiniteSet(KeysOf(lru')) /\ Cardinality(KeysOf(lru')) <= Len(lru')
      /\ Len(lru') \in Nat
  BY KeysCounted DEF L1Sound
<1>2. Cardinality(KeysOf(lru')) \in Nat /\ MaxSize \in Nat
  BY <1>1, FS_CardinalityType, LeadCacheAssumption DEF LeadCacheAssumption
<1>3. KeysOf(lru') \ readBack' = KeysOf(lru')
  OBVIOUS
<1>4. IsFiniteSet(readBack')
  BY FS_EmptySet
<1> QED BY <1>1, <1>2, <1>3, <1>4 DEF Sized

LEMMA SizedStep ==
    ASSUME CacheTypeOK, Order, Sized, [CacheNext]_cacheVars
    PROVE  Sized'
<1>0. /\ L1Sound /\ L1Sound' /\ store' \in Stores /\ IsFiniteSet(readBack)
      /\ Len(lru) \in Nat /\ Len(lru') \in Nat /\ MaxSize \in Nat
      /\ store \in {"objects", "responses"} => Len(lru) <= MaxSize
  BY OrderStep, LeadCacheAssumption DEF Order, CacheTypeOK, L1Sound, Sized, LeadCacheAssumption
<1>s. ASSUME UNCHANGED store, UNCHANGED readBack, Len(lru') <= Len(lru),
             KeysOf(lru') \subseteq KeysOf(lru)
      PROVE  Sized'
  <2>1. IsFiniteSet(readBack') /\ Cardinality(KeysOf(lru') \ readBack') <= MaxSize
    BY <1>0, <1>s, NothingNew
  <2>2. store' \in {"objects", "responses"} => Len(lru') <= MaxSize
    BY <1>0, <1>s
  <2> QED BY <2>1, <2>2 DEF Sized
<1>1. ASSUME NEW c \in Calls, NEW k \in Keys, HitL1(c, k)
      PROVE  Sized'
  <2>1. UNCHANGED <<store, readBack>>
    BY <1>1 DEF HitL1
  <2>2. /\ Place(k) \in 1..Len(lru) /\ lru[Place(k)].key = k /\ Len(lru') = Len(lru)
        /\ Renewed(lru', lru, k, EntryOf(k))
    BY <1>0, <1>1, HitUses DEF Uses
  <2>3. KeysOf(lru') \subseteq KeysOf(lru)
    BY <2>2 DEF Renewed, KeysOf
  <2> QED BY <1>0, <1>s, <2>1, <2>2, <2>3
<1>2. ASSUME NEW k, lru' = Without(k), UNCHANGED <<store, readBack>>
      PROVE  Sized'
  <2>1. Within(lru', lru)
    BY <1>0, <1>2, WithoutLeaves DEF L1Sound
  <2>2. Len(lru') <= Len(lru) /\ KeysOf(lru') \subseteq KeysOf(lru)
    BY <2>1, WithinKeys DEF Within
  <2> QED BY <1>2, <1>s, <2>2
<1>3. ASSUME NEW c \in Calls, NEW k \in Keys, NEW x \in Nat, SetL1(c, k, x)
      PROVE  Sized'
  <2>1. Len(lru') <= MaxSize /\ readBack' = {}
    BY <1>0, <1>3, SetUses DEF SetL1
  <2> QED BY <1>0, <2>1, MadeRoom
<1>4. ASSUME NEW c \in Calls, Answer(c)
      PROVE  Sized'
  <2>1. SetL1(c, call[c].key, Never) /\ call[c].key \in Keys /\ Never \in Nat
    BY <1>4, CallIs DEF Answer, Never
  <2> QED BY <1>3, <2>1
<1>5. ASSUME UNCHANGED <<store, lru, readBack>>
      PROVE  Sized'
  BY <1>0, <1>5, <1>s
<1>6. ASSUME NEW c \in Calls,
             WarmObject(c) \/ WarmResponse(c) \/ WarmText(c) \/ WarmSummary(c)
      PROVE  Sized'
  <2> DEFINE k == call[c].key
  <2>1. store' = store /\ readBack' = readBack \cup {k} /\ call[c].stage = "warming"
    BY <1>6 DEF WarmObject, WarmResponse, WarmText, WarmSummary, Warm
  <2>2. KeysOf(lru') \subseteq KeysOf(lru) \cup {k}
    <3>1. CASE WarmSummary(c) /\ Holds(k)
      <4>1. call[c].value \in Values /\ k \in Keys
        BY <2>1, CallIs
      <4>2. lru' = Overwritten(k, call[c].value) /\ Used(k)
        BY <3>1 DEF WarmSummary, Warm
      <4> QED BY <1>0, <4>1, <4>2, OverwritesKeep
    <3>2. CASE ~(WarmSummary(c) /\ Holds(k))
      BY <1>0, <1>6, <3>2, WarmUses DEF Uses, Renewed
    <3> QED BY <3>1, <3>2
  <2>3. store \in {"objects", "responses"} => Len(lru') <= MaxSize
    BY <1>0, <1>6, WarmUses DEF WarmSummary
  <2> HIDE DEF k
  <2>4. IsFiniteSet(readBack')
    BY <1>0, <2>1, FS_AddElement
  <2>5. KeysOf(lru') \ readBack' \subseteq KeysOf(lru) \ readBack
    BY <2>1, <2>2
  <2> QED BY <1>0, <2>1, <2>3, <2>4, <2>5, NothingNew DEF Sized
<1>7. ASSUME NewProcess
      PROVE  Sized'
  <2>1. Len(lru') <= MaxSize /\ readBack' = {}
    BY <1>0, <1>7 DEF NewProcess
  <2> QED BY <1>0, <2>1, MadeRoom
<1>8. CASE CacheNext
  <2>1. ASSUME NEW c \in Calls, NEW k \in Keys, MissL1(c, k)
        PROVE  Sized'
    BY <1>2, <2>1 DEF MissL1
  <2>2. ASSUME NEW c \in Calls, NEW k \in Keys, Sets(c, k)
        PROVE  Sized'
    BY <1>3, <2>2, SetsAre
  <2>3. ASSUME NEW c \in Calls,
               HitL2(c) \/ MissL2(c) \/ NoAnswer(c) \/ SetL2(c) \/ RedisError(c)
        PROVE  Sized'
    <3>1. UNCHANGED <<store, lru, readBack>>
      BY <2>3 DEF HitL2, MissL2, NoAnswer, SetL2, RedisError
    <3> QED BY <1>5, <3>1
  <2>4. ASSUME NEW k \in Keys, EvictFullText(k)
        PROVE  Sized'
    BY <1>2, <2>4 DEF EvictFullText
  <2>5. (\E k \in Keys : SetElsewhere(k)) \/ Tick => Sized'
    BY <1>5 DEF SetElsewhere, Tick
  <2> QED BY <1>1, <1>4, <1>6, <1>7, <1>8, <2>1, <2>2, <2>3, <2>4, <2>5, NextIs
<1>9. CASE UNCHANGED cacheVars
  BY <1>5, <1>9 DEF cacheVars
<1> QED BY <1>8, <1>9

LEMMA SizedHolds == CacheSpec => []Sized
<1>1. CacheInit => Sized
  <2> SUFFICES ASSUME CacheInit PROVE Sized
    OBVIOUS
  <2>1. readBack = {} /\ KeysOf(lru) = {} /\ Len(lru) = 0 /\ MaxSize \in Nat
    BY LeadCacheAssumption DEF CacheInit, KeysOf, LeadCacheAssumption
  <2>2. IsFiniteSet({}) /\ Cardinality({}) = 0
    BY FS_EmptySet
  <2>3. KeysOf(lru) \ readBack = {}
    BY <2>1
  <2> QED BY <2>1, <2>2, <2>3 DEF Sized
<1>2. Sized /\ (CacheTypeOK /\ Order) /\ [CacheNext]_cacheVars => Sized'
  BY SizedStep
<1> QED BY <1>1, <1>2, OrderHolds, PTL DEF CacheSpec

\* L1 outgrows its size by no more than what has been read back since the last set
\* (get_full_text() and get_summary() make no room), and where a warming makes room,
\* not at all (LeadCache and LLMResponseCache).
THEOREM OverflowIsBounded == CacheSpec => []OverflowIsReadBack
<1>1. (CacheTypeOK /\ Order) /\ Sized => OverflowIsReadBack
  <2> SUFFICES ASSUME Order, Sized PROVE Len(lru) <= MaxSize + Cardinality(readBack)
    BY DEF Sized, OverflowIsReadBack
  <2> DEFINE K == KeysOf(lru)
             A == K \ readBack
  <2>1. IsFiniteSet(K) /\ Cardinality(K) = Len(lru) /\ Len(lru) \in Nat
    BY KeysCounted DEF Order, L1Sound
  <2>2. IsFiniteSet(readBack) /\ Cardinality(A) <= MaxSize
    BY DEF Sized
  <2> HIDE DEF K
  <2>3. /\ IsFiniteSet(A) /\ Cardinality(A) = Cardinality(K) - Cardinality(K \cap readBack)
    BY <2>1, FS_Difference
  <2>4. K \cap readBack \subseteq readBack
    OBVIOUS
  <2>5. IsFiniteSet(K \cap readBack) /\ Cardinality(K \cap readBack) <= Cardinality(readBack)
    BY <2>2, <2>4, FS_Subset
  <2>6. /\ Cardinality(readBack) \in Nat /\ Cardinality(K \cap readBack) \in Nat
        /\ Cardinality(A) \in Nat /\ MaxSize \in Nat
    BY <2>2, <2>3, <2>5, FS_CardinalityType, LeadCacheAssumption DEF LeadCacheAssumption
  <2> HIDE DEF A
  <2> QED BY <2>1, <2>2, <2>3, <2>5, <2>6
<1> QED BY OrderHolds, SizedHolds, <1>1, PTL

--------------------------------------------------------------------------------

\* What is compared are numbers.
LEMMA Numbers ==
    ASSUME CacheTypeOK
    PROVE  /\ sets \in Int /\ lru \in Seq(Entries)
           /\ \A k \in Keys : served[k] \in Int
           /\ \A i \in 1..Len(lru) : lru[i].key \in Keys /\ lru[i].value \in Int
           /\ \A k \in Keys : redis[k] # NoEntry => redis[k].value \in Int
<1>1. sets \in Int /\ lru \in Seq(Entries)
  BY DEF CacheTypeOK
<1>2. \A k \in Keys : served[k] \in Int
  <2>1. served \in [Keys -> Values \cup {NoValue}] /\ MaxSets \in Nat
    BY LeadCacheAssumption DEF CacheTypeOK, LeadCacheAssumption
  <2> QED BY <2>1 DEF Values, NoValue
<1>3. \A i \in 1..Len(lru) : lru[i].key \in Keys /\ lru[i].value \in Int
  <2>1. \A i \in 1..Len(lru) : lru[i] \in Entries
    BY <1>1
  <2> QED BY <2>1 DEF Entries, Values
<1>4. \A k \in Keys : redis[k] # NoEntry => redis[k].value \in Int
  <2>1. redis \in [Keys -> {NoEntry} \cup [value : Values, expires : Nat]]
    BY DEF CacheTypeOK
  <2> QED BY <2>1 DEF Values
<1> QED BY <1>1, <1>2, <1>3, <1>4

\* A step while the other calls are idle.
Alone(c) == \A d \in Calls : d # c => call[d].stage = "idle"

LEMMA HitRises ==
    ASSUME CacheTypeOK, Order, Rising, orderly, orderly', NEW c \in Calls, NEW k \in Keys, HitL1(c, k)
    PROVE  Rising' /\ served'[k] >= served[k] /\ \A j \in Keys : j # k => served'[j] = served[j]
<1> DEFINE e == EntryOf(k)
           v == e.value
           p == Place(k)
<1>1. /\ UNCHANGED <<linked, redis, call, sets>> /\ Serve(k, v) /\ KeepOrder
  BY DEF HitL1, BeginCall
<1>2. /\ p \in 1..Len(lru) /\ lru[p].key = k /\ e = lru[p]
      /\ Renewed(lru', lru, k, e)
  BY HitUses DEF Uses, Order, EntryOf
<1>3. \A d \in Calls : call[d].stage = "idle"
  BY <1>1, BeginsAlone
<1>4. \A j \in Keys : served'[j] = IF j = k THEN v ELSE served[j]
  BY <1>1 DEF Serve, CacheTypeOK
<1>5. ServedIsMade /\ CachedIsNewer /\ StoredIsNewer
  BY DEF Rising
<1> HIDE DEF e, p
<1>6. v \in Int /\ served[k] <= v /\ v <= sets
  BY <1>2, <1>5, Numbers DEF CachedIsNewer
<1>7. \A i \in 1..Len(lru') : \E m \in 1..Len(lru) : lru'[i] = lru[m]
  BY <1>2 DEF Renewed
<1>8. \A i \in 1..Len(lru') : lru'[i].key = k => lru'[i] = e
  BY <1>2 DEF Renewed
<1> HIDE DEF v
<1>9. ServedIsMade'
  BY <1>1, <1>4, <1>5, <1>6 DEF ServedIsMade
<1>10. CachedIsNewer'
  <2> SUFFICES ASSUME NEW i \in 1..Len(lru')
               PROVE  served'[lru'[i].key] <= lru'[i].value /\ lru'[i].value <= sets
    BY <1>1 DEF CachedIsNewer
  <2>1. PICK m \in 1..Len(lru) : lru'[i] = lru[m]
    BY <1>7
  <2>2. lru[m].key \in Keys /\ served[lru[m].key] <= lru[m].value /\ lru[m].value <= sets
    BY <1>5, Numbers DEF CachedIsNewer
  <2>3. CASE lru[m].key = k
    <3>1. lru'[i].value = v
      BY <1>8, <2>1, <2>3 DEF v
    <3> QED BY <1>4, <1>6, <2>1, <2>2, <2>3, <3>1
  <2>4. CASE lru[m].key # k
    BY <1>4, <2>1, <2>2, <2>4
  <2> QED BY <2>3, <2>4
<1>11. StoredIsNewer'
  <2> SUFFICES ASSUME linked, NEW j \in Keys, redis[j] # NoEntry
               PROVE  /\ served'[j] <= redis[j].value /\ redis[j].value <= sets
                      /\ \A i \in 1..Len(lru') : lru'[i].key = j => lru'[i].value <= redis[j].value
    BY <1>1 DEF StoredIsNewer
  <2>1. /\ served[j] <= redis[j].value /\ redis[j].value <= sets
        /\ \A i \in 1..Len(lru) : lru[i].key = j => lru[i].value <= redis[j].value
    BY <1>3, <1>5 DEF StoredIsNewer
  <2>2. \A i \in 1..Len(lru') : lru'[i].key = j => lru'[i].value <= redis[j].value
    BY <1>7, <2>1
  <2>3. served'[j] <= redis[j].value
    BY <1>2, <1>4, <2>1 DEF v
  <2> QED BY <2>1, <2>2, <2>3
<1>12. CallsCarry'
  BY <1>1, <1>3 DEF CallsCarry
<1> QED BY <1>4, <1>6, <1>9, <1>10, <1>11, <1>12, Numbers DEF Rising

LEMMA SetRises ==
    ASSUME CacheTypeOK, Order, Rising, orderly, orderly', NEW c \in Calls, NEW k \in Keys,
           NEW x \in Nat, SetL1(c, k, x), Alone(c), call[c].stage \in {"idle", "asking"}
    PROVE  Rising' /\ served' = served
<1> DEFINE e == [key |-> k, value |-> sets + 1, expires |-> x]
           step == IF linked THEN [stage |-> "storing", key |-> k, value |-> sets + 1] ELSE AtRest
<1>1. UNCHANGED <<linked, redis, served>> /\ sets' = sets + 1 /\ Enter(c, step)
  BY DEF SetL1
<1>2. e.key = k /\ e.value = sets + 1
  OBVIOUS
<1>3. Renewed(lru', lru, k, e)
  BY SetUses DEF Uses, Order
<1>4. \A d \in Calls : call'[d] = IF d = c THEN step ELSE call[d]
  BY <1>1 DEF Enter, CacheTypeOK
<1>5. /\ linked => step.stage = "storing" /\ step.key = k /\ step.value = sets + 1
      /\ ~linked => step.stage = "idle"
  BY DEF AtRest
<1>6. ServedIsMade /\ CachedIsNewer /\ StoredIsNewer
  BY DEF Rising
<1> HIDE DEF e, step
<1>7. \A i \in 1..Len(lru') :
        lru'[i] = e \/ (lru'[i].key # k /\ \E m \in 1..Len(lru) : lru'[i] = lru[m])
  BY <1>3 DEF Renewed
<1>8. ServedIsMade'
  BY <1>1, <1>6, Numbers DEF ServedIsMade
<1>9. CachedIsNewer'
  <2> SUFFICES ASSUME NEW i \in 1..Len(lru')
               PROVE  served[lru'[i].key] <= lru'[i].value /\ lru'[i].value <= sets + 1
    BY <1>1 DEF CachedIsNewer
  <2>1. CASE lru'[i] = e
    BY <1>2, <1>6, <2>1, Numbers DEF ServedIsMade
  <2>2. CASE lru'[i] # e
    <3>1. PICK m \in 1..Len(lru) : lru'[i] = lru[m]
      BY <1>7, <2>2
    <3>2. served[lru[m].key] <= lru[m].value /\ lru[m].value <= sets
      BY <1>6 DEF CachedIsNewer
    <3> QED BY <3>1, <3>2, Numbers
  <2> QED BY <2>1, <2>2
<1>10. StoredIsNewer'
  <2> SUFFICES ASSUME linked, NEW j \in Keys, redis[j] # NoEntry
               PROVE  /\ served[j] <= redis[j].value /\ redis[j].value <= sets + 1
                      /\ \A i \in 1..Len(lru') : lru'[i].key = j =>
                           \/ lru'[i].value <= redis[j].value
                           \/ \E d \in Calls : call'[d].stage = "storing" /\ call'[d].key = j
    BY <1>1 DEF StoredIsNewer
  <2>1. /\ served[j] <= redis[j].value /\ redis[j].value <= sets
        /\ \A i \in 1..Len(lru) : lru[i].key = j => lru[i].value <= redis[j].value
    BY <1>6 DEF StoredIsNewer, Alone
  <2>2. redis[j].value <= sets + 1
    BY <2>1, Numbers
  <2>3. ASSUME NEW i \in 1..Len(lru'), lru'[i].key = j
        PROVE  \/ lru'[i].value <= redis[j].value
               \/ \E d \in Calls : call'[d].stage = "storing" /\ call'[d].key = j
    <3>1. CASE lru'[i] = e
      BY <1>2, <1>4, <1>5, <2>3, <3>1
    <3>2. CASE lru'[i] # e
      BY <1>7, <2>1, <2>3, <3>2
    <3> QED BY <3>1, <3>2
  <2> QED BY <2>1, <2>2, <2>3
<1>11. CallsCarry'
  <2> SUFFICES ASSUME NEW d \in Calls
               PROVE  \/ call'[d].stage = "idle"
                      \/ call'[d].stage = "storing" /\ call'[d].value = sets + 1 /\ linked
    BY <1>1 DEF CallsCarry
  <2> QED BY <1>4, <1>5 DEF Alone
<1> QED BY <1>1, <1>8, <1>9, <1>10, <1>11 DEF Rising

LEMMA WarmRises ==
    ASSUME CacheTypeOK, Order, Rising, orderly, orderly', NEW c \in Calls,
           WarmObject(c) \/ WarmResponse(c) \/ WarmText(c) \/ WarmSummary(c)
    PROVE  /\ Rising' /\ served'[call[c].key] >= served[call[c].key]
           /\ \A j \in Keys : j # call[c].key => served'[j] = served[j]
<1> DEFINE k == call[c].key
           v == call[c].value
           e == Warmed(c)
<1>1. /\ UNCHANGED <<linked, redis, sets>> /\ Serve(k, v) /\ Enter(c, AtRest)
      /\ call[c].stage = "warming"
  BY DEF WarmObject, WarmResponse, WarmText, WarmSummary, Warm
<1>2. k \in Keys /\ ~Holds(k) /\ Alone(c)
  BY <1>1, CallIs, StepsAlone DEF Order, OneCall, Alone
<1>3. Renewed(lru', lru, k, e) /\ e.key = k /\ e.value = v
  BY <1>2, WarmUses DEF Uses, Order, Warmed
<1>4. \A j \in Keys : served'[j] = IF j = k THEN v ELSE served[j]
  BY <1>1 DEF Serve, CacheTypeOK
<1>5. ServedIsMade /\ CachedIsNewer /\ StoredIsNewer /\ CallsCarry
  BY DEF Rising
<1>6. linked /\ redis[k] # NoEntry /\ v = redis[k].value
  BY <1>1, <1>5 DEF CallsCarry
<1>7. v \in Int /\ served[k] <= v /\ v <= sets
  BY <1>2, <1>5, <1>6, Numbers DEF StoredIsNewer
<1>8. \A d \in Calls : call'[d].stage = "idle"
  BY <1>1, <1>2 DEF Enter, CacheTypeOK, Alone, AtRest
<1> HIDE DEF k, v, e
<1>9. \A i \in 1..Len(lru') :
        lru'[i] = e \/ (lru'[i].key # k /\ \E m \in 1..Len(lru) : lru'[i] = lru[m])
  BY <1>3 DEF Renewed
<1>10. ServedIsMade'
  BY <1>1, <1>4, <1>5, <1>7 DEF ServedIsMade
<1>11. CachedIsNewer'
  <2> SUFFICES ASSUME NEW i \in 1..Len(lru')
               PROVE  served'[lru'[i].key] <= lru'[i].value /\ lru'[i].value <= sets
    BY <1>1 DEF CachedIsNewer
  <2>1. CASE lru'[i] = e
    BY <1>2, <1>3, <1>4, <1>7, <2>1
  <2>2. CASE lru'[i] # e
    <3>1. PICK m \in 1..Len(lru) : lru'[i] = lru[m] /\ lru[m].key # k
      BY <1>9, <2>2
    <3>2. /\ lru[m].key \in Keys
          /\ served[lru[m].key] <= lru[m].value /\ lru[m].value <= sets
      BY <1>5, Numbers DEF CachedIsNewer
    <3> QED BY <1>4, <3>1, <3>2
  <2> QED BY <2>1, <2>2
<1>12. StoredIsNewer'
  <2> SUFFICES ASSUME NEW j \in Keys, redis[j] # NoEntry
               PROVE  /\ served'[j] <= redis[j].value /\ redis[j].value <= sets
                      /\ \A i \in 1..Len(lru') : lru'[i].key = j => lru'[i].value <= redis[j].value
    BY <1>1 DEF StoredIsNewer
  <2>1. /\ served[j] <= redis[j].value /\ redis[j].value <= sets
        /\ \A i \in 1..Len(lru) : lru[i].key = j =>
             \/ lru[i].value <= redis[j].value
             \/ \E d \in Calls : call[d].stage = "storing" /\ call[d].key = j
    BY <1>5, <1>6 DEF StoredIsNewer
  <2>2. \A d \in Calls : call[d].stage # "storing"
    BY <1>1, <1>2 DEF Alone
  <2>3. served'[j] <= redis[j].value
    BY <1>4, <1>6, <1>7, <2>1
  <2>4. ASSUME NEW i \in 1..Len(lru'), lru'[i].key = j
        PROVE  lru'[i].value <= redis[j].value
    <3>1. CASE lru'[i] = e
      BY <1>3, <1>6, <1>7, <2>4, <3>1
    <3>2. CASE lru'[i] # e
      BY <1>9, <2>1, <2>2, <2>4, <3>2
    <3> QED BY <3>1, <3>2
  <2> QED BY <2>1, <2>3, <2>4
<1>13. CallsCarry'
  BY <1>8 DEF CallsCarry
<1> QED BY <1>2, <1>4, <1>7, <1>10, <1>11, <1>12, <1>13, Numbers DEF Rising, k

\* A key that leaves L1 takes nothing of this away,
LEMMA DropRises ==
    ASSUME CacheTypeOK, Order, Rising, orderly, NEW k, lru' = Without(k) \/ lru' = lru,
           UNCHANGED <<linked, redis, sets, served>>,
           \A d \in Calls : call[d].stage # "storing", CallsCarry'
    PROVE  Rising'
<1>1. \A i \in 1..Len(lru') : \E m \in 1..Len(lru) : lru'[i] = lru[m]
  BY WithoutLeaves DEF Within, Order, L1Sound
<1>2. ServedIsMade /\ CachedIsNewer /\ StoredIsNewer
  BY DEF Rising
<1>3. ServedIsMade'
  BY <1>2 DEF ServedIsMade
<1>4. CachedIsNewer'
  BY <1>1, <1>2 DEF CachedIsNewer
<1>5. StoredIsNewer'
  BY <1>1, <1>2 DEF StoredIsNewer
<1> QED BY <1>3, <1>4, <1>5 DEF Rising

\* nor does a value that expires in Redis, or a newer one that comes there.
LEMMA RedisRises ==
    ASSUME CacheTypeOK, Rising, orderly, UNCHANGED <<linked, lru, served>>,
           sets' \in Int, sets <= sets', CallsCarry',
           \A k \in Keys :
             \/ redis'[k] = redis[k]
                  /\ \A c \in Calls : ~ (call[c].stage = "storing" /\ call[c].key = k)
             \/ redis'[k] = NoEntry
             \/ redis'[k].value = sets'
    PROVE  Rising'
<1>2. ServedIsMade /\ CachedIsNewer /\ StoredIsNewer
  BY DEF Rising
<1>3. ServedIsMade'
  <2> SUFFICES ASSUME NEW k \in Keys PROVE served[k] <= sets'
    BY DEF ServedIsMade
  <2> QED BY <1>2, Numbers DEF ServedIsMade
<1>4. CachedIsNewer'
  <2> SUFFICES ASSUME NEW i \in 1..Len(lru)
               PROVE  served[lru[i].key] <= lru[i].value /\ lru[i].value <= sets'
    BY DEF CachedIsNewer
  <2> QED BY <1>2, Numbers DEF CachedIsNewer
<1>5. StoredIsNewer'
  <2> SUFFICES ASSUME linked, NEW k \in Keys, redis'[k] # NoEntry
               PROVE  /\ served[k] <= redis'[k].value /\ redis'[k].value <= sets'
                      /\ \A i \in 1..Len(lru) : lru[i].key = k => lru[i].value <= redis'[k].value
    BY DEF StoredIsNewer
  <2>1. CASE redis'[k] = redis[k]
               /\ \A c \in Calls : ~ (call[c].stage = "storing" /\ call[c].key = k)
    <3>1. /\ served[k] <= redis[k].value /\ redis[k].value <= sets /\ redis[k].value \in Int
          /\ \A i \in 1..Len(lru) : lru[i].key = k => lru[i].value <= redis[k].value
      BY <1>2, <2>1, Numbers DEF StoredIsNewer
    <3> QED BY <2>1, <3>1, Numbers
  <2>2. CASE redis'[k].value = sets'
    <3>1. \A i \in 1..Len(lru) : lru[i].value <= sets'
      BY <1>4 DEF CachedIsNewer
    <3> QED BY <1>3, <2>2, <3>1 DEF ServedIsMade
  <2> QED BY <2>1, <2>2
<1> QED BY <1>3, <1>4, <1>5 DEF Rising

\* When no call is under way there is nothing to carry.
LEMMA IdleCarries ==
    ASSUME \A d \in Calls : call'[d].stage = "idle"
    PROVE  CallsCarry'
BY DEF CallsCarry

LEMMA RisingStep ==
    ASSUME CacheTypeOK, Order, Rising, [CacheNext]_cacheVars, orderly'
    PROVE  Rising' /\ \A k \in Keys : served'[k] >= served[k]
<1>0. orderly /\ OneCall
  BY OrderIsLost DEF cacheVars, Order
<1>s. ASSUME served' = served
      PROVE  \A k \in Keys : served'[k] >= served[k]
  BY <1>s, Numbers
<1>i. ASSUME NEW c \in Calls, Alone(c), Enter(c, AtRest)
      PROVE  \A d \in Calls : call'[d].stage = "idle"
  BY <1>i DEF Enter, CacheTypeOK, Alone, AtRest
<1>1. ASSUME NEW c \in Calls, NEW k \in Keys, HitL1(c, k)
      PROVE  Rising' /\ \A j \in Keys : served'[j] >= served[j]
  BY <1>0, <1>1, HitRises, Numbers
<1>2. ASSUME NEW c \in Calls, NEW k \in Keys, MissL1(c, k)
      PROVE  Rising' /\ \A j \in Keys : served'[j] >= served[j]
  <2> DEFINE step == IF linked THEN [stage |-> "missed", key |-> k] ELSE Unfound(k)
  <2>1. /\ KeepOrder /\ lru' = Without(k) /\ UNCHANGED <<linked, redis, sets, served>>
        /\ Enter(c, step)
    BY <1>2 DEF MissL1, BeginCall
  <2>2. \A d \in Calls : call[d].stage = "idle"
    BY <2>1, BeginsAlone
  <2>3. step.stage \in {"idle", "asking"} \/ (step.stage = "missed" /\ linked)
    BY DEF Unfound, AtRest
  <2> HIDE DEF step
  <2>4. \A d \in Calls : call'[d] = IF d = c THEN step ELSE call[d]
    BY <2>1 DEF Enter, CacheTypeOK
  <2>5. CallsCarry'
    BY <2>1, <2>2, <2>3, <2>4 DEF CallsCarry
  <2> QED BY <1>0, <1>s, <2>1, <2>2, <2>5, DropRises
<1>3. ASSUME NEW c \in Calls, NEW k \in Keys, Sets(c, k)
      PROVE  Rising' /\ \A j \in Keys : served'[j] >= served[j]
  <2>1. PICK x \in Nat : SetL1(c, k, x)
    BY <1>3, SetsAre
  <2>2. KeepOrder
    BY <1>3, SetsAre, Zenon DEF BeginCall
  <2>3. Alone(c) /\ call[c].stage = "idle"
    BY <2>2, BeginsAlone DEF Alone
  <2> QED BY <1>0, <1>s, <2>1, <2>3, SetRises
<1>4. ASSUME NEW c \in Calls, Answer(c)
      PROVE  Rising' /\ \A j \in Keys : served'[j] >= served[j]
  <2>1. SetL1(c, call[c].key, Never) /\ call[c].key \in Keys /\ Never \in Nat
        /\ call[c].stage = "asking"
    BY <1>4, CallIs DEF Answer, Never
  <2>2. Alone(c)
    BY <1>0, <2>1, StepsAlone DEF Alone
  <2> QED BY <1>0, <1>s, <2>1, <2>2, SetRises
<1>5. ASSUME NEW c \in Calls, HitL2(c) \/ MissL2(c) \/ NoAnswer(c)
      PROVE  Rising' /\ \A j \in Keys : served'[j] >= served[j]
  <2> DEFINE k == call[c].key
  <2>1. /\ UNCHANGED <<linked, lru, redis, sets, served>>
        /\ call[c].stage \in {"missed", "asking"}
    BY <1>5 DEF HitL2, MissL2, NoAnswer
  <2>2. Alone(c)
    BY <1>0, <2>1, StepsAlone DEF Alone
  <2>3. CallsCarry'
    <3>1. CASE HitL2(c)
      <4> DEFINE step == [stage |-> "warming", key |-> k, value |-> redis[k].value]
      <4>1. Enter(c, step) /\ redis[k] # NoEntry /\ linked
        BY <1>0, <3>1 DEF HitL2, Rising, CallsCarry
      <4>2. step.stage = "warming" /\ step.key = k /\ step.value = redis[k].value
        OBVIOUS
      <4> HIDE DEF step, k
      <4>3. \A d \in Calls : call'[d] = IF d = c THEN step ELSE call[d]
        BY <4>1 DEF Enter, CacheTypeOK
      <4> QED BY <2>1, <2>2, <4>1, <4>2, <4>3 DEF CallsCarry, Alone
    <3>2. CASE MissL2(c) \/ NoAnswer(c)
      <4>0. /\ AtRest.stage \in {"idle", "asking"} /\ Unfound(k).stage \in {"idle", "asking"}
            /\ Enter(c, AtRest) \/ Enter(c, Unfound(k))
        BY <3>2 DEF MissL2, NoAnswer, Unfound, AtRest
      <4>1. PICK step : Enter(c, step) /\ step.stage \in {"idle", "asking"}
        BY <4>0
      <4>2. \A d \in Calls : call'[d] = IF d = c THEN step ELSE call[d]
        BY <4>1 DEF Enter, CacheTypeOK
      <4> QED BY <2>2, <4>1, <4>2 DEF CallsCarry, Alone
    <3> QED BY <1>5, <3>1, <3>2
  <2>4. \A d \in Calls : call[d].stage # "storing"
    BY <2>1, <2>2 DEF Alone
  <2> QED BY <1>0, <1>s, <2>1, <2>3, <2>4, DropRises
<1>6. ASSUME NEW c \in Calls, SetL2(c)
      PROVE  Rising' /\ \A j \in Keys : served'[j] >= served[j]
  <2> DEFINE k == call[c].key
  <2>1. /\ UNCHANGED <<linked, lru, sets, served>> /\ call[c].stage = "storing"
        /\ Enter(c, AtRest)
        /\ redis' = [redis EXCEPT ![k] = [value |-> call[c].value, expires |-> now + Ttl]]
    BY <1>6 DEF SetL2
  <2>2. Alone(c) /\ k \in Keys /\ call[c].value = sets
    BY <1>0, <2>1, StepsAlone, CallIs DEF Alone, Rising, CallsCarry
  <2>3. /\ redis'[k].value = sets
        /\ \A j \in Keys : j # k => redis'[j] = redis[j]
    BY <2>1, <2>2 DEF CacheTypeOK
  <2>4. \A j \in Keys : j # k =>
          \A d \in Calls : ~ (call[d].stage = "storing" /\ call[d].key = j)
    BY <2>2 DEF Alone
  <2>5. CallsCarry'
    BY <1>i, <2>1, <2>2, IdleCarries
  <2>6. sets' \in Int /\ sets <= sets'
    BY <2>1, Numbers
  <2> HIDE DEF k
  <2>7. \A j \in Keys :
          \/ redis'[j] = redis[j]
               /\ \A d \in Calls : ~ (call[d].stage = "storing" /\ call[d].key = j)
          \/ redis'[j] = NoEntry
          \/ redis'[j].value = sets'
    BY <2>1, <2>3, <2>4
  <2> QED BY <1>0, <1>s, <2>1, <2>5, <2>6, <2>7, RedisRises
<1>7. ASSUME NEW c \in Calls,
             WarmObject(c) \/ WarmResponse(c) \/ WarmText(c) \/ WarmSummary(c)
      PROVE  Rising' /\ \A j \in Keys : served'[j] >= served[j]
  BY <1>0, <1>7, WarmRises, Numbers
<1>8. ASSUME NEW c \in Calls, RedisError(c)
      PROVE  FALSE
  BY <1>8 DEF RedisError
<1>9. ASSUME NEW k \in Keys, SetElsewhere(k)
      PROVE  Rising' /\ \A j \in Keys : served'[j] >= served[j]
  <2>1. /\ UNCHANGED <<linked, lru, call, served>> /\ KeepOrder /\ sets' = sets + 1
        /\ redis' = [redis EXCEPT ![k] = [value |-> sets + 1, expires |-> now + Ttl]]
    BY <1>9 DEF SetElsewhere
  <2>2. \A d \in Calls : call[d].stage = "idle"
    BY <2>1, BeginsAlone
  <2>3. redis'[k].value = sets' /\ \A j \in Keys : j # k => redis'[j] = redis[j]
    BY <2>1 DEF CacheTypeOK
  <2>4. sets' \in Int /\ sets <= sets'
    BY <2>1, Numbers
  <2>5. CallsCarry'
    BY <2>1, <2>2, IdleCarries
  <2> QED BY <1>0, <1>s, <2>1, <2>2, <2>3, <2>4, <2>5, RedisRises
<1>10. ASSUME NEW k \in Keys, EvictFullText(k)
       PROVE  Rising' /\ \A j \in Keys : served'[j] >= served[j]
  <2>1. KeepOrder /\ lru' = Without(k) /\ UNCHANGED <<linked, redis, call, sets, served>>
    BY <1>10 DEF EvictFullText
  <2>2. \A d \in Calls : call[d].stage = "idle"
    BY <2>1, BeginsAlone
  <2>3. CallsCarry'
    BY <2>1, <2>2, IdleCarries
  <2> QED BY <1>0, <1>s, <2>1, <2>2, <2>3, DropRises
<1>11. ASSUME NewProcess
       PROVE  Rising' /\ \A j \in Keys : served'[j] >= served[j]
  <2>1. /\ lru' = <<>> /\ linked' = linked /\ UNCHANGED <<redis, sets, served>>
        /\ call' = [d \in Calls |-> AtRest]
    BY <1>11 DEF NewProcess
  <2>2. CallsCarry'
    BY <2>1, IdleCarries DEF AtRest
  <2>3. ServedIsMade /\ StoredIsNewer
    BY <1>0 DEF Rising
  <2>4. ServedIsMade' /\ CachedIsNewer' /\ StoredIsNewer'
    BY <2>1, <2>3 DEF ServedIsMade, CachedIsNewer, StoredIsNewer
  <2> QED BY <1>s, <2>1, <2>2, <2>4 DEF Rising
<1>12. ASSUME Tick
       PROVE  Rising' /\ \A j \in Keys : served'[j] >= served[j]
  <2>1. /\ UNCHANGED <<linked, lru, call, sets, served>> /\ \A d \in Calls : call[d] = AtRest
        /\ redis' = [k \in Keys |-> IF redis[k].expires <= now + 1 THEN NoEntry ELSE redis[k]]
    BY <1>12 DEF Tick
  <2>2. \A d \in Calls : call[d].stage = "idle"
    BY <2>1 DEF AtRest
  <2>3. CallsCarry'
    BY <2>1, <2>2, IdleCarries
  <2>4. sets' \in Int /\ sets <= sets'
    BY <2>1, Numbers
  <2>5. \A k \in Keys : redis'[k] = redis[k] \/ redis'[k] = NoEntry
    BY <2>1
  <2> QED BY <1>0, <1>s, <2>1, <2>2, <2>3, <2>4, <2>5, RedisRises
<1>13. ASSUME UNCHANGED cacheVars
       PROVE  Rising' /\ \A j \in Keys : served'[j] >= served[j]
  <2>1. UNCHANGED <<linked, lru, redis, call, sets, served>>
    BY <1>13 DEF cacheVars
  <2>2. ServedIsMade /\ CachedIsNewer /\ StoredIsNewer /\ CallsCarry
    BY <1>0 DEF Rising
  <2>3. ServedIsMade' /\ CachedIsNewer' /\ StoredIsNewer' /\ CallsCarry'
    BY <2>1, <2>2 DEF ServedIsMade, CachedIsNewer, StoredIsNewer, CallsCarry
  <2> QED BY <1>s, <2>1, <2>3 DEF Rising
<1> QED BY <1>1, <1>2, <1>3, <1>4, <1>5, <1>6, <1>7, <1>8, <1>9, <1>10, <1>11, <1>12, <1>13,
           NextIs

LEMMA RisingHolds == CacheSpec => []Rising
<1>1. CacheInit => Rising
  <2> SUFFICES ASSUME CacheInit PROVE Rising
    OBVIOUS
  <2>1. /\ sets = 0 /\ lru = <<>> /\ served = NothingServed /\ redis = [k \in Keys |-> NoEntry]
        /\ call = [c \in Calls |-> AtRest]
    BY DEF CacheInit
  <2> QED BY <2>1 DEF Rising, ServedIsMade, CachedIsNewer, StoredIsNewer, CallsCarry, AtRest,
                      NothingServed, NoValue
<1>2. Rising /\ (CacheTypeOK /\ Order) /\ [CacheNext]_cacheVars => Rising'
  <2> SUFFICES ASSUME Rising, CacheTypeOK, Order, [CacheNext]_cacheVars, orderly' PROVE Rising'
    BY DEF Rising
  <2> QED BY RisingStep
<1> QED BY <1>1, <1>2, OrderHolds, PTL DEF CacheSpec

\* As long as Redis answers and no two calls overlap, a process never gets an older value
\* of a key after a newer one, through evictions, expiries, restarts and the sets of
\* other processes.
THEOREM ReadsNeverGoBack == CacheSpec => NeverBackInTime
<1>1. (CacheTypeOK /\ Order) /\ Rising /\ [CacheNext]_cacheVars
        => [orderly' => \A k \in Keys : served'[k] >= served[k]]_cacheVars
  BY RisingStep
<1> QED BY <1>1, OrderHolds, RisingHolds, PTL DEF CacheSpec, NeverBackInTime

================================================================================
