-------------------------- MODULE SessionMemoryProofs --------------------------
(***************************************************************************)
(* Proofs about the conversation memory of a session, ContextWindow, and   *)
(* the history that feeds it, SessionMemory, for every number of threads,  *)
(* every budget, deque, chunk and limit, and every sequence of calls,      *)
(* faults and restarts.                                                    *)
(***************************************************************************)
EXTENDS SessionMemory, FiniteSetTheorems, TLAPS

--------------------------------------------------------------------------------

\* The tokens of turns, each told apart; the model counts them.
TokensOf(turns) == UNION {{i} \X (1..turns[i].cost) : i \in DOMAIN turns}

LEMMA TokensCounted ==
    ASSUME NEW turns PROVE Tokens(turns) = Cardinality(TokensOf(turns))
BY Zenon DEF Tokens, TokensOf

LEMMA UpTo ==
    ASSUME NEW n \in Nat PROVE IsFiniteSet(1..n) /\ Cardinality(1..n) = n
<1>1. 1 \in Int /\ n \in Int
  OBVIOUS
<1>2. IsFiniteSet(1..n) /\ Cardinality(1..n) = IF 1 > n THEN 0 ELSE n - 1 + 1
  BY <1>1, FS_Interval, Zenon
<1> QED BY <1>2

LEMMA TokenIn ==
    ASSUME NEW turns, NEW x
    PROVE  x \in TokensOf(turns) <=>
             \E i \in DOMAIN turns : \E j \in 1..turns[i].cost : x = <<i, j>>
BY DEF TokensOf

LEMMA CostOfTurn == \A turn \in Turns : turn.cost \in Nat \ {0} /\ turn.n \in 1..MaxAdds
BY ContextWindowAssumption DEF ContextWindowAssumption, Turns

LEMMA TokensFinite ==
    ASSUME NEW turns \in Seq(Turns)
    PROVE  IsFiniteSet(TokensOf(turns)) /\ Tokens(turns) \in Nat
<1> DEFINE D == 1..Len(turns)
           T == {{i} \X (1..turns[i].cost) : i \in D}
           f == [i \in D |-> {i} \X (1..turns[i].cost)]
<1>1. IsFiniteSet(D)
  BY FS_Interval
<1>2. f \in Surjection(D, T)
  BY DEF Surjection
<1>3. IsFiniteSet(T)
  <2> HIDE DEF D, T, f
  <2> QED BY <1>1, <1>2, FS_Surjection
<1>4. ASSUME NEW i \in D PROVE IsFiniteSet({i} \X (1..turns[i].cost))
  <2>1. turns[i].cost \in Nat
    BY CostOfTurn
  <2>2. IsFiniteSet({i}) /\ IsFiniteSet(1..turns[i].cost)
    BY <2>1, FS_Singleton, UpTo
  <2> QED BY <2>2, FS_Product, Zenon
<1>5. \A S \in T : IsFiniteSet(S)
  BY <1>4
<1>6. TokensOf(turns) = UNION T
  BY DEF TokensOf
<1> HIDE DEF T
<1>7. IsFiniteSet(TokensOf(turns))
  BY <1>3, <1>5, <1>6, FS_UNION
<1> QED BY <1>7, FS_CardinalityType, TokensCounted

\* Counting the first turns and the others apart gives the same.
LEMMA TokensSplit ==
    ASSUME NEW turns \in Seq(Turns), NEW k \in 0..Len(turns)
    PROVE  Tokens(turns) = Tokens(SubSeq(turns, 1, k)) + Tokens(SubSeq(turns, k + 1, Len(turns)))
<1> DEFINE head == SubSeq(turns, 1, k)
           tail == SubSeq(turns, k + 1, Len(turns))
           late == {x \in TokensOf(turns) : x[1] > k}
           f == [x \in TokensOf(tail) |-> <<x[1] + k, x[2]>>]
<1>1. /\ head \in Seq(Turns) /\ DOMAIN head = 1..k
      /\ \A i \in 1..k : head[i] = turns[i]
  OBVIOUS
<1>2. /\ tail \in Seq(Turns) /\ DOMAIN tail = 1..(Len(turns) - k)
      /\ \A i \in 1..(Len(turns) - k) : tail[i] = turns[k + i]
  OBVIOUS
<1>3. k \in Nat /\ DOMAIN turns = 1..Len(turns) /\ Len(turns) \in Nat /\ k <= Len(turns)
  OBVIOUS
<1> HIDE DEF head, tail
<1>4. TokensOf(turns) = TokensOf(head) \cup late
  <2>1. ASSUME NEW x \in TokensOf(turns), ~(x[1] > k) PROVE x \in TokensOf(head)
    <3>1. PICK i \in DOMAIN turns, j \in Nat : j \in 1..turns[i].cost /\ x = <<i, j>>
      BY TokenIn
    <3>2. i \in 1..k
      BY <1>3, <2>1, <3>1
    <3> QED BY <1>1, <3>1, <3>2, TokenIn
  <2>2. ASSUME NEW x \in TokensOf(head) PROVE x \in TokensOf(turns)
    <3>1. PICK i \in DOMAIN head, j \in Nat : j \in 1..head[i].cost /\ x = <<i, j>>
      BY TokenIn
    <3> QED BY <1>1, <1>3, <3>1, TokenIn
  <2> QED BY <2>1, <2>2
<1>5. TokensOf(head) \cap late = {}
  <2> SUFFICES ASSUME NEW x \in TokensOf(head) PROVE ~(x[1] > k)
    OBVIOUS
  <2>1. PICK i \in DOMAIN head, j \in Nat : j \in 1..head[i].cost /\ x = <<i, j>>
    BY TokenIn
  <2> QED BY <1>1, <1>3, <2>1
<1>6. f \in Bijection(TokensOf(tail), late)
  <2>1. ASSUME NEW x \in TokensOf(tail) PROVE f[x] \in late
    <3>1. PICK i \in DOMAIN tail, j \in Nat : j \in 1..tail[i].cost /\ x = <<i, j>>
      BY TokenIn
    <3>2. f[x] = <<k + i, j>> /\ k + i \in DOMAIN turns /\ tail[i] = turns[k + i] /\ k + i > k
      BY <1>2, <1>3, <3>1
    <3>3. f[x] \in TokensOf(turns)
      BY <3>1, <3>2, TokenIn
    <3> QED BY <3>2, <3>3
  <2>2. ASSUME NEW x \in TokensOf(tail), NEW y \in TokensOf(tail), f[x] = f[y] PROVE x = y
    <3>1. PICK i \in DOMAIN tail, j \in Nat : j \in 1..tail[i].cost /\ x = <<i, j>>
      BY TokenIn
    <3>2. PICK m \in DOMAIN tail, n \in Nat : n \in 1..tail[m].cost /\ y = <<m, n>>
      BY TokenIn
    <3>3. f[x] = <<i + k, j>> /\ f[y] = <<m + k, n>>
      BY <3>1, <3>2
    <3>4. i + k = m + k /\ j = n
      BY <2>2, <3>3
    <3>5. i \in Nat /\ m \in Nat
      BY <1>2
    <3>6. i = m
      BY <1>3, <3>4, <3>5
    <3> QED BY <3>1, <3>2, <3>4, <3>6
  <2>3. ASSUME NEW y \in late PROVE \E x \in TokensOf(tail) : f[x] = y
    <3>1. PICK i \in DOMAIN turns, j \in Nat : j \in 1..turns[i].cost /\ y = <<i, j>>
      BY TokenIn
    <3>2. i - k \in DOMAIN tail /\ tail[i - k] = turns[i]
      BY <1>2, <1>3, <3>1
    <3>3. <<i - k, j>> \in TokensOf(tail)
      BY <3>1, <3>2, TokenIn
    <3>4. f[<<i - k, j>>] = <<(i - k) + k, j>>
      BY <3>3
    <3>5. (i - k) + k = i
      BY <1>3
    <3> QED BY <3>1, <3>3, <3>4, <3>5
  <2> HIDE DEF f, late
  <2>4. f \in [TokensOf(tail) -> late]
    BY <2>1 DEF f
  <2> QED BY <2>2, <2>3, <2>4 DEF Bijection, Injection, Surjection, IsInjective
<1>7. IsFiniteSet(TokensOf(head)) /\ IsFiniteSet(TokensOf(tail))
  BY <1>1, <1>2, TokensFinite
<1> HIDE DEF f, late
<1>8. IsFiniteSet(late) /\ Cardinality(late) = Cardinality(TokensOf(tail))
  BY <1>6, <1>7, FS_Bijection DEF ExistsBijection
<1>9. Cardinality(TokensOf(turns)) =
        Cardinality(TokensOf(head)) + Cardinality(late) - Cardinality({})
  <2>1. Cardinality(TokensOf(head) \cup late) =
          Cardinality(TokensOf(head)) + Cardinality(late)
            - Cardinality(TokensOf(head) \cap late)
    BY <1>7, <1>8, FS_Union, Zenon
  <2> QED BY <1>4, <1>5, <2>1
<1>10. Cardinality(TokensOf(head)) \in Nat /\ Cardinality(late) \in Nat
  BY <1>7, <1>8, FS_CardinalityType
<1> QED BY <1>8, <1>9, <1>10, FS_EmptySet, TokensCounted DEF head, tail

LEMMA TokensAppend ==
    ASSUME NEW turns \in Seq(Turns), NEW turn \in Turns
    PROVE  Tokens(Append(turns, turn)) = Tokens(turns) + turn.cost
<1> DEFINE more == Append(turns, turn)
           last == SubSeq(more, Len(turns) + 1, Len(more))
<1>1. /\ more \in Seq(Turns) /\ Len(more) = Len(turns) + 1 /\ Len(turns) \in 0..Len(more)
      /\ SubSeq(more, 1, Len(turns)) = turns
  OBVIOUS
<1>2. /\ DOMAIN last = {1} /\ last[1] = turn
  BY <1>1
<1>3. Tokens(more) = Tokens(turns) + Tokens(last)
  BY <1>1, TokensSplit
<1> HIDE DEF last, more
<1>4. TokensOf(last) = {1} \X (1..turn.cost)
  <2>1. \A x : x \in TokensOf(last) <=> \E j \in 1..turn.cost : x = <<1, j>>
    BY <1>2, TokenIn
  <2> QED BY <2>1
<1>5. turn.cost \in Nat
  BY CostOfTurn
<1>6. /\ IsFiniteSet(1..turn.cost) /\ Cardinality(1..turn.cost) = turn.cost
      /\ IsFiniteSet({1}) /\ Cardinality({1}) = 1
  BY <1>5, UpTo, FS_Singleton
<1>7. Cardinality({1} \X (1..turn.cost)) = 1 * turn.cost
  <2>1. Cardinality({1} \X (1..turn.cost)) = Cardinality({1}) * Cardinality(1..turn.cost)
    BY <1>6, FS_Product, Zenon
  <2> QED BY <1>6, <2>1
<1>8. Tokens(last) = turn.cost
  <2>1. Tokens(last) = Cardinality(TokensOf(last))
    BY TokensCounted
  <2> QED BY <1>4, <1>5, <1>7, <2>1
<1> QED BY <1>3, <1>8 DEF more

LEMMA TokensEmpty == Tokens(<<>>) = 0
<1>1. TokensOf(<<>>) = {}
  BY DEF TokensOf
<1> QED BY <1>1, FS_EmptySet, TokensCounted

--------------------------------------------------------------------------------

\* What is in the window, in Redis or in a mirror on its way there: in the order of
\* the conversation, the summary before the buffer, and nothing after the last turn.
SortedTo(last, numbers, turns) ==
    /\ Ascending(turns) /\ Older(numbers, turns)
    /\ \A n \in numbers : n <= last
    /\ \A i \in 1..Len(turns) : turns[i].n <= last

Sorted(numbers, turns) == SortedTo(added, numbers, turns)

\* The numbers of the turns before the k-th from the oldest.
First(turns, k) == {turn.n : turn \in ToSet(SubSeq(turns, 1, k))}

LEMMA FirstNumbers ==
    ASSUME NEW turns \in Seq(Turns), NEW k \in 0..Len(turns)
    PROVE  \A n : n \in First(turns, k) <=> \E i \in 1..k : n = turns[i].n
<1> DEFINE head == SubSeq(turns, 1, k)
<1>1. DOMAIN head = 1..k /\ \A i \in 1..k : head[i] = turns[i]
  OBVIOUS
<1> HIDE DEF head
<1>2. \A turn : turn \in ToSet(head) <=> \E i \in 1..k : turn = turns[i]
  BY <1>1 DEF ToSet
<1>3. First(turns, k) = {turn.n : turn \in ToSet(head)}
  BY DEF First, head
<1> QED BY <1>2, <1>3

\* The turns that are left when the oldest go.
LEMMA Rest ==
    ASSUME NEW turns \in Seq(Turns), NEW k \in 0..Len(turns), NEW last, NEW numbers,
           SortedTo(last, numbers, turns)
    PROVE  /\ SubSeq(turns, k + 1, Len(turns)) \in Seq(Turns)
           /\ Len(SubSeq(turns, k + 1, Len(turns))) = Len(turns) - k
           /\ SortedTo(last, numbers \cup First(turns, k), SubSeq(turns, k + 1, Len(turns)))
           /\ SortedTo(last, numbers, SubSeq(turns, k + 1, Len(turns)))
<1> DEFINE rest == SubSeq(turns, k + 1, Len(turns))
<1>1. /\ rest \in Seq(Turns) /\ Len(rest) = Len(turns) - k
      /\ \A i \in 1..(Len(turns) - k) : rest[i] = turns[k + i]
  OBVIOUS
<1>2. k \in Nat /\ Len(turns) \in Nat /\ k <= Len(turns)
  OBVIOUS
<1> HIDE DEF rest
<1>3. /\ \A i, j \in 1..Len(turns) : i < j => turns[i].n < turns[j].n
      /\ \A n \in numbers, i \in 1..Len(turns) : n < turns[i].n
      /\ \A n \in numbers : n <= last
      /\ \A i \in 1..Len(turns) : turns[i].n <= last
  BY DEF SortedTo, Ascending, Older
<1>4. \A i \in 1..Len(rest) : k + i \in 1..Len(turns) /\ rest[i] = turns[k + i] /\ i \in Nat
  BY <1>1, <1>2
<1>5. Ascending(rest)
  BY <1>1, <1>2, <1>3, <1>4 DEF Ascending
<1>6. \A i \in 1..Len(rest) : rest[i].n <= last
  BY <1>3, <1>4
<1>7. Older(numbers, rest)
  BY <1>3, <1>4 DEF Older
<1>8. ASSUME NEW n \in First(turns, k)
      PROVE  n <= last /\ \A i \in 1..Len(rest) : n < rest[i].n
  <2>1. PICK i \in 1..k : n = turns[i].n
    BY FirstNumbers
  <2>2. i \in 1..Len(turns) /\ \A j \in 1..Len(rest) : i < k + j
    BY <1>2
  <2> QED BY <1>3, <1>4, <2>1, <2>2
<1>9. Older(numbers \cup First(turns, k), rest)
  BY <1>7, <1>8 DEF Older
<1> QED BY <1>1, <1>3, <1>5, <1>6, <1>7, <1>8, <1>9 DEF SortedTo, rest

LEMMA BoundedKeeps ==
    ASSUME NEW turns \in Seq(Turns), NEW last, NEW numbers, SortedTo(last, numbers, turns)
    PROVE  /\ Bounded(turns) \in Seq(Turns) /\ Len(Bounded(turns)) <= MaxTurns
           /\ SortedTo(last, numbers, Bounded(turns))
           /\ Tokens(Bounded(turns)) <= Tokens(turns)
<1>1. MaxTurns \in Nat /\ Len(turns) \in Nat
  BY ContextWindowAssumption DEF ContextWindowAssumption
<1>2. CASE Len(turns) <= MaxTurns
  <2>1. Bounded(turns) = turns
    BY <1>1, <1>2 DEF Bounded
  <2> QED BY <1>2, <2>1, TokensFinite
<1>3. CASE Len(turns) > MaxTurns
  <2> DEFINE k == Len(turns) - MaxTurns
  <2>1. k \in 0..Len(turns) /\ Len(turns) - k = MaxTurns
    BY <1>1, <1>3
  <2>2. Bounded(turns) = SubSeq(turns, k + 1, Len(turns))
    BY <1>3 DEF Bounded, Kept
  <2> HIDE DEF k
  <2>3. /\ Tokens(turns) = Tokens(SubSeq(turns, 1, k)) + Tokens(Bounded(turns))
        /\ SubSeq(turns, 1, k) \in Seq(Turns)
    BY <2>1, <2>2, TokensSplit
  <2>4. /\ Bounded(turns) \in Seq(Turns) /\ Len(Bounded(turns)) = MaxTurns
        /\ SortedTo(last, numbers, Bounded(turns))
    BY <2>1, <2>2, Rest
  <2>5. Tokens(SubSeq(turns, 1, k)) \in Nat /\ Tokens(Bounded(turns)) \in Nat
    BY <2>3, <2>4, TokensFinite
  <2> QED BY <1>1, <2>3, <2>4, <2>5
<1> QED BY <1>1, <1>2, <1>3

LEMMA AppendSorted ==
    ASSUME NEW turns \in Seq(Turns), NEW numbers \in SUBSET Nat, NEW last \in Nat,
           SortedTo(last, numbers, turns), NEW turn \in Turns, turn.n = last + 1
    PROVE  SortedTo(last + 1, numbers, Append(turns, turn))
<1> DEFINE more == Append(turns, turn)
<1>1. /\ Len(more) = Len(turns) + 1 /\ Len(turns) \in Nat /\ more[Len(turns) + 1] = turn
      /\ \A i \in 1..Len(turns) : more[i] = turns[i]
  OBVIOUS
<1>2. \A i \in 1..Len(turns) : turns[i].n \in Nat
  BY CostOfTurn
<1> HIDE DEF more
<1>3. \A i \in 1..Len(more) : i \in 1..Len(turns) \/ i = Len(turns) + 1
  BY <1>1
<1>4. \A i \in 1..Len(turns) : turns[i].n <= last /\ turns[i].n < last + 1
  BY <1>2 DEF SortedTo
<1>5. Ascending(more)
  BY <1>1, <1>3, <1>4 DEF SortedTo, Ascending
<1>6. Older(numbers, more) /\ \A n \in numbers : n <= last + 1
  BY <1>1, <1>3 DEF SortedTo, Older
<1>7. \A i \in 1..Len(more) : more[i].n <= last + 1
  BY <1>1, <1>2, <1>3, <1>4
<1> QED BY <1>5, <1>6, <1>7 DEF SortedTo, more

LEMMA SortedLater ==
    ASSUME NEW turns \in Seq(Turns), NEW numbers \in SUBSET Nat, NEW last \in Nat,
           SortedTo(last, numbers, turns)
    PROVE  SortedTo(last + 1, numbers, turns)
<1>1. \A i \in 1..Len(turns) : turns[i].n \in Nat
  BY CostOfTurn
<1> QED BY <1>1 DEF SortedTo

LEMMA FewerSorted ==
    ASSUME NEW turns, NEW last, NEW numbers, NEW fewer \in SUBSET numbers,
           SortedTo(last, numbers, turns)
    PROVE  SortedTo(last, fewer, turns)
BY DEF SortedTo, Older

\* A compaction moves the oldest turns into the summary.
LEMMA CompactKeeps ==
    ASSUME summary \subseteq 1..MaxAdds,
           NEW turns \in Seq(Turns), Len(turns) <= MaxTurns, NEW last,
           SortedTo(last, summary, turns),
           NEW tokens \in Nat, Tokens(turns) <= tokens, Compact(turns, tokens)
    PROVE  /\ buffer' \in Seq(Turns) /\ Len(buffer') <= MaxTurns
           /\ total' \in Nat /\ Tokens(buffer') <= total'
           /\ summary' \subseteq 1..MaxAdds /\ summary \subseteq summary'
           /\ SortedTo(last, summary', buffer')
<1>1. CASE tokens > MaxTokens /\ Len(turns) >= Chunk
  <2>1. Chunk \in 0..Len(turns) /\ MaxTurns \in Nat
    BY <1>1, ContextWindowAssumption DEF ContextWindowAssumption
  <2>2. /\ buffer' = SubSeq(turns, Chunk + 1, Len(turns))
        /\ total' = tokens - Tokens(SubSeq(turns, 1, Chunk))
        /\ summary' = summary \cup First(turns, Chunk)
    BY <1>1 DEF Compact, First
  <2>3. Tokens(turns) = Tokens(SubSeq(turns, 1, Chunk)) + Tokens(buffer')
    BY <2>1, <2>2, TokensSplit
  <2>4. /\ buffer' \in Seq(Turns) /\ Len(buffer') = Len(turns) - Chunk
        /\ SortedTo(last, summary', buffer')
    BY <2>1, <2>2, Rest
  <2>5. SubSeq(turns, 1, Chunk) \in Seq(Turns)
    BY <2>1
  <2>6. Tokens(SubSeq(turns, 1, Chunk)) \in Nat /\ Tokens(buffer') \in Nat
    BY <2>4, <2>5, TokensFinite
  <2>7. total' \in Nat /\ Tokens(buffer') <= total'
    BY <2>2, <2>3, <2>6
  <2>8. First(turns, Chunk) \subseteq 1..MaxAdds
    <3>1. \A i \in 1..Chunk : turns[i] \in Turns
      BY <2>1
    <3> QED BY <2>1, <3>1, FirstNumbers, CostOfTurn
  <2>9. Len(buffer') <= MaxTurns
    <3>1. Len(turns) \in Nat
      OBVIOUS
    <3> QED BY <2>1, <2>4, <3>1
  <2>10. summary' \subseteq 1..MaxAdds /\ summary \subseteq summary'
    BY <2>2, <2>8
  <2> QED BY <2>4, <2>7, <2>9, <2>10
<1>2. CASE ~(tokens > MaxTokens /\ Len(turns) >= Chunk)
  BY <1>2 DEF Compact
<1> QED BY <1>1, <1>2

\* A mirror is read while the window moves on: its summary is behind, never ahead.
Behind(t) ==
    /\ thread[t].stage \in {"half", "write"} => thread[t].summary \subseteq summary
    /\ thread[t].stage = "write" => Sorted(thread[t].summary, thread[t].buffer)

\* The order and the count of turns.
WindowInv ==
    /\ TypeOK /\ EstimateCoversBuffer
    /\ Sorted(summary, buffer) /\ Sorted(stored.summary, stored.buffer)
    /\ \A t \in Threads : Behind(t)

Entries ==
    [stage : {"idle", "mirror", "half", "write"},
     summary : SUBSET (1..MaxAdds), buffer : Seq(Turns)]

LEMMA Entry ==
    ASSUME TypeOK, NEW t \in Threads
    PROVE  /\ thread \in [Threads -> Entries]
           /\ thread[t] \in Entries /\ thread[t].summary \in SUBSET (1..MaxAdds)
           /\ thread[t].buffer \in Seq(Turns)
           /\ thread[t].stage \in {"idle", "mirror", "half", "write"}
BY DEF TypeOK, Entries

LEMMA OwnEntry ==
    ASSUME TypeOK, NEW t \in Threads, NEW entry \in Entries,
           thread' = [thread EXCEPT ![t] = entry]
    PROVE  /\ thread' \in [Threads -> Entries] /\ thread'[t] = entry
           /\ \A u \in Threads \ {t} : thread'[u] = thread[u]
BY Entry

LEMMA IdleEntry == Idle \in Entries /\ Idle.stage = "idle"
BY DEF Idle, Entries

LEMMA Limits ==
    /\ MaxTurns \in Nat /\ MaxAdds \in Nat /\ MaxFaults \in Nat
    /\ Costs \subseteq Nat \ {0}
BY ContextWindowAssumption DEF ContextWindowAssumption

LEMMA FaultCounted ==
    ASSUME TypeOK, Fault \/ UNCHANGED faults PROVE faults' \in 0..MaxFaults
BY Limits DEF TypeOK, Fault

LEMMA OverlapTyped ==
    ASSUME TypeOK, UNCHANGED overlapped \/ \E t \in Threads : Begin(t)
    PROVE  overlapped' \in BOOLEAN
BY Zenon DEF TypeOK, Begin

LEMMA MirrorEntry ==
    ASSUME TypeOK, NEW t \in Threads, Mirror(t)
    PROVE  /\ thread' \in [Threads -> Entries] /\ thread'[t].stage = "mirror"
           /\ \A u \in Threads \ {t} : thread'[u] = thread[u]
<1> DEFINE entry == [thread[t] EXCEPT !.stage = "mirror"]
<1>1. thread[t] \in Entries
  BY Entry
<1>2. entry \in Entries /\ entry.stage = "mirror"
  BY <1>1 DEF Entries
<1>3. thread' = [thread EXCEPT ![t] = entry]
  BY DEF Mirror
<1> QED BY <1>2, <1>3, OwnEntry

LEMMA WindowInitial == Init => WindowInv
<1> SUFFICES ASSUME Init PROVE WindowInv
  OBVIOUS
<1>1. Nothing.summary = {} /\ Nothing.buffer = <<>>
  BY DEF Nothing
<1>2. TypeOK
  <2>1. <<>> \in Seq(Turns) /\ Len(<<>>) = 0
    OBVIOUS
  <2>2. stored \in [summary : SUBSET (1..MaxAdds), buffer : Seq(Turns)]
    BY DEF Init, Nothing
  <2>3. thread \in [Threads -> Entries]
    BY IdleEntry DEF Init
  <2>4. buffer = <<>> /\ total = 0 /\ summary = {} /\ added = 0 /\ faults = 0
    BY DEF Init
  <2>5. overlapped \in BOOLEAN
    BY DEF Init
  <2>6. 0 \in 0..MaxAdds /\ 0 \in 0..MaxFaults /\ 0 <= MaxTurns
    BY Limits
  <2> QED BY <2>1, <2>2, <2>3, <2>4, <2>5, <2>6 DEF TypeOK, Entries
<1>3. \A last : SortedTo(last, {}, <<>>)
  BY DEF SortedTo, Ascending, Older
<1>4. \A t \in Threads : Behind(t)
  BY IdleEntry DEF Init, Behind
<1>5. EstimateCoversBuffer
  BY TokensEmpty DEF Init, EstimateCoversBuffer
<1> QED BY <1>1, <1>2, <1>3, <1>4, <1>5 DEF Init, WindowInv, Sorted

\* Steps that add no turn and leave the window as it is.
LEMMA SameWindow ==
    ASSUME WindowInv, UNCHANGED <<window, added>>, TypeOK',
           SortedTo(added, stored'.summary, stored'.buffer),
           \A t \in Threads : Behind(t)'
    PROVE  WindowInv'
BY DEF WindowInv, window, EstimateCoversBuffer, Tokens, Sorted

\* The others' mirrors are as good as before.
LEMMA OthersBehind ==
    ASSUME WindowInv, UNCHANGED added, summary \subseteq summary', NEW t \in Threads,
           \A u \in Threads \ {t} : thread'[u] = thread[u], Behind(t)'
    PROVE  \A u \in Threads : Behind(u)'
<1> SUFFICES ASSUME NEW u \in Threads, u # t PROVE Behind(u)'
  OBVIOUS
<1>1. Behind(u) /\ thread'[u] = thread[u]
  BY DEF WindowInv
<1> QED BY <1>1 DEF Behind, Sorted

LEMMA AddKeeps ==
    ASSUME WindowInv, NEW t \in Threads, NEW cost \in Costs, Add(t, cost)
    PROVE  WindowInv'
<1> DEFINE turn == [n |-> added + 1, cost |-> cost]
           more == Append(buffer, turn)
<1>1. /\ added \in 0..MaxAdds /\ added < MaxAdds /\ added' = added + 1
      /\ UNCHANGED <<stored, faults>>
  BY DEF Add, WindowInv, TypeOK
<1>2. turn \in Turns /\ turn.n = added + 1 /\ turn.cost = cost /\ cost \in Nat
  BY <1>1, Limits DEF Turns
<1> HIDE DEF turn
<1>3. /\ buffer \in Seq(Turns) /\ summary \subseteq 1..MaxAdds /\ total \in Nat
      /\ Tokens(buffer) <= total /\ SortedTo(added, summary, buffer)
  BY DEF WindowInv, TypeOK, Sorted, EstimateCoversBuffer
<1>4. SortedTo(added + 1, summary, more) /\ more \in Seq(Turns)
  BY <1>1, <1>2, <1>3, AppendSorted
<1>5. Tokens(more) = Tokens(buffer) + cost /\ Tokens(buffer) \in Nat
  BY <1>2, <1>3, TokensAppend, TokensFinite
<1> HIDE DEF more
<1>6. /\ Bounded(more) \in Seq(Turns) /\ Len(Bounded(more)) <= MaxTurns
      /\ SortedTo(added + 1, summary, Bounded(more)) /\ Tokens(Bounded(more)) <= Tokens(more)
  BY <1>4, BoundedKeeps
<1>7. total + cost \in Nat /\ Tokens(Bounded(more)) <= total + cost
  <2>1. Tokens(Bounded(more)) \in Nat
    BY <1>6, TokensFinite
  <2> QED BY <1>2, <1>3, <1>5, <1>6, <2>1
<1>8. Compact(Bounded(more), total + cost)
  BY DEF Add, more, turn
<1>9. /\ buffer' \in Seq(Turns) /\ Len(buffer') <= MaxTurns
      /\ total' \in Nat /\ Tokens(buffer') <= total'
      /\ summary' \subseteq 1..MaxAdds /\ summary \subseteq summary'
      /\ SortedTo(added + 1, summary', buffer')
  BY <1>3, <1>6, <1>7, <1>8, CompactKeeps
<1>10. /\ thread' \in [Threads -> Entries] /\ thread'[t].stage = "mirror"
       /\ \A u \in Threads \ {t} : thread'[u] = thread[u]
  BY MirrorEntry DEF Add, WindowInv
<1>11. TypeOK'
  <2>1. overlapped' \in BOOLEAN
    BY OverlapTyped DEF Add, WindowInv
  <2>2. faults' \in 0..MaxFaults /\ added' \in 0..MaxAdds
    BY <1>1, Limits DEF WindowInv, TypeOK
  <2>3. stored' \in [summary : SUBSET (1..MaxAdds), buffer : Seq(Turns)]
    BY <1>1 DEF WindowInv, TypeOK
  <2> QED BY <1>9, <1>10, <2>1, <2>2, <2>3 DEF TypeOK, Entries
<1>12. Sorted(stored.summary, stored.buffer)'
  <2>1. /\ stored.summary \in SUBSET Nat /\ stored.buffer \in Seq(Turns)
        /\ SortedTo(added, stored.summary, stored.buffer)
    BY DEF WindowInv, TypeOK, Sorted
  <2>2. SortedTo(added + 1, stored.summary, stored.buffer)
    BY <1>1, <2>1, SortedLater
  <2> QED BY <1>1, <2>2 DEF Sorted
<1>13. ASSUME NEW u \in Threads PROVE Behind(u)'
  <2>1. CASE u = t
    BY <1>10, <2>1 DEF Behind
  <2>2. CASE u # t
    <3>1. thread'[u] = thread[u] /\ Behind(u)
      BY <1>10, <2>2 DEF WindowInv
    <3>2. thread[u].summary \in SUBSET Nat /\ thread[u].buffer \in Seq(Turns)
      BY Entry DEF WindowInv
    <3>3. thread[u].stage = "write"
            => SortedTo(added + 1, thread[u].summary, thread[u].buffer)
      BY <1>1, <3>1, <3>2, SortedLater DEF Behind, Sorted
    <3> QED BY <1>1, <1>9, <3>1, <3>3 DEF Behind, Sorted
  <2> QED BY <2>1, <2>2
<1> QED BY <1>1, <1>9, <1>11, <1>12, <1>13 DEF WindowInv, Sorted, EstimateCoversBuffer, Tokens

LEMMA MirroringKeeps ==
    ASSUME WindowInv, NEW t \in Threads,
           \/ UpdateSummary(t) \/ ReadSummary(t) \/ ReadBuffer(t)
           \/ Write(t) \/ MirrorFails(t)
    PROVE  WindowInv'
<1> DEFINE e == thread[t]
<1>1. /\ e \in Entries /\ e.summary \in SUBSET (1..MaxAdds) /\ e.buffer \in Seq(Turns)
      /\ TypeOK /\ Behind(t)
  BY Entry DEF WindowInv
<1>2. /\ summary \in SUBSET (1..MaxAdds) /\ buffer \in Seq(Turns)
      /\ Sorted(summary, buffer) /\ Sorted(stored.summary, stored.buffer)
  BY DEF WindowInv, TypeOK
<1>3. UNCHANGED <<window, added>> /\ faults' \in 0..MaxFaults /\ overlapped' \in BOOLEAN
  <2>1. UNCHANGED <<window, added>>
    BY DEF UpdateSummary, ReadSummary, ReadBuffer, Write, MirrorFails
  <2>2. Fault \/ UNCHANGED faults
    BY DEF UpdateSummary, ReadSummary, ReadBuffer, Write, MirrorFails
  <2>3. Begin(t) \/ UNCHANGED overlapped
    BY DEF UpdateSummary, ReadSummary, ReadBuffer, Write, MirrorFails
  <2> QED BY <1>1, <2>1, <2>2, <2>3, FaultCounted, OverlapTyped
<1>4. SUFFICES /\ thread' \in [Threads -> Entries]
               /\ \A u \in Threads \ {t} : thread'[u] = thread[u]
               /\ Behind(t)'
               /\ stored' \in [summary : SUBSET (1..MaxAdds), buffer : Seq(Turns)]
               /\ SortedTo(added, stored'.summary, stored'.buffer)
  <2>1. TypeOK'
    BY <1>1, <1>3, <1>4 DEF TypeOK, Entries, window
  <2>2. \A u \in Threads : Behind(u)'
    BY <1>3, <1>4, OthersBehind DEF window
  <2> QED BY <1>3, <1>4, <2>1, <2>2, SameWindow
<1>5. /\ stored \in [summary : SUBSET (1..MaxAdds), buffer : Seq(Turns)]
      /\ SortedTo(added, stored.summary, stored.buffer)
  BY <1>1, <1>2 DEF TypeOK, Sorted
<1>6. CASE UpdateSummary(t)
  <2>1. Mirror(t) /\ UNCHANGED stored
    BY <1>6 DEF UpdateSummary
  <2>2. /\ thread' \in [Threads -> Entries] /\ thread'[t].stage = "mirror"
        /\ \A u \in Threads \ {t} : thread'[u] = thread[u]
    BY <1>1, <2>1, MirrorEntry
  <2> QED BY <1>5, <2>1, <2>2 DEF Behind
<1>7. CASE ReadSummary(t)
  <2> DEFINE new == [e EXCEPT !.stage = "half", !.summary = summary]
  <2>1. new \in Entries /\ new.stage = "half" /\ new.summary = summary
    BY <1>1, <1>2 DEF Entries
  <2>2. thread' = [thread EXCEPT ![t] = new] /\ UNCHANGED stored
    BY <1>7 DEF ReadSummary
  <2> HIDE DEF new
  <2>3. /\ thread' \in [Threads -> Entries] /\ thread'[t] = new
        /\ \A u \in Threads \ {t} : thread'[u] = thread[u]
    BY <1>1, <2>1, <2>2, OwnEntry
  <2> QED BY <1>3, <1>5, <2>1, <2>2, <2>3 DEF Behind, window
<1>8. CASE ReadBuffer(t)
  <2> DEFINE new == [e EXCEPT !.stage = "write", !.buffer = buffer]
  <2>1. /\ new \in Entries /\ new.stage = "write" /\ new.summary = e.summary
        /\ new.buffer = buffer
    BY <1>1, <1>2 DEF Entries
  <2>2. thread' = [thread EXCEPT ![t] = new] /\ UNCHANGED stored /\ e.stage = "half"
    BY <1>8 DEF ReadBuffer
  <2> HIDE DEF new
  <2>3. /\ thread' \in [Threads -> Entries] /\ thread'[t] = new
        /\ \A u \in Threads \ {t} : thread'[u] = thread[u]
    BY <1>1, <2>1, <2>2, OwnEntry
  <2>4. e.summary \subseteq summary
    BY <1>1, <2>2 DEF Behind
  <2>5. SortedTo(added, e.summary, buffer)
    BY <1>2, <2>4, FewerSorted DEF Sorted
  <2> QED BY <1>3, <1>5, <2>1, <2>2, <2>3, <2>4, <2>5 DEF Behind, Sorted, window
<1>9. CASE Write(t)
  <2>1. /\ thread' = [thread EXCEPT ![t] = Idle] /\ e.stage = "write"
        /\ stored' = [summary |-> e.summary, buffer |-> e.buffer]
    BY <1>9 DEF Write
  <2>2. /\ thread' \in [Threads -> Entries] /\ thread'[t] = Idle
        /\ \A u \in Threads \ {t} : thread'[u] = thread[u]
    BY <1>1, <2>1, IdleEntry, OwnEntry
  <2>3. Sorted(e.summary, e.buffer)
    BY <1>1, <2>1 DEF Behind
  <2>4. /\ stored' \in [summary : SUBSET (1..MaxAdds), buffer : Seq(Turns)]
        /\ stored'.summary = e.summary /\ stored'.buffer = e.buffer
    BY <1>1, <2>1
  <2> QED BY <2>2, <2>3, <2>4, IdleEntry DEF Behind, Sorted
<1>10. CASE MirrorFails(t)
  <2>1. thread' = [thread EXCEPT ![t] = Idle] /\ UNCHANGED stored
    BY <1>10 DEF MirrorFails
  <2>2. /\ thread' \in [Threads -> Entries] /\ thread'[t] = Idle
        /\ \A u \in Threads \ {t} : thread'[u] = thread[u]
    BY <1>1, <2>1, IdleEntry, OwnEntry
  <2> QED BY <1>5, <2>1, <2>2, IdleEntry DEF Behind
<1> QED BY <1>6, <1>7, <1>8, <1>9, <1>10

\* Redis failing by itself, which no agent sees.
RedisFails == Fault /\ UNCHANGED <<window, stored, thread, added, overlapped>>

LEMMA FaultsKeep ==
    ASSUME WindowInv, Expire \/ RedisFails \/ UNCHANGED vars
    PROVE  WindowInv'
<1>1. UNCHANGED <<window, added, thread, overlapped>> /\ faults' \in 0..MaxFaults
  <2>1. UNCHANGED <<window, added, thread, overlapped>> /\ (Fault \/ UNCHANGED faults)
    BY DEF Expire, RedisFails, Fault, vars, window
  <2> QED BY <2>1, FaultCounted DEF WindowInv
<1>2. /\ stored' \in [summary : SUBSET (1..MaxAdds), buffer : Seq(Turns)]
      /\ SortedTo(added, stored'.summary, stored'.buffer)
  <2>1. CASE Expire
    <3>1. stored' = [summary |-> {}, buffer |-> <<>>]
      BY <2>1 DEF Expire, Nothing
    <3>2. SortedTo(added, {}, <<>>)
      BY DEF SortedTo, Ascending, Older
    <3>3. <<>> \in Seq(Turns)
      OBVIOUS
    <3> QED BY <3>1, <3>2, <3>3
  <2>2. CASE UNCHANGED stored
    BY <2>2 DEF WindowInv, TypeOK, Sorted
  <2> QED BY <2>1, <2>2 DEF RedisFails, vars
<1>3. TypeOK'
  BY <1>1, <1>2 DEF WindowInv, TypeOK, window
<1>4. \A t \in Threads : Behind(t)'
  BY <1>1 DEF WindowInv, Behind, Sorted, window
<1> QED BY <1>1, <1>2, <1>3, <1>4, SameWindow

LEMMA RestartKeeps == WindowInv /\ Restart => WindowInv'
<1> SUFFICES ASSUME WindowInv, Restart PROVE WindowInv'
  OBVIOUS
<1>1. /\ stored.buffer \in Seq(Turns) /\ stored.summary \in SUBSET (1..MaxAdds)
      /\ SortedTo(added, stored.summary, stored.buffer)
  BY DEF WindowInv, TypeOK, Sorted
<1>2. /\ buffer' = Bounded(stored.buffer) /\ total' = Tokens(stored.buffer)
      /\ summary' = stored.summary /\ UNCHANGED <<stored, added, overlapped>>
  BY DEF Restart
<1>3. /\ buffer' \in Seq(Turns) /\ Len(buffer') <= MaxTurns
      /\ SortedTo(added, summary', buffer')
      /\ Tokens(buffer') <= total' /\ total' \in Nat
  BY <1>1, <1>2, BoundedKeeps, TokensFinite
<1>4. \A t \in Threads : thread'[t] = Idle
  BY DEF Restart
<1>5. thread' \in [Threads -> Entries] /\ \A t \in Threads : Behind(t)'
  BY <1>4, IdleEntry DEF Restart, Behind
<1>6. faults' \in 0..MaxFaults
  BY Limits DEF Restart, Fault, WindowInv, TypeOK
<1>7. TypeOK'
  BY <1>1, <1>2, <1>3, <1>5, <1>6 DEF WindowInv, TypeOK, Entries
<1> QED BY <1>1, <1>2, <1>3, <1>5, <1>7 DEF WindowInv, Sorted, EstimateCoversBuffer, Tokens

--------------------------------------------------------------------------------

Resting(t) == thread[t].stage = "idle"

\* While no two calls overlap and nothing fails, what a call has read is what there is.
Alone ==
    faults = 0 /\ ~overlapped =>
        /\ \A t, u \in Threads : ~Resting(t) /\ ~Resting(u) => t = u
        /\ (\A t \in Threads : Resting(t))
             => stored = [summary |-> summary, buffer |-> buffer]
        /\ \A t \in Threads :
             /\ thread[t].stage \in {"half", "write"} => thread[t].summary = summary
             /\ thread[t].stage = "write" => thread[t].buffer = buffer

LEMMA AloneInitial == Init => Alone
BY IdleEntry DEF Init, Alone, Resting, Nothing

\* One call is under way, and it has read what there is.
LEMMA OneAlone ==
    ASSUME NEW t \in Threads, \A u \in Threads \ {t} : Resting(u)', ~Resting(t)',
           thread'[t].stage \in {"half", "write"} => thread'[t].summary = summary',
           thread'[t].stage = "write" => thread'[t].buffer = buffer'
    PROVE  Alone'
BY DEF Alone, Resting

LEMMA AloneStep ==
    ASSUME WindowInv, Alone, Next \/ RedisFails \/ UNCHANGED vars
    PROVE  Alone'
<1> SUFFICES ASSUME faults' = 0, ~overlapped' PROVE Alone'
  BY DEF Alone
<1>1. TypeOK /\ faults \in Nat
  BY DEF WindowInv, TypeOK
<1>2. ~Fault
  BY <1>1 DEF Fault
<1>3. CASE UNCHANGED vars
  BY <1>3 DEF Alone, Resting, vars, window
<1>4. ASSUME NEW t \in Threads,
             (\E cost \in Costs : Add(t, cost)) \/ UpdateSummary(t)
      PROVE  Alone'
  <2>1. Begin(t) /\ Mirror(t)
    BY <1>4 DEF Add, UpdateSummary
  <2>2. \A u \in Threads \ {t} : thread[u].stage = "idle"
    BY <2>1 DEF Begin
  <2>3. /\ thread'[t].stage = "mirror"
        /\ \A u \in Threads \ {t} : thread'[u] = thread[u]
    BY <1>1, <2>1, MirrorEntry
  <2> QED BY <2>2, <2>3, OneAlone DEF Resting
<1>5. ASSUME NEW t \in Threads, ReadSummary(t) \/ ReadBuffer(t) \/ Write(t)
      PROVE  Alone'
  <2> DEFINE e == thread[t]
  <2>1. UNCHANGED <<summary, buffer, faults, overlapped>> /\ ~Resting(t)
    BY <1>5 DEF ReadSummary, ReadBuffer, Write, window, Resting
  <2>2. /\ \A u \in Threads \ {t} : Resting(u)
        /\ e.stage \in {"half", "write"} => e.summary = summary
        /\ e.stage = "write" => e.buffer = buffer
    BY <2>1 DEF Alone
  <2>3. thread \in [Threads -> Entries] /\ e \in Entries
    BY <1>1, Entry
  <2>4. \A u \in Threads \ {t} : thread'[u] = thread[u]
    BY <1>5, <2>3 DEF ReadSummary, ReadBuffer, Write
  <2>5. CASE ReadSummary(t)
    <3>1. thread'[t] = [e EXCEPT !.stage = "half", !.summary = summary]
      BY <2>3, <2>5 DEF ReadSummary
    <3>2. thread'[t].stage = "half" /\ thread'[t].summary = summary
      BY <2>3, <3>1 DEF Entries
    <3> QED BY <2>1, <2>2, <2>4, <3>2, OneAlone DEF Resting
  <2>6. CASE ReadBuffer(t)
    <3>1. thread'[t] = [e EXCEPT !.stage = "write", !.buffer = buffer] /\ e.stage = "half"
      BY <2>3, <2>6 DEF ReadBuffer
    <3>2. /\ thread'[t].stage = "write" /\ thread'[t].summary = e.summary
          /\ thread'[t].buffer = buffer
      BY <2>3, <3>1 DEF Entries
    <3>3. thread'[t].summary = summary' /\ thread'[t].buffer = buffer' /\ ~Resting(t)'
      BY <2>1, <2>2, <3>1, <3>2 DEF Resting
    <3>4. \A u \in Threads \ {t} : Resting(u)'
      BY <2>2, <2>4 DEF Resting
    <3> QED BY <3>3, <3>4, OneAlone
  <2>7. CASE Write(t)
    <3>1. /\ thread'[t] = Idle /\ e.stage = "write"
          /\ stored' = [summary |-> e.summary, buffer |-> e.buffer]
      BY <2>3, <2>7 DEF Write
    <3>2. \A u \in Threads : thread'[u].stage = "idle"
      BY <2>2, <2>4, <3>1, IdleEntry DEF Resting
    <3> QED BY <2>1, <2>2, <3>1, <3>2 DEF Alone, Resting
  <2> QED BY <1>5, <2>5, <2>6, <2>7
<1>6. ASSUME NEW t \in Threads PROVE ~MirrorFails(t)
  BY <1>2 DEF MirrorFails
<1>7. ~Expire /\ ~Restart /\ ~RedisFails
  BY <1>2 DEF Expire, Restart, RedisFails
<1> QED BY <1>3, <1>4, <1>5, <1>6, <1>7 DEF Next

--------------------------------------------------------------------------------

\* What every step of a session does to the window.
LEMMA WindowSteps ==
    ASSUME [SessionNext]_sessionVars,
           \A t \in Threads : task[t].stage = "window" => task[t].cost \in Costs
    PROVE  Next \/ RedisFails \/ UNCHANGED vars
<1>1. CASE UNCHANGED sessionVars
  BY <1>1 DEF sessionVars
<1>2. ASSUME NEW t \in Threads, NEW cost \in Costs, AddTurn(t, cost) PROVE UNCHANGED vars
  BY <1>2 DEF AddTurn, Call
<1>3. ASSUME NEW t \in Threads, HistoryFails(t) PROVE RedisFails
  BY <1>3 DEF HistoryFails, RedisFails
<1>4. HistoryExpires => RedisFails
  BY DEF HistoryExpires, RedisFails
<1>5. WindowExpires \/ SessionRestart => Next
  BY DEF WindowExpires, SessionRestart, Next
<1>6. ASSUME NEW t \in Threads, WindowStep(t) PROVE Next
  BY <1>6 DEF WindowStep, Next
<1>8. ASSUME NEW t \in Threads, AddToWindow(t) PROVE Next
  BY <1>8 DEF AddToWindow, Next
<1>7. ASSUME NEW t \in Threads,
             \/ CopyHistory(t) \/ SendHistory(t) \/ LoadHistory(t) \/ KeepHistory(t)
             \/ ClearHistory(t) \/ DeleteHistory(t)
      PROVE  UNCHANGED vars
  BY <1>7 DEF CopyHistory, SendHistory, LoadHistory, KeepHistory, ClearHistory,
     DeleteHistory, Call
<1> QED BY <1>1, <1>2, <1>3, <1>4, <1>5, <1>6, <1>7, <1>8 DEF SessionNext

--------------------------------------------------------------------------------

Stages == {"idle", "window", "persist", "send", "loaded", "clear"}
Tasks == [stage : Stages, cost : Costs \cup {0}, turns : Seq(Nat)]

SessionTypeOK ==
    /\ known \in BOOLEAN /\ calm \in BOOLEAN
    /\ history \in Seq(Nat) /\ conv \in Seq(Nat)
    /\ said \in 0..MaxAdds /\ cleared \in 0..said
    /\ task \in [Threads -> Tasks]
    /\ \A t \in Threads : task[t].stage = "window" => task[t].cost \in Costs
    /\ ~known => history = <<>>

Working(t) == task[t].stage # "idle"

\* How far the one call that is under way has come.
Progress(t) ==
    /\ task[t].stage \in {"window", "persist", "send"} => known /\ history = Latest
    /\ task[t].stage \in {"send", "loaded"} => task[t].turns = Latest
    /\ task[t].stage = "loaded" => conv = Latest
    /\ task[t].stage = "clear" => ~known /\ Latest = <<>>

\* While all is calm, one call at a time has the history, and has it right.
Remembered ==
    calm =>
        /\ \A t, u \in Threads : Working(t) /\ Working(u) => t = u
        /\ (\A t \in Threads : ~Working(t)) => conv = Latest /\ (known => history = Latest)
        /\ \A t \in Threads : Progress(t)

LEMMA TaskFields ==
    ASSUME SessionTypeOK, NEW t \in Threads
    PROVE  /\ task[t] \in Tasks /\ task[t].stage \in Stages
           /\ task[t].turns \in Seq(Nat) /\ task[t].cost \in Costs \cup {0}
BY DEF SessionTypeOK, Tasks

LEMMA OwnTask ==
    ASSUME SessionTypeOK, NEW t \in Threads, NEW new \in Tasks,
           task' = [task EXCEPT ![t] = new]
    PROVE  /\ task' \in [Threads -> Tasks] /\ task'[t] = new
           /\ \A u \in Threads \ {t} : task'[u] = task[u]
BY DEF SessionTypeOK

LEMMA NoTaskTyped == NoTask \in Tasks /\ NoTask.stage = "idle"
BY DEF NoTask, Tasks, Stages

LEMMA LimitPositive == Limit \in Nat \ {0}
BY SessionMemoryAssumption DEF SessionMemoryAssumption

\* The latest turns, written out.
LEMMA LatestIs ==
    ASSUME NEW s \in Nat, NEW c \in 0..s
    PROVE  /\ LatestOf(s, c) \in Seq(Nat)
           /\ Len(LatestOf(s, c)) = IF s - c > Limit THEN Limit ELSE s - c
           /\ \A i \in 1..Len(LatestOf(s, c)) :
                LatestOf(s, c)[i] = s - Len(LatestOf(s, c)) + i
<1> DEFINE L == LatestOf(s, c)
<1>1. CASE s - c > Limit
  <2>1. L = [i \in 1..(s - (s - Limit + 1) + 1) |-> s - Limit + 1 + i - 1]
    BY <1>1 DEF LatestOf
  <2>2. s - (s - Limit + 1) + 1 = Limit
    BY LimitPositive
  <2>3. L = [i \in 1..Limit |-> s - Limit + 1 + i - 1]
    BY <2>1, <2>2
  <2>4. \A i \in 1..Limit : s - Limit + 1 + i - 1 = s - Limit + i /\ s - Limit + i \in Nat
    BY <1>1, LimitPositive
  <2> HIDE DEF L
  <2>5. L \in Seq(Nat) /\ Len(L) = Limit
    BY <2>3, <2>4, LimitPositive
  <2>6. \A i \in 1..Len(L) : L[i] = s - Len(L) + i
    BY <2>3, <2>4, <2>5
  <2> QED BY <1>1, <2>5, <2>6 DEF L
<1>2. CASE ~(s - c > Limit)
  <2>1. L = [i \in 1..(s - (c + 1) + 1) |-> c + 1 + i - 1]
    BY <1>2 DEF LatestOf
  <2>2. s - (c + 1) + 1 = s - c /\ s - c \in Nat /\ c \in Nat
    OBVIOUS
  <2>3. L = [i \in 1..(s - c) |-> c + 1 + i - 1]
    BY <2>1, <2>2
  <2>4. \A i \in 1..(s - c) : c + 1 + i - 1 = c + i /\ c + i \in Nat
    OBVIOUS
  <2> HIDE DEF L
  <2>5. L \in Seq(Nat) /\ Len(L) = s - c
    <3>1. \A i \in 1..(s - c) : c + 1 + i - 1 \in Nat
      BY <2>4
    <3> QED BY <2>2, <2>3, <3>1
  <2>6. \A i \in 1..Len(L) : L[i] = s - Len(L) + i
    BY <2>2, <2>3, <2>4, <2>5
  <2> QED BY <1>2, <2>5, <2>6 DEF L
<1> QED BY <1>1, <1>2

\* One more turn, and the history is trimmed to the latest turns again.
LEMMA TrimmedIsLatest ==
    ASSUME NEW s \in Nat, NEW c \in 0..s
    PROVE  Trimmed(Append(LatestOf(s, c), s + 1)) = LatestOf(s + 1, c)
<1> DEFINE old == LatestOf(s, c)
           more == Append(old, s + 1)
           new == LatestOf(s + 1, c)
<1>1. /\ old \in Seq(Nat) /\ Len(old) = IF s - c > Limit THEN Limit ELSE s - c
      /\ \A i \in 1..Len(old) : old[i] = s - Len(old) + i
  BY LatestIs
<1>2. /\ new \in Seq(Nat) /\ Len(new) = IF s + 1 - c > Limit THEN Limit ELSE s + 1 - c
      /\ \A i \in 1..Len(new) : new[i] = s + 1 - Len(new) + i
  <2> DEFINE t == s + 1
  <2>1. t \in Nat /\ c \in 0..t
    OBVIOUS
  <2> HIDE DEF t
  <2>2. /\ LatestOf(t, c) \in Seq(Nat)
        /\ Len(LatestOf(t, c)) = IF t - c > Limit THEN Limit ELSE t - c
        /\ \A i \in 1..Len(LatestOf(t, c)) : LatestOf(t, c)[i] = t - Len(LatestOf(t, c)) + i
    BY <2>1, LatestIs
  <2> QED BY <2>2 DEF t
<1> HIDE DEF old, new
<1>3. /\ more \in Seq(Nat) /\ Len(more) = Len(old) + 1 /\ Len(old) \in Nat
      /\ \A i \in 1..(Len(old) + 1) : more[i] = IF i = Len(old) + 1 THEN s + 1 ELSE old[i]
  BY <1>1
<1>4. \A i \in 1..(Len(old) + 1) : more[i] = s - Len(old) + i
  <2> TAKE i \in 1..(Len(old) + 1)
  <2>1. CASE i = Len(old) + 1
    <3>1. s - Len(old) + i = s + 1
      BY <1>3, <2>1
    <3> QED BY <1>3, <2>1, <3>1
  <2>2. CASE i # Len(old) + 1
    <3>1. i \in 1..Len(old)
      BY <1>3, <2>2
    <3> QED BY <1>1, <1>3, <2>2, <3>1
  <2> QED BY <2>1, <2>2
<1> HIDE DEF more
<1>5. CASE Len(more) > Limit
  <2>1. Len(old) = Limit /\ Len(new) = Limit /\ Len(more) - Limit + 1 = 2
    BY <1>1, <1>2, <1>3, <1>5, LimitPositive
  <2>2. Trimmed(more) = SubSeq(more, 2, Limit + 1)
    BY <1>3, <1>5, <2>1 DEF Trimmed
  <2>3. /\ SubSeq(more, 2, Limit + 1) \in Seq(Nat) /\ Len(SubSeq(more, 2, Limit + 1)) = Limit
        /\ \A i \in 1..Limit : SubSeq(more, 2, Limit + 1)[i] = more[i + 1]
    BY <1>3, <2>1, LimitPositive
  <2>4. \A i \in 1..Limit : more[i + 1] = new[i]
    <3> TAKE i \in 1..Limit
    <3>1. i + 1 \in 1..(Len(old) + 1) /\ i \in 1..Len(new)
      BY <2>1, LimitPositive
    <3>2. more[i + 1] = s - Limit + (i + 1) /\ new[i] = s + 1 - Limit + i
      BY <1>2, <1>4, <2>1, <3>1
    <3> QED BY <3>2, LimitPositive
  <2>5. Trimmed(more) \in Seq(Nat) /\ Len(Trimmed(more)) = Len(new)
        /\ \A i \in 1..Len(new) : Trimmed(more)[i] = new[i]
    BY <2>1, <2>2, <2>3, <2>4
  <2> QED BY <1>2, <2>5 DEF more, new, old
<1>6. CASE ~(Len(more) > Limit)
  <2>1. Trimmed(more) = more
    BY <1>6 DEF Trimmed
  <2>2. Len(old) = s - c /\ Len(more) = s + 1 - c /\ Len(new) = s + 1 - c
    BY <1>1, <1>2, <1>3, <1>6, LimitPositive
  <2>3. \A i \in 1..Len(new) : more[i] = new[i]
    <3> TAKE i \in 1..Len(new)
    <3>1. more[i] = s - (s - c) + i /\ new[i] = s + 1 - (s + 1 - c) + i
      BY <1>2, <1>3, <1>4, <2>2
    <3> QED BY <3>1
  <2>4. more = new
    BY <1>2, <1>3, <2>2, <2>3
  <2> QED BY <2>1, <2>4 DEF more, new, old
<1> QED BY <1>3, <1>5, <1>6, LimitPositive

LEMMA NothingSince == ASSUME NEW s \in Nat PROVE LatestOf(s, s) = <<>>
<1>1. LatestOf(s, s) \in Seq(Nat) /\ Len(LatestOf(s, s)) = 0
  BY LatestIs, LimitPositive
<1> QED BY <1>1

LEMMA TrimmedTyped ==
    ASSUME NEW turns \in Seq(Nat) PROVE Trimmed(turns) \in Seq(Nat)
BY LimitPositive DEF Trimmed

LEMMA Said ==
    ASSUME SessionTypeOK
    PROVE  /\ said \in Nat /\ said <= MaxAdds /\ cleared \in Nat /\ cleared <= said
           /\ MaxAdds \in Nat
BY Limits DEF SessionTypeOK

\* At most one call is under way, and its part is done right.
LEMMA OneAtWork ==
    ASSUME NEW t \in Threads, \A u \in Threads \ {t} : ~Working(u)', Progress(t)',
           ~Working(t)' => conv' = Latest' /\ (known' => history' = Latest')
    PROVE  Remembered'
BY DEF Remembered, Working, Progress

LEMMA SessionInitial == SessionInit => SessionTypeOK /\ Remembered
<1> SUFFICES ASSUME SessionInit PROVE SessionTypeOK /\ Remembered
  OBVIOUS
<1>1. \A t \in Threads : task[t] = NoTask
  BY DEF SessionInit
<1>2. task \in [Threads -> Tasks] /\ \A t \in Threads : task[t].stage = "idle"
  BY <1>1, NoTaskTyped DEF SessionInit
<1>3. SessionTypeOK
  <2>1. 0 \in 0..MaxAdds /\ 0 \in 0..0 /\ <<>> \in Seq(Nat)
    BY Limits
  <2>2. /\ known = FALSE /\ calm = TRUE /\ history = <<>> /\ conv = <<>>
        /\ said = 0 /\ cleared = 0
    BY DEF SessionInit
  <2>3. known \in BOOLEAN /\ calm \in BOOLEAN
    BY <2>2
  <2> QED BY <1>2, <2>1, <2>2, <2>3 DEF SessionTypeOK
<1>4. Latest = <<>>
  BY NothingSince DEF SessionInit, Latest
<1>5. Remembered
  BY <1>2, <1>4 DEF SessionInit, Remembered, Working, Progress
<1> QED BY <1>3, <1>5

\* What the beginning of a call finds, if all stays calm.
LEMMA CallFinds ==
    ASSUME SessionTypeOK, Remembered, NEW t \in Threads, NEW fine \in BOOLEAN, Call(t, fine)
    PROVE  /\ calm' \in BOOLEAN /\ task[t].stage = "idle"
           /\ calm' => /\ fine /\ \A u \in Threads : ~Working(u)
                       /\ conv = Latest /\ (known => history = Latest)
<1>1. calm' = (calm /\ fine /\ \A u \in Threads : Free(u)) /\ task[t].stage = "idle"
  BY DEF Call, Free
<1>2. calm' \in BOOLEAN
  BY <1>1, Zenon DEF SessionTypeOK
<1> QED BY <1>1, <1>2 DEF Free, Working, Remembered

LEMMA AddTurnKeeps ==
    ASSUME SessionTypeOK, Remembered, NEW t \in Threads, NEW cost \in Costs,
           AddTurn(t, cost)
    PROVE  SessionTypeOK' /\ Remembered'
<1> DEFINE new == [task[t] EXCEPT !.stage = "window", !.cost = cost]
<1>1. /\ new \in Tasks /\ new.stage = "window" /\ new.cost = cost
  BY TaskFields DEF Tasks, Stages
<1>2. task' = [task EXCEPT ![t] = new]
  BY DEF AddTurn
<1> HIDE DEF new
<1>3. /\ task' \in [Threads -> Tasks] /\ task'[t] = new
      /\ \A u \in Threads \ {t} : task'[u] = task[u]
  BY <1>1, <1>2, OwnTask
<1>4. /\ said \in Nat /\ said < MaxAdds /\ said' = said + 1 /\ known' = TRUE
      /\ history' = Trimmed(Append(history, said + 1)) /\ UNCHANGED <<conv, cleared>>
      /\ Call(t, known \/ conv = <<>>) /\ cleared \in Nat /\ cleared <= said
      /\ MaxAdds \in Nat
  BY Said DEF AddTurn
<1>5. (known \/ conv = <<>>) \in BOOLEAN
  BY Zenon DEF SessionTypeOK
<1>6. /\ calm' \in BOOLEAN
      /\ calm' => /\ known \/ conv = <<>>
                  /\ \A u \in Threads : ~Working(u)
                  /\ conv = Latest
                  /\ known => history = Latest
  BY <1>4, <1>5, CallFinds
<1>7. SessionTypeOK'
  <2>1. history' \in Seq(Nat)
    <3>1. Append(history, said + 1) \in Seq(Nat)
      BY <1>4 DEF SessionTypeOK
    <3> QED BY <1>4, <3>1, TrimmedTyped
  <2>2. said' \in 0..MaxAdds /\ cleared' \in 0..said'
    BY <1>4
  <2>3. \A u \in Threads : task'[u].stage = "window" => task'[u].cost \in Costs
    BY <1>1, <1>3 DEF SessionTypeOK
  <2>4. known' = TRUE /\ conv' \in Seq(Nat)
    BY <1>4 DEF SessionTypeOK
  <2> QED BY <1>3, <1>6, <2>1, <2>2, <2>3, <2>4 DEF SessionTypeOK
<1>8. ASSUME calm' PROVE Remembered'
  <2>1. history = Latest
    BY <1>6, <1>8 DEF SessionTypeOK
  <2>2. history' = LatestOf(said + 1, cleared)
    BY <1>4, <2>1, TrimmedIsLatest DEF Latest
  <2>3. history' = Latest'
    BY <1>4, <2>2 DEF Latest
  <2>4. Progress(t)' /\ Working(t)'
    BY <1>1, <1>3, <1>4, <2>3 DEF Progress, Working
  <2>5. \A u \in Threads \ {t} : ~Working(u)'
    BY <1>3, <1>6, <1>8 DEF Working
  <2> QED BY <2>4, <2>5, OneAtWork
<1> QED BY <1>7, <1>8 DEF Remembered

LEMMA LoadKeeps ==
    ASSUME SessionTypeOK, Remembered, NEW t \in Threads, LoadHistory(t)
    PROVE  SessionTypeOK' /\ Remembered'
<1> DEFINE new == [task[t] EXCEPT !.stage = IF conv = <<>> THEN "idle" ELSE "loaded",
                                  !.turns = conv]
<1>1. /\ new \in Tasks /\ new.turns = conv
      /\ new.stage = IF conv = <<>> THEN "idle" ELSE "loaded"
  BY TaskFields DEF Tasks, Stages, SessionTypeOK
<1>2. task' = [task EXCEPT ![t] = new] /\ UNCHANGED conversation /\ ~known /\ Call(t, TRUE)
  BY DEF LoadHistory
<1> HIDE DEF new
<1>3. /\ task' \in [Threads -> Tasks] /\ task'[t] = new
      /\ \A u \in Threads \ {t} : task'[u] = task[u]
  BY <1>1, <1>2, OwnTask
<1>4. /\ calm' \in BOOLEAN
      /\ calm' => (\A u \in Threads : ~Working(u)) /\ conv = Latest
  BY <1>2, CallFinds
<1>5. SessionTypeOK'
  <2>1. \A u \in Threads : task'[u].stage = "window" => task'[u].cost \in Costs
    BY <1>1, <1>3 DEF SessionTypeOK
  <2> QED BY <1>2, <1>3, <1>4, <2>1 DEF SessionTypeOK, conversation
<1>6. ASSUME calm' PROVE Remembered'
  <2>1. conv' = Latest' /\ ~known' /\ task'[t].turns = Latest'
    BY <1>1, <1>2, <1>3, <1>4, <1>6 DEF conversation, Latest
  <2>2. Progress(t)'
    BY <1>1, <1>3, <2>1 DEF Progress
  <2>3. \A u \in Threads \ {t} : ~Working(u)'
    BY <1>3, <1>4, <1>6 DEF Working
  <2> QED BY <2>1, <2>2, <2>3, OneAtWork
<1> QED BY <1>5, <1>6 DEF Remembered

LEMMA GoTo ==
    ASSUME SessionTypeOK, NEW t \in Threads, NEW stage \in Stages, Go(t, stage)
    PROVE  /\ task' \in [Threads -> Tasks] /\ task'[t].stage = stage
           /\ task'[t].turns = task[t].turns
           /\ \A u \in Threads \ {t} : task'[u] = task[u]
<1> DEFINE new == [task[t] EXCEPT !.stage = stage]
<1>1. new \in Tasks /\ new.stage = stage /\ new.turns = task[t].turns
  BY TaskFields DEF Tasks
<1>2. task' = [task EXCEPT ![t] = new]
  BY DEF Go
<1> HIDE DEF new
<1> QED BY <1>1, <1>2, OwnTask

LEMMA ClearKeeps ==
    ASSUME SessionTypeOK, Remembered, NEW t \in Threads, ClearHistory(t)
    PROVE  SessionTypeOK' /\ Remembered'
<1>1. /\ Call(t, TRUE) /\ known' = FALSE /\ history' = <<>> /\ cleared' = said
      /\ Go(t, "clear") /\ UNCHANGED <<conv, said>>
  BY DEF ClearHistory
<1>2. /\ task' \in [Threads -> Tasks] /\ task'[t].stage = "clear"
      /\ \A u \in Threads \ {t} : task'[u] = task[u]
  BY <1>1, GoTo DEF Stages
<1>3. calm' \in BOOLEAN /\ (calm' => \A u \in Threads : ~Working(u))
  BY <1>1, CallFinds
<1>4. SessionTypeOK'
  <2>1. \A u \in Threads : task'[u].stage = "window" => task'[u].cost \in Costs
    BY <1>2 DEF SessionTypeOK
  <2>2. said' \in 0..MaxAdds /\ cleared' \in 0..said' /\ <<>> \in Seq(Nat)
    BY <1>1, Said
  <2> QED BY <1>1, <1>2, <1>3, <2>1, <2>2 DEF SessionTypeOK
<1>5. ASSUME calm' PROVE Remembered'
  <2>1. Latest' = <<>>
    BY <1>1, Said, NothingSince DEF Latest
  <2>2. Progress(t)' /\ Working(t)'
    BY <1>1, <1>2, <2>1 DEF Progress, Working
  <2>3. \A u \in Threads \ {t} : ~Working(u)'
    BY <1>2, <1>3, <1>5 DEF Working
  <2> QED BY <2>2, <2>3, OneAtWork
<1> QED BY <1>4, <1>5 DEF Remembered

\* The steps of a call that is under way: it is the only one while all is calm.
LEMMA OnlyOne ==
    ASSUME SessionTypeOK, Remembered, calm, NEW t \in Threads, Working(t),
           \A u \in Threads \ {t} : task'[u] = task[u]
    PROVE  Progress(t) /\ \A u \in Threads \ {t} : ~Working(u)'
BY DEF Remembered, Working

LEMMA CallKeeps ==
    ASSUME SessionTypeOK, Remembered, NEW t \in Threads,
           \/ AddToWindow(t) \/ CopyHistory(t) \/ SendHistory(t)
           \/ KeepHistory(t) \/ DeleteHistory(t)
    PROVE  SessionTypeOK' /\ Remembered'
<1>1. task \in [Threads -> Tasks] /\ task[t] \in Tasks /\ task[t].turns \in Seq(Nat)
  BY TaskFields DEF SessionTypeOK
<1>2. UNCHANGED <<said, cleared, calm>> /\ Latest' = Latest
  BY DEF AddToWindow, CopyHistory, SendHistory, KeepHistory, DeleteHistory, conversation,
     Latest
<1>3. SUFFICES ASSUME NEW new \in Tasks, task' = [task EXCEPT ![t] = new],
                      new.stage # "window"
               PROVE  /\ known' \in BOOLEAN /\ history' \in Seq(Nat) /\ conv' \in Seq(Nat)
                      /\ ~known' => history' = <<>>
                      /\ calm => /\ Progress(t)'
                                 /\ ~Working(t)' => /\ conv' = Latest
                                                    /\ known' => history' = Latest
  <2>1. PICK new \in Tasks : task' = [task EXCEPT ![t] = new] /\ new.stage # "window"
    <3>1. CASE AddToWindow(t)
      <4>1. [task[t] EXCEPT !.stage = "persist"] \in Tasks
        BY <1>1 DEF Tasks, Stages
      <4>2. [task[t] EXCEPT !.stage = "persist"].stage # "window"
        BY <1>1 DEF Tasks
      <4> QED BY <3>1, <4>1, <4>2 DEF AddToWindow, Go
    <3>2. CASE CopyHistory(t)
      <4> DEFINE n == [task[t] EXCEPT !.stage = "send", !.turns = history]
      <4>1. n \in Tasks /\ n.stage # "window"
        BY <1>1 DEF Tasks, Stages, SessionTypeOK
      <4> QED BY <3>2, <4>1 DEF CopyHistory
    <3>3. CASE SendHistory(t) \/ KeepHistory(t) \/ DeleteHistory(t)
      BY <3>3, NoTaskTyped DEF SendHistory, KeepHistory, DeleteHistory, End
    <3> QED BY <3>1, <3>2, <3>3
  <2>2. /\ task' \in [Threads -> Tasks] /\ task'[t] = new
        /\ \A u \in Threads \ {t} : task'[u] = task[u]
    BY <2>1, OwnTask
  <2>3. /\ known' \in BOOLEAN /\ history' \in Seq(Nat) /\ conv' \in Seq(Nat)
        /\ ~known' => history' = <<>>
        /\ calm => /\ Progress(t)'
                   /\ ~Working(t)' => conv' = Latest /\ (known' => history' = Latest)
    BY <1>3, <2>1
  <2>4. SessionTypeOK'
    <3>1. \A u \in Threads : task'[u].stage = "window" => task'[u].cost \in Costs
      BY <2>1, <2>2 DEF SessionTypeOK
    <3> QED BY <1>2, <2>2, <2>3, <3>1 DEF SessionTypeOK
  <2>5. ASSUME calm PROVE Remembered'
    <3>1. Working(t)
      BY DEF AddToWindow, CopyHistory, SendHistory, KeepHistory, DeleteHistory, Working
    <3>2. \A u \in Threads \ {t} : ~Working(u)'
      BY <2>2, <2>5, <3>1, OnlyOne
    <3> QED BY <1>2, <2>3, <2>5, <3>2, OneAtWork
  <2> QED BY <1>2, <2>4, <2>5 DEF Remembered
<1>4. task'[t] = new
  BY <1>1, <1>3
<1>5. calm => Progress(t)
  BY DEF Remembered
<1>6. /\ known \in BOOLEAN /\ history \in Seq(Nat) /\ conv \in Seq(Nat)
      /\ ~known => history = <<>>
  BY DEF SessionTypeOK
<1>7. CASE AddToWindow(t)
  <2>1. /\ task' = [task EXCEPT ![t].stage = "persist"] /\ task[t].stage = "window"
        /\ UNCHANGED <<known, history, conv>>
    BY <1>7 DEF AddToWindow, Go, conversation
  <2>2. task'[t].stage = "persist"
    BY <1>1, <2>1 DEF Tasks
  <2> QED BY <1>2, <1>5, <1>6, <2>1, <2>2 DEF Progress, Working
<1>8. CASE CopyHistory(t)
  <2>1. /\ task' = [task EXCEPT ![t].stage = "send", ![t].turns = history]
        /\ task[t].stage = "persist" /\ UNCHANGED <<known, history, conv>>
    BY <1>8 DEF CopyHistory, conversation
  <2>2. task'[t].stage = "send" /\ task'[t].turns = history
    BY <1>1, <2>1 DEF Tasks
  <2> QED BY <1>2, <1>5, <1>6, <2>1, <2>2 DEF Progress, Working
<1>9. ASSUME End(t) PROVE task'[t].stage = "idle" /\ Progress(t)'
  BY <1>1, <1>9, NoTaskTyped DEF End, Progress
<1>10. CASE SendHistory(t)
  <2>1. /\ conv' = task[t].turns /\ task[t].stage = "send" /\ End(t)
        /\ UNCHANGED <<known, history>>
    BY <1>10 DEF SendHistory
  <2> QED BY <1>1, <1>5, <1>6, <1>9, <2>1 DEF Progress
<1>11. CASE KeepHistory(t)
  <2>1. /\ history' = task[t].turns /\ known' = TRUE /\ task[t].stage = "loaded" /\ End(t)
        /\ UNCHANGED conv
    BY <1>11 DEF KeepHistory
  <2> QED BY <1>1, <1>5, <1>6, <1>9, <2>1 DEF Progress
<1>12. CASE DeleteHistory(t)
  <2>1. conv' = <<>> /\ task[t].stage = "clear" /\ End(t) /\ UNCHANGED <<known, history>>
    BY <1>12 DEF DeleteHistory
  <2>2. <<>> \in Seq(Nat)
    OBVIOUS
  <2> QED BY <1>5, <1>6, <1>9, <2>1, <2>2 DEF Progress
<1> QED BY <1>7, <1>8, <1>10, <1>11, <1>12

LEMMA HistoryFailsKeeps ==
    ASSUME SessionTypeOK, Remembered, NEW t \in Threads, HistoryFails(t)
    PROVE  SessionTypeOK' /\ Remembered'
<1>1. /\ task' = [task EXCEPT ![t] = NoTask] /\ calm' = FALSE
      /\ UNCHANGED <<known, history, conv, said, cleared>>
  BY DEF HistoryFails, End, conversation
<1>2. /\ task' \in [Threads -> Tasks] /\ task'[t] = NoTask
      /\ \A u \in Threads \ {t} : task'[u] = task[u]
  BY <1>1, NoTaskTyped, OwnTask
<1>3. \A u \in Threads : task'[u].stage = "window" => task'[u].cost \in Costs
  BY <1>2, NoTaskTyped DEF SessionTypeOK
<1> QED BY <1>1, <1>2, <1>3 DEF SessionTypeOK, Remembered

LEMMA ExpiryKeeps ==
    ASSUME SessionTypeOK, HistoryExpires PROVE SessionTypeOK' /\ Remembered'
<1>1. conv' = <<>> /\ calm' = FALSE /\ UNCHANGED <<task, known, history, said, cleared>>
  BY DEF HistoryExpires
<1>2. <<>> \in Seq(Nat)
  OBVIOUS
<1> QED BY <1>1, <1>2 DEF SessionTypeOK, Remembered

LEMMA SessionRestartKeeps ==
    ASSUME SessionTypeOK, Remembered, SessionRestart PROVE SessionTypeOK' /\ Remembered'
<1>1. /\ calm' = (calm /\ \A t \in Threads : Free(t)) /\ known' = FALSE /\ history' = <<>>
      /\ task' = [t \in Threads |-> NoTask] /\ UNCHANGED <<conv, said, cleared>>
  BY DEF SessionRestart
<1>2. task' \in [Threads -> Tasks] /\ \A t \in Threads : task'[t].stage = "idle"
  BY <1>1, NoTaskTyped
<1>3. calm' \in BOOLEAN
  BY <1>1, Zenon DEF SessionTypeOK
<1>4. <<>> \in Seq(Nat)
  OBVIOUS
<1>5. SessionTypeOK'
  BY <1>1, <1>2, <1>3, <1>4 DEF SessionTypeOK
<1>6. ASSUME calm' PROVE conv' = Latest'
  BY <1>1, <1>6 DEF Remembered, Free, Working, Latest
<1> QED BY <1>1, <1>2, <1>5, <1>6 DEF Remembered, Working, Progress

\* What leaves the history alone.
LEMMA OthersKeep ==
    ASSUME SessionTypeOK, Remembered, UNCHANGED <<conversation, task, calm>>
    PROVE  SessionTypeOK' /\ Remembered'
BY DEF SessionTypeOK, Remembered, Working, Progress, Latest, conversation

LEMMA SessionStep ==
    ASSUME SessionTypeOK, Remembered, [SessionNext]_sessionVars
    PROVE  SessionTypeOK' /\ Remembered'
<1>1. ASSUME NEW t \in Threads, WindowStep(t) PROVE UNCHANGED <<conversation, task, calm>>
  BY <1>1 DEF WindowStep
<1>2. WindowExpires \/ UNCHANGED sessionVars => UNCHANGED <<conversation, task, calm>>
  BY DEF WindowExpires, sessionVars
<1> QED BY <1>1, <1>2, OthersKeep, AddTurnKeeps, LoadKeeps, ClearKeeps, CallKeeps,
       HistoryFailsKeeps, ExpiryKeeps, SessionRestartKeeps DEF SessionNext

LEMMA SessionSafety == SessionSpec => [](WindowInv /\ Alone /\ SessionTypeOK /\ Remembered)
<1> DEFINE Inv == WindowInv /\ Alone /\ SessionTypeOK /\ Remembered
<1>1. SessionInit => Inv
  BY WindowInitial, AloneInitial, SessionInitial DEF SessionInit
<1>2. Inv /\ [SessionNext]_sessionVars => Inv'
  <2> SUFFICES ASSUME Inv, [SessionNext]_sessionVars PROVE Inv'
    OBVIOUS
  <2>1. Next \/ RedisFails \/ UNCHANGED vars
    BY WindowSteps DEF SessionTypeOK
  <2>2. WindowInv'
    BY <2>1, AddKeeps, MirroringKeeps, FaultsKeep, RestartKeeps DEF Next
  <2>3. Alone'
    BY <2>1, AloneStep
  <2>4. SessionTypeOK' /\ Remembered'
    BY SessionStep
  <2> QED BY <2>2, <2>3, <2>4
<1> QED BY <1>1, <1>2, PTL DEF SessionSpec

\* The types of the window and of the history: the deque keeps its bound and the
\* estimate never becomes negative, though compaction subtracts from it.
THEOREM MemoryTypeCorrect == SessionSpec => [](TypeOK /\ SessionTypeOK)
<1>1. WindowInv => TypeOK
  BY DEF WindowInv
<1> QED BY <1>1, SessionSafety, PTL

\* The estimate covers the turns in the buffer, for every deque, budget, chunk and
\* cost, although an eviction from a full deque, a compaction and a restart each
\* change the one and the other in their own way.
THEOREM EstimateNeverShort == SessionSpec => []EstimateCoversBuffer
<1>1. WindowInv => EstimateCoversBuffer
  BY DEF WindowInv
<1> QED BY <1>1, SessionSafety, PTL

\* The turns stay in the order of the conversation, the summary before the buffer,
\* in the window and in what the next process restores, whatever number of threads
\* add turns while others read the window, unlocked, to mirror it.
THEOREM MemoryInOrder == SessionSpec => []InOrder
<1>1. WindowInv => InOrder
  BY DEF WindowInv, InOrder, Sorted, SortedTo
<1> QED BY <1>1, SessionSafety, PTL

\* Between calls that do not overlap and do not fail, Redis has the window.
THEOREM MirrorHasWindow == SessionSpec => []MirrorIsCurrent
<1>1. Alone => MirrorIsCurrent
  BY DEF Alone, Resting, MirrorIsCurrent
<1> QED BY <1>1, SessionSafety, PTL

\* The latest turns of a conversation survive trimming, clearing, reading back and any
\* number of restarts, between calls that do not overlap.
THEOREM ConversationsAreKept == SessionSpec => []ConversationKept
<1>1. Remembered => ConversationKept
  BY DEF Remembered, ConversationKept, Working, Free
<1> QED BY <1>1, SessionSafety, PTL

================================================================================
