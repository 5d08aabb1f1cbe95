------------------------------- MODULE LeadCache -------------------------------
(***************************************************************************)
(* The two-tier stores of the program, which all have one shape: an LRU    *)
(* dictionary in the process (L1) over Redis (L2).  They are the cache of  *)
(* pages, leads and session states (common/session/cache.py), the full     *)
(* texts and the summaries of pages (common/session/memory.py) and the     *)
(* responses of language models (common/llm/response_cache.py, behind      *)
(* CachedLLM).  They differ in what expires and in what a reading back from*)
(* Redis does to L1.                                                       *)
(*                                                                         *)
(* Each access to a tier is atomic; get and set, which go from one tier to *)
(* the other, are not, and the threads of a process share L1.  The other   *)
(* processes are seen through Redis only.  A value is the number of the set*)
(* that wrote it; its compression and its parsing are left out.            *)
(***************************************************************************)
EXTENDS Integers, SequencesExt

CONSTANTS
    Calls,          \* the calls of get and set that may be in progress at once
    Stores,         \* which of the stores there may be
    Keys,
    MaxSize,        \* lru_maxsize
    Ttl,            \* the ttl every set is made with
    MaxTime, MaxSets    \* bounds on the clock and on the sets

ASSUME LeadCacheAssumption ==
    /\ Stores \subseteq {"objects", "texts", "summaries", "responses"}
    /\ MaxSize \in Nat \ {0} /\ Ttl \in Nat \ {0}
    /\ MaxTime \in Nat /\ MaxSets \in Nat

VARIABLES
    store,          \* the store looked at
    linked,         \* this process found Redis when it made the store
    now,            \* the clock
    lru,            \* L1, least recently used first
    redis,          \* L2
    call,           \* where each call is in get or set
    sets,           \* number of sets so far
    orderly,        \* history: no Redis error, and no two calls overlapped
    served,         \* history: the value of each key last got, while orderly
    recency,        \* history: the keys used, most recently used last
    readBack        \* history: the keys put into L1 since something was last set

cacheVars == <<store, linked, now, lru, redis, call, sets, orderly, served, recency, readBack>>

Values == 1..MaxSets
NoValue == 0
Never == 0      \* an expires_at of 0: no expiry

Entries == [key : Keys, value : Values, expires : Nat]
NoEntry == [value |-> NoValue, expires |-> Never]
AtRest == [stage |-> "idle"]
NothingServed == [k \in Keys |-> NoValue]

--------------------------------------------------------------------------------

\* _LRUCache
Holds(k) == \E i \in 1..Len(lru) : lru[i].key = k
Place(k) == CHOOSE i \in 1..Len(lru) : lru[i].key = k
EntryOf(k) == lru[Place(k)]
Without(k) == IF Holds(k) THEN RemoveAt(lru, Place(k)) ELSE lru
Expired(e) == e.expires # Never /\ now > e.expires

\* Seeded fault: nothing is evicted.
EvictNothing(entries) == entries

Evict(entries) ==
    IF Len(entries) > MaxSize THEN SubSeq(entries, Len(entries) - MaxSize + 1, Len(entries))
                              ELSE entries

\* Seeded fault: a hit does not move the key.
TouchInPlace(k) == UNCHANGED lru

\* get of a key that is there: it becomes the most recently used.
Touch(k) == lru' = Append(Without(k), EntryOf(k))

\* An entry comes in as the most recently used.
Inserted(k, v, expires) == Append(Without(k), [key |-> k, value |-> v, expires |-> expires])

Overwritten(k, v) ==
    [i \in 1..Len(lru) |-> IF lru[i].key = k THEN [lru[i] EXCEPT !.value = v] ELSE lru[i]]

Position(s, x) == CHOOSE i \in 1..Len(s) : s[i] = x

Used(k) ==
    recency' = Append(IF k \in ToSet(recency) THEN RemoveAt(recency, Position(recency, k))
                                              ELSE recency, k)
Serve(k, v) == served' = IF orderly' THEN [served EXCEPT ![k] = v] ELSE NothingServed
Enter(c, step) == call' = [call EXCEPT ![c] = step]

KeepOrder == orderly' = (orderly /\ \A c \in Calls : call[c] = AtRest)

BeginCall(c) == call[c] = AtRest /\ KeepOrder

\* A get that found nothing: CachedLLM then asks the model, the others return.
Unfound(k) == IF store = "responses" THEN [stage |-> "asking", key |-> k] ELSE AtRest

--------------------------------------------------------------------------------

\* _RedisBackend(): a ping answers or not, and that is settled for the process.
Connections == {TRUE, FALSE}

CacheInit ==
    /\ store \in Stores
    /\ linked \in Connections
    /\ now = 0 /\ sets = 0
    /\ lru = <<>>
    /\ redis = [k \in Keys |-> NoEntry]
    /\ call = [c \in Calls |-> AtRest]
    /\ served = NothingServed
    /\ recency = <<>>
    /\ readBack = {}
    /\ orderly = TRUE

\* get: L1 has it,
HitL1(c, k) ==
    /\ BeginCall(c)
    /\ Holds(k)
    /\ ~Expired(EntryOf(k))
    /\ Touch(k) /\ Used(k)
    /\ Serve(k, EntryOf(k).value)
    /\ UNCHANGED <<store, linked, now, redis, call, sets, readBack>>

\* or it has not, or no longer: then Redis is asked, if there is one,
MissL1(c, k) ==
    /\ BeginCall(c)
    /\ Holds(k) => Expired(EntryOf(k))
    /\ lru' = Without(k)
    /\ Enter(c, IF linked THEN [stage |-> "missed", key |-> k] ELSE Unfound(k))
    /\ UNCHANGED <<store, linked, now, redis, sets, served, recency, readBack>>

\* which has it,
HitL2(c) ==
    /\ call[c].stage = "missed"
    /\ LET k == call[c].key IN
         /\ redis[k] # NoEntry
         /\ Enter(c, [stage |-> "warming", key |-> k, value |-> redis[k].value])
    /\ UNCHANGED <<store, linked, now, lru, redis, sets, orderly, served, recency, readBack>>

\* or has not,
MissL2(c) ==
    /\ call[c].stage = "missed"
    /\ redis[call[c].key] = NoEntry
    /\ Enter(c, Unfound(call[c].key))
    /\ UNCHANGED <<store, linked, now, lru, redis, sets, orderly, served, recency, readBack>>

\* and what it had goes into L1, with no ttl,
Warm(c, entries) ==
    /\ call[c].stage = "warming"
    /\ UNCHANGED <<store, linked, now, redis, sets, orderly>>
    /\ lru' = entries
    /\ readBack' = readBack \cup {call[c].key}
    /\ Used(call[c].key)
    /\ Serve(call[c].key, call[c].value)
    /\ Enter(c, AtRest)

\* where LeadCache makes room for it,
WarmObject(c) ==
    /\ store = "objects"
    /\ Warm(c, Evict(Inserted(call[c].key, call[c].value, Never)))

\* and so does LLMResponseCache,
WarmResponse(c) ==
    /\ store = "responses"
    /\ Warm(c, Evict(Inserted(call[c].key, call[c].value, Never)))

\* but get_full_text does not,
WarmText(c) ==
    /\ store = "texts"
    /\ Warm(c, Inserted(call[c].key, call[c].value, Never))

\* and get_summary leaves the place of a key that has come in meanwhile, too.
WarmSummary(c) ==
    /\ store = "summaries"
    /\ LET k == call[c].key
           v == call[c].value IN
         Warm(c, IF Holds(k) THEN Overwritten(k, v) ELSE Inserted(k, v, Never))

\* A set writes L1, making room, and goes on to Redis if there is one.
SetL1(c, k, expires) ==
    /\ sets < MaxSets
    /\ sets' = sets + 1
    /\ lru' = Evict(Inserted(k, sets + 1, expires)) /\ Used(k)
    /\ readBack' = {}
    /\ Enter(c, IF linked THEN [stage |-> "storing", key |-> k, value |-> sets + 1] ELSE AtRest)
    /\ UNCHANGED <<store, linked, now, redis, served>>

\* set_crawled_page(), set_lead(), set_session_state(): in L1 the ttl counts too.
SetObject(c, k) == store = "objects" /\ BeginCall(c) /\ SetL1(c, k, now + Ttl)

StoreFullText(c, k) == store = "texts" /\ BeginCall(c) /\ SetL1(c, k, Never)

StoreSummary(c, k) == store = "summaries" /\ BeginCall(c) /\ SetL1(c, k, Never)

\* CachedLLM.invoke_structured() after a miss: the model answers and the answer
\* is cached,
Answer(c) ==
    /\ call[c].stage = "asking"
    /\ SetL1(c, call[c].key, Never)
    /\ UNCHANGED orderly

\* or fails, and _safe_invoke() gives the agent its fallback.
NoAnswer(c) ==
    /\ call[c].stage = "asking"
    /\ Enter(c, AtRest)
    /\ UNCHANGED <<store, linked, now, lru, redis, sets, orderly, served, recency, readBack>>

\* Seeded fault: Redis keeps the value it has.
SetL2IfAbsent(c) ==
    /\ call[c].stage = "storing"
    /\ LET k == call[c].key IN
         redis' = [redis EXCEPT ![k] =
             IF @ # NoEntry THEN @
             ELSE [value |-> call[c].value, expires |-> now + Ttl]]
    /\ Enter(c, AtRest)
    /\ UNCHANGED <<store, linked, now, lru, sets, orderly, served, recency, readBack>>

\* Then a set writes Redis.
SetL2(c) ==
    /\ call[c].stage = "storing"
    /\ redis' = [redis EXCEPT ![call[c].key] =
                   [value |-> call[c].value, expires |-> now + Ttl]]
    /\ Enter(c, AtRest)
    /\ UNCHANGED <<store, linked, now, lru, sets, orderly, served, recency, readBack>>

\* evict_full_text(): out of L1, kept in Redis.
EvictFullText(k) ==
    /\ store = "texts"
    /\ Holds(k)
    /\ lru' = Without(k)
    /\ KeepOrder
    /\ UNCHANGED <<store, linked, now, redis, call, sets, served, recency, readBack>>

\* A set of another process, as it shows in Redis.
SetElsewhere(k) ==
    /\ sets < MaxSets
    /\ sets' = sets + 1
    /\ redis' = [redis EXCEPT ![k] = [value |-> sets + 1, expires |-> now + Ttl]]
    /\ KeepOrder
    /\ UNCHANGED <<store, linked, now, lru, call, served, recency, readBack>>

\* A Redis error: get finds nothing and set does nothing.
RedisError(c) ==
    /\ call[c].stage \in {"missed", "storing"}
    /\ orderly' = FALSE
    /\ Enter(c, IF call[c].stage = "missed" THEN Unfound(call[c].key) ELSE AtRest)
    /\ UNCHANGED <<store, linked, now, lru, redis, sets, served, recency, readBack>>

\* The process ends and another takes its place, with an empty L1; it may or may
\* not find Redis.
NewProcess ==
    /\ lru' = <<>>
    /\ call' = [c \in Calls |-> AtRest]
    /\ recency' = <<>>
    /\ readBack' = {}
    /\ linked' \in Connections
    /\ orderly' = (orderly /\ linked' = linked)
    /\ UNCHANGED <<store, now, redis, sets, served>>

\* Redis deletes what has expired.  The ttls are hours and more: against them a
\* get or a set takes no time.
Tick ==
    /\ now < MaxTime
    /\ \A c \in Calls : call[c] = AtRest
    /\ now' = now + 1
    /\ redis' = [k \in Keys |-> IF redis[k].expires <= now + 1 THEN NoEntry ELSE redis[k]]
    /\ UNCHANGED <<store, linked, lru, call, sets, orderly, served, recency, readBack>>

CacheNext ==
    \/ \E c \in Calls :
         \/ \E k \in Keys :
              \/ HitL1(c, k) \/ MissL1(c, k)
              \/ SetObject(c, k) \/ StoreFullText(c, k) \/ StoreSummary(c, k)
         \/ HitL2(c) \/ MissL2(c)
         \/ WarmObject(c) \/ WarmText(c) \/ WarmSummary(c) \/ WarmResponse(c)
         \/ Answer(c) \/ NoAnswer(c)
         \/ SetL2(c) \/ RedisError(c)
    \/ \E k \in Keys : SetElsewhere(k) \/ EvictFullText(k)
    \/ NewProcess
    \/ Tick

CacheSpec == CacheInit /\ [][CacheNext]_cacheVars

--------------------------------------------------------------------------------

Steps ==
    {AtRest} \cup [stage : {"missed", "asking"}, key : Keys]
           \cup [stage : {"warming", "storing"}, key : Keys, value : Values]

CacheTypeOK ==
    /\ store \in Stores /\ linked \in BOOLEAN
    /\ now \in 0..MaxTime /\ sets \in 0..MaxSets
    /\ orderly \in BOOLEAN
    /\ lru \in Seq(Entries)
    /\ redis \in [Keys -> {NoEntry} \cup [value : Values, expires : Nat]]
    /\ call \in [Calls -> Steps]
    /\ served \in [Keys -> Values \cup {NoValue}]
    /\ recency \in Seq(Keys)
    /\ readBack \subseteq Keys

\* L1 evicts the least recently used: whatever the threads of a process do, the
\* keys it holds are once each, in the order of their last use, so the first
\* one, which an overflow removes, is the one used longest ago.  Of the summaries
\* this holds only while no two calls overlap: see WarmSummary.
LeastRecentlyUsedFirst ==
    (store = "summaries" => orderly) =>
      \A i, j \in 1..Len(lru) : i < j =>
        Position(recency, lru[i].key) < Position(recency, lru[j].key)

\* "In-process, only the N most-recently-accessed texts are kept" (memory.py:19):
\* L1 outgrows its size by no more than what get_full_text() and get_summary()
\* have read back since the last text or summary was stored, and the other
\* stores never outgrow it.
OverflowIsReadBack ==
    /\ store \in {"objects", "responses"} => Len(lru) <= MaxSize
    /\ Len(lru) <= MaxSize + Cardinality(readBack)

\* The process never gets an older value of a key after a newer one, through evictions,
\* expiries, misses, restarts and the sets of other processes, as long as Redis
\* answers and no two calls overlap (a warming may overwrite a set it overlaps).
NeverBackInTime ==
    [][ orderly' =>
          \A k \in Keys : served'[k] >= served[k] ]_cacheVars

================================================================================
