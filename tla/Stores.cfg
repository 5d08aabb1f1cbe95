\* The conversation: two threads, a deque of two turns and chunks of two; a
\* history of two turns; one fault.  The caches: two calls at once, each of the
\* stores, an L1 of two entries, three keys.
CONSTANTS
    t1 = t1
    t2 = t2
    Threads = {t1, t2}
    Costs = {1, 3}
    MaxTokens = 3
    MaxTurns = 2
    Chunk = 2
    MaxAdds = 3
    MaxFaults = 1
    Limit = 2
    k1 = k1
    k2 = k2
    k3 = k3
    Calls = {t1, t2}
    Stores = {"objects", "texts", "summaries", "responses"}
    Keys = {k1, k2, k3}
    MaxSize = 2
    Ttl = 1
    MaxSets = 3
    MaxTime = 2
SYMMETRY StoreSymmetry
SPECIFICATION StoresSpec
INVARIANTS
    EstimateCoversBuffer
    InOrder
    MirrorIsCurrent
    ConversationKept
    LeastRecentlyUsedFirst
    OverflowIsReadBack
PROPERTIES
    NeverBackInTime
CHECK_DEADLOCK FALSE
