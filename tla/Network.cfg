\* The crawl: three proxies, three URLs and two threads, with quarantines that can
\* expire between any two steps of a thread.  The searches: two threads, two
\* buckets, and a clock that runs past a refill and a timeout; searches of up to two
\* requests, tried twice.
CONSTANTS
    w1 = w1
    w2 = w2
    w3 = w3
    Workers = {w1, w2}
    N = 3
    Quarantine = 2
    MaxClock = 3
    NumUrls = 3
    c1 = c1
    c2 = c2
    q1 = q1
    q2 = q2
    Callers = {c1, c2}
    Rpm = 1
    Minute = 2
    Timeout = 1
    MaxBuckets = 2
    MaxTime = 2
    Queries = {q1}
    MaxRequests = 2
    Attempts = 2
SPECIFICATION NetworkSpec
INVARIANTS
    CurrentIsBest
    WindowBound
    RequestsBounded
    EmptyExplained
PROPERTIES
    QuarantineHonoured
    RetryUsesAnotherProxy
    EveryUrlAnswered
    SearchEnds
