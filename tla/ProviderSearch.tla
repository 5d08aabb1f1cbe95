----------------------------- MODULE ProviderSearch -----------------------------
(***************************************************************************)
(* Searches of one provider behind its rate limit: what                    *)
(* SearchOrchestrator._call_provider_cached does once acquire() is over.   *)
(* The cache is asked; if it has nothing, the provider makes its requests, *)
(* each with the retries of common/retry.py, none of which passes the gate *)
(* again; and what search() returns is cached, an empty list included.     *)
(*                                                                         *)
(* A query stands for a cache key.  Of the results of a search only counts *)
(* whether there are any; an answered request may bring some or none.      *)
(* Sleeps between attempts have no length: time may pass meanwhile or not. *)
(***************************************************************************)
EXTENDS RateLimiter

CONSTANTS Queries,
          MaxRequests,  \* requests one search may make: github's details, the slugs of a job board
          Attempts      \* SearchConfig.retries + 1

ASSUME ProviderSearchAssumption ==
    /\ MaxRequests \in Nat \ {0}
    /\ Attempts \in Nat \ {0}

VARIABLES job,          \* the search of each caller behind the gate
          cache         \* what is cached for each query: results, their lack, or nothing

searchVars == <<job, cache>>
allVars == <<vars, searchVars>>

Entries == {"none", "results", "empty"}
None == "none"

\* What a caller does: nothing yet, a request that is sent or waits to be sent
\* again, or what search() returned.  The last four fields are history: how often
\* it sent a request, how often the present one failed, the fewest failures after
\* which it gave one up, and whether an answer had hits.
Jobs == [step : {"none", "sent", "asleep", "returned"}, query : Queries \cup {None},
         request : 0..MaxRequests, attempt : 0..Attempts, found : BOOLEAN,
         sent : Nat, failures : Nat, patience : Nat, hits : BOOLEAN]
NoJob == [step |-> "none", query |-> None, request |-> 0, attempt |-> 0, found |-> FALSE,
          sent |-> 0, failures |-> 0, patience |-> Attempts, hits |-> FALSE]

--------------------------------------------------------------------------------

SearchInit ==
    /\ Init
    /\ job = [c \in Callers |-> NoJob]
    /\ cache = [q \in Queries |-> "none"]

Become(c, j) == job' = [job EXCEPT ![c] = j]

Ready(c) == stage[c] = "passed" /\ job[c] = NoJob

\* What the cache has, even if it is empty, is the answer.
CacheHit(c, q) ==
    /\ Ready(c)
    /\ cache[q] # "none"
    /\ Leave(c)
    /\ UNCHANGED searchVars

\* get_provider or the provider's constructor raises, for lack of a key: an answer
\* without success, which is not cached.
NoProvider(c) ==
    /\ Ready(c)
    /\ Leave(c)
    /\ UNCHANGED searchVars

\* The cache has nothing, or its tiers do not answer: the first request.
Miss(c, q) ==
    /\ Ready(c)
    /\ Become(c, [NoJob EXCEPT !.step = "sent", !.query = q, !.request = 1, !.attempt = 1,
                               !.sent = 1])
    /\ UNCHANGED <<vars, cache>>

\* search() asks nobody: no boards are configured, or the list of companies is
\* still at hand and has some that match, or none.
AsksNobody(c, q) ==
    /\ Ready(c)
    /\ \E hits \in BOOLEAN :
         Become(c, [NoJob EXCEPT !.step = "returned", !.query = q, !.found = hits, !.hits = hits])
    /\ UNCHANGED <<vars, cache>>

\* A request is over and leaves the search at j: it has nothing more to ask, or it
\* goes on.
Done(c, j) ==
    Become(c, [NoJob EXCEPT !.step = "returned", !.query = j.query, !.found = j.found,
                            !.patience = j.patience, !.hits = j.hits])

GoOn(c, j) ==
    /\ j.request < MaxRequests
    /\ Become(c, [j EXCEPT !.request = @ + 1, !.attempt = 1, !.sent = @ + 1, !.failures = 0])

Proceed(c, j) == (Done(c, j) \/ GoOn(c, j)) /\ UNCHANGED <<vars, cache>>

\* A request is answered, with hits or without: no company, no posting that
\* matches, or a body that is not what resp.json() reads.
Succeed(c) ==
    /\ job[c].step = "sent"
    /\ \E hits \in BOOLEAN :
         Proceed(c, [job[c] EXCEPT !.found = @ \/ hits, !.hits = @ \/ hits])

\* The answer is not what search() expects of it: it raises, and nothing is cached.
Raises(c) ==
    /\ job[c].step = "sent"
    /\ Become(c, NoJob)
    /\ Leave(c)
    /\ UNCHANGED cache

\* Seeded fault: a request that is given up takes what was found with it.
DropAll(c, j) == Proceed(c, [j EXCEPT !.found = FALSE])

\* A request is given up, and search() swallows its exception: it returns what it
\* has, as where the others follow from this one, or it goes on.
Drop(c, j) == Proceed(c, j)

\* A 4xx other than 429, or an error that is not tried again.
Refused(c) ==
    /\ job[c].step = "sent"
    /\ Drop(c, job[c])

Failed(j) == [j EXCEPT !.failures = @ + 1]
GivenUp(j) == [j EXCEPT !.patience = IF j.failures < @ THEN j.failures ELSE @]

\* Seeded fault: the first failure of a request is its last.
FailsAtOnce(c) ==
    /\ job[c].step = "sent"
    /\ Drop(c, GivenUp(Failed(job[c])))

\* A 429, a 5xx, a lost connection or a timeout: sleep, or give up at the last attempt.
Fails(c) ==
    /\ job[c].step = "sent"
    /\ IF job[c].attempt < Attempts
         THEN /\ Become(c, [Failed(job[c]) EXCEPT !.step = "asleep"])
              /\ UNCHANGED <<vars, cache>>
         ELSE Drop(c, GivenUp(Failed(job[c])))

\* Seeded fault: a retry is not counted as an attempt.
RetryUncounted(c) ==
    /\ job[c].step = "asleep"
    /\ Become(c, [job[c] EXCEPT !.step = "sent", !.sent = @ + 1])
    /\ UNCHANGED <<vars, cache>>

Retry(c) ==
    /\ job[c].step = "asleep"
    /\ Become(c, [job[c] EXCEPT !.step = "sent", !.attempt = @ + 1, !.sent = @ + 1])
    /\ UNCHANGED <<vars, cache>>

\* What search() returned is a success, and cached as one.
Store(c) ==
    /\ job[c].step = "returned"
    /\ cache' = [cache EXCEPT ![job[c].query] = IF job[c].found THEN "results" ELSE "empty"]
    /\ Become(c, NoJob)
    /\ Leave(c)

Search(c) ==
    \/ \E q \in Queries : CacheHit(c, q) \/ Miss(c, q) \/ AsksNobody(c, q)
    \/ NoProvider(c) \/ Succeed(c) \/ Raises(c) \/ Refused(c) \/ Fails(c)
    \/ Retry(c) \/ Store(c)

Gate(c) == InGate(c) /\ UNCHANGED searchVars
Clock == Tick /\ UNCHANGED searchVars

SearchNext ==
    \/ \E c \in Callers :
         \/ Begin(c) /\ UNCHANGED searchVars
         \/ Gate(c)
         \/ Search(c)
    \/ Configure /\ UNCHANGED searchVars
    \/ Clock
    \/ Horizon /\ UNCHANGED searchVars

\* A thread that searches keeps running, requests end at their timeout, sleeps end,
\* and the clock advances; nothing makes a new search begin.
SearchSpec ==
    /\ SearchInit /\ [][SearchNext]_allVars
    /\ WF_allVars(Clock)
    /\ \A c \in Callers : WF_allVars(Gate(c)) /\ WF_allVars(Search(c))

--------------------------------------------------------------------------------

SearchTypeOK ==
    /\ job \in [Callers -> Jobs]
    /\ cache \in [Queries -> Entries]

\* What a token of the configured limit really buys: a search takes one and may send
\* this many requests, follow-ups and retries included, and no more.
RequestsBounded ==
    \A c \in Callers : job[c].sent <= MaxRequests * Attempts

\* A search comes back empty only if no answer had hits (what one request found is
\* not lost when a later one is given up), and it gave no request up for a failure
\* that may pass before that request had failed as often as one is tried.
EmptyExplained ==
    \A c \in Callers :
        job[c].step = "returned" /\ ~job[c].found => ~job[c].hits /\ job[c].patience >= Attempts

\* Every search ends, however many threads take the tokens first and however the
\* provider fails.
SearchEnds ==
    \A c \in Callers : stage[c] # "idle" ~> stage[c] = "idle"

================================================================================
