------------------------------ MODULE RateLimiter ------------------------------
(***************************************************************************)
(* The rate limit of one search provider: the token buckets of             *)
(* common/ratelimit.py, the gate that every search of it passes.  What is  *)
(* behind the gate is in ProviderSearch.                                   *)
(*                                                                         *)
(* The registry is process-wide, and every pipeline run configures it      *)
(* again (tasks/pipeline_task.py run_pipeline): configure() puts a new,    *)
(* full bucket in place of the old one, which threads already waiting      *)
(* still hold.  Buckets are numbered in the order they were made; the last *)
(* one is the registry's.                                                  *)
(*                                                                         *)
(* Tokens are counted in units of 1/Minute token, so that one clock tick   *)
(* refills exactly Rpm units and a request costs Minute units: the floats  *)
(* of the code without their rounding.                                     *)
(***************************************************************************)
EXTENDS Integers

CONSTANTS Callers,      \* search threads
          Rpm,          \* configured requests per minute, the capacity
          Minute,       \* clock ticks in a minute
          Timeout,      \* acquire's timeout, in ticks
          MaxBuckets,   \* bound on the calls of configure()
          MaxTime       \* bound on the clock

\* configure() makes no bucket for a limit that is not positive.
ASSUME RateLimiterAssumption ==
    /\ Rpm \in Nat \ {0}
    /\ Minute \in Nat \ {0}
    /\ Timeout \in Nat
    /\ MaxBuckets \in Nat \ {0}
    /\ MaxTime \in Nat

VARIABLES now,          \* time.monotonic()
          made,         \* buckets made so far; the registry holds this one
          tokens,       \* _tokens of each bucket, in units
          last,         \* _last_refill of each bucket
          spent,        \* history: units each bucket granted at or after a time
          stage,        \* where each caller is in _call_provider_cached
          bucket,       \* the bucket a caller's acquire() works on, 1 outside it
          deadline      \* the deadline of a caller's acquire(), 0 outside it

bucketVars == <<made, tokens, last, spent>>
callerVars == <<stage, bucket, deadline>>
vars == <<now, made, tokens, last, spent,
          stage, bucket, deadline>>

Capacity == Rpm * Minute
Buckets == 1..MaxBuckets
Times == 0..MaxTime
Stages == {"idle", "poll", "nap", "passed"}

\* Seeded fault: a refill over the capacity.
RefilledUncapped(b) == tokens[b] + Rpm * (now - last[b])

\* _refill: what the bucket holds now.
Refilled(b) ==
    LET grown == tokens[b] + Rpm * (now - last[b])
    IN  IF grown < Capacity THEN grown ELSE Capacity

--------------------------------------------------------------------------------

\* The process configured the registry once before its first search.
Init ==
    /\ now = 0
    /\ made = 1
    /\ tokens = [b \in Buckets |-> Capacity]
    /\ last = [b \in Buckets |-> 0]
    /\ spent = [b \in Buckets |-> [t \in Times |-> 0]]
    /\ stage = [c \in Callers |-> "idle"]
    /\ bucket = [c \in Callers |-> 1]
    /\ deadline = [c \in Callers |-> 0]

\* Another run of the same process: a full bucket replaces the provider's.
Configure ==
    /\ made < MaxBuckets
    /\ made' = made + 1
    /\ tokens' = [tokens EXCEPT ![made + 1] = Capacity]
    /\ last' = [last EXCEPT ![made + 1] = now]
    /\ UNCHANGED <<now, spent, callerVars>>

\* A search thread reads the registry (without its lock) and enters acquire().
\* The clock must leave room for the timeout within the model's bound.
Begin(c) ==
    /\ stage[c] = "idle"
    /\ now + Timeout <= MaxTime
    /\ stage' = [stage EXCEPT ![c] = "poll"]
    /\ bucket' = [bucket EXCEPT ![c] = made]
    /\ deadline' = [deadline EXCEPT ![c] = now + Timeout]
    /\ UNCHANGED <<now, bucketVars>>

\* acquire() returns, whatever the result: its locals are gone.
Return(c) ==
    /\ stage' = [stage EXCEPT ![c] = "passed"]
    /\ bucket' = [bucket EXCEPT ![c] = 1]
    /\ deadline' = [deadline EXCEPT ![c] = 0]

\* One turn of acquire's loop under the bucket's lock: refill, then take a
\* token if there is one.
Grant(c) ==
    LET b == bucket[c] IN
    /\ stage[c] = "poll"
    /\ Refilled(b) >= Minute
    /\ tokens' = [tokens EXCEPT ![b] = Refilled(b) - Minute]
    /\ last' = [last EXCEPT ![b] = now]
    /\ spent' = [spent EXCEPT ![b] =
                    [t \in Times |-> IF t <= now THEN spent[b][t] + Minute
                                                 ELSE spent[b][t]]]
    /\ Return(c)
    /\ UNCHANGED <<now, made>>

Starve(c) ==
    LET b == bucket[c] IN
    /\ stage[c] = "poll"
    /\ Refilled(b) < Minute
    /\ tokens' = [tokens EXCEPT ![b] = Refilled(b)]
    /\ last' = [last EXCEPT ![b] = now]
    /\ stage' = [stage EXCEPT ![c] = "nap"]
    /\ UNCHANGED <<now, made, spent, bucket, deadline>>

\* Seeded fault: each look renews the deadline.
NapRenewingDeadline(c) ==
    /\ stage[c] = "nap"
    /\ now < deadline[c]
    /\ stage' = [stage EXCEPT ![c] = "poll"]
    /\ deadline' = [deadline EXCEPT ![c] = now + Timeout + 1]
    /\ UNCHANGED <<now, bucketVars, bucket>>

\* Out of the lock: sleep for less than a tick and look again.
Nap(c) ==
    /\ stage[c] = "nap"
    /\ now < deadline[c]
    /\ stage' = [stage EXCEPT ![c] = "poll"]
    /\ UNCHANGED <<now, bucketVars, bucket, deadline>>

\* acquire() returns False, and _call_provider_cached goes on all the same.
GiveUp(c) ==
    /\ stage[c] = "nap"
    /\ now >= deadline[c]
    /\ Return(c)
    /\ UNCHANGED <<now, bucketVars>>

\* The search behind the gate is over.  A cached result has spent its token too.
Leave(c) ==
    /\ stage[c] = "passed"
    /\ stage' = [stage EXCEPT ![c] = "idle"]
    /\ UNCHANGED <<now, bucketVars, bucket, deadline>>

Tick ==
    /\ now < MaxTime
    /\ now' = now + 1
    /\ UNCHANGED <<bucketVars, callerVars>>

\* The bound of the clock is reached and the last search is over.
Horizon ==
    /\ now = MaxTime
    /\ \A c \in Callers : stage[c] = "idle"
    /\ UNCHANGED vars

InGate(c) == Grant(c) \/ Starve(c) \/ Nap(c) \/ GiveUp(c)

Next ==
    \/ \E c \in Callers : Begin(c) \/ InGate(c) \/ Leave(c)
    \/ Configure
    \/ Tick
    \/ Horizon

Spec == Init /\ [][Next]_vars

--------------------------------------------------------------------------------

TypeOK ==
    /\ now \in Times
    /\ made \in Buckets
    /\ tokens \in [Buckets -> Nat]
    /\ last \in [Buckets -> Times]
    /\ spent \in [Buckets -> [Times -> Nat]]
    /\ stage \in [Callers -> Stages]
    /\ bucket \in [Callers -> Buckets]
    /\ deadline \in [Callers -> Nat]

\* The law of a token bucket, for any threads polling it in any order: in no
\* stretch of time, wherever it starts, does a bucket grant more than its
\* capacity and what it refills in that stretch.
WindowBound ==
    \A b \in Buckets, t \in 0..now :
        spent[b][t] <= Capacity + Rpm * (now - t)

================================================================================
