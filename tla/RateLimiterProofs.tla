--------------------------- MODULE RateLimiterProofs ---------------------------
(***************************************************************************)
(* The law of the token bucket, for every limit, timeout and number of     *)
(* threads.                                                                *)
(*                                                                         *)
(* WindowBound is not inductive: it says nothing of the tokens still in the*)
(* bucket.  The invariant that is counts them in: what a bucket granted    *)
(* since time t and what it holds now never exceed its capacity and what it*)
(* refilled from t to its last refill.                                     *)
(***************************************************************************)
EXTENDS ProviderSearch, TLAPS

BucketLaw ==
    \A b \in Buckets :
        /\ tokens[b] <= Capacity
        /\ last[b] <= now
        /\ \A t \in Times :
             /\ t <= last[b] => spent[b][t] + tokens[b] <= Capacity + Rpm * (last[b] - t)
             /\ t > last[b] => spent[b][t] = 0

\* Nobody draws on a bucket that is not made yet.
MadeOnly ==
    /\ \A c \in Callers : bucket[c] <= made
    /\ \A b \in Buckets : b > made => \A t \in Times : spent[b][t] = 0

IInv == TypeOK /\ BucketLaw /\ MadeOnly

LEMMA CapacityNat == Capacity \in Nat
  BY RateLimiterAssumption DEF RateLimiterAssumption, Capacity

\* A refill over x ticks and one over y ticks make one over x + y.
LEMMA RefillAdds ==
    ASSUME NEW x \in Int, NEW y \in Int
    PROVE  Rpm * (x + y) = Rpm * x + Rpm * y
  BY RateLimiterAssumption DEF RateLimiterAssumption

LEMMA RefillNat ==
    ASSUME NEW x \in Nat
    PROVE  Rpm * x \in Nat
  BY RateLimiterAssumption DEF RateLimiterAssumption

\* _refill keeps the tokens between 0 and the capacity and never adds more than
\* the elapsed time allows.
LEMMA RefilledBounds ==
    ASSUME IInv, NEW b \in Buckets
    PROVE  /\ Refilled(b) \in Nat
           /\ Refilled(b) <= Capacity
           /\ Refilled(b) <= tokens[b] + Rpm * (now - last[b])
<1>1. /\ tokens[b] \in Nat /\ tokens[b] <= Capacity
      /\ now - last[b] \in Nat
  BY DEF IInv, TypeOK, BucketLaw, Times
<1>2. Rpm * (now - last[b]) \in Nat
  BY <1>1, RefillNat
<1> QED
  BY <1>1, <1>2, CapacityNat DEF Refilled

LEMMA InitIInv == Init => IInv
<1> USE RateLimiterAssumption DEF RateLimiterAssumption
<1> SUFFICES ASSUME Init PROVE IInv
  OBVIOUS
<1>1. TypeOK
  BY CapacityNat DEF Init, TypeOK, Buckets, Times, Stages
<1>2. BucketLaw
  <2>1. Rpm * 0 = 0
    OBVIOUS
  <2> QED
    BY <2>1, CapacityNat DEF Init, BucketLaw, Buckets, Times
<1>3. MadeOnly
  BY DEF Init, MadeOnly, Buckets
<1> QED
  BY <1>1, <1>2, <1>3 DEF IInv

\* A refill of bucket b at the present time, with or without a grant of g units.
LEMMA BucketStep ==
    ASSUME IInv, NEW b \in Buckets, NEW g \in Nat, g <= Refilled(b),
           now' = now,
           tokens' = [tokens EXCEPT ![b] = Refilled(b) - g],
           last' = [last EXCEPT ![b] = now],
           spent' = [spent EXCEPT ![b] =
                       [t \in Times |-> IF t <= now THEN spent[b][t] + g ELSE spent[b][t]]]
    PROVE  /\ BucketLaw'
           /\ tokens' \in [Buckets -> Nat]
           /\ last' \in [Buckets -> Times]
           /\ spent' \in [Buckets -> [Times -> Nat]]
<1>1. TypeOK /\ BucketLaw
  BY DEF IInv
<1>2. /\ Refilled(b) \in Nat
      /\ Refilled(b) <= Capacity
      /\ Refilled(b) <= tokens[b] + Rpm * (now - last[b])
  BY RefilledBounds
<1>3. tokens' \in [Buckets -> Nat]
  BY <1>1, <1>2 DEF TypeOK
<1>4. last' \in [Buckets -> Times]
  BY <1>1 DEF TypeOK
<1>5. spent' \in [Buckets -> [Times -> Nat]]
  BY <1>1 DEF TypeOK
<1>6. ASSUME NEW a \in Buckets, a # b
      PROVE  tokens'[a] = tokens[a] /\ last'[a] = last[a] /\ spent'[a] = spent[a]
  BY <1>1, <1>6 DEF TypeOK
<1>7. ASSUME NEW t \in Times
      PROVE  /\ t <= now => spent'[b][t] + tokens'[b] <= Capacity + Rpm * (now - t)
             /\ t > now => spent'[b][t] = 0
  <2>1. /\ now \in Nat /\ t \in Nat /\ last[b] \in Nat /\ last[b] <= now
        /\ tokens[b] \in Nat
    BY <1>1, RateLimiterAssumption DEF RateLimiterAssumption, TypeOK, BucketLaw, Times
  <2>0. spent[b][t] \in Nat
    BY <1>1 DEF TypeOK
  <2>2. tokens'[b] = Refilled(b) - g
    BY <1>1 DEF TypeOK
  <2>3. spent'[b][t] = IF t <= now THEN spent[b][t] + g ELSE spent[b][t]
    BY <1>1 DEF TypeOK
  <2>4. CASE t <= last[b]
    <3>1. spent[b][t] + tokens[b] <= Capacity + Rpm * (last[b] - t)
      BY <1>1, <2>4 DEF BucketLaw
    <3>2. Rpm * (now - t) = Rpm * (now - last[b]) + Rpm * (last[b] - t)
      <4> DEFINE x == now - last[b]
                 y == last[b] - t
      <4>1. x \in Int /\ y \in Int /\ now - t = x + y
        BY <2>1
      <4>2. Rpm * (x + y) = Rpm * x + Rpm * y
        BY <4>1, RefillAdds
      <4> QED
        BY <4>1, <4>2
    <3>3. Rpm * (now - last[b]) \in Nat /\ Rpm * (last[b] - t) \in Nat
      BY <2>1, <2>4, RefillNat
    <3> QED
      BY <1>2, <2>0, <2>1, <2>2, <2>3, <2>4, <3>1, <3>2, <3>3, CapacityNat
  <2>5. CASE t > last[b] /\ t <= now
    <3>1. spent[b][t] = 0
      BY <1>1, <2>5 DEF BucketLaw
    <3>2. Rpm * (now - t) \in Nat
      BY <2>1, <2>5, RefillNat
    <3> QED
      BY <1>2, <2>0, <2>1, <2>2, <2>3, <2>5, <3>1, <3>2, CapacityNat
  <2>6. CASE t > now
    <3>1. spent[b][t] = 0
      BY <1>1, <2>1, <2>6 DEF BucketLaw
    <3> QED
      BY <2>0, <2>1, <2>3, <2>6, <3>1
  <2> QED
    BY <2>1, <2>4, <2>5, <2>6
<1>8. tokens'[b] <= Capacity /\ last'[b] = now
  BY <1>1, <1>2, CapacityNat DEF TypeOK
<1>9. now \in Nat
  BY <1>1 DEF TypeOK, Times
<1>10. BucketLaw'
  BY <1>1, <1>6, <1>7, <1>8, <1>9 DEF BucketLaw
<1> QED
  BY <1>3, <1>4, <1>5, <1>10

LEMMA GrantIInv ==
    ASSUME IInv, NEW c \in Callers, Grant(c)
    PROVE  IInv'
<1> DEFINE b == bucket[c]
<1>1. b \in Buckets /\ Minute \in Nat /\ 1 \in Buckets
  BY RateLimiterAssumption DEF RateLimiterAssumption, IInv, TypeOK, Buckets
<1>2. /\ BucketLaw'
      /\ tokens' \in [Buckets -> Nat]
      /\ last' \in [Buckets -> Times]
      /\ spent' \in [Buckets -> [Times -> Nat]]
  <2>1. Minute <= Refilled(b)
    BY <1>1, RefilledBounds DEF Grant
  <2> QED
    BY <1>1, <2>1, BucketStep DEF Grant
<1>3. TypeOK'
  BY <1>1, <1>2 DEF Grant, Return, IInv, TypeOK, Stages
<1>4. MadeOnly'
  <2>1. made' = made /\ made \in Nat /\ 1 <= made
    BY DEF Grant, IInv, TypeOK, Buckets
  <2>2. \A d \in Callers : bucket'[d] <= made'
    BY <2>1 DEF Grant, Return, IInv, TypeOK, MadeOnly
  <2>3. ASSUME NEW a \in Buckets, a > made', NEW t \in Times
        PROVE  spent'[a][t] = 0
    <3>1. a # b
      BY <2>1, <2>3, <1>1 DEF IInv, MadeOnly, Buckets
    <3>2. spent'[a] = spent[a]
      BY <3>1 DEF Grant, IInv, TypeOK
    <3> QED
      BY <2>1, <2>3, <3>2 DEF IInv, MadeOnly
  <2> QED
    BY <2>2, <2>3 DEF MadeOnly
<1> QED
  BY <1>2, <1>3, <1>4 DEF IInv

LEMMA StarveIInv ==
    ASSUME IInv, NEW c \in Callers, Starve(c)
    PROVE  IInv'
<1> DEFINE b == bucket[c]
<1>1. b \in Buckets /\ Refilled(b) \in Nat
  <2>1. b \in Buckets
    BY DEF IInv, TypeOK
  <2> QED
    BY <2>1, RefilledBounds
<1>2. spent' = [spent EXCEPT ![b] =
                  [t \in Times |-> IF t <= now THEN spent[b][t] + 0 ELSE spent[b][t]]]
  <2>1. spent \in [Buckets -> [Times -> Nat]]
    BY DEF IInv, TypeOK
  <2>2. spent[b] \in [Times -> Nat]
    BY <1>1, <2>1
  <2>3. [t \in Times |-> IF t <= now THEN spent[b][t] + 0 ELSE spent[b][t]] = spent[b]
    BY <2>2
  <2>4. [spent EXCEPT ![b] = spent[b]] = spent
    BY <2>1
  <2> QED
    BY <2>3, <2>4 DEF Starve
<1>3. tokens' = [tokens EXCEPT ![b] = Refilled(b) - 0]
  <2>1. tokens' = [tokens EXCEPT ![b] = Refilled(b)]
    BY DEF Starve
  <2>2. Refilled(b) - 0 = Refilled(b)
    BY <1>1
  <2> QED
    BY <2>1, <2>2
<1>4. /\ BucketLaw'
      /\ tokens' \in [Buckets -> Nat]
      /\ last' \in [Buckets -> Times]
      /\ spent' \in [Buckets -> [Times -> Nat]]
  <2>1. 0 \in Nat /\ 0 <= Refilled(b)
    BY <1>1
  <2>2. now' = now /\ last' = [last EXCEPT ![b] = now]
    BY DEF Starve
  <2> QED
    BY <1>1, <1>2, <1>3, <2>1, <2>2, BucketStep
<1>5. TypeOK'
  BY <1>4 DEF Starve, IInv, TypeOK, Stages
<1>6. MadeOnly'
  BY DEF Starve, IInv, MadeOnly
<1> QED
  BY <1>4, <1>5, <1>6 DEF IInv

\* configure() makes a full bucket that has granted nothing.
LEMMA ConfigureIInv == IInv /\ Configure => IInv'
<1> SUFFICES ASSUME IInv, Configure PROVE IInv'
  OBVIOUS
<1> DEFINE m == made + 1
<1>1. m \in Buckets /\ made \in Nat
  BY RateLimiterAssumption DEF RateLimiterAssumption, IInv, TypeOK, Configure, Buckets
<1>2. TypeOK'
  BY <1>1, CapacityNat DEF Configure, callerVars, IInv, TypeOK
<1>3. now \in Nat /\ now \in Times
  BY RateLimiterAssumption DEF RateLimiterAssumption, IInv, TypeOK, Times
<1>4. ASSUME NEW b \in Buckets, b # m
      PROVE  tokens'[b] = tokens[b] /\ last'[b] = last[b] /\ spent'[b] = spent[b]
  BY <1>4 DEF Configure, IInv, TypeOK
<1>5. tokens'[m] = Capacity /\ last'[m] = now /\ spent'[m] = spent[m] /\ now' = now
  BY <1>1 DEF Configure, IInv, TypeOK
<1>6. ASSUME NEW t \in Times
      PROVE  spent[m][t] = 0
  BY <1>1 DEF IInv, MadeOnly
<1>7. ASSUME NEW t \in Times
      PROVE  /\ t <= now => spent'[m][t] + tokens'[m] <= Capacity + Rpm * (now - t)
             /\ t > now => spent'[m][t] = 0
  <2>1. t \in Nat
    BY RateLimiterAssumption DEF RateLimiterAssumption, Times
  <2>2. t <= now => Rpm * (now - t) \in Nat
    BY <1>3, <2>1, RefillNat
  <2> QED
    BY <1>5, <1>6, <2>2, CapacityNat
<1>8. BucketLaw'
  BY <1>3, <1>4, <1>5, <1>7, CapacityNat DEF IInv, BucketLaw
<1>9. MadeOnly'
  <2>1. made' = made + 1 /\ bucket' = bucket /\ spent' = spent
    BY DEF Configure, callerVars
  <2>2. ASSUME NEW c \in Callers
        PROVE  bucket[c] <= made /\ bucket[c] \in Nat
    <3>1. bucket[c] \in Buckets /\ bucket[c] <= made
      BY DEF IInv, TypeOK, MadeOnly
    <3> QED
      BY <3>1, RateLimiterAssumption DEF RateLimiterAssumption, Buckets
  <2> QED
    BY <1>1, <2>1, <2>2 DEF IInv, MadeOnly, Buckets
<1> QED
  BY <1>2, <1>8, <1>9 DEF IInv

LEMMA TickIInv == IInv /\ Tick => IInv'
<1> SUFFICES ASSUME IInv, Tick PROVE IInv'
  OBVIOUS
<1>1. now \in Nat /\ now' = now + 1 /\ now' \in Times
  BY RateLimiterAssumption DEF RateLimiterAssumption, IInv, TypeOK, Tick, Times
<1>2. TypeOK'
  BY <1>1 DEF Tick, bucketVars, callerVars, IInv, TypeOK
<1>3. \A b \in Buckets : last[b] \in Nat
  BY RateLimiterAssumption DEF RateLimiterAssumption, IInv, TypeOK, Times
<1>4. BucketLaw'
  <2>1. UNCHANGED <<tokens, last, spent>> /\ BucketLaw
    BY DEF Tick, bucketVars, IInv
  <2>2. \A b \in Buckets : last[b] <= now'
    BY <1>1, <1>3, <2>1 DEF BucketLaw
  <2> QED
    BY <2>1, <2>2 DEF BucketLaw
<1>5. MadeOnly'
  BY DEF Tick, bucketVars, callerVars, IInv, MadeOnly
<1> QED
  BY <1>2, <1>4, <1>5 DEF IInv

\* The steps of a caller that leave the buckets alone.
LEMMA QuietIInv ==
    ASSUME IInv, NEW c \in Callers,
           Begin(c) \/ Nap(c) \/ GiveUp(c) \/ Leave(c)
    PROVE  IInv'
<1>1. UNCHANGED <<now, made, tokens, last, spent>>
  BY DEF Begin, Nap, GiveUp, Leave, bucketVars
<1>2. /\ stage' \in [Callers -> Stages]
      /\ bucket' \in [Callers -> Buckets]
      /\ deadline' \in [Callers -> Nat]
  <2>1. now + Timeout \in Nat /\ 1 \in Buckets
    BY RateLimiterAssumption DEF RateLimiterAssumption, IInv, TypeOK, Times, Buckets
  <2>2. CASE Begin(c)
    BY <2>1, <2>2 DEF Begin, IInv, TypeOK, Stages
  <2>3. CASE Nap(c)
    BY <2>3 DEF Nap, IInv, TypeOK, Stages
  <2>4. CASE GiveUp(c)
    BY <2>1, <2>4 DEF GiveUp, Return, IInv, TypeOK, Stages
  <2>5. CASE Leave(c)
    BY <2>5 DEF Leave, IInv, TypeOK, Stages
  <2> QED
    BY <2>2, <2>3, <2>4, <2>5
<1>3. TypeOK'
  BY <1>1, <1>2 DEF IInv, TypeOK
<1>4. \A d \in Callers : bucket'[d] <= made
  <2>1. made \in Nat /\ 1 <= made
    BY DEF IInv, TypeOK, Buckets
  <2> QED
    BY <2>1 DEF Begin, Nap, GiveUp, Return, Leave, IInv, TypeOK, MadeOnly
<1>5. BucketLaw' /\ MadeOnly'
  BY <1>1, <1>4 DEF IInv, BucketLaw, MadeOnly
<1> QED
  BY <1>3, <1>5 DEF IInv

LEMMA NextIInv == IInv /\ [Next]_vars => IInv'
<1> SUFFICES ASSUME IInv, [Next]_vars PROVE IInv'
  OBVIOUS
<1>1. ASSUME NEW c \in Callers, Begin(c) \/ InGate(c) \/ Leave(c)
      PROVE  IInv'
  BY <1>1, GrantIInv, StarveIInv, QuietIInv DEF InGate
<1>2. CASE Configure
  BY <1>2, ConfigureIInv
<1>3. CASE Tick
  BY <1>3, TickIInv
<1>4. CASE UNCHANGED vars
  BY <1>4 DEF vars, IInv, TypeOK, BucketLaw, MadeOnly
<1> QED
  BY <1>1, <1>2, <1>3, <1>4 DEF Next, Horizon

\* Seen from the gate, a step of a search is a step of the gate, or none.
LEMMA SearchStepsGate == [SearchNext]_allVars => [Next]_vars
<1> SUFFICES ASSUME [SearchNext]_allVars PROVE [Next]_vars
  OBVIOUS
<1>1. ASSUME NEW c \in Callers, Search(c)
      PROVE  Leave(c) \/ UNCHANGED vars
  BY <1>1 DEF Search, CacheHit, Miss, NoProvider, AsksNobody, Succeed, Raises, Refused, Fails,
           Drop, Proceed, Retry, Store
<1>2. CASE UNCHANGED allVars
  BY <1>2 DEF allVars
<1> QED
  BY <1>1, <1>2 DEF SearchNext, Gate, Clock, Next

\* Every variable keeps its type.
THEOREM TypeCorrect == SearchSpec => []TypeOK
<1>1. IInv => TypeOK
  BY DEF IInv
<1>2. SearchInit => IInv
  BY InitIInv DEF SearchInit
<1> QED
  BY <1>2, NextIInv, SearchStepsGate, <1>1, PTL DEF SearchSpec

\* However many threads poll a bucket, and whenever they do, in no stretch of
\* time does it grant more than its capacity and what it refills meanwhile.
THEOREM BucketIsLawful == SearchSpec => []WindowBound
<1>1. IInv => WindowBound
  <2> SUFFICES ASSUME IInv, NEW b \in Buckets, NEW t \in 0..now
               PROVE  spent[b][t] <= Capacity + Rpm * (now - t)
    BY DEF WindowBound
  <2>1. /\ now \in Nat /\ t \in Times /\ t \in Nat /\ t <= now
        /\ last[b] \in Nat /\ last[b] <= now /\ tokens[b] \in Nat
    BY RateLimiterAssumption DEF RateLimiterAssumption, IInv, TypeOK, BucketLaw, Times
  <2>2. spent[b][t] \in Nat
    BY <2>1 DEF IInv, TypeOK
  <2>3. Rpm * (now - t) \in Nat
    BY <2>1, RefillNat
  <2>4. CASE t <= last[b]
    <3> DEFINE x == now - last[b]
               y == last[b] - t
    <3>1. x \in Int /\ y \in Int /\ now - t = x + y
      BY <2>1
    <3>2. Rpm * (now - t) = Rpm * x + Rpm * y
      BY <3>1, RefillAdds
    <3>3. Rpm * x \in Nat /\ Rpm * y \in Nat
      BY <2>1, <2>4, RefillNat
    <3>4. spent[b][t] + tokens[b] <= Capacity + Rpm * y
      BY <2>1, <2>4 DEF IInv, BucketLaw
    <3> QED
      BY <2>1, <2>2, <3>2, <3>3, <3>4, CapacityNat
  <2>5. CASE t > last[b]
    <3>1. spent[b][t] = 0
      BY <2>1, <2>5 DEF IInv, BucketLaw
    <3> QED
      BY <2>3, <3>1, CapacityNat
  <2> QED
    BY <2>1, <2>4, <2>5
<1>2. SearchInit => IInv
  BY InitIInv DEF SearchInit
<1> QED
  BY <1>2, NextIInv, SearchStepsGate, <1>1, PTL DEF SearchSpec

--------------------------------------------------------------------------------

(***************************************************************************)
(* Behind the gate.  That an empty search is explained is not inductive: a *)
(* request that may be given up next must have failed as often as it was   *)
(* tried before, and what had hits must still be among what was found.     *)
(***************************************************************************)

UnderWay(j) ==
    /\ j.query \in Queries /\ j.request >= 1 /\ j.attempt >= 1
    /\ j.sent <= (j.request - 1) * Attempts + j.attempt
    /\ j.failures >= j.attempt - 1
    /\ j.step = "asleep" => j.attempt < Attempts /\ j.failures >= j.attempt

\* What has been found and given up so far.
Honest(j) == (j.hits => j.found) /\ j.patience >= Attempts

Law(j) ==
    /\ Honest(j)
    /\ j.step \in {"sent", "asleep"} => UnderWay(j)
    /\ j.step = "returned" => j.query \in Queries
    /\ j.step \in {"none", "returned"} => j.sent = 0

SInv ==
    /\ SearchTypeOK
    /\ \A c \in Callers : Law(job[c])

LEMMA Bounds == MaxRequests \in Nat /\ MaxRequests >= 1 /\ Attempts \in Nat /\ Attempts >= 1
  BY ProviderSearchAssumption DEF ProviderSearchAssumption

\* The requests a search may have sent when it is at request r.
LEMMA Quota ==
    ASSUME NEW r \in 1..MaxRequests
    PROVE  /\ (r - 1) * Attempts + Attempts <= MaxRequests * Attempts
           /\ (r + 1 - 1) * Attempts = (r - 1) * Attempts + Attempts
           /\ (r - 1) * Attempts \in Nat
<1>1. r \in Nat /\ r - 1 \in Nat /\ MaxRequests - r \in Nat /\ Attempts \in Nat
  BY Bounds
<1>2. r * Attempts = (r - 1) * Attempts + Attempts /\ (r - 1) * Attempts \in Nat
  BY <1>1
<1>3. MaxRequests * Attempts = r * Attempts + (MaxRequests - r) * Attempts
  BY <1>1, Bounds
<1>4. (MaxRequests - r) * Attempts \in Nat
  BY <1>1
<1>5. r + 1 - 1 = r /\ r * Attempts \in Nat
  BY <1>1
<1> QED
  BY <1>1, <1>2, <1>3, <1>4, <1>5

LEMMA Fields ==
    ASSUME NEW j \in Jobs
    PROVE  /\ j.step \in {"none", "sent", "asleep", "returned"}
           /\ j.query \in Queries \cup {None}
           /\ j.request \in 0..MaxRequests /\ j.attempt \in 0..Attempts
           /\ j.found \in BOOLEAN /\ j.hits \in BOOLEAN
           /\ j.sent \in Nat /\ j.failures \in Nat /\ j.patience \in Nat
  BY DEF Jobs

LEMMA NoJobLaw == NoJob \in Jobs /\ Law(NoJob)
<1>1. 0 \in 0..MaxRequests /\ 0 \in 0..Attempts /\ Attempts \in Nat /\ Attempts >= Attempts
  BY Bounds
<1> QED
  BY <1>1 DEF NoJob, Jobs, Law, Honest

LEMMA InitSInv == SearchInit => SInv
  BY NoJobLaw DEF SearchInit, SInv, SearchTypeOK, Entries

\* One caller's job changes, to a lawful one.
LEMMA JobStep ==
    ASSUME SInv, NEW c \in Callers, NEW j \in Jobs,
           job' = [job EXCEPT ![c] = j],
           Law(j),
           cache' \in [Queries -> Entries]
    PROVE  SInv'
<1>1. SearchTypeOK'
  BY DEF SInv, SearchTypeOK
<1>2. ASSUME NEW d \in Callers
      PROVE  Law(job'[d])
  BY DEF SInv, SearchTypeOK
<1> QED
  BY <1>1, <1>2 DEF SInv

\* A request is over, and the search at j returns or goes on.
LEMMA EndOfRequest ==
    ASSUME SInv, NEW c \in Callers, NEW j \in Jobs,
           j.step = "sent", UnderWay(j), Honest(j), Proceed(c, j)
    PROVE  SInv'
<1> DEFINE over == [NoJob EXCEPT !.step = "returned", !.query = j.query, !.found = j.found,
                                 !.patience = j.patience, !.hits = j.hits]
           next == [j EXCEPT !.request = @ + 1, !.attempt = 1, !.sent = @ + 1, !.failures = 0]
<1>1. cache' \in [Queries -> Entries]
  BY DEF Proceed, SInv, SearchTypeOK
<1>2. CASE Done(c, j)
  <2>1. over \in Jobs
    BY NoJobLaw, Fields DEF NoJob, Jobs
  <2>2. Law(over)
    BY DEF Law, Honest, NoJob, UnderWay
  <2>3. job' = [job EXCEPT ![c] = over]
    BY <1>2 DEF Done, Become
  <2> HIDE DEF over
  <2> QED
    BY <1>1, <2>1, <2>2, <2>3, JobStep
<1>3. CASE GoOn(c, j)
  <2>1. /\ j.request \in 0..MaxRequests /\ j.request >= 1 /\ j.request < MaxRequests
        /\ j.attempt \in 0..Attempts /\ j.sent \in Nat
        /\ j.sent <= (j.request - 1) * Attempts + j.attempt
    BY <1>3, Fields DEF UnderWay, GoOn
  <2>2. j.request \in 1..MaxRequests
    BY <2>1, Bounds
  <2>3. j.sent + 1 <= (j.request + 1 - 1) * Attempts + 1
    BY <2>1, <2>2, Quota, Bounds
  <2>4. /\ next.step = "sent" /\ next.query = j.query /\ next.request = j.request + 1
        /\ next.attempt = 1 /\ next.found = j.found /\ next.sent = j.sent + 1
        /\ next.failures = 0 /\ next.patience = j.patience /\ next.hits = j.hits
    BY DEF Jobs
  <2>5. next \in Jobs
    <3>1. j.request + 1 \in 0..MaxRequests /\ 1 \in 0..Attempts /\ j.sent + 1 \in Nat
      BY <2>1, <2>2, Bounds
    <3> QED
      BY <3>1 DEF Jobs
  <2>6. UnderWay(next)
    BY <2>1, <2>3, <2>4 DEF UnderWay
  <2>7. Law(next)
    BY <2>4, <2>6 DEF Law, Honest
  <2>8. job' = [job EXCEPT ![c] = next]
    BY <1>3 DEF GoOn, Become
  <2> HIDE DEF next
  <2> QED
    BY <1>1, <2>5, <2>7, <2>8, JobStep
<1> QED
  BY <1>2, <1>3 DEF Proceed

LEMMA SearchSInv ==
    ASSUME SInv, NEW c \in Callers, Search(c)
    PROVE  SInv'
<1> DEFINE j == job[c]
<1>1. j \in Jobs /\ Law(j) /\ cache \in [Queries -> Entries]
  BY DEF SInv, SearchTypeOK
<1>2. CASE UNCHANGED searchVars
  BY <1>2 DEF searchVars, SInv, SearchTypeOK
<1>3. ASSUME NEW q \in Queries, Miss(c, q)
      PROVE  SInv'
  <2> DEFINE k == [NoJob EXCEPT !.step = "sent", !.query = q, !.request = 1, !.attempt = 1,
                                !.sent = 1]
  <2>1. 1 \in 0..MaxRequests /\ 1 \in 0..Attempts /\ (1 - 1) * Attempts = 0
    BY Bounds
  <2>2. k \in Jobs
    BY <2>1, NoJobLaw DEF NoJob, Jobs
  <2>3. cache' = cache /\ job' = [job EXCEPT ![c] = k]
    BY <1>3 DEF Miss, Become
  <2>4. Law(k)
    BY <2>1, NoJobLaw DEF NoJob, Law, Honest, UnderWay
  <2> HIDE DEF k
  <2> QED
    BY <1>1, <2>2, <2>3, <2>4, JobStep
<1>4. ASSUME NEW q \in Queries, AsksNobody(c, q)
      PROVE  SInv'
  <2>1. PICK hits \in BOOLEAN :
          Become(c, [NoJob EXCEPT !.step = "returned", !.query = q, !.found = hits, !.hits = hits])
    BY <1>4 DEF AsksNobody
  <2> DEFINE k == [NoJob EXCEPT !.step = "returned", !.query = q, !.found = hits, !.hits = hits]
  <2>2. k \in Jobs
    BY NoJobLaw DEF NoJob, Jobs
  <2>3. Law(k)
    BY NoJobLaw DEF NoJob, Law, Honest
  <2>4. cache' = cache /\ job' = [job EXCEPT ![c] = k]
    BY <1>4, <2>1 DEF AsksNobody, Become
  <2> HIDE DEF k
  <2> QED
    BY <1>1, <2>2, <2>3, <2>4, JobStep
<1>5. CASE Succeed(c)
  <2>1. PICK hits \in BOOLEAN :
          Proceed(c, [j EXCEPT !.found = @ \/ hits, !.hits = @ \/ hits])
    BY <1>5 DEF Succeed
  <2> DEFINE k == [j EXCEPT !.found = @ \/ hits, !.hits = @ \/ hits]
  <2>2. /\ k \in Jobs /\ k.step = j.step /\ k.query = j.query /\ k.request = j.request
        /\ k.attempt = j.attempt /\ k.sent = j.sent /\ k.failures = j.failures
        /\ k.patience = j.patience /\ k.found = (j.found \/ hits) /\ k.hits = (j.hits \/ hits)
    BY <1>1 DEF Jobs
  <2>3. j.step = "sent"
    BY <1>5 DEF Succeed
  <2>4. UnderWay(k) /\ Honest(k) /\ k.step = "sent"
    BY <1>1, <2>2, <2>3 DEF Law, UnderWay, Honest
  <2> HIDE DEF k
  <2>5. Proceed(c, k)
    BY <2>1 DEF k
  <2> QED
    BY <2>2, <2>4, <2>5, EndOfRequest
<1>6. CASE Raises(c)
  <2>1. job' = [job EXCEPT ![c] = NoJob] /\ cache' = cache
    BY <1>6 DEF Raises, Become
  <2> QED
    BY <1>1, <2>1, NoJobLaw, JobStep
<1>7. CASE Refused(c)
  <2>1. j.step = "sent" /\ Proceed(c, j)
    BY <1>7 DEF Refused, Drop
  <2>2. UnderWay(j) /\ Honest(j)
    BY <1>1, <2>1 DEF Law
  <2> QED
    BY <1>1, <2>1, <2>2, EndOfRequest
<1>8. CASE Fails(c)
  <2>1. j.step = "sent" /\ UnderWay(j) /\ Honest(j)
    BY <1>1, <1>8 DEF Fails, Law
  <2> DEFINE f == Failed(j)
  <2>2. j.failures \in Nat /\ j.attempt \in Nat /\ j.attempt <= Attempts /\ j.patience \in Nat
    BY <1>1, Fields, Bounds
  <2>3. /\ f \in Jobs /\ f.step = j.step /\ f.query = j.query /\ f.request = j.request
        /\ f.attempt = j.attempt /\ f.sent = j.sent /\ f.failures = j.failures + 1
        /\ f.patience = j.patience /\ f.found = j.found /\ f.hits = j.hits
    <3>1. j.failures + 1 \in Nat
      BY <2>2
    <3> QED
      BY <1>1, <3>1 DEF Failed, Jobs
  <2>4. f.failures >= f.attempt /\ f.failures \in Nat
    BY <2>1, <2>2, <2>3 DEF UnderWay
  <2>5. CASE j.attempt < Attempts
    <3> DEFINE k == [f EXCEPT !.step = "asleep"]
    <3>1. job' = [job EXCEPT ![c] = k] /\ cache' = cache
      BY <1>8, <2>5 DEF Fails, Become
    <3> HIDE DEF f
    <3>2. /\ k \in Jobs /\ k.step = "asleep" /\ k.query = f.query /\ k.request = f.request
          /\ k.attempt = f.attempt /\ k.found = f.found /\ k.sent = f.sent
          /\ k.failures = f.failures /\ k.patience = f.patience /\ k.hits = f.hits
      BY <2>3 DEF Jobs
    <3> HIDE DEF k
    <3>3. k.failures >= k.attempt - 1
      BY <2>2, <2>3, <2>4, <3>2
    <3>4. Law(k)
      BY <2>1, <2>3, <2>4, <2>5, <3>2, <3>3 DEF Law, UnderWay, Honest
    <3> QED
      BY <1>1, <3>1, <3>2, <3>4, JobStep
  <2>6. CASE ~(j.attempt < Attempts)
    <3> DEFINE k == GivenUp(f)
    <3>1. Proceed(c, k)
      BY <1>8, <2>6 DEF Fails, Drop
    <3> HIDE DEF f
    <3>2. f.failures >= Attempts
      BY <2>2, <2>3, <2>4, <2>6, Bounds
    <3>3. /\ k \in Jobs /\ k.step = f.step /\ k.query = f.query /\ k.request = f.request
          /\ k.attempt = f.attempt /\ k.found = f.found /\ k.sent = f.sent
          /\ k.failures = f.failures /\ k.hits = f.hits
          /\ k.patience = IF f.failures < f.patience THEN f.failures ELSE f.patience
      BY <2>3, <2>4 DEF GivenUp, Jobs
    <3> HIDE DEF k
    <3>4. UnderWay(k) /\ k.step = "sent"
      BY <2>1, <2>2, <2>3, <2>4, <3>3 DEF UnderWay
    <3>5. Honest(k)
      BY <2>1, <2>3, <3>2, <3>3 DEF Honest
    <3> QED
      BY <3>1, <3>3, <3>4, <3>5, EndOfRequest
  <2> QED
    BY <2>5, <2>6
<1>9. CASE Retry(c)
  <2> DEFINE k == [j EXCEPT !.step = "sent", !.attempt = @ + 1, !.sent = @ + 1]
  <2>1. j.step = "asleep" /\ job' = [job EXCEPT ![c] = k] /\ cache' = cache
    BY <1>9 DEF Retry, Become
  <2>2. /\ UnderWay(j) /\ Honest(j) /\ j.attempt < Attempts /\ j.failures >= j.attempt
    BY <1>1, <2>1 DEF Law, UnderWay
  <2>3. /\ j.attempt \in Nat /\ j.sent \in Nat /\ j.request \in 1..MaxRequests /\ j.failures \in Nat
    BY <1>1, <2>2, Fields, Bounds DEF UnderWay
  <2>4. /\ k.step = "sent" /\ k.query = j.query /\ k.request = j.request
        /\ k.attempt = j.attempt + 1 /\ k.found = j.found /\ k.sent = j.sent + 1
        /\ k.failures = j.failures /\ k.patience = j.patience /\ k.hits = j.hits
    BY <1>1 DEF Jobs
  <2>5. k \in Jobs
    <3>1. j.attempt + 1 \in 0..Attempts /\ j.sent + 1 \in Nat
      BY <2>2, <2>3, Bounds
    <3> QED
      BY <1>1, <3>1 DEF Jobs
  <2> HIDE DEF k
  <2>6. k.sent <= (k.request - 1) * Attempts + k.attempt
    <3>1. j.sent <= (j.request - 1) * Attempts + j.attempt /\ (j.request - 1) * Attempts \in Nat
      BY <2>2, <2>3, Quota DEF UnderWay
    <3> QED
      BY <2>3, <2>4, <3>1
  <2>7. k.attempt >= 1 /\ k.failures >= k.attempt - 1
    BY <2>2, <2>3, <2>4
  <2>8. Law(k)
    BY <2>2, <2>4, <2>6, <2>7 DEF Law, UnderWay, Honest
  <2> QED
    BY <1>1, <2>1, <2>5, <2>8, JobStep
<1>10. CASE Store(c)
  <2>1. /\ job' = [job EXCEPT ![c] = NoJob]
        /\ cache' = [cache EXCEPT ![j.query] = IF j.found THEN "results" ELSE "empty"]
    BY <1>10 DEF Store, Become
  <2>2. cache' \in [Queries -> Entries]
    BY <1>1, <2>1 DEF Entries
  <2> QED
    BY <2>1, <2>2, NoJobLaw, JobStep
<1> QED
  BY <1>2, <1>3, <1>4, <1>5, <1>6, <1>7, <1>8, <1>9, <1>10 DEF Search, CacheHit, NoProvider

LEMMA NextSInv == SInv /\ [SearchNext]_allVars => SInv'
<1> SUFFICES ASSUME SInv, [SearchNext]_allVars PROVE SInv'
  OBVIOUS
<1>1. CASE UNCHANGED searchVars
  BY <1>1 DEF searchVars, SInv, SearchTypeOK
<1>2. ASSUME NEW c \in Callers, Search(c)
      PROVE  SInv'
  BY <1>2, SearchSInv
<1> QED
  BY <1>1, <1>2 DEF SearchNext, Gate, Clock, allVars

\* With any number of searches, follow-up requests and attempts: no search sends
\* more requests than its token stands for.
THEOREM SearchRequestsBounded == SearchSpec => []RequestsBounded
<1>1. SInv => RequestsBounded
  <2> SUFFICES ASSUME SInv, NEW c \in Callers
               PROVE  job[c].sent <= MaxRequests * Attempts
    BY DEF RequestsBounded
  <2>1. job[c] \in Jobs /\ Law(job[c])
    BY DEF SInv, SearchTypeOK
  <2>2. /\ job[c].step \in {"none", "sent", "asleep", "returned"}
        /\ job[c].request \in 0..MaxRequests /\ job[c].attempt \in 0..Attempts
        /\ job[c].sent \in Nat
    BY <2>1, Fields
  <2>3. CASE job[c].step \in {"sent", "asleep"}
    <3>1. UnderWay(job[c])
      BY <2>1, <2>3 DEF Law
    <3>2. job[c].request \in 1..MaxRequests
      BY <2>2, <3>1, Bounds DEF UnderWay
    <3>3. job[c].sent <= (job[c].request - 1) * Attempts + job[c].attempt
      BY <3>1 DEF UnderWay
    <3>4. /\ (job[c].request - 1) * Attempts + Attempts <= MaxRequests * Attempts
          /\ (job[c].request - 1) * Attempts \in Nat
      BY <3>2, Quota
    <3>5. MaxRequests * Attempts \in Nat
      BY Bounds
    <3> QED
      BY <2>2, <3>3, <3>4, <3>5, Bounds
  <2>4. CASE job[c].step \in {"none", "returned"}
    <3>1. job[c].sent = 0 /\ MaxRequests * Attempts \in Nat
      BY <2>1, <2>4, Bounds DEF Law
    <3> QED
      BY <3>1
  <2> QED
    BY <2>2, <2>3, <2>4
<1> QED
  BY InitSInv, NextSInv, <1>1, PTL DEF SearchSpec

\* A search that comes back empty had no answer with hits, and gave up no request
\* that had failed less often than a request is tried.
THEOREM EmptyAnswersExplained == SearchSpec => []EmptyExplained
<1>1. SInv => EmptyExplained
  BY DEF SInv, EmptyExplained, Law, Honest
<1> QED
  BY InitSInv, NextSInv, <1>1, PTL DEF SearchSpec

================================================================================
