--------------------------- MODULE ProxiedFetchProofs --------------------------
(***************************************************************************)
(* What holds of the proxy pool and of the crawl threads that share it for *)
(* every list length, quarantine, number of threads and number of URLs.    *)
(***************************************************************************)
EXTENDS ProxiedFetch, WellFoundedInduction, TLAPS

\* Every nonempty set of numbers has a least element, so `available[0]' exists.
LEMMA LeastElement ==
    ASSUME NEW S, S \subseteq Nat, S # {}
    PROVE  \E m \in S : \A n \in S : m <= n
<1>1. \E m \in S : \A n \in S : <<n, m>> \notin OpToRel(<, Nat)
  BY NatLessThanWellFounded, WFMin
<1>2. PICK m \in S : \A n \in S : <<n, m>> \notin OpToRel(<, Nat)
  BY <1>1
<1>3. ASSUME NEW n \in S PROVE m <= n
  <2>1. <<n, m>> \in Nat \X Nat
    OBVIOUS
  <2>2. <<n, m>> \notin {ss \in Nat \X Nat : ss[1] < ss[2]}
    BY <1>2 DEF OpToRel
  <2>3. ~(n < m)
    BY <2>1, <2>2
  <2> QED
    BY <2>3
<1> QED
  BY <1>3

\* First picks a member of the set it is given.
LEMMA FirstIsMember ==
    ASSUME NEW S \in SUBSET Proxies, S # {}
    PROVE  First(S) \in S
<1>1. S \subseteq Nat
  BY StaticProxyAssumption DEF Proxies, StaticProxyAssumption
<1>2. \E p \in S : \A q \in S : p <= q
  BY <1>1, LeastElement
<1> QED
  BY <1>2 DEF First

\* Some proxy's quarantine ends first: the fallback of _rotate_to_next is total.
LEMMA SoonestExists ==
    ASSUME NEW u \in [Proxies -> Nat]
    PROVE  SoonestExpiry(u) # {}
<1> USE StaticProxyAssumption DEF StaticProxyAssumption
<1>1. DEFINE T == {u[p] : p \in Proxies}
<1>2. T \subseteq Nat /\ T # {}
  BY DEF Proxies
<1>3. PICK m \in T : \A n \in T : m <= n
  BY <1>2, LeastElement
<1>4. PICK p \in Proxies : u[p] = m
  BY <1>3
<1> QED
  BY <1>3, <1>4 DEF SoonestExpiry

\* The contract of _rotate_to_next: it returns a proxy of the list, and one that
\* is in quarantine only if no proxy's quarantine ends sooner.
LEMMA NextProxyIsBest ==
    ASSUME NEW u \in [Proxies -> Nat], current \in Proxies, clock \in Nat
    PROVE  /\ NextProxy(u) \in Proxies
           /\ clock < u[NextProxy(u)] => \A p \in Proxies : u[NextProxy(u)] <= u[p]
<1> DEFINE free == Available(u, {current})
<1>1. CASE free # {}
  <2>1. NextProxy(u) \in free
    BY <1>1, FirstIsMember DEF NextProxy, Available
  <2> QED
    BY <2>1, SMT DEF Available
<1>2. CASE free = {}
  <2>1. NextProxy(u) \in SoonestExpiry(u)
    BY <1>2, SoonestExists, FirstIsMember DEF NextProxy, SoonestExpiry
  <2> QED
    BY <2>1 DEF SoonestExpiry
<1> QED
  BY <1>1, <1>2

--------------------------------------------------------------------------------
(***************************************************************************)
(* The pool on its own, under any callers.                                 *)
(***************************************************************************)

PoolInv == PoolTypeOK /\ CurrentIsBest

LEMMA PoolInitInv == PoolInit => PoolInv
<1> USE StaticProxyAssumption DEF StaticProxyAssumption
<1> SUFFICES ASSUME PoolInit PROVE PoolInv
  OBVIOUS
<1>0. Proxies # {}
  BY DEF Proxies
<1>1. First(Proxies) \in Proxies
  BY <1>0, FirstIsMember
<1>2. PoolTypeOK
  BY <1>1 DEF PoolInit, PoolTypeOK
<1>3. CurrentIsBest
  BY <1>1 DEF PoolInit, CurrentIsBest
<1> QED
  BY <1>2, <1>3 DEF PoolInv

\* Each critical section of the provider keeps its invariant.
LEMMA RotateInv == PoolInv /\ Rotate => PoolInv'
<1> SUFFICES ASSUME PoolInv, Rotate PROVE PoolInv'
  OBVIOUS
<1>1. /\ NextProxy(until) \in Proxies
      /\ clock < until[NextProxy(until)] =>
           \A p \in Proxies : until[NextProxy(until)] <= until[p]
  BY NextProxyIsBest DEF PoolInv, PoolTypeOK
<1>2. PoolTypeOK'
  BY <1>1 DEF PoolInv, PoolTypeOK, Rotate
<1>3. CurrentIsBest'
  BY <1>1 DEF CurrentIsBest, Rotate
<1> QED
  BY <1>2, <1>3 DEF PoolInv

LEMMA ReportInv ==
    ASSUME PoolInv, NEW p \in Proxies, ReportFailure(p)
    PROVE  PoolInv'
<1>1. until' \in [Proxies -> Nat]
  BY StaticProxyAssumption
     DEF StaticProxyAssumption, PoolInv, PoolTypeOK, ReportFailure
<1>2. /\ NextProxy(until') \in Proxies
      /\ clock < (until')[NextProxy(until')] =>
           \A q \in Proxies : (until')[NextProxy(until')] <= (until')[q]
  BY <1>1, NextProxyIsBest DEF PoolInv, PoolTypeOK
<1>3. PoolTypeOK'
  BY <1>1, <1>2 DEF PoolInv, PoolTypeOK, ReportFailure
<1>4. CurrentIsBest'
  BY <1>2 DEF CurrentIsBest, ReportFailure
<1> QED
  BY <1>3, <1>4 DEF PoolInv

\* Time only lets quarantines end.
LEMMA TickInv == PoolInv /\ PoolTick => PoolInv'
<1> SUFFICES ASSUME PoolInv, PoolTick PROVE PoolInv'
  OBVIOUS
<1>1. PoolTypeOK'
  BY DEF PoolInv, PoolTypeOK, PoolTick
<1>2. CurrentIsBest'
  <2>1. clock' = clock + 1 /\ clock \in Nat /\ until[current] \in Nat
    BY DEF PoolInv, PoolTypeOK, PoolTick
  <2>2. clock' < until[current] => clock < until[current]
    BY <2>1
  <2> QED
    BY <2>2 DEF PoolInv, CurrentIsBest, PoolTick
<1> QED
  BY <1>1, <1>2 DEF PoolInv

LEMMA PoolStutterInv == PoolInv /\ UNCHANGED poolVars => PoolInv'
  BY DEF PoolInv, PoolTypeOK, CurrentIsBest, poolVars

\* For any callers of the provider: its current proxy is in quarantine only
\* when no other proxy of the list leaves quarantine sooner.
THEOREM PoolServesBest == PoolSpec => []CurrentIsBest
<1>1. PoolInv /\ [PoolNext]_poolVars => PoolInv'
  BY RotateInv, ReportInv, TickInv, PoolStutterInv DEF PoolNext
<1>2. PoolInv => CurrentIsBest
  BY DEF PoolInv
<1> QED
  BY PoolInitInv, <1>1, <1>2, PTL DEF PoolSpec

--------------------------------------------------------------------------------
(***************************************************************************)
(* The crawl threads that share the pool.  The pool's invariant needs every*)
(* reported proxy to be one of the list, which is why the inductive        *)
(* invariant follows what each thread holds between its calls.             *)
(***************************************************************************)

IInv == FetchTypeOK /\ BusyHolds /\ CurrentIsBest

LEMMA InitIInv == FetchInit => IInv
<1> SUFFICES ASSUME FetchInit PROVE IInv
  OBVIOUS
<1>1. PoolInv
  BY PoolInitInv DEF FetchInit
<1>2. FetchTypeOK
  <2>1. queue \in Seq(Urls)
    BY ProxiedFetchAssumption DEF ProxiedFetchAssumption, FetchInit, Urls
  <2>2. place \in [Workers -> Places] /\ page \in [Urls -> Pages]
    BY DEF FetchInit, Places, Pages
  <2>3. url \in [Workers -> Urls \cup {0}] /\ held \in [Workers -> Proxies \cup {0}]
    BY DEF FetchInit
  <2> QED
    BY <1>1, <2>1, <2>2, <2>3 DEF FetchTypeOK, PoolInv
<1>3. BusyHolds
  BY DEF FetchInit, BusyHolds
<1> QED
  BY <1>1, <1>2, <1>3 DEF IInv, PoolInv

LEMMA StepIInv ==
    ASSUME IInv, NEW w \in Workers, Step(w)
    PROVE  IInv'
<1> USE DEF IInv, FetchTypeOK, BusyHolds
<1>0. PoolInv
  BY DEF PoolInv
<1>1. CASE Start(w)
  <2>1. Head(queue) \in Urls /\ Tail(queue) \in Seq(Urls)
    BY <1>1 DEF Start
  <2>2. current \in Proxies
    BY DEF PoolTypeOK
  <2>3. PoolInv'
    BY <1>0, <1>1, PoolStutterInv DEF Start
  <2>4. FetchTypeOK'
    BY <1>1, <2>1, <2>2, <2>3 DEF Start, PoolInv, Places
  <2>5. BusyHolds'
    BY <1>1, <2>1, <2>2 DEF Start
  <2> QED
    BY <2>3, <2>4, <2>5 DEF PoolInv
<1>2. ASSUME NEW outcome \in Pages, place[w] # "idle", Finish(w, outcome)
      PROVE  IInv'
  <2>1. PoolInv'
    BY <1>0, <1>2, PoolStutterInv DEF Finish
  <2>2. FetchTypeOK'
    BY <1>2, <2>1 DEF Finish, PoolInv, Places
  <2>3. BusyHolds'
    BY <1>2 DEF Finish
  <2> QED
    BY <2>1, <2>2, <2>3 DEF PoolInv
<1>3. CASE CrawlSucceeds(w)
  BY <1>2, <1>3 DEF CrawlSucceeds, Pages
<1>4. CASE SecondCrawlFails(w)
  BY <1>2, <1>4 DEF SecondCrawlFails, Pages
<1>5. CASE FirstCrawlFails(w)
  <2>1. PoolInv'
    BY <1>0, <1>5, PoolStutterInv DEF FirstCrawlFails
  <2>2. FetchTypeOK'
    BY <1>5, <2>1 DEF FirstCrawlFails, PoolInv, Places
  <2>3. BusyHolds'
    BY <1>5 DEF FirstCrawlFails
  <2> QED
    BY <2>1, <2>2, <2>3 DEF PoolInv
<1>6. CASE Report(w)
  <2>1. held[w] \in Proxies
    BY <1>6 DEF Report
  <2>2. PoolInv'
    BY <1>0, <1>6, <2>1, ReportInv DEF Report
  <2>3. FetchTypeOK'
    BY <1>6, <2>2 DEF Report, PoolInv, Places
  <2>4. BusyHolds'
    BY <1>6 DEF Report
  <2> QED
    BY <2>2, <2>3, <2>4 DEF PoolInv
<1>7. CASE CrawlAgain(w)
  <2>1. PoolInv'
    BY <1>0, <1>7, RotateInv DEF CrawlAgain
  <2>2. current' \in Proxies
    BY <2>1 DEF PoolInv, PoolTypeOK
  <2>3. FetchTypeOK'
    BY <1>7, <2>1, <2>2 DEF CrawlAgain, PoolInv, Places
  <2>4. BusyHolds'
    BY <1>7, <2>2 DEF CrawlAgain
  <2> QED
    BY <2>1, <2>3, <2>4 DEF PoolInv
<1> QED
  BY <1>1, <1>3, <1>4, <1>5, <1>6, <1>7 DEF Step

LEMMA NextIInv == IInv /\ [FetchNext]_crawlVars => IInv'
<1> SUFFICES ASSUME IInv, [FetchNext]_crawlVars PROVE IInv'
  OBVIOUS
<1>1. CASE \E w \in Workers : Step(w)
  BY <1>1, StepIInv
<1>2. CASE TimePasses
  <2>1. PoolInv'
    BY <1>2, TickInv DEF TimePasses, IInv, FetchTypeOK, PoolInv
  <2> QED
    BY <1>2, <2>1 DEF TimePasses, fetchVars, IInv, FetchTypeOK, BusyHolds, PoolInv
<1>3. CASE UNCHANGED crawlVars
  BY <1>3 DEF crawlVars, IInv, FetchTypeOK, PoolTypeOK, BusyHolds, CurrentIsBest
<1> QED
  BY <1>1, <1>2, <1>3 DEF FetchNext, Terminated

\* Every variable keeps its type, whatever the numbers of threads and URLs.
THEOREM TypeCorrect == FetchSpec => []FetchTypeOK
<1>1. IInv => FetchTypeOK
  BY DEF IInv
<1> QED
  BY InitIInv, NextIInv, <1>1, PTL DEF FetchSpec

\* With the threads as callers too, the current proxy is always the best one.
THEOREM FetchServesBest == FetchSpec => []CurrentIsBest
<1>1. IInv => CurrentIsBest
  BY DEF IInv
<1> QED
  BY InitIInv, NextIInv, <1>1, PTL DEF FetchSpec

\* No interleaving of the threads' get_proxy(), report_failure() and rotate()
\* hands out a proxy in quarantine while another proxy of the list is usable.
THEOREM QuarantineIsHonoured == FetchSpec => QuarantineHonoured
<1> DEFINE Honoured(w) ==
      HandsOut(w) /\ clock < until[held'[w]] => \A p \in Proxies : clock < until[p]
<1>1. ASSUME IInv, IInv', [FetchNext]_crawlVars, NEW w \in Workers
      PROVE  Honoured(w)
  <2> SUFFICES ASSUME HandsOut(w), clock < until[held'[w]], NEW p \in Proxies
               PROVE  clock < until[p]
    OBVIOUS
  <2>1. clock \in Nat /\ until \in [Proxies -> Nat] /\ current \in Proxies /\ current' \in Proxies
    BY <1>1 DEF IInv, FetchTypeOK, PoolTypeOK
  <2>2. CASE Start(w)
    <3>1. held'[w] = current
      BY <1>1, <2>2 DEF Start, IInv, FetchTypeOK
    <3> QED
      BY <1>1, <2>1, <3>1 DEF IInv, CurrentIsBest
  <2>3. CASE CrawlAgain(w)
    <3>1. held'[w] = current' /\ clock' = clock /\ until' = until
      BY <1>1, <2>3 DEF CrawlAgain, Rotate, IInv, FetchTypeOK
    <3> QED
      BY <1>1, <2>1, <3>1 DEF IInv, CurrentIsBest
  <2>4. Start(w) \/ CrawlAgain(w)
    <3>1. place \in [Workers -> Places] /\ place'[w] # place[w] /\ place'[w] \in {"first", "second"}
      BY <1>1 DEF HandsOut, IInv, FetchTypeOK
    <3>2. PICK v \in Workers : Step(v)
      BY <1>1, <3>1 DEF FetchNext, TimePasses, fetchVars, Terminated, crawlVars
    <3> QED
      BY <3>1, <3>2 DEF Step, Start, CrawlSucceeds, FirstCrawlFails, Report, CrawlAgain,
                        SecondCrawlFails, Finish
  <2> QED
    BY <2>2, <2>3, <2>4
<1>2. IInv /\ IInv' /\ [FetchNext]_crawlVars => [\A w \in Workers : Honoured(w)]_crawlVars
  BY <1>1
<1> QED
  BY InitIInv, NextIInv, <1>2, PTL DEF FetchSpec, QuarantineHonoured

\* A retry does not go out through the proxy its first attempt failed on while
\* that proxy is in quarantine and another one is not: whatever the other threads
\* reported and rotated in between, rotate() leaves the pool at its best proxy.
THEOREM RetriesUseAnotherProxy == FetchSpec => RetryUsesAnotherProxy
<1> DEFINE Retries(w) == /\ place[w] = "reported" /\ place'[w] = "second"
                         /\ clock < until[held[w]]
                         /\ \E p \in Proxies : clock >= until[p]
<1>1. ASSUME IInv, IInv', [FetchNext]_crawlVars, NEW w \in Workers, Retries(w)
      PROVE  held'[w] # held[w]
  <2>1. PICK v \in Workers : Step(v)
    BY <1>1 DEF FetchNext, TimePasses, fetchVars, Terminated, crawlVars
  <2>2. place \in [Workers -> Places]
    BY <1>1 DEF IInv, FetchTypeOK
  <2>3. CrawlAgain(w)
    BY <1>1, <2>1, <2>2
    DEF Step, Start, CrawlSucceeds, FirstCrawlFails, Report, CrawlAgain, SecondCrawlFails, Finish
  <2>4. held'[w] = current' /\ clock' = clock /\ until' = until
    BY <1>1, <2>3 DEF CrawlAgain, Rotate, IInv, FetchTypeOK
  <2>5. clock \in Nat /\ until \in [Proxies -> Nat] /\ current' \in Proxies
    BY <1>1 DEF IInv, FetchTypeOK, PoolTypeOK
  <2>6. clock < until[current'] => \A p \in Proxies : clock < until[p]
    BY <1>1, <2>4, <2>5 DEF IInv, CurrentIsBest
  <2> QED BY <1>1, <2>4, <2>5, <2>6
<1>2. IInv /\ IInv' /\ [FetchNext]_crawlVars => [\A w \in Workers : Retries(w) => held'[w] # held[w]]_crawlVars
  BY <1>1
<1> QED BY InitIInv, NextIInv, <1>2, PTL DEF FetchSpec, RetryUsesAnotherProxy

================================================================================
