------------------------------ MODULE ProxiedFetch -----------------------------
(***************************************************************************)
(* The threads of a proxied crawl: RequestsCrawler.crawl_many (and its     *)
(* twin in playwright_crawler.py) hands the URLs to a pool of threads.     *)
(* Each thread takes a proxy, crawls, and after any failure reports the    *)
(* proxy, rotates the pool and crawls once more with the proxy it got.     *)
(* The calls of different threads interleave between those steps, so a     *)
(* report may blame a proxy that is no longer the current one.             *)
(***************************************************************************)
EXTENDS StaticProxy, Sequences

CONSTANTS Workers,      \* the threads of the executor
          NumUrls       \* length of the URL list

ASSUME ProxiedFetchAssumption == NumUrls \in Nat

VARIABLES queue,        \* the executor's queue of URLs not started
          place,        \* where in _fetch each thread is
          url,          \* the URL a thread is working on, 0 when idle
          held,         \* the proxy a thread last received, 0 when none
          page          \* what crawl_many has for each URL

fetchVars == <<queue, place, url, held, page>>
crawlVars == <<clock, until, current, rotations, failures, queue, place, url, held, page>>

Urls == 1..NumUrls
Places == {"idle", "first", "failed", "reported", "second"}
Pages == {"missing", "ok", "error"}

--------------------------------------------------------------------------------

FetchInit ==
    /\ PoolInit
    /\ queue = [u \in Urls |-> u]
    /\ place = [w \in Workers |-> "idle"]
    /\ url = [w \in Workers |-> 0]
    /\ held = [w \in Workers |-> 0]
    /\ page = [u \in Urls |-> "missing"]

\* A free thread takes the next URL and calls get_proxy().
Start(w) ==
    /\ place[w] = "idle"
    /\ queue # <<>>
    /\ queue' = Tail(queue)
    /\ place' = [place EXCEPT ![w] = "first"]
    /\ url' = [url EXCEPT ![w] = Head(queue)]
    /\ held' = [held EXCEPT ![w] = current]
    /\ UNCHANGED <<poolVars, page>>

\* crawl() returns a page: the result of _fetch, and the thread is free.  (crawl()
\* and the pool raise nothing here, so no future does: the except of crawl_many,
\* which would leave an error page too, is not a step.)
Finish(w, outcome) ==
    /\ page' = [page EXCEPT ![url[w]] = outcome]
    /\ place' = [place EXCEPT ![w] = "idle"]
    /\ url' = [url EXCEPT ![w] = 0]
    /\ UNCHANGED <<poolVars, queue, held>>

\* _crawl_with_proxy through the proxy the thread holds: the site answers,
CrawlSucceeds(w) ==
    /\ place[w] \in {"first", "second"}
    /\ Finish(w, "ok")

\* or the request raises and an error page stands for it.
FirstCrawlFails(w) ==
    /\ place[w] = "first"
    /\ place' = [place EXCEPT ![w] = "failed"]
    /\ UNCHANGED <<poolVars, queue, url, held, page>>

Report(w) ==
    /\ place[w] = "failed"
    /\ ReportFailure(held[w])
    /\ place' = [place EXCEPT ![w] = "reported"]
    /\ UNCHANGED <<queue, url, held, page>>

CrawlAgain(w) ==
    /\ place[w] = "reported"
    /\ Rotate
    /\ held' = [held EXCEPT ![w] = current']
    /\ place' = [place EXCEPT ![w] = "second"]
    /\ UNCHANGED <<queue, url, page>>

\* Seeded fault: the second failure escapes and no page is returned.
SecondCrawlEscapes(w) ==
    /\ place[w] = "second"
    /\ Finish(w, "missing")

\* The second failure is final: there is one retry.
SecondCrawlFails(w) ==
    /\ place[w] = "second"
    /\ Finish(w, "error")

TimePasses ==
    /\ PoolTick
    /\ UNCHANGED fetchVars

Step(w) ==
    \/ Start(w)
    \/ CrawlSucceeds(w)
    \/ FirstCrawlFails(w)
    \/ Report(w)
    \/ CrawlAgain(w)
    \/ SecondCrawlFails(w)

\* crawl_many has returned: every URL was fetched and every thread is free.
Finished ==
    /\ queue = <<>>
    /\ \A w \in Workers : place[w] = "idle"

Terminated == Finished /\ UNCHANGED crawlVars

FetchNext ==
    \/ \E w \in Workers : Step(w)
    \/ TimePasses
    \/ Terminated

\* Every crawl ends (the request has a timeout), so a thread keeps stepping.
FetchSpec == FetchInit /\ [][FetchNext]_crawlVars /\ \A w \in Workers : WF_crawlVars(Step(w))

--------------------------------------------------------------------------------

FetchTypeOK ==
    /\ PoolTypeOK
    /\ queue \in Seq(Urls)
    /\ place \in [Workers -> Places]
    /\ url \in [Workers -> Urls \cup {0}]
    /\ held \in [Workers -> Proxies \cup {0}]
    /\ page \in [Urls -> Pages]

\* A thread between two calls of the pool holds a real proxy and a real URL.
BusyHolds ==
    \A w \in Workers : place[w] # "idle" => held[w] \in Proxies /\ url[w] \in Urls

\* The step hands a proxy to thread w.
HandsOut(w) == place'[w] # place[w] /\ place'[w] \in {"first", "second"}

\* The quarantine is honoured whatever the interleaving of the threads: a
\* proxy in quarantine is handed out, by get_proxy() or by rotate(), only when
\* every proxy of the list is in quarantine.
QuarantineHonoured ==
    [][ \A w \in Workers :
          HandsOut(w) /\ clock < until[held'[w]] => \A p \in Proxies : clock < until[p] ]_crawlVars

\* A retry never repeats the proxy its own first attempt failed on while that
\* proxy's quarantine lasts, unless the whole list is in quarantine: the report
\* and the rotation of one thread are two critical sections, and the other
\* threads' reports and rotations between them must not bring it back.
RetryUsesAnotherProxy ==
    [][ \A w \in Workers :
          /\ place[w] = "reported" /\ place'[w] = "second"
          /\ clock < until[held[w]]
          /\ \E p \in Proxies : clock >= until[p]
          => held'[w] # held[w] ]_crawlVars

\* crawl_many returns a page for every URL, in whatever way the crawls fail.
EveryUrlAnswered == <>(\A u \in Urls : page[u] # "missing")

================================================================================
