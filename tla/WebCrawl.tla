-------------------------------- MODULE WebCrawl -------------------------------
(***************************************************************************)
(* A crawl without proxies: the threads of crawl_many (requests_crawler.py)*)
(* in discovery/crawler.py's WebCrawler, with its delay between requests to*)
(* one domain and the retries of common/retry.py.  Time is counted in ticks*)
(* from the last request, and down to the end of a sleep.                  *)
(***************************************************************************)
EXTENDS Page

CONSTANTS
    Urls, Domains,
    DomainOf,       \* the domain of each URL
    Workers,        \* crawl_workers
    Delay,          \* domain_delay_seconds
    Retries,        \* retries
    Backoff,        \* retry_backoff; a wait is between a half of it, doubled
                    \* for each attempt made, and the whole
    Document,       \* the documents there are in this web, by name
    Serves          \* for each URL, those it may answer with

Failed == "failed"
NoPage == "no page"

ASSUME WebCrawlAssumption ==
    /\ DomainOf \in [Urls -> Domains]
    /\ Workers \in Nat \ {0}
    /\ Delay \in Nat /\ Retries \in Nat /\ Backoff \in Nat \ {0}
    /\ Failed \notin DOMAIN Document /\ NoPage \notin DOMAIN Document
    /\ Serves \in [Urls -> SUBSET DOMAIN Document]

VARIABLES
    fetching,       \* the URLs crawl_many was called with
    task,           \* what became of each of them
    pages,          \* the table of results: a document, Failed or NoPage
    since,          \* ticks since each domain's _domain_last_hit, up to Delay
    idle            \* history: ticks since the last request to each domain

crawlVars == <<fetching, task, pages, since, idle>>

\* What the parser makes of each document, and the documents it does not fail on.
Parsed == [d \in DOMAIN Document |-> PageFrom(Document[d])]
Good(docs) == {d \in docs : Parsed[d].success}

Tasks == DOMAIN task
Task(state, left, attempt) == [state |-> state, left |-> left, attempt |-> attempt]
Queued == Task("queued", 0, 0)
Busy == {i \in Tasks : task[i].state \in {"delayed", "requested", "backing off"}}
Host(i) == DomainOf[fetching[i]]

CrawlInit ==
    /\ fetching = <<>> /\ task = <<>>
    /\ pages = [u \in Urls |-> NoPage]
    /\ since = [d \in Domains |-> Delay]
    /\ idle = [d \in Domains |-> Delay]

\* crawl_many is called: a task for every URL, duplicates included.
CrawlMany(urls) ==
    /\ fetching' = urls
    /\ task' = [i \in 1..Len(urls) |-> Queued]
    /\ UNCHANGED <<pages, since, idle>>

CrawlOver == \A i \in Tasks : task[i].state = "done"

\* The crawler of the run is gone, and what crawl_many returned stays.
EndOfCrawl ==
    /\ fetching' = <<>> /\ task' = <<>>
    /\ since' = [d \in Domains |-> Delay]
    /\ idle' = [d \in Domains |-> Delay]
    /\ UNCHANGED pages

\* A worker takes the next URL.  _apply_rate_limit reads the last hit of the domain
\* and sleeps for what the delay has left,
Begin(i) ==
    /\ task[i] = Queued
    /\ \A j \in 1..i-1 : task[j] # Queued
    /\ Cardinality(Busy) < Workers
    /\ task' = [task EXCEPT ![i] = Task("delayed", Delay - since[Host(i)], 0)]
    /\ UNCHANGED <<fetching, pages, since, idle>>

Awake(i) == task[i].left = 0

\* and then writes the new one; the first request goes out.
FirstRequest(i) ==
    /\ task[i].state = "delayed" /\ Awake(i)
    /\ task' = [task EXCEPT ![i] = Task("requested", 0, 1)]
    /\ since' = [since EXCEPT ![Host(i)] = 0]
    /\ idle' = [idle EXCEPT ![Host(i)] = 0]
    /\ UNCHANGED <<fetching, pages>>

\* A retry does not go through the delay.
Rerequest(i) ==
    /\ task[i].state = "backing off" /\ Awake(i)
    /\ task' = [task EXCEPT ![i] = Task("requested", 0, @.attempt + 1)]
    /\ idle' = [idle EXCEPT ![Host(i)] = 0]
    /\ UNCHANGED <<fetching, pages, since>>

Finish(i, outcome) ==
    /\ task' = [task EXCEPT ![i].state = "done"]
    /\ pages' = [pages EXCEPT ![fetching[i]] = outcome]
    /\ UNCHANGED <<fetching, since, idle>>

\* The response is good, and so is its body unless the parser fails on it.
Succeeds(i) ==
    /\ task[i].state = "requested"
    /\ \E d \in Serves[fetching[i]] : Finish(i, IF d \in Good({d}) THEN d ELSE Failed)

\* Neither a connection error or timeout nor a 5xx, or the body breaks off: no retry.
Refused(i) == task[i].state = "requested" /\ Finish(i, Failed)

\* The ceiling of 60 seconds is left out.
Waits(attempt) ==
    LET cap == Backoff * 2 ^ (attempt - 1) IN (cap \div 2)..cap

MayRetry(i) == task[i].attempt <= Retries

FailsAndRetries(i) ==
    /\ task[i].state = "requested"
    /\ MayRetry(i)
    /\ \E w \in Waits(task[i].attempt) :
         task' = [task EXCEPT ![i].state = "backing off", ![i].left = w]
    /\ UNCHANGED <<fetching, pages, since, idle>>

FailsForGood(i) == task[i].state = "requested" /\ ~MayRetry(i) /\ Finish(i, Failed)

Crawl(i) ==
    \/ Begin(i) \/ FirstRequest(i) \/ Rerequest(i)
    \/ Succeeds(i) \/ Refused(i) \/ FailsAndRetries(i) \/ FailsForGood(i)

Sooner(n) == Max({0, n - 1})
Later(n) == Min({Delay, n + 1})

\* Time passes; sleeps end, and may last longer than asked for.
CrawlTick ==
    /\ ~CrawlOver
    /\ task' = [i \in Tasks |-> [task[i] EXCEPT !.left = Sooner(@)]]
    /\ since' = [d \in Domains |-> Later(since[d])]
    /\ idle' = [d \in Domains |-> Later(idle[d])]
    /\ UNCHANGED <<fetching, pages>>

--------------------------------------------------------------------------------

\* "Seconds to wait between requests to the same domain" (discovery/crawler.py):
\* no request to a domain goes out before Delay has passed since the last one.
DelayKept ==
    [][ \A i \in Tasks \cap DOMAIN task' :
          task'[i].state = "requested" /\ task'[i] # task[i] => idle[Host(i)] = Delay ]_crawlVars

================================================================================
