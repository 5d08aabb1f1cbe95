# A TLA+ verification of LeadSage

LeadSage turns a free-text description of an ideal customer into a list of
scored sales leads: an API (or the command line) takes a request, a pipeline of
stages plans search queries, asks search providers, crawls the pages they
return, enriches and scores what it finds, and stores the leads. This directory
holds TLA+ models of its stateful parts, the TLC runs that check them, and
proofs that the TLA+ proof system checks. Paths are relative to `src/`.

## 1. Inventory

| Component | State it keeps | Operations | What makes it correct |
|---|---|---|---|
| Run dispatch and life cycle: `api/routes/runs.py`, `api/routes/stream.py`, `tasks/`, `services/pipeline_service.py` | messages in the broker, background tasks, threads; the run's session | submit, dispatch to Celery or fall back, execute, retry, redeliver, complete, save | what can lose a queued run is known and little; executions of one request stay bounded and never share a session; everything comes to rest |
| Planning: `agents/icp_parser.py`, `discovery/query_planner.py` | none: the ICP and the plan of one run | parse with a model or by keywords, plan, cut off each signal | what the ICP asks for first is searched for, whatever is cut off |
| Search: `discovery/pipeline.py`, `retreivers/orchestrator.py`, `retreivers/*` | queries and answers of one run; cached answers | search all providers at once, request, retry, cache | everything found is merged once; requests are bounded; an empty answer hides no hits |
| Rate limiter: `common/ratelimit.py` | one token bucket per provider, replaced by every run | configure, acquire | a provider gets no more than its limit; acquire returns |
| Crawl: `discovery/crawler.py`, `crawlers/requests_crawler.py`, `common/retry.py` | a table of pages, the last hit of each domain | crawl in threads, wait, retry, parse | every URL gets one page; the text of a page is what shows |
| Proxy pool and proxied threads: `common/proxy/static.py`, `crawl_many` of `requests_crawler.py` and `playwright_crawler.py` | current proxy, quarantine table; a queue of URLs, a table of pages | get, rotate, report a failure; fetch, report, rotate, retry once | a quarantined proxy is not handed out while another is usable; the retry uses another proxy |
| Enrichment: `discovery/enricher.py` | none: the leads of one run | score a page, keep it or not | every page worth enough is a lead; scores rank sensibly |
| Agents: `agents/lead_scorer.py`, `research.py`, `contact_finder.py`, `base.py` | the scored leads of one run | score in threads, research, find contacts, each with a model or without | the best leads are scored, none is dropped when the model fails, no agent overwrites another |
| Event bus: `common/events/bus.py`, `observers.py` | handlers per event type, counts, a pool of webhooks | subscribe, unsubscribe, publish | one failing handler disturbs no other; no count is lost |
| Live event stream: `common/events/sse.py` | one bounded queue, one executor thread in `queue.get` | handle, close, stream, disconnect | a client loses events only when its queue is full, and the stream ends |
| Two-tier stores: `common/session/cache.py`, `session/memory.py`, `common/llm/response_cache.py`, `cached_llm.py` | an LRU dictionary per process over Redis | get, set, evict, ask the model on a miss | bounded, evicts the least recently used, no older value after a newer one |
| Session store: `common/session/manager.py` | session records, the history of a conversation | create, get, update, complete; add a turn, read and clear the history | executions open their own session; no turn of a conversation is lost |
| Conversation memory: `common/context/window.py` | a bounded deque of turns, a token estimate, a rolling summary, a mirror in Redis | add, compact, mirror, read back | no turn twice or out of order; the estimate covers the turns; the mirror is current |
| Persistence: `services/persistence_service.py`, `common/db/` | sessions, companies, leads, decision makers in PostgreSQL | one transaction per finished run | one row per company and domain; a run is saved whole or not at all |
| Configuration, secrets, schemas, sanitising, metrics, logging | none over time | | |

How they meet: the API creates a session id and hands the run to Celery; if
`.delay()` raises, a FastAPI background task executes it in the API process, and
`POST /runs/stream` executes it in a thread. All three end in `run_pipeline`,
which configures the process-wide rate limiter, opens a session through the
session store, runs the stages (which share the two-tier cache, the rate limiter,
the crawl threads and through them the proxy pool), marks the session completed
and saves to the database. Stages publish events on the bus; the streaming
route's observer is one subscriber.

What is hard about it: the same request may be executed several times (retry,
redelivery, an error after the broker had accepted the message); thread pools
share pool, buckets, cache and deque with locks that cover single methods but
not the sequences their callers make of them; values are read under a lock and
used after it; queues and caches meet their limits; Redis and the database may
be away at any step and every such error is swallowed; and a process may end
between any two steps. `PROJECT.json` lists each such place as a hazard, at its
line, with the property that covers it or the reason that none does yet.

## 2. Modules and the code

A spec module has one action per operation, handler or step of a thread; `map`
in `PROJECT.json` gives the lines of each definition. Operators marked *Seeded
fault* are not part of a specification: each is a plausible bug, put in place of
the operator it varies to see that a property notices. Modules named `MC...` add
model values and symmetry for TLC, modules named `...Proofs` hold theorems.

**StaticProxy, ProxiedFetch.** `StaticProxy` is the pool: a proxy is its position
in the configured list (the code picks `available[0]`), `until` is the quarantine
table with 0 for no entry, and each method is a step because each holds the
lock. Its `PoolSpec` allows any callers. `ProxiedFetch` extends it with the
threads of `crawl_many`: `Start`, `CrawlSucceeds`, `FirstCrawlFails`, `Report`,
`CrawlAgain`, `SecondCrawlFails`. `Report` and `CrawlAgain` are two critical sections,
so other threads report and rotate between them and a report may blame a proxy that
is no longer current. A future that raises (`requests_crawler.py:86`) is not a step:
the fetch of a thread turns every exception into a failed page, and the handler would
leave the same page.

**RateLimiter, ProviderSearch.** Buckets are numbered in the order `configure()`
made them: a caller keeps the bucket it found in the registry while the registry
goes on to a new one. Tokens are counted in units of `1/Minute` token, which makes
the float arithmetic of `_refill` exact. `acquire()`'s loop is `Grant`, `Starve`
(under the lock), `Nap`, `GiveUp`; its result is not looked at, so `GiveUp` leads to
the provider as `Grant` does. `ProviderSearch` extends it with what comes behind the
gate: the cache (`CacheHit`, `Miss`), the requests of a search (one for most
providers, a list and its details for GitHub, one per board for Greenhouse and
Lever), which are answered with hits or without (`Succeed`), their retries (`Fails`,
`Retry`), what is not retried (`Refused`), a `search()` that swallows its failures and
returns what it has (`Drop`), one that asks nobody, for want of boards or because YC's
list is at hand (`AsksNobody`), and the caching of what is returned as a success
(`Store`). Whether an answer had hits (`hits`), and after how many failures a request
was given up at the earliest (`patience`), is history.

**RunLifecycle.** Requests, broker messages with their holder, and executions of
`run_pipeline`. A session id is a request (ids the API made) or the number of an
execution (fresh uuids). `Launch` starts an execution; `Open`, `Raises`,
`Complete`, `SaveCommits`, `SaveFails`, `SaveSkipped` are `run_pipeline`; `Return`,
`Retry`, `AckRetried`, `RetryRefused` are what its three callers do with the end;
`Deliver`, `HardTimeLimit`, `WorkerCrash`, `ChildLost`, `ApiCrash`, `Expire` are the
environment. Celery is modelled from its configuration in `tasks/celery_app.py`: late
acknowledgement, redelivery of the unacknowledged message of a worker that is gone
(`WorkerCrash`), but, without `task_reject_on_worker_lost`, acknowledgement of a task
whose process is killed under a worker that lives on (`ChildLost`); the next attempt is
published before the old one is acknowledged, and a message whose next attempt the
broker does not take is dropped (`RetryRefused`). The session store is Redis behind a
backend that swallows every error: a write may be lost (`WriteState`), and a key may
expire or be evicted (`Expire`); `missed` is the sessions to which that happened, all of
them in a process without Redis. Each counts as a fault, like a crash (`MaxFaults`).

**SseObserver, LossyStream, EventBus.** `LossyStream` is the abstract promise to a
client: of the published events it sees a subsequence in order, none made up, and
what is lost is lost when a new event comes or when the client has gone. Whether a
full stream turns the new event away or gives up one it holds (`Displace`) it leaves
open.
`SseObserver` is the code: `Handle` (filter, `put_nowait`, drop on full), `Close`
(sentinel, lost on a full queue), `Await` and `Got` (the executor thread and the
generator's loop), `Disconnect` (the generator ends while the thread is still in
`queue.get`). `EventBus` extends it with the bus in front of it: a publication is a
position in the list of the handlers of its type (`Publish`, `Call`, `EndPublish`),
and the list is the live one, which `Subscribe` and `Unsubscribe` change meanwhile.
The handlers are the logging (`Log`, or `Raise`, which the bus catches), the stream,
the metrics (`Count` and `Counts` hold their lock) and the webhook (`Submit` to a
pool: `TakeHook`, `SendHook`). A bus starts with the observers of a streamed run or
with those of the command line (`Setups`).

**ContextWindow, SessionMemory.** A turn is its number and token count, the summary
the set of turns in it. `Add` appends to the deque (which drops on `maxlen`) and
compacts, all under the lock; mirroring is `ReadSummary`, `ReadBuffer`, `Write`,
without it. `Restart` reads back whatever was mirrored. `SessionMemory` puts
`SessionManager`'s conversation around it: `AddTurn` appends and trims under the
lock, `AddToWindow` is the mirroring to the attached window, `CopyHistory` and
`SendHistory` write Redis; `LoadHistory` and `KeepHistory` are the two halves of a read
by a process that does not know the session; `ClearHistory` and `DeleteHistory`
leave the window as it is. The list that is written is copied in one step: the code
serialises it outside the lock through a reference, which shows a list that a
later copy would have shown (or one turn too many, if it is trimmed meanwhile).

**LeadCache.** An access to a tier is atomic, get and set are not: `MissL1`, `HitL2`,
`Warm...` and `Set...`, `SetL2` are steps (each call begins with `BeginCall`). The module
is one process's stores; other processes are seen through Redis (`SetElsewhere`), and
the process may end and another take its place (`NewProcess`). A value is the number of the set
that wrote it, so "older" has a meaning. `store` says which of the four stores of
this shape is looked at: in the cache of pages, leads and sessions L1 entries
expire; reading back evicts in it and in the cache of model responses, but not
among the texts and summaries of `MemoryManager`; and a miss among the responses
makes `CachedLLM` ask the model (`Answer`, `NoAnswer`). `linked` is whether the process
found Redis. In `src/` the response cache is made without Redis
(`agents/factory.py:70`) and the texts and summaries are never read back, so their
part is about the classes and what they say of themselves.

**Persistence.** `save()` is one transaction under READ COMMITTED, and every
statement of it that can meet another run is a step: `ReadCompany`, `WriteCompany`
(which locks the row), `UpsertLead`, `SelectPerson`, `InsertPerson`, `Commit`. What
PostgreSQL does is modelled from that use: own and committed rows are visible
(`SeenBy`), a locked row or key waits (`Waits`, `MayInsert`), a cycle costs one of its
waiters the transaction (`DeadlockFails`). What SQLAlchemy does matters in three
places: an UPDATE names the changed columns only (`listed` in `WriteCompany`), a
failed flush rolls the transaction back at once (`FlushFails`), and a session
after that refuses every statement (`DeadFails`), which the loop over the decision
makers swallows but the next company or the metrics do not. Nothing cleans what was
crawled before it is saved, and PostgreSQL takes no text with a NUL character, so every
value is fit to be saved or not (`Fit`): a session, company or lead that is not raises
out of the save (`RowRefused`), a decision maker is swallowed but leaves the session of no
use (`PersonRefused`). `Crash` is the loss of the process or of its connection at any step,
or a connection that is not to be had to begin with (a pool that stays empty, a server
that does not answer).

**The run of a pipeline** is built up in layers. Three modules are pure data:

- `Lists` (the list operations of Python, each by the positions it keeps and their
  order, without recursion, so that they can be proved about), `Words` (a text is a sequence of words,
  and `term in text` also finds a term inside a longer word) and `Page` (a document
  is the sequence of the calls `html.parser` makes for it; `PageFrom` is the parser
  with its handling of titles, scripts, links and JSON-LD, `FromCache` what a cached
  page has lost);
- `QueryPlanner` (the eight builders of queries, `PlanOf`, `ByPriority`) and
  `IcpParser` (`KeywordIcp`, the fallback of the parser, and `Icps`, whatever it may
  return);
- `Enricher` (the weights, the three scores, `Keeps`, `LeadFrom`). The tables of
  keywords are represented by some of each kind, fractions are rounded down.

`WebCrawl` is a crawl without proxies: the threads of `crawl_many`, the delay per
domain (`Begin` reads the last hit and sleeps, `FirstRequest` writes it) and the
retries (`FailsAndRetries`, `Rerequest`, `FailsForGood`). `Pipeline` extends it with one
run of `DiscoveryPipeline`: the pool of queries, each asking all its providers at
once (`StartQuery`, `Answer`, `ProviderFails`, `Return`), whose sessions come in the
order the searches end; `Merge` (the first result of each page, selection,
expansion by signal pages), `StartCrawl` and `EndCrawl` (the page cache on both
sides of the crawl), `Enrich`. A search result is its URL and `PageOf` its normalised
URL. `QueryRaises` is the one error `_run_query` does not handle itself; no code in
`src/` raises there, and the pool has to cope with it all the same. `LeadRun` is the
whole of `PipelineService.run`: `Parse`, the pipeline (`Discover`), `ScoreOne` in a pool
of threads whose results come as they end, `Research` and `FindContacts`. A call of a
model gives any of its answers or fails; a run without a model is one in which it
always fails. Redirects, events, stage metrics and the rate limiter are left out
there (the last two have their own modules), crawling and enriching are on, and
one number of threads stands for the pools of queries and of providers.

`MCNetwork` and `MCStores` put two components each into one run: they share no state
in the code, so the variable `part` chooses one, and the other rests.

## 3. Runs

| Run | Question | Bounds, and why they are enough |
|---|---|---|
| Network | Of the crawl: does the pool keep its promises across the gap between a thread's report and its rotation, and does every URL get a page? Of the searches: does any bucket grant over its law, are the requests of a search bounded, does an empty answer hide hits or come of giving up early, does every search end? | crawl: three proxies (a reported, a current and a better one), three URLs for two threads (a thread starts again while the other is in its gap), clock to 3 with quarantines of 2 (they may expire, and be renewed). Searches: two threads compete for one token and for one cache key; two buckets; two ticks are a refill and two timeouts; two requests, each tried twice (three times in the code: the second try already is a retry and the last one) |
| RunLifecycle | How can a run be lost; is it executed too often, mixed with another execution, saved ahead of the session store, or never over? | one request with one retry and one fault, which is a crash of a worker or of the API, a killed process of a task, or a session that Redis does not keep: five executions are all it can have, so `MaxExecs` never blocks a step. Requests interact only through session ids, which one request's executions already share. The worker consumes the queue the tasks go to, as one started by `README.md:420` does |
| ComposeQueue | Is a queued run executed by the worker of `docker-compose.yml`? (violated) | no fault, no retry, `WorkerQueues` as in `docker-compose.yml:101` |
| RunPollable | Is there a row under the id the client was given? (violated) | one execution |
| EventBus | Does every handler that stays get every event, is every count kept, does the client see a lossy stream that ends at its sentinel, does the bus come to rest? | two threads with two events between them, of two types, one of them counted; a queue of one, which fills and empties; a pool of one for the webhook; one change of a subscription, at any step; both buses that `src/` sets up |
| SseCloseLost | Does close() end the stream? (violated) | a queue of one |
| SseDropsNewest | Is it an old event that a full queue drops? (violated) | a queue of one, two events |
| Stores | Of the conversation: are turns kept in order, in window and mirror, is the estimate safe, are the mirror and the history of the session current? Of the caches: do the bound and the order of eviction hold under concurrency, and can a process go back to an older value? | conversation: three turns over a deque of two with chunks of two, a history of two (eviction, compaction and trimming); one fault, of any kind, anywhere. Caches: each of the four stores; two calls at once, three keys over a tier of two, three sets by this process or others, a ttl that expires in both tiers, Redis errors and restarts without a bound, and a process without Redis |
| Persistence | Is a run saved whole or not at all, what has a run met that lost its leads, does every save end? | two runs (the database relates them in pairs) with nine kinds of lead lists: in either order of two companies, a company twice, a person twice, a LinkedIn URL of two people, none; a query, a company, a lead and decision makers with a value that is not fit to be saved; any of the companies already known; one lost connection |
| TechsLost | Is what a saved run learned about a company kept? (violated) | the same |
| LeadRun | Does every page that was found reach its lead, and every good lead the result, whatever fails and in whatever order things end; is nothing crawled twice; does an agent undo another; does the run end? And do plans, scores and texts keep what is said of them? | up to six queries, two at once, to two providers; six URLs in three domains: one page under two URLs, a skipped and a preferred one, a signal page, six kinds of documents; a cap of two below the three usable pages; a page the cache may have; two crawl threads, one retry each, delay and waits of one tick; two scoring threads and the best one of their leads. The initial states also check the pure parts: all plans of 433 ICPs with up to four entries per field, the scores of 32 ICPs on every set of five words, the text of every document of up to four calls of the parser |
| DomainDelay | Does the delay hold between two threads? (violated) | the same without retries and preference, with a delay of two, so that two pages of one domain are crawled |

Symmetry is used in `Stores`, over threads (which name the calls too) and keys, which
no definition orders, in a run without liveness. Deadlock is checked where a thread
could wait for ever (`Network`); the other runs end when their bounds are used up, or
when a run of the pipeline is over, and where they may end is a liveness property
(`RunsSettle`, `BusSettles`, `SavesEnd`, `RunEnds`) or not a question (`Stores`). Type invariants are proved
where a module has theorems and are definitions only where it has none.

The properties worth a comment:

- `RequestsBounded` is what remains of the limit behind the gate: a provider whose
  search makes several requests, or repeats them, passes the gate once for all of them,
  so `WindowBound` bounds searches and this bounds what a search is. `EmptyExplained` is
  about what is then cached for an hour. An empty answer is ordinary (no company, no
  posting that matches) and may as well be a failure that `search()` swallowed, and nobody
  can tell one from the other afterwards; but it hides no hits, and no request was
  given up for a failure that may pass before all its attempts were spent. The first part
  fails if a later failure takes what was found before with it, the second if a retry is
  lost.
- `QueuedNotLost` has two exceptions, which are the code's: the process of a task that is
  killed under its worker (for want of memory, say) takes the run with it, and so does a
  next attempt that the broker refuses. A crash of a whole worker at any step, also between the
  publication of the next attempt and the acknowledgement, does not. It says nothing of a
  message that nobody takes, which is `QueuedRunsExecuted`.
- `RowsAreCompletedSessions` excludes the sessions of which Redis did not keep a write,
  one by one (`missed`): the store then knows nothing of a run whose row is there.
- `ReachesAllWhoStay` excludes publications during which somebody unsubscribed (`cut`):
  `list.remove` shifts the list that `publish` is iterating over and the next handler
  is skipped (section 6). A subscription meanwhile is no exception.
  `CountsComplete` holds the counts against the events the handler was given.
- `MirrorIsCurrent`, `ConversationKept` and `NeverBackInTime` hold only while no two
  calls overlap (and nothing failed): with overlap TLC finds mirrors written in
  the other order and a warming that puts an old value over a new one
  (section 6). `ConversationKept` also excludes a turn added by a process that has not
  read the stored history, which overwrites it. The condition is a history variable
  set by an overlap that really happens, so everything else, all of the
  sequential use by any number of threads and processes, is covered.
- `OverflowIsReadBack`: L1 holds more than its size only when something was read back
  from Redis since the last eviction, and only in the stores that do not evict then.
- `LookupStillHolds` is about a lock nobody wrote for that purpose: `updated_at` makes
  every merge an UPDATE, so the company's row serialises the runs that look for
  its decision makers; without it (the seeded fault) two runs insert the same person.
  `LossesExplained` lists what a run that lost all its leads has met; it has content
  where nothing on the list was met: repeated companies, emails and titles, unknown
  values and an empty list do not cost a run its leads.
- `ScoresSensible` orders results by the dates that can be read. One without such a date
  is worth more than one a few months old, whatever its age (section 6), so it has no
  place in that order; only that nothing is worth less than a page of over a year holds of
  every result.
- `LeadsComplete` and `BestLeadsScored` are end to end: the left side is what the
  providers answered and the pages served, the right side the leads, with the two
  kinds of input that break a run or a lead named in the formula (section 6).

**Fairness.** `Network`, crawl: weak fairness for each thread, since a crawl has a
timeout; searches: the clock advances and a thread inside the gate or behind it
keeps running, since requests time out and waits end; no search has to begin.
`RunLifecycle`: one weak fairness condition on all that goes on by itself
(executions, workers, background tasks); no submit, crash or time limit is forced.
`SseObserver`: a caller that has published everything closes, and the generator and
its executor thread keep running; a client never has to leave. `EventBus` adds the
threads inside a publication, the pool and, strong, the lock of the counts: a
waiter gets a lock that is free again and again; no publication has to begin and no
subscription has to change. `Persistence`: a save that has begun goes on, deadlocks
are detected; no save has to begin and no connection has to be lost. `LeadRun`: weak
fairness of the whole next step, which is enough since every step brings the run
nearer to its end or time nearer to the end of a sleep; searches and requests
have timeouts. Calls of a model are taken to return, which the code leaves to the
model's server: `timeout_budget_s` does not bound them (section 6).

## 4. Proofs

Each is for all values of the constants, under the named assumptions of the
modules, which TLC evaluates in the runs.

- `ProxiedFetchProofs`: the choice of `_rotate_to_next` is a best proxy
  (`First` and the minimum of the quarantine ends exist for a non-empty finite
  list: lemmas); every pool operation keeps `CurrentIsBest`; and `ProxiedFetch` only
  calls pool operations. `QuarantineHonoured` follows from that invariant: what is
  handed out is the current proxy, after a rotation or without one. So does
  `RetryUsesAnotherProxy`: if the proxy of the first attempt is still in quarantine
  after the rotation and is handed out again, all of them are in quarantine.
- `RateLimiterProofs`: `WindowBound` is not inductive. The invariant is the bucket
  law with what is still in the bucket: for every start t of a stretch, spent since
  t plus the tokens, as refilled up to now, are at most the capacity and the
  refill since t, together with `last <= now` and `spent = 0` for a start in
  the future. It is proved of the steps of the gate; every step of a search is a step
  of the gate or leaves the buckets alone (`SearchStepsGate`), so it holds
  under `SearchSpec`. The invariant of the searches has three parts: how many requests
  a job under way may have behind it, that it failed at least once for each attempt but
  the present one (`UnderWay`), and that so far hits are among what was found and
  nothing was given up early (`Honest`). `EmptyExplained` follows: a request that is given
  up at its last attempt has failed `Attempts` times.
- `RunLifecycleProofs`: `QueuedNotLost` needs the ledger of holders (an execution
  of Celery that is live holds exactly one message of its own request, and only
  such executions hold any). An execution that was retried is not the last one, so
  its message may go once its successor is out: there is a message that was retried more
  often, or a later execution was the last (`RetriesFollow`). `SessionsNotShared` rests on `OwnSession`, that an
  execution's session is its own number: no action ever puts a request's id into
  the session store, so resuming under it never happens. That is also why the
  violation `PollableById` is found. `RowsAreCompletedSessions` needs what the stage of
  an execution says of its session in the store (`Marked`: completed there, or missed by
  Redis, from the mark on). `AttemptsBounded` is an
  argument about a budget: a message is still good for a number of executions
  (`Weight`: those left of its retries, one more if nobody holds it, none once its
  successor is published), and executions made plus executions pending never exceed
  one chain of retries and one more per crash, since only a crash gives a message
  back (`WithinBudget`; `Tidy` says that a message in somebody's hands is one
  execution's alone). What is counted are sets, so that the cardinality theorems apply.
- `EventBusProofs`: first the refinement of `LossyStream` by `SseObserver`. Its invariant
  says that the sentinel is last in the queue (`SentinelIsLast`) and that between what
  was delivered, what is in the executor's hand and what is queued nothing is missing
  (`NothingMissing`) until the client goes. Then the bus: its steps are steps of the
  observer or leave it alone, so it implements the same stream (`BusImplementsStream`).
  `HandlersWhoStayAreReached` rests on three facts of a publication nobody
  unsubscribed from: what it has called is the part of the list up to its position
  (`Followed`; a subscription appends behind it), the list has no handler twice
  (`Distinct`), and who stays is in the list (`Engaged`). `EveryEventIsCounted`
  keeps books (`Tally`): the publications begun are the count plus those that have
  yet to be counted (`Balanced`), and who is counting has the lock and the number it
  is about to add one to (`CountingHolds`). Its hypothesis is that the metrics are
  not among the observers that come and go: they are subscribed once, when the bus is
  made, and nothing in `src/` unsubscribes them. Who publishes is a finite set.
- `SessionMemoryProofs`: the order (`WindowInv`) has to be known of everything that may
  become the window again: the window, what Redis has, and every mirror on its way
  there, whose summary is behind the window's own while its buffer is read later
  (`Behind`). The estimate follows from how `Tokens` splits over a sequence and grows
  by an append. While no two calls overlapped and nothing failed, one call has what
  there is to mirror (`Alone`), and one has the history and has it right
  (`Remembered`, with what each of its steps still has to do in `Progress`): with
  these `MirrorIsCurrent` and `ConversationKept` are inductive, through restarts too.
- `LeadCacheProofs`: the order of eviction is inductive as a relation between keys: who
  is before whom in L1 was used before it (`InUseOrder`), keys are there once and were
  all used (`L1Sound`). Of the summaries this is true while one call at a time is
  under way, for a key that L1 has not (`OneCall`). The size is counted in keys that
  were not read back (`Sized`). `ReadsNeverGoBack` needs a chain of numbers: what was
  served is no newer than L1, L1 is no newer than Redis unless the set that wrote it
  is still on its way there, and a warming carries what Redis has (`Rising`).
- `PersistenceProofs`: `Sound` puts together where a save can be (`Position`: after
  a failed flush only the loop of the decision makers and what follows it), that it has
  the lock of its company from the write on (`Locking`), that its rows are all of
  its leads so far and in companies it has locked (`Inserted`), where people and
  clashes come from (`SharedPart`), and that a save whose flush failed has met an unfit
  value or a LinkedIn URL used twice (`OwnPart`). `LookupStillHolds` follows because
  two runs at the lookup for one company would both have its lock.

- `LeadRunProofs`: a run of the pipeline, for every web, any answers of providers and
  models, and all numbers of workers and limits. It begins with what the list operations
  return: an order on a finite set has each rank once (`Ranks`), so a filter, a sort or a
  join is a function of positions (`AtTakes`, `SortTakes`, `JoinedTyped`). Then come four
  inductive invariants, each resting on those before it.
  - `SearchInv`: an answer is in the response of its query while that runs, and in the
    results once it is over (`NothingLost`); what the merge made of the results is
    what the rest of the run works on (`Merged`). With it `MergeComplete`, which compares
    the merge with everything ever answered, and `ChosenWell` are inductive.
  - `CrawlInv`: what the table of pages and the cache hold together, before, in and after
    the crawl: each chosen URL comes to a document or a failure (`AfterTheCrawl`).
    `CrawledOnce` follows: what is crawled is what was chosen and the cache does not have,
    each once (`ToFetch`), and with one page per domain what is chosen are URLs of
    different pages (`OfOwnPages`).
  - `LeadsInv`: a lead is worth what the document served for its URL is worth, although
    its page may have come from the cache, which has lost part of it
    (`CachedPageIsWorthTheSame`); leads and usable pages correspond one to one
    (`LeadsOfAllGood`). `LeadsComplete` follows.
  - `ScoringInv`: while the pool scores, the scored leads and the members of the
    batch that are done, but for the odd ones, correspond by a bijection (`PoolKeeps`):
    threads end in any order, so nothing simpler is inductive. When the pool is done
    the sort and the cut make `BestLeadsScored` of it; the later agents keep its URLs and
    scores. `TitlesOnce` is about the final result and needs what each source of people
    does with titles (`WithTitlesOnce`, `ContactsOnce`), for all three ways to name them.

  The pure parts need no state: `ScoresAlwaysMakeSense` is for all ICPs and texts (shares of a
  whole and quotients keep the order: `ShareOf`, `QuotientsInOrder`), `PlansNeverLoseEssentials`
  for all ICPs and limits (each builder keeps to its signal and its limit, so does the
  plan, and the sort keeps both: `FewOfBoth`, `ByPriorityKeeps`; the k-th technology
  is at position 2k - 1: `PairsJoined`). The run checks the same formulas on samples
  (`ScoresSensible`, `PlansKeepEssentials`); `RunsPlanAndRankWell` states them of the ICP of
  every run, which is of lists of words (`IcpTyped`).

The assumptions about a run are about its inputs: what models, providers and the web may
answer has the type that the code parses it to (`IcpParserAssumption`, `LeadRunAssumption`,
`PipelineAssumption`, `WebCrawlAssumption`, by which also no document is one of the two
values that stand for a failure and for no page); providers are finitely many, limits are
natural numbers, `top_leads` and the pools have at least one place. The one with content
is `SignalPathsAssumption`: `skip_domains` are substrings of a URL, and a signal page
(a root with a fixed path) is skipped only if its domain is; a path with a skipped
domain in it would break `ChosenWell`.

Some operators are written the way they are so that they can be proved about: the list
operations (above), `Tokens`, a sum written as the size of a set, and `Without`, which
removes at a position where the code pops a key. A sum by a fold is recursive, and what it
computes for every input is induction over data.

Model-checked only: all liveness (`EveryUrlAnswered`, `SearchEnds`, `RunsSettle`,
`SentinelEndsStream`, `BusSettles`, `SavesEnd`, `RunEnds`), since the prover handles
no fairness; and `TextsShow`, since the parser is a fold over the calls of `html.parser`
and what it computes for every document is induction over data. In `LeadRunProofs`
the parser is whatever function of documents it may be.

## 5. Plan

The order was that of what the system would miss most: the run life cycle and
its delivery guarantees, the shared objects of the threads (pool, buckets, cache),
the stream and the bus, the memory, the saves, and a run from the request to the
scored leads. All of these are modelled, and every invariant and action property that the passing runs
check is proved, but for `TextsShow`. What is left is to model the status that `RunLifecycle`
gives a run composed with the stages of `LeadRun`, which are one step there.

**Not modelled**, since there is no behaviour over time or nothing of it that TLC could
tell apart: the parameters and the parsing of HTTP requests to providers and models,
prompts, the wording of queries, events and logs; residential proxies (rotation is the
vendor's); loading and merging of the configuration; the rotation of API keys (no
object lives long enough to rotate, section 6); metrics, schemas and sanitising. Nothing in
`src/` calls `mark_failed`, the set of processed URLs, the conversation, `get_window`, `get_full_text` or
`get_summary`; of these the conversation and the page memory are modelled all
the same, for what is said of them.

## 6. Where the code differs from what is said of it

Shown by a run: `QueuedRunsExecuted` (`README.md:364`: the first dispatch is Celery,
"distributed, retriable, auto-scaled"; `docker-compose.yml:101` starts its worker on the queue
`default`, tasks go to Celery's own default queue `celery`, and nothing configures another);
`NewestIsKept` (`common/events/sse.py:33`: "drop oldest-first"; `sse.py:32` drops the newest);
`PollableById` (`api/routes/stream.py:36`: the header's id is for
polling; `common/session/manager.py:125` makes a new id) and `CloseEndsStream`
(`common/events/sse.py:43`: yields until close; `sse.py:39` loses the sentinel);
`TechnologiesKept` (`common/db/repositories/companies.py:19`: merge rather than
overwrite; the merge is made in Python between a SELECT and an UPDATE) and
`DelayKept` (`discovery/crawler.py:137`: seconds to wait between requests to one domain;
`crawler.py:496` reads the last hit, sleeps and writes without a lock).

Met while reading, modelled as the code does it, and needing no run:

- Rotation picks the first usable proxy (`common/proxy/static.py:103`); its
  docstring (`:16`) and `README.md:622` say round-robin.
- A timed-out `acquire()` is ignored (`discovery/retreivers/orchestrator.py:134`, against
  `README.md:282`), and each run's `configure()` hands out a full bucket
  (`common/ratelimit.py:48`, `tasks/pipeline_task.py:34`).
- The row of a run nobody announced stays `created` although the run completed
  (`common/db/repositories/sessions.py:79`); `api/routes/runs.py:52` reads it as the status.
- `init_engine` is called by the API and the command line only (`api/app.py:39`,
  `main.py:58`): a Celery worker saves nothing (`services/persistence_service.py:23`).
- `task_acks_late` (`tasks/celery_app.py:34`) is set without `task_reject_on_worker_lost`: the
  run of a process that is killed is acknowledged, and neither retried nor redelivered
  (`README.md:364`: "retriable").
- The mark "completed" of a session is swallowed with its error (`common/session/cache.py:129`),
  while the row may be saved.
- One value with a NUL character costs a run all its leads: `crawler.py:401` keeps it in the text
  of a page, `enricher.py:464` passes it on, PostgreSQL refuses it, and
  `services/persistence_service.py:28` logs a warning. So does a pool that stays empty for its
  timeout (`common/db/session.py:61`).
- The stream's observer keeps the events of the id the route made
  (`sse.py:28`, `api/routes/stream.py:22`) while the run's events carry the id of the
  session it opened: the event ids of `SseObserver` are both.
- Two overlapping `add` calls may mirror in the other order (`common/context/window.py:96`,
  against `README.md:491`); a turn dropped by `maxlen` is not summarised and not
  subtracted from the estimate (`window.py:93`, `README.md:477`); the summary is prepended
  whatever the budget (`window.py:111`).
- A value warmed into L1 has no expiry (`common/session/cache.py:286`, `README.md:638`).
- The second lead of a company overwrites the first, which scored higher
  (`services/persistence_service.py:60`, `leads.py:21`).
- A decision maker that violates a unique constraint is swallowed
  (`persistence_service.py:90`), yet the save then fails at the next statement
  outside that loop and the run's rows are all lost.
- Retries go out without the delay per domain (`discovery/crawler.py:388` is outside of
  what `common/retry.py:161` repeats).
- With `pages_per_domain` of two or more a signal page may be a found page again, with
  another URL (`discovery/pipeline.py:477` compares URLs as they are written; `README.md:285` has
  URLs deduplicated); signal pages take places under the cap, yet they are never
  enriched, since no search result has their URL (`pipeline.py:256`).
- A planned query that overrides `max_results` or `search_type` would raise
  (`pipeline.py:283` passes the keyword twice) and be left out: `QueryRaises`.
- *Planning.* Excluded keywords and technologies, which "disqualify a result"
  (`common/schemas/icp_request.py:9`, `:90`), are read by nothing in `src/`. Each signal is cut off after its
  queries are built, so the news query that is "always" added
  (`discovery/query_planner.py:379`) is not there when others fill the signal: what
  `PlansKeepEssentials` says is what comes first. Keywords are found inside longer words
  (`Inside` in `Words`): "using" makes an ICP look for the US.
- *Search.* The key of a cached search has the provider, the query and the number of
  results (`discovery/retreivers/orchestrator.py:208`), not the type of the search, its time range or its
  domains. What a provider that swallows its errors returns is cached as a success for an
  hour (`orchestrator.py:158`): `EmptyExplained`. Retries and the further requests of a
  search bypass the limiter. YC stops at `max_results` before it sorts by score
  (`discovery/retreivers/yc/yc_search.py:79`) and returns nothing when its expired list cannot be
  renewed (`yc_search.py:98`). Each provider object makes a key ring of its own and takes
  one key (`discovery/retreivers/base.py:148`), always the first: `README.md:205` and
  `common/secrets.py:13` say round-robin.
- *Pages.* The parser "never raises" (`discovery/crawler.py:223`), but an attribute without a
  value is None (`crawler.py:266`, `:279`), and the page fails. JSON-LD whose items are no objects
  makes the enricher raise (`discovery/enricher.py:395`), and the run fails for that one page; a name
  that is no string drops the lead in `score_many` (`agents/lead_scorer.py:228`, against
  `:122`). Both are cases of `LeadsComplete` and `BestLeadsScored`. "Recent pages score
  higher" (`enricher.py:426`), but a page of unknown date is fresher than one of the last year
  (`:428`, `:436`), and a date without a zone counts as unknown (`:440`), so that a page of
  today may be worth less than one two months old.
- *Agents.* `timeout_budget_s` is meant to bound a call of the model (`common/config.py:78`,
  `README.md:324`), but the `with` block of the executor waits for it (`agents/base.py:45`). With
  equal scores, which of two leads is cut off depends on which thread ends first. Contacts without an
  address all get the first one of the page (`agents/contact_finder.py:131`). `PipelineCompleted` counts no tier
  (`discovery/pipeline.py:444`).
- *Bus.* `publish` iterates the live list (`common/events/bus.py:67`): an unsubscription
  meanwhile makes it skip the next handler, although the bus is "thread-safe" (`bus.py:33`).
  Its own counters are written without the lock (`bus.py:66`, `:71`); they are not modelled.
- *Sessions.* A turn added in a new process overwrites the stored history
  (`common/session/manager.py:184` starts an empty one); `clear_conversation_history`
  leaves the window as it is; `get` warms the table of sessions without evicting (`manager.py:113`).
- *Page memory.* Texts and summaries read back go into L1 without an eviction, and a summary that is
  overwritten keeps its place in the order (`common/session/memory.py:85`, `:127`, against `:19`): `OverflowIsReadBack`. The
  response cache has a ttl in Redis only (`common/llm/response_cache.py:53`).
