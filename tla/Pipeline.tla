-------------------------------- MODULE Pipeline -------------------------------
(***************************************************************************)
(* One run of discovery/pipeline.py for an ICP: the planned queries are    *)
(* searched by a pool of threads, each at all the providers at once        *)
(* (orchestrator.py); the results are merged, URLs are selected, crawled   *)
(* with the help of the page cache, and what the crawl brings is enriched  *)
(* to leads.                                                               *)
(*                                                                         *)
(* A search result is its URL; URLs that _normalize_url maps to one are the*)
(* same page.  Redirects are left out: a page has the URL that was asked   *)
(* for.  crawl_enabled and enrich_enabled are on, as they are by default.  *)
(***************************************************************************)
EXTENDS WebCrawl, IcpParser, Enricher

CONSTANTS
    Providers,
    Answers,        \* what each of them finds for a query, by its signal type
    PageOf,         \* the normalised URL of each URL
    Skipped,        \* the URLs of skip_domains
    Preferred,      \* the URLs of prefer_domains
    SignalPages,    \* for each domain, the URLs of signal_paths
    Age,            \* how old the search result of each URL is
    SearchWorkers,
    MaxUrls,        \* max_urls_to_crawl
    PerDomain,      \* the values pages_per_domain may have
    CachedBefore    \* the pages earlier runs may have put into the cache

ASSUME PipelineAssumption ==
    /\ IsFiniteSet(Providers) /\ Answers \in [Signals -> [Providers -> Seq(Urls)]]
    /\ Skipped \subseteq Urls /\ Preferred \subseteq Urls /\ CachedBefore \subseteq Urls
    /\ SignalPages \in [Domains -> Seq(Urls)] /\ Age \in [Urls -> Ages]
    /\ SearchWorkers \in Nat \ {0} /\ MaxUrls \in Nat /\ PerDomain \subseteq Nat \ {0}

\* A URL is skipped if one of skip_domains is anywhere in it; signal_paths are such that
\* a signal page is skipped only if its domain is.
ASSUME SignalPathsAssumption ==
    \A u \in Urls \ Skipped : ToSet(SignalPages[DomainOf[u]]) \cap Skipped = {}

VARIABLES
    icp,
    plan,           \* by_priority()
    perDomain,      \* pages_per_domain
    stage,          \* where run() is
    query,          \* where each query is in the pool of searches
    responses,      \* per query: the providers still to answer, and the answers so far
    results,        \* the results of the searches that are over, in the order they ended
    answered,       \* history: the URLs in the answers
    found,          \* the URLs of url_result_map
    chosen,         \* the URLs to crawl
    cache,          \* the page cache
    hits,           \* the chosen URLs it had
    crawled,        \* the pages of the chosen URLs, in their order
    leads

searchVars == <<plan, query, responses, results, answered>>
crawlStageVars == <<crawlVars, cache, hits, crawled>>
pipelineVars == <<icp, perDomain, stage, searchVars, found, chosen, crawlStageVars, leads>>

Queries == DOMAIN query

--------------------------------------------------------------------------------

PipelineInit ==
    /\ CrawlInit
    /\ perDomain \in PerDomain
    /\ plan = <<>> /\ query = <<>> /\ responses = <<>> /\ results = <<>> /\ answered = {}
    /\ found = <<>> /\ chosen = <<>>
    /\ \E docs \in [CachedBefore -> DOMAIN Document \cup {NoPage}] :
         /\ \A u \in CachedBefore : docs[u] \in Good(Serves[u]) \cup {NoPage}
         /\ cache = [u \in Urls |-> IF u \in CachedBefore THEN docs[u] ELSE NoPage]
    /\ hits = {} /\ crawled = <<>> /\ leads = <<>>

\* run() makes the plan; its queries go to the pool of searches.
MakePlan ==
    /\ stage = "plan"
    /\ plan' = ByPriority(PlanOf(icp))
    /\ query' = [q \in DOMAIN plan' |-> "queued"]
    /\ responses' = [q \in DOMAIN plan' |-> [waiting |-> Providers, urls |-> <<>>]]
    /\ stage' = "search"
    /\ UNCHANGED <<icp, perDomain, results, answered, found, chosen, crawlStageVars, leads>>

\* A worker of the pool takes the next query, in the order of priority.
IsNext(q) ==
    /\ query[q] = "queued"
    /\ \A r \in 1..q-1 : query[r] # "queued"
    /\ Cardinality({r \in Queries : query[r] = "running"}) < SearchWorkers

Searching(q, state) ==
    /\ query' = [query EXCEPT ![q] = state]
    /\ UNCHANGED <<icp, plan, perDomain, stage, answered, found, chosen, crawlStageVars, leads>>

StartQuery(q) == IsNext(q) /\ Searching(q, "running") /\ UNCHANGED <<responses, results>>

\* The search raises before any provider is asked; the query is left out.
QueryRaises(q) == IsNext(q) /\ Searching(q, "over") /\ UNCHANGED <<responses, results>>

Respond(q, p, urls) ==
    /\ query[q] = "running" /\ p \in responses[q].waiting
    /\ responses' = [responses EXCEPT ![q].waiting = @ \ {p}, ![q].urls = @ \o urls]
    /\ answered' = answered \cup ToSet(urls)
    /\ UNCHANGED <<icp, plan, perDomain, stage, query, results, found, chosen, crawlStageVars, leads>>

\* A provider, or the cache for it, answers; or it fails, which is an answer too.
Answer(q, p) == Respond(q, p, Answers[plan[q].signal][p])
ProviderFails(q, p) == Respond(q, p, <<>>)

\* Seeded fault: a search is over when all its providers have found something.
ReturnWhenAllFound(q) ==
    /\ query[q] = "running" /\ responses[q].waiting = {}
    /\ Len(responses[q].urls) >= Cardinality(Providers)
    /\ results' = results \o responses[q].urls
    /\ responses' = [responses EXCEPT ![q].urls = <<>>]
    /\ Searching(q, "over")

\* All providers have answered: the search is over, and as_completed yields it.
Return(q) ==
    /\ query[q] = "running" /\ responses[q].waiting = {}
    /\ results' = results \o responses[q].urls
    /\ responses' = [responses EXCEPT ![q].urls = <<>>]
    /\ Searching(q, "over")

--------------------------------------------------------------------------------

\* Seeded fault: URLs of one page are different.
FirstOfEachUrl(urls) == FirstOfEach(urls, LAMBDA u : u)

\* _merge_results: the first result of each page.
FirstOfEachPage(urls) == FirstOfEach(urls, LAMBDA u : PageOf[u])

\* _expand_domain_pages visits each URL and, after it, the signal pages of its domain.
Visits(urls) ==
    Joined(Each(urls, LAMBDA u :
        <<[url |-> u, signal |-> FALSE]>>
          \o Each(SignalPages[DomainOf[u]], LAMBDA v : [url |-> v, signal |-> TRUE])))

\* What is visited goes in while its domain has less than perDomain; a signal page
\* does not if it was visited before: then it is in, or its domain is full.
NotMet(visits) ==
    At(visits, {i \in DOMAIN visits :
        visits[i].signal => \A j \in 1..i-1 : visits[j].url # visits[i].url})

FirstOfDomain(visits) ==
    LET Domain(i) == DomainOf[visits[i].url]
        Before(i) == {j \in 1..i-1 : Domain(j) = Domain(i)}
    IN At(visits, {i \in DOMAIN visits : Cardinality(Before(i)) < perDomain})

Expand(urls) ==
    Each(With(With(Visits(urls), NotMet), FirstOfDomain), LAMBDA visit : visit.url)

\* Seeded fault: the URLs are taken as they come.
SelectInOrder(urls) == UpTo(Filter(urls, LAMBDA u : u \notin Skipped), MaxUrls)

\* _select_urls
Select(urls) ==
    LET wanted == Filter(urls, LAMBDA u : u \notin Skipped)
        ranked == Filter(wanted, LAMBDA u : u \in Preferred)
                    \o Filter(wanted, LAMBDA u : u \notin Preferred)
        selected == UpTo(ranked, MaxUrls)
    IN UpTo(IF perDomain > 1 THEN Expand(selected) ELSE selected, MaxUrls)

\* What the searches left behind is not looked at again.
Merge ==
    /\ stage = "search"
    /\ \A q \in Queries : query[q] = "over"
    /\ LET urls == FirstOfEachPage(results)
           selected == Select(urls)
       IN /\ found' = urls
          /\ chosen' = selected
          /\ stage' = IF selected = <<>> THEN "leads" ELSE "crawl"
    /\ plan' = <<>> /\ query' = <<>> /\ responses' = <<>> /\ results' = <<>>
    /\ UNCHANGED <<icp, perDomain, answered, crawlStageVars, leads>>

--------------------------------------------------------------------------------

\* Seeded fault: the cache is not asked.
HitsOfNothing == {}

Hits == {u \in ToSet(chosen) : cache[u] # NoPage}

\* _run_crawl_stage: the cache is asked for each URL, and the others are crawled,
StartCrawl ==
    /\ stage = "crawl"
    /\ hits' = Hits
    /\ CrawlMany(Filter(chosen, LAMBDA u : u \notin Hits))
    /\ stage' = "crawling"
    /\ UNCHANGED <<icp, perDomain, searchVars, found, chosen, cache, crawled, leads>>

CrawlStep ==
    /\ stage = "crawling"
    /\ CrawlTick \/ \E i \in Tasks : Crawl(i)
    /\ UNCHANGED <<icp, perDomain, stage, searchVars, found, chosen, cache, hits, crawled, leads>>

\* Seeded fault: a page from the cache counts as failed.
OutcomeOfFetch(u) == IF pages[u] # NoPage THEN pages[u] ELSE Failed

Outcome(u) == IF pages[u] # NoPage THEN pages[u] ELSE cache[u]

\* the pages that came are cached, and all are put into the order of the URLs.
EndCrawl ==
    /\ stage = "crawling"
    /\ CrawlOver
    /\ cache' = [u \in Urls |-> IF pages[u] \notin {Failed, NoPage} THEN pages[u] ELSE cache[u]]
    /\ crawled' = [k \in DOMAIN chosen |-> [url |-> chosen[k], doc |-> Outcome(chosen[k])]]
    /\ stage' = "enrich"
    /\ EndOfCrawl
    /\ UNCHANGED <<icp, perDomain, searchVars, found, chosen, hits, leads>>

\* The page of a URL, as the parser or as the cache gives it.
PageAt(c) ==
    CASE c.doc = Failed -> FailedPage
      [] c.doc # Failed /\ c.url \in hits -> FromCache(Parsed[c.doc])
      [] OTHER -> Parsed[c.doc]

LeadOf(c) == LeadFrom(icp, c.url, DomainOf[c.url], PageAt(c), Age[c.url])

\* enrich_many: pages without a search result, which signal pages are, are left out;
\* so is what enrich() does not keep.  The sort is stable.
Enrich ==
    /\ stage = "enrich"
    /\ LET kept == Filter(crawled, LAMBDA c :
                     c.url \in ToSet(found) /\ Keeps(icp, PageAt(c), Age[c.url]))
       IN IF \E i \in DOMAIN kept : NamingRaises(PageAt(kept[i]))
            THEN stage' = "failed" /\ UNCHANGED leads
            ELSE /\ \E made \in {Each(kept, LeadOf)} :
                      leads' = SortedOn(made, LAMBDA lead : -lead.score)
                 /\ stage' = "leads"
    /\ UNCHANGED <<icp, perDomain, searchVars, found, chosen, crawlStageVars>>

PipelineNext ==
    \/ MakePlan
    \/ \E q \in Queries :
         \/ StartQuery(q) \/ QueryRaises(q) \/ Return(q)
         \/ \E p \in Providers : Answer(q, p) \/ ProviderFails(q, p)
    \/ Merge \/ StartCrawl \/ CrawlStep \/ EndCrawl \/ Enrich

--------------------------------------------------------------------------------

Searched == stage \notin {"parse", "plan", "search"}
Discovered == stage \notin {"parse", "plan", "search", "crawl", "crawling", "enrich", "failed"}

\* Whatever fails, and in whatever order queries and providers end: every page that
\* any provider found is in the merge, once.
MergeComplete ==
    LET pagesFound == {PageOf[u] : u \in answered} IN
    Searched =>
         /\ {PageOf[u] : u \in ToSet(found)} = pagesFound
         /\ Len(found) = Cardinality(pagesFound)

\* "prefer_domains first, cap at max_urls_to_crawl": nothing skipped is chosen, a
\* preferred URL is not given up for another, and nothing is given up below the
\* cap; with several pages per domain, no domain has more than it may.
ChosenWell ==
    LET spare == ToSet(found) \ (Skipped \cup ToSet(chosen)) IN
    Searched =>
        /\ Len(chosen) <= MaxUrls
        /\ ToSet(chosen) \cap Skipped = {}
        /\ perDomain = 1 =>
             /\ spare # {} => Len(chosen) = MaxUrls
             /\ spare \cap Preferred # {} => ToSet(chosen) \subseteq Preferred
        /\ perDomain > 1 =>
             \A d \in Domains :
                Cardinality({k \in DOMAIN chosen : DomainOf[chosen[k]] = d}) <= perDomain

\* No page is crawled twice in a run, nor when the cache has it.  With several
\* pages per domain this does not hold: a signal page may be a found page again.
CrawledOnce ==
    perDomain = 1 =>
        \A i \in Tasks :
            /\ \A j \in Tasks \ {i} : PageOf[fetching[i]] # PageOf[fetching[j]]
            /\ stage = "crawling" => cache[fetching[i]] = NoPage

\* Every chosen search result whose page came, from the cache or from any attempt
\* of any thread, and is worth enough, is a lead, once, the best first, and a page
\* from the cache is worth what it was worth when it was fetched.  A run fails only
\* on a page whose JSON-LD holds what is no object.
LeadsComplete ==
    LET Doc(u) == IF u \in hits THEN cache[u] ELSE pages[u]
        Came(u) == Doc(u) \notin {Failed, NoPage}
        good == {u \in ToSet(chosen) \cap ToSet(found) :
                   Came(u) /\ Keeps(icp, Parsed[Doc(u)], Age[u])}
    IN /\ stage = "failed" => \E u \in good : NamingRaises(Parsed[Doc(u)])
       /\ Discovered =>
            /\ {leads[k].url : k \in DOMAIN leads} = good
            /\ perDomain = 1 => Len(leads) = Cardinality(good)
            /\ \A k \in DOMAIN leads :
                 leads[k].score = Score(icp, Parsed[Doc(leads[k].url)], Age[leads[k].url])
            /\ \A j, k \in DOMAIN leads : j < k => leads[j].score >= leads[k].score

================================================================================
