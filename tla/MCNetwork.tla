------------------------------- MODULE MCNetwork -------------------------------
(***************************************************************************)
(* Instances of the two gates to the network for TLC: the proxied crawl and*)
(* the searches behind a rate limit.  They share no state in the code, so a*)
(* behaviour is one of the one or of the other; of the other part, the     *)
(* crawl is over and the searches have not begun.                          *)
(***************************************************************************)
EXTENDS ProxiedFetch, ProviderSearch

CONSTANTS w1, w2, w3, c1, c2, q1, q2

VARIABLE part       \* which of the two is looked at

networkVars == <<crawlVars, allVars, part>>

\* crawl_many has returned a page for every URL.
CrawlOver ==
    /\ PoolInit
    /\ queue = <<>>
    /\ place = [w \in Workers |-> "idle"]
    /\ url = [w \in Workers |-> 0]
    /\ held = [w \in Workers |-> 0]
    /\ page = [u \in Urls |-> "ok"]

NetworkInit ==
    /\ SearchInit
    /\ \/ part = "crawl" /\ FetchInit
       \/ part = "search" /\ CrawlOver

OfCrawl == part = "crawl" /\ UNCHANGED <<allVars, part>>
OfSearch == part = "search" /\ UNCHANGED <<crawlVars, part>>

NetworkNext ==
    \/ FetchNext /\ OfCrawl
    \/ SearchNext /\ OfSearch

\* The fairness of the two specifications.
NetworkSpec ==
    /\ NetworkInit /\ [][NetworkNext]_networkVars
    /\ \A w \in Workers : WF_networkVars(Step(w) /\ OfCrawl)
    /\ WF_networkVars(Clock /\ OfSearch)
    /\ \A c \in Callers :
         WF_networkVars(Gate(c) /\ OfSearch) /\ WF_networkVars(Search(c) /\ OfSearch)

================================================================================
