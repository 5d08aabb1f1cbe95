-------------------------------- MODULE Enricher -------------------------------
(***************************************************************************)
(* discovery/enricher.py: what a page is worth to an ICP.                  *)
(*                                                                         *)
(* Scores are counted in 1/10000, to which icp_relevance_score is rounded; *)
(* fractions are rounded down.  Signals that are only carried along to the *)
(* output (outsourcing, events, evidence, contacts) are left out.          *)
(***************************************************************************)
EXTENDS Page

CONSTANT MinScore       \* min_score, in 1/10000

ASSUME EnricherAssumption == MinScore \in 0..10000

\* _HIRING_ROLE_KWS, some of them; those with "cto" or "vp" in them; and _SIZE_KWS.
HiringRoles == {"software engineer", "data engineer", "sre", "cto", "vp engineering"}
Executives == {"cto", "vp engineering"}
SizeWords(size) ==
    CASE size = "startup" -> {"startup", "seed"} [] size = "mid_market" -> {"mid-size"}
      [] size = "enterprise" -> {"enterprise", "fortune"} [] OTHER -> {}

Whole == 10000

\* LeadEnricher.__init__: the sets it looks for.
IcpTechs(icp) == ToSet(icp.required) \cup ToSet(icp.preferred)
IcpIndustries(icp) == ToSet(icp.industries)

\* _compute_weights, in percent: of technology, hiring and profile.
Weights(icp) ==
    CASE icp.required # <<>> -> <<50, 30, 20>>
      [] icp.required = <<>> /\ icp.hiring # <<>> -> <<25, 50, 25>>
      [] icp.required = <<>> /\ icp.hiring = <<>> /\ icp.industries # <<>> -> <<30, 25, 45>>
      [] OTHER -> <<40, 35, 25>>

\* How old a search result may be; "unknown" if it has no date, one that does not
\* parse, or one without a time zone, which cannot be taken from the present.
Ages == {"month", "quarter", "year", "older", "unknown"}

\* _freshness_multiplier, in percent: of how old the search result is.
Freshness(age) ==
    CASE age = "month" -> 100 [] age = "quarter" -> 90 [] age = "year" -> 75
      [] age = "older" -> 50 [] age = "unknown" -> 85

HiringSignals(text) == {role \in HiringRoles : Says(text, role)}

\* _extract_decision_makers
TitleHints(icp, text) ==
    {title \in ToSet(icp.titles) \cup Executives : Says(text, title)}

TechScore(icp, page) ==
    LET detected == page.techs \cup {tech \in IcpTechs(icp) : Says(page.text, tech)} IN
    IF IcpTechs(icp) = {} THEN Whole \div 2
    ELSE (Whole * Cardinality(detected \cap IcpTechs(icp))) \div Cardinality(IcpTechs(icp))

HiringScore(text) == Min({Whole, 2000 * Cardinality(HiringSignals(text))})

\* Industry, location and size count 5, 3 and 2, if the ICP names them.
ProfileScore(icp, text) ==
    LET said == {industry \in IcpIndustries(icp) : Says(text, industry)}
        total == (IF icp.industries # <<>> THEN 5000 ELSE 0)
                   + (IF icp.countries # <<>> THEN 3000 ELSE 0)
                   + (IF icp.sizes # <<>> THEN 2000 ELSE 0)
        score == (IF said # {} THEN (5000 * Cardinality(said)) \div Cardinality(IcpIndustries(icp))
                               ELSE 0)
                   + (IF \E place \in ToSet(icp.countries) : Says(text, place) THEN 3000 ELSE 0)
                   + (IF \E size \in ToSet(icp.sizes) : \E word \in SizeWords(size) : Says(text, word)
                        THEN 2000 ELSE 0)
    IN IF total = 0 THEN Whole \div 2 ELSE Min({Whole, (Whole * score) \div total})

\* Seeded fault: the score of the profile is what the page does not say.
ScoreOfTheRest(icp, page, age) ==
    LET w == Weights(icp)
        composite == (w[1] * TechScore(icp, page) + w[2] * HiringScore(page.text)
                        + w[3] * (Whole - ProfileScore(icp, page.text))) \div 100
    IN Min({Whole, (composite * Freshness(age)) \div 100})

\* The composite score.
Score(icp, page, age) ==
    LET w == Weights(icp)
        composite == (w[1] * TechScore(icp, page) + w[2] * HiringScore(page.text)
                        + w[3] * ProfileScore(icp, page.text)) \div 100
    IN Min({Whole, (composite * Freshness(age)) \div 100})

\* A page is kept if it came, says something and is worth enough.
Keeps(icp, page, age) ==
    page.success /\ page.text # <<>> /\ Score(icp, page, age) >= MinScore

\* _infer_company_name looks through the JSON-LD for an organisation with a name,
\* and cannot look at what is no object: this ends the run.  It takes the name as
\* it is, of whatever type; the other names are strings.
NamingRaises(page) ==
    \E i \in DOMAIN page.jsonLd :
        /\ page.jsonLd[i] = "no object"
        /\ \A j \in 1..i-1 : page.jsonLd[j] \notin {"organization", "odd organization"}

NameIsOdd(page) ==
    \E i \in DOMAIN page.jsonLd :
        /\ page.jsonLd[i] = "odd organization"
        /\ \A j \in 1..i-1 : page.jsonLd[j] \notin {"organization", "no object"}

\* enrich(): the lead made of a page that is kept.
LeadFrom(icp, url, domain, page, age) ==
    [url |-> url, domain |-> domain, score |-> Score(icp, page, age),
     hints |-> TitleHints(icp, page.text), odd |-> NameIsOdd(page)]

--------------------------------------------------------------------------------

\* The ages of results whose dates can be read, the newest first.
ByAge == <<"month", "quarter", "year", "older">>

\* The scores rank pages in an order that makes sense: the weights of every ICP are
\* a whole, a score is between 0 and 1, and a page that says all that another says is
\* not worth less.  Of two results with one page whose dates can be read the newer is
\* not worth less, and one a year old is not worth more than any other.  A result
\* without such a date has no place among them, however new or old it is.
ScoresMakeSense(icp, texts, ages) ==
    LET As(text) == [success |-> TRUE, text |-> text,
                     techs |-> {tech \in TechKeywords : Says(text, tech)}] IN
    /\ Weights(icp)[1] + Weights(icp)[2] + Weights(icp)[3] = 100
    /\ \A text \in texts, age \in ages : Score(icp, As(text), age) \in 0..Whole
    /\ \A text, more \in texts, age \in ages :
         ToSet(text) \subseteq ToSet(more) =>
            Score(icp, As(text), age) <= Score(icp, As(more), age)
    /\ \A text \in texts, i, j \in DOMAIN ByAge :
         i <= j /\ {ByAge[i], ByAge[j]} \subseteq ages =>
            Score(icp, As(text), ByAge[j]) <= Score(icp, As(text), ByAge[i])
    /\ \A text \in texts, age \in ages :
         Score(icp, As(text), "older") <= Score(icp, As(text), age)

================================================================================
