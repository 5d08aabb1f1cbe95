-------------------------------- MODULE LeadRun --------------------------------
(***************************************************************************)
(* PipelineService.run (services/pipeline_service.py): the request is made *)
(* an ICP, the pipeline finds leads for it, a pool of threads scores the   *)
(* best of them with the help of a language model (agents/lead_scorer.py), *)
(* hot leads are researched (research.py) and people are looked for in the *)
(* pages of the leads that name none (contact_finder.py).                  *)
(*                                                                         *)
(* A call of a model gives any of its answers or fails; a run without one  *)
(* is a run in which it always fails.  The session and the database around *)
(* a run are in RunLifecycle.                                              *)
(***************************************************************************)
EXTENDS Pipeline

CONSTANTS
    Enrichments,    \* what a model may say of a lead
    Profiles,       \* of a company
    Extractions,    \* and of the people on a page
    HotThreshold, WarmThreshold,
    TopLeads,       \* output.top_leads
    ScoreWorkers,   \* max_concurrent_scorers
    DomainOfMail,   \* of each word that is an e-mail address, its domain
    ProfileLinks,   \* the words that are LinkedIn profiles
    ShortText       \* a text with no more words is not shown to the model

Tiers == {"hot", "warm", "cold"}
People == [title : STRING, confidence : 0..100, email : STRING, linkedin : STRING]

ASSUME LeadRunAssumption ==
    /\ Enrichments \subseteq [tier : Tiers, summary : STRING, why : STRING, titles : Seq(STRING)]
    /\ Profiles \subseteq [description : STRING, pitch : STRING]
    /\ Extractions \subseteq Seq(People)
    /\ DOMAIN DomainOfMail \subseteq STRING /\ ProfileLinks \subseteq STRING
    /\ HotThreshold \in 0..Whole /\ WarmThreshold \in 0..HotThreshold
    /\ TopLeads \in Nat \ {0} /\ ScoreWorkers \in Nat \ {0} /\ ShortText \in Nat

VARIABLES
    unscored,       \* the leads given to the pool and not scored yet, by position
    scored,         \* the scored leads
    remembered      \* the leads with a summary in the MemoryManager

serviceVars == <<unscored, scored, remembered>>
vars == <<pipelineVars, serviceVars>>

--------------------------------------------------------------------------------

Init ==
    /\ PipelineInit
    /\ icp = NoIcp /\ stage = "parse"
    /\ unscored = {} /\ scored = <<>> /\ remembered = {}

Parse ==
    /\ stage = "parse"
    /\ icp' \in Icps
    /\ stage' = "plan"
    /\ UNCHANGED <<perDomain, searchVars, found, chosen, crawlStageVars, leads, serviceVars>>

Discover == PipelineNext /\ UNCHANGED serviceVars

Serve(from, to) ==
    /\ stage = from /\ stage' = to
    /\ UNCHANGED <<icp, perDomain, searchVars, found, chosen, crawlStageVars, leads>>

FoundNothing == leads = <<>> /\ Serve("leads", "completed") /\ UNCHANGED serviceVars

Better(lead) == -lead.score

\* top_leads(2 * TopLeads)
Batch == UpTo(SortedOn(leads, Better), 2 * TopLeads)

StartScoring ==
    /\ leads # <<>>
    /\ Serve("leads", "score")
    /\ unscored' = DOMAIN Batch
    /\ UNCHANGED <<scored, remembered>>

Person(title, confidence) ==
    [title |-> title, confidence |-> confidence, email |-> "", linkedin |-> ""]

\* _rule_tier and _build_decision_makers
RuleTier(score) ==
    CASE score >= HotThreshold -> "hot"
      [] score < HotThreshold /\ score >= WarmThreshold -> "warm"
      [] OTHER -> "cold"

Hinted(lead) ==
    Each(SetToSeq(lead.hints), LAMBDA title :
        Person(title, IF title \in ToSet(icp.titles) THEN 90 ELSE 50))

Scored(lead, tier, summary, why, people) ==
    [url |-> lead.url, domain |-> lead.domain, score |-> lead.score,
     tier |-> tier, summary |-> summary, why |-> why, people |-> people]

ByRule(lead) == Scored(lead, RuleTier(lead.score), "", "", Hinted(lead))

\* Seeded fault: every title of the model is a person of its own.
WithAllTitles(people, titles) == people \o Each(titles, LAMBDA title : Person(title, 70))

\* Titles the lead has already are left out.
WithTitles(people, titles) ==
    LET new == Filter(titles, LAMBDA title :
                   \A i \in DOMAIN people : people[i].title # title)
    IN people \o Each(FirstOfEach(new, LAMBDA title : title), LAMBDA title : Person(title, 70))

ByModel(lead, e) == Scored(lead, e.tier, e.summary, e.why, WithTitles(Hinted(lead), e.titles))

\* Seeded fault: without the model a lead is dropped.
OutcomesOfModel(lead) ==
    IF lead.odd THEN {<<>>} ELSE {<<>>} \cup {<<ByModel(lead, e)>> : e \in Enrichments}

\* score(): if the model fails the rule stands.  A name that is no string is refused
\* by the validation of ScoredLead, after everything else.
Outcomes(lead) ==
    IF lead.odd THEN {<<>>}
    ELSE {<<ByRule(lead)>>} \cup {<<ByModel(lead, e)>> : e \in Enrichments}

\* score_many: the pool takes the leads in their order, and their results come in
\* the order in which the threads end; what raised is left out.
ScoreOne(i) ==
    /\ i \in unscored
    /\ Cardinality({j \in unscored : j < i}) < ScoreWorkers
    /\ \E outcome \in Outcomes(Batch[i]) : scored' = scored \o outcome
    /\ unscored' = unscored \ {i}
    /\ Serve("score", "score")
    /\ UNCHANGED remembered

\* The sort is stable: of leads that are worth the same, those scored first are kept.
EndScoring ==
    /\ unscored = {}
    /\ Serve("score", "research")
    /\ scored' = UpTo(SortedOn(scored, Better), TopLeads)
    /\ UNCHANGED <<unscored, remembered>>

--------------------------------------------------------------------------------

\* _group_pages_by_domain
PagesOf(domain) ==
    Filter(crawled, LAMBDA c : DomainOf[c.url] = domain /\ PageAt(c).success)

Positions == DOMAIN scored

\* The first n positions of those in K.
FirstOf(K, n) == {k \in K : Cardinality({j \in K : j < k}) < n}

\* Seeded fault: the profile replaces what the scorer wrote.
Replaced(lead, profile) == [lead EXCEPT !.summary = profile.description, !.why = profile.pitch]

\* A profile fills in what the scorer left empty.
Filled(lead, profile) ==
    [lead EXCEPT !.summary = IF @ = "" THEN profile.description ELSE @,
                 !.why = IF @ = "" THEN profile.pitch ELSE @]

\* research() without an answer of the model.
FallbackProfile == [description |-> "no model", pitch |-> ""]

\* _run_research: the first five hot leads that have pages.  What is remembered of
\* them is never read.
Research ==
    LET hot == FirstOf({k \in Positions : scored[k].tier = "hot"}, 5)
        known == {k \in hot : PagesOf(scored[k].domain) # <<>>}
    IN /\ Serve("research", "contacts")
       /\ \/ \E profile \in [known -> Profiles \cup {FallbackProfile}] :
               /\ scored' = [k \in Positions |->
                    IF k \in known THEN Filled(scored[k], profile[k]) ELSE scored[k]]
               /\ remembered' = remembered \cup {scored[k].url : k \in known}
          \/ UNCHANGED <<scored, remembered>>     \* research_hot_leads is off
       /\ UNCHANGED unscored

\* The first of a list, or nothing.
FirstOr(list, nothing) == IF list = <<>> THEN nothing ELSE list[1]

\* _extract_from_page: who the model saw in the text, if it is long enough, with the
\* addresses that are in the text; without them, whoever the addresses belong to.
PeopleOn(page, domain, extraction) ==
    LET emails == Filter(page.text, LAMBDA word :
                    word \in DOMAIN DomainOfMail /\ DomainOfMail[word] = domain)
        links == Filter(page.text, LAMBDA word : word \in ProfileLinks)
        seen == IF Len(page.text) > ShortText
                  THEN Filter(extraction, LAMBDA person : person.title # "") ELSE <<>>
        whole(person) == [person EXCEPT
                            !.email = IF @ = "" THEN FirstOr(emails, "") ELSE @,
                            !.linkedin = IF @ = "" THEN FirstOr(links, "") ELSE @]
    IN IF seen = <<>> /\ emails \o links # <<>> THEN <<whole(Person("contact", 30))>>
       ELSE Each(seen, whole)

\* find_contacts: of those with one title the first, the most certain before the others.
Contacts(people) ==
    UpTo(SortedOn(FirstOfEach(people, LAMBDA person : person.title),
                  LAMBDA person : -person.confidence), 10)

PeopleIn(domain, extractions) ==
    LET pages_ == Filter(PagesOf(domain), LAMBDA c : PageAt(c).text # <<>>)
    IN Joined(Each(pages_, LAMBDA c : PeopleOn(PageAt(c), domain, extractions[c.url])))

\* _run_contact_finding: for the first ten, if they name nobody.
FindContacts ==
    LET silent == {k \in FirstOf(Positions, 10) : scored[k].people = <<>>}
        urls == {crawled[i].url : i \in DOMAIN crawled}
    IN /\ Serve("contacts", "completed")
       /\ \/ \E extractions \in [silent -> [urls -> Extractions \cup {<<>>}]] :
               scored' = [k \in Positions |->
                    IF k \in silent
                      THEN [scored[k] EXCEPT !.people =
                              Contacts(PeopleIn(scored[k].domain, extractions[k]))]
                      ELSE scored[k]]
          \/ UNCHANGED scored                     \* find_contacts is off
       /\ UNCHANGED <<unscored, remembered>>

Next ==
    \/ Parse \/ Discover
    \/ FoundNothing \/ StartScoring \/ EndScoring
    \/ \E i \in unscored : ScoreOne(i)
    \/ Research \/ FindContacts

\* The threads of a run go on, and calls of providers, sites and models return.
Spec == Init /\ [][Next]_vars /\ WF_vars(Next)

--------------------------------------------------------------------------------

\* The best of the leads, and no others, are the result, in the order of their
\* scores, whichever thread ends first and whatever the model answers: "If the LLM
\* call fails the lead still gets a rule-based tier ... rather than being dropped"
\* (agents/lead_scorer.py).  Only a name that is no string costs a lead.
BestLeadsScored ==
    LET valid == {i \in DOMAIN Batch : ~Batch[i].odd}
        kept == {i \in valid : \E k \in Positions : scored[k].url = Batch[i].url}
    IN stage \in {"research", "contacts", "completed"} /\ leads # <<>> =>
         /\ Len(scored) = Min({TopLeads, Cardinality(valid)})
         /\ \A k \in Positions : \E i \in kept : scored[k].url = Batch[i].url
         /\ \A i \in kept, j \in valid \ kept : Batch[i].score >= Batch[j].score
         /\ \A j, k \in Positions : j < k => scored[j].score >= scored[k].score

\* Two people of a lead never have one title, whether a page, the model or the
\* contact finder named them: the database has one row for each.
TitlesOnce ==
    stage = "completed" =>
        \A k \in Positions : \A i, j \in DOMAIN scored[k].people :
            scored[k].people[i].title = scored[k].people[j].title => i = j

Kept(old, new) == old = "" \/ new = old

\* What the scorer wrote about a lead is never lost to the agents that come after it.
LaterAgentsOnlyFill ==
    [][(stage \in {"research", "contacts"}) =>
         \A k \in Positions :
            LET old == scored[k] IN
            LET new == scored'[k] IN
            /\ new.url = old.url /\ new.tier = old.tier
            /\ Kept(old.summary, new.summary) /\ Kept(old.why, new.why)
            /\ old.people = <<>> \/ new.people = old.people]_vars

\* The run ends, whatever searches, requests and models fail.
RunEnds == <>(stage \in {"completed", "failed"})

================================================================================
