------------------------------ MODULE QueryPlanner -----------------------------
(***************************************************************************)
(* discovery/query_planner.py: the search queries an ICP asks for.         *)
(*                                                                         *)
(* The ICP is a record of lists, in the order in which they were parsed.   *)
(* The text of a query is what it asks (its template) and the terms of the *)
(* ICP in it; `only' is its config_overrides: the domains it is limited to,*)
(* or the last month.                                                      *)
(***************************************************************************)
EXTENDS Lists

CONSTANT MostPerSignal      \* max_queries_per_signal

ASSUME QueryPlannerAssumption == MostPerSignal \in Nat \ {0}

\* An ICP that asks for nothing.
NoIcp == [field \in {"industries", "sizes", "maturity", "countries", "required", "preferred",
                     "leaving", "adopting", "hiring", "projects", "models", "outsourcing",
                     "events", "titles", "departments"} |-> <<>>]

\* SignalType
Signals == {"company_profile", "technology_stack", "hiring_signals", "outsourcing_signals",
            "business_events", "decision_makers"}

Query(signal, priority, asks, terms, only) ==
    [signal |-> signal, priority |-> priority, asks |-> asks, terms |-> terms, only |-> only]

FirstFew(queries) == UpTo(queries, MostPerSignal)

Techs(icp) == IF icp.required # <<>> THEN icp.required ELSE icp.preferred
Industries(icp) == IF icp.industries # <<>> THEN icp.industries ELSE <<"software">>
SizeTerms(icp) == FirstOfEach(icp.sizes, LAMBDA size : size)

CompanyProfileQueries(icp) ==
    LET hints == SizeTerms(icp) \o UpTo(icp.countries, 2) \o UpTo(icp.maturity, 1) IN
    FirstFew(Each(Industries(icp), LAMBDA industry :
        Query("company_profile", 1, "company", <<industry>> \o hints, "anywhere")))

\* Two queries for each technology; what goes over the limit, the migrations first,
\* is cut off.
TechnologyStackQueries(icp) ==
    LET hint == UpTo(icp.industries, 1)
        ofTech(tech) ==
          <<Query("technology_stack", 2, "company using", <<tech>> \o hint, "anywhere"),
            Query("technology_stack", 3, "tech stack", <<tech>> \o hint, "stack sites")>>
        ofMove(move) == Query("technology_stack", 3, "migrating", move \o hint, "anywhere")
    IN FirstFew(Joined(Each(UpTo(Techs(icp), MostPerSignal), ofTech))
                  \o Each(Zip(icp.leaving, icp.adopting), ofMove))

HiringSignalQueries(icp) ==
    LET industry == UpTo(icp.industries, 1)
        place == UpTo(icp.countries, 1)
        ofTech(tech) == Query("hiring_signals", 2, "hiring engineer",
                              <<tech>> \o industry \o place, "job boards")
        ofKeyword(word) == Query("hiring_signals", 3, "hiring",
                                 <<word>> \o industry \o place, "anywhere")
        ofProject(type) == Query("hiring_signals", 3, "engineer hiring",
                                 <<type>> \o industry, "anywhere")
    IN FirstFew(Each(UpTo(Techs(icp), 3), ofTech)
                  \o Each(UpTo(icp.hiring, 2), ofKeyword)
                  \o Each(UpTo(icp.projects, 2), ofProject))

OutsourcingSignalQueries(icp) ==
    LET industry == UpTo(Industries(icp), 1)
        vendors == Query("outsourcing_signals", 3, "outsource vendor", industry, "anywhere")
        more(term) == Query("outsourcing_signals", 4, "outsourcing",
                            <<term>> \o industry, "anywhere")
    IN FirstFew(<<vendors>> \o Each(UpTo(icp.models, 2), more)
                            \o Each(UpTo(icp.outsourcing, 2), more))

\* News of the last month.  With MostPerSignal events there is no room for the
\* generic query that "always" is added.
BusinessEventQueries(icp) ==
    LET hints == UpTo(Industries(icp), 1) \o UpTo(icp.countries, 1)
        ofEvent(event) == Query("business_events", 3, "news", <<event>> \o hints, "last month")
        funding == Query("business_events", 4, "funding news", hints, "last month")
    IN FirstFew(Each(UpTo(icp.events, MostPerSignal), ofEvent) \o <<funding>>)

DecisionMakerQueries(icp) ==
    LET industry == UpTo(icp.industries, 1)
        ofTitle(title) == Query("decision_makers", 4, "title", <<title>> \o industry, "linkedin")
        ofDepartment(dept) == Query("decision_makers", 5, "department head",
                                    <<dept>> \o industry, "anywhere")
    IN FirstFew(IF icp.titles # <<>> THEN Each(icp.titles, ofTitle)
                                     ELSE Each(UpTo(icp.departments, 2), ofDepartment))

PlanOf(icp) ==
    CompanyProfileQueries(icp) \o TechnologyStackQueries(icp) \o HiringSignalQueries(icp)
      \o OutsourcingSignalQueries(icp) \o BusinessEventQueries(icp) \o DecisionMakerQueries(icp)

\* Seeded fault: the last first.
LeastUrgentFirst(plan) == SortedOn(plan, LAMBDA q : -q.priority)

\* by_priority()
ByPriority(plan) == SortedOn(plan, LAMBDA q : q.priority)

--------------------------------------------------------------------------------

Asked(plan, signal) == {i \in DOMAIN plan : plan[i].signal = signal}
Names(plan, signal, term) ==
    \E i \in Asked(plan, signal) : term \in ToSet(plan[i].terms)

\* Cutting every signal off at MostPerSignal never costs what the ICP asks for
\* first: whatever else it lists, its first industries, its first technologies
\* and its first titles are searched for, in the order of their urgency, and no
\* ICP leaves the search without a query.
PlanKeepsEssentials(icp) ==
    LET plan == ByPriority(PlanOf(icp)) IN
    /\ \A i, j \in DOMAIN plan : i < j => plan[i].priority <= plan[j].priority
    /\ \A i \in DOMAIN plan : Cardinality(Asked(plan, plan[i].signal)) <= MostPerSignal
    /\ \A i \in DOMAIN UpTo(Industries(icp), MostPerSignal) :
         Names(plan, "company_profile", Industries(icp)[i])
    /\ \A i \in DOMAIN UpTo(Techs(icp), Min({3, (MostPerSignal + 1) \div 2})) :
         /\ Names(plan, "technology_stack", Techs(icp)[i])
         /\ Names(plan, "hiring_signals", Techs(icp)[i])
    /\ \A i \in DOMAIN UpTo(icp.titles, MostPerSignal) :
         Names(plan, "decision_makers", icp.titles[i])
    /\ Asked(plan, "company_profile") # {} /\ Asked(plan, "outsourcing_signals") # {}
    /\ Asked(plan, "business_events") # {}

================================================================================
