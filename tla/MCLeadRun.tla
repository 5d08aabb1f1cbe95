------------------------------- MODULE MCLeadRun -------------------------------
\* A request over three domains, one of them preferred and one skipped.
EXTENDS LeadRun

CONSTANTS a, b, c,      \* domains
          a1, a1ad,     \* one page, with and without a tracking parameter
          aroot,        \* the root of a, as found: without the slash
          asignal,      \* and as a signal page: with it
          b1, c1,
          p1, p2        \* providers

MCDomainOf == [u \in Urls |-> IF u = b1 THEN b ELSE IF u = c1 THEN c ELSE a]
MCPageOf == [u \in Urls |-> IF u = a1ad THEN a1 ELSE IF u = asignal THEN aroot ELSE u]
MCSignalPages == [d \in Domains |-> IF d = a THEN <<asignal>> ELSE <<>>]
MCAge == [u \in Urls |-> IF u = b1 THEN "older" ELSE "month"]

MCAnswers ==
    [signal \in Signals |->
       CASE signal = "company_profile" -> (p1 :> <<a1, c1>> @@ p2 :> <<b1>>)
         [] signal = "outsourcing_signals" -> (p1 :> <<a1ad, aroot>> @@ p2 :> <<>>)
         [] OTHER -> (p1 :> <<>> @@ p2 :> <<>>)]

\* Words that contain others.
MCInside == {<<"startup", "startups">>, <<"us", "using">>, <<"go", "google">>, <<"cto", "director">>}

\* Documents.
Start(tag) == [call |-> "start", tag |-> tag, attrs |-> <<>>]
End(tag) == [call |-> "end", tag |-> tag]
Text(words) == [call |-> "data", words |-> words]
Json(words) ==
    <<[call |-> "start", tag |-> "script", attrs |-> [type |-> "application/ld+json"]],
      Text(words), End("script")>>
Link(href) == [call |-> "start", tag |-> "a", attrs |-> [href |-> href]]

MCJsonOf ==
    (<<"named">> :> <<"organization">> @@ <<"numbered">> :> <<"odd organization">>
       @@ <<"listed">> :> <<"no object", "organization">>)

MCDocument ==
    [rich |-> <<Start("title"), Text(<<"acme">>), End("title")>> \o Json(<<"named">>)
                \o <<Text(<<"python", "docker", "saas", "sre", "using">>),
                     Start("style"), Text(<<"color">>), End("style"), Text(<<"ann@a">>)>>,
     led |-> <<Start("title"), Text(<<"lead">>), End("title"),
               Text(<<"saas", "director", "bob@b", "germany">>)>>,
     thin |-> <<Text(<<"hello">>), Link("https://a")>>,
     odd |-> Json(<<"numbered">>) \o <<Text(<<"saas", "docker", "ann@a", "us">>)>>,
     listed |-> Json(<<"listed">>) \o <<Text(<<"saas", "docker">>)>>,
     broken |-> <<Text(<<"saas">>), Link("None"), Text(<<"docker">>)>>]

MCServes ==
    [u \in Urls |-> CASE u = a1 -> {"rich", "odd"} [] u = aroot -> {"listed", "thin"}
                      [] u = b1 -> {"led", "broken"} [] OTHER -> {"rich"}]

MCRequest == <<"saas", "startups", "using", "kafka">>
MCUnderstandings ==
    {[NoIcp EXCEPT !.industries = <<"saas">>, !.required = <<"docker">>, !.countries = <<"us">>]}

MCEnrichments ==
    {[tier |-> "hot", summary |-> "", why |-> "growing", titles |-> <<"cto", "cfo", "cfo">>],
     [tier |-> "cold", summary |-> "shop", why |-> "", titles |-> <<>>]}
MCProfiles == {[description |-> "maker", pitch |-> "now"]}
MCExtractions ==
    {<<Person("cto", 50), Person("", 90), Person("founder", 90)>>, <<Person("founder", 50)>>}
MCDomainOfMail == ("ann@a" :> a @@ "bob@b" :> b)

--------------------------------------------------------------------------------

\* What does not depend on the state is checked in the initial ones.
AtFirst == stage = "parse" /\ perDomain = 1 /\ \A u \in Urls : cache[u] = NoPage

SomeIcps ==
    {[NoIcp EXCEPT !.industries = i, !.sizes = s, !.countries = <<"us", "uk", "india">>,
                   !.required = r, !.preferred = <<"react">>, !.hiring = h, !.projects = <<"ai_ml">>,
                   !.leaving = <<"php">>, !.adopting = <<"go">>, !.models = m,
                   !.outsourcing = <<"cost_reduction">>, !.events = e, !.titles = t,
                   !.departments = <<"engineering">>] :
       i \in {<<>>, <<"saas">>, <<"saas", "media", "retail", "gaming">>},
       s \in {<<>>, <<"startup", "startup">>},
       r \in {<<>>, <<"docker">>, <<"docker", "rust", "aws", "gcp">>},
       h \in {<<>>, <<"sre", "data engineer">>}, m \in {<<>>, <<"consulting", "managed_services", "project_based">>},
       e \in {<<>>, <<"funding", "merger", "expansion", "new_office">>},
       t \in {<<>>, <<"cto">>, <<"cto", "cpo", "coo", "ciso">>}}
      \cup {NoIcp}

PlansKeepEssentials == AtFirst => \A some \in SomeIcps : PlanKeepsEssentials(some)

SomeTexts ==
    {SetToSeq(words) : words \in SUBSET {"docker", "saas", "sre", "using", "seed"}}
IcpsToScore ==
    {[NoIcp EXCEPT !.industries = i, !.sizes = s, !.countries = l, !.required = r, !.hiring = h] :
       i \in {<<>>, <<"saas", "media">>}, s \in {<<>>, <<"startup">>}, l \in {<<>>, <<"us">>},
       r \in {<<>>, <<"docker", "go">>}, h \in {<<>>, <<"sre">>}}

ScoresSensible ==
    AtFirst => \A some \in IcpsToScore :
                 ScoresMakeSense(some, SomeTexts, Ages)

\* Every document of up to four of these calls.
Calls ==
    {Start("title"), End("title"), Start("script"), End("script"), Start("style"), End("style"),
     Json(<<"x">>)[1], Text(<<"x">>), Text(<<"y">>), Link("None")}

TextsShow ==
    AtFirst => \A n \in 0..4 : \A document \in [1..n -> Calls] :
                 Feasible(document) => TextIsWhatShows(document)

================================================================================
