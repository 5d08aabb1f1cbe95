------------------------------- MODULE IcpParser -------------------------------
(***************************************************************************)
(* agents/icp_parser.py: the ICP of a request, as a language model gives it*)
(* or, when the model fails, as keywords do.                               *)
(***************************************************************************)
EXTENDS Words, QueryPlanner

CONSTANTS
    Request,            \* the words of the query
    Understandings      \* the ICPs a model may make of it

ASSUME IcpParserAssumption == Understandings \subseteq [DOMAIN NoIcp -> Seq(STRING)]

\* The tables of keywords, some of each.
LocationKws == <<"us", "uk", "india", "germany">>
TechKws == <<"docker", "react", "python", "go", "rust">>
TitleKws == <<"cto", "head of engineering">>
IndustryKws == <<"saas", "fintech", "healthcare">>
KwsOfSize(size) ==
    CASE size = "startup" -> {"startup", "seed"} [] size = "mid_market" -> {"mid-market"}
      [] size = "enterprise" -> {"enterprise"}

\* _keyword_fallback: the fields of the ICP that nothing reads are left out.
KeywordIcp(query) ==
    [NoIcp EXCEPT
       !.countries = Said(LocationKws, query), !.required = Said(TechKws, query),
       !.titles = Said(TitleKws, query), !.industries = Said(IndustryKws, query),
       !.sizes = Filter(<<"startup", "mid_market", "enterprise">>,
                           LAMBDA size : \E word \in KwsOfSize(size) : Says(query, word))]

\* parse(): any exception, of the call or of the validation, leads to the fallback.
Icps == Understandings \cup {KeywordIcp(Request)}

================================================================================
