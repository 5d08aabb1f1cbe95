------------------------------ MODULE MCPersistence -----------------------------
\* Persistence over two companies and the runs that can disturb each other there.
EXTENDS Persistence

CONSTANTS s1, s2, a, b, x, y, e1, e2, l1, cto, ceo

Person1 == [email |-> e1, link |-> l1, title |-> cto, unfit |-> FALSE]
SameEmail == [email |-> e1, link |-> Unknown, title |-> ceo, unfit |-> FALSE]
SameLink == [email |-> e2, link |-> l1, title |-> cto, unfit |-> FALSE]
TitleOnly == [email |-> Unknown, link |-> Unknown, title |-> cto, unfit |-> FALSE]
OddTitle == [TitleOnly EXCEPT !.unfit = TRUE]
OddName == [SameEmail EXCEPT !.unfit = TRUE]

LeadOf(domain, stack, contacts) ==
    [domain |-> domain, techs |-> stack, people |-> contacts, unfit |-> {}]

BadQuery == <<LeadOf(a, {}, <<>>)>>
MCBadQueries == {BadQuery}

\* In either order of the domains, with a domain twice, with one person twice,
\* with a title of two people, with a link that is not unique, and without leads;
\* with an unfit value in a query, in a company, in a lead and in decision makers.
MCBatches == {
    <<LeadOf(a, {x}, <<Person1>>), LeadOf(b, {}, <<TitleOnly>>)>>,
    <<LeadOf(b, {x}, <<TitleOnly, SameLink, TitleOnly>>), LeadOf(a, {y}, <<SameEmail>>)>>,
    <<LeadOf(a, {y}, <<SameEmail>>), LeadOf(a, {x}, <<Person1, TitleOnly>>)>>,
    <<LeadOf(a, {}, <<Person1, SameLink>>), LeadOf(b, {y}, <<>>)>>,
    <<LeadOf(b, {y}, <<SameEmail>>)>>,
    <<>>,
    BadQuery,
    <<LeadOf(a, {x}, <<OddTitle, OddName>>), [LeadOf(b, {}, <<>>) EXCEPT !.unfit = {"company"}]>>,
    <<[LeadOf(b, {y}, <<>>) EXCEPT !.unfit = {"lead"}]>> }

================================================================================
