--------------------------------- MODULE Lists ---------------------------------
(***************************************************************************)
(* The list operations of Python that the modules of a run use, each by    *)
(* the positions it keeps and the order it puts them in.                   *)
(***************************************************************************)
EXTENDS Integers, SequencesExt, FiniteSetsExt

\* Of(v).  (TLC evaluates v once, and an argument of an operator at each use.)
With(v, Of(_)) == CHOOSE result \in {Of(x) : x \in {v}} : TRUE

\* s[:n]
UpTo(s, n) == With(s, LAMBDA l : SubSeq(l, 1, Min({n, Len(l)})))

\* [F(x) for x in s]
Each(s, F(_)) == With(s, LAMBDA l : SubSeq([i \in DOMAIN l |-> F(l[i])], 1, Len(l)))

\* The members of a set in their order: Before(x) are those before x.
InOrder(all, Before(_)) ==
    [k \in 1..Cardinality(all) |-> CHOOSE x \in all : Cardinality(Before(x)) = k - 1]

\* The members of s at the positions in I, in their order.
At(s, I) ==
    LET Ascending(all) == InOrder(all, LAMBDA i : {j \in all : j < i})
    IN Each(With(I, Ascending), LAMBDA i : s[i])

\* [x for x in s if T(x)]
Filter(s, T(_)) == With(s, LAMBDA l : At(l, {i \in DOMAIN l : T(l[i])}))

\* The first member for each value of F, in their order: a dict filled from s.
FirstOfEach(s, F(_)) ==
    With(s, LAMBDA l : At(l, {i \in DOMAIN l : \A j \in 1..i-1 : F(l[j]) # F(l[i])}))

\* s in the order of its keys: stable.
InOrderOf(keys, s) ==
    LET Before(i) == {j \in DOMAIN s : keys[j] < keys[i] \/ (keys[j] = keys[i] /\ j < i)}
    IN Each(InOrder(DOMAIN s, Before), LAMBDA i : s[i])

\* sorted(s, key=F)
SortedOn(s, F(_)) ==
    With(s, LAMBDA l : With([i \in DOMAIN l |-> F(l[i])], LAMBDA keys : InOrderOf(keys, l)))

\* [x for s in lists for x in s]
Joined(lists) ==
    LET Before(all, x) == {y \in all : y[1] < x[1] \/ (y[1] = x[1] /\ y[2] < x[2])}
        InTurn(all) == InOrder(all, LAMBDA x : Before(all, x))
        Places(ls) == UNION {{i} \X DOMAIN ls[i] : i \in DOMAIN ls}
    IN With(lists, LAMBDA ls : Each(With(Places(ls), InTurn), LAMBDA x : ls[x[1]][x[2]]))

================================================================================
