--------------------------------- MODULE Words ---------------------------------
(***************************************************************************)
(* A text is the sequence of its words, in lower case.  The code looks for *)
(* a term with `term in text', which also finds it inside a longer word:   *)
(* "go" in "google", "cto" in "director".                                  *)
(***************************************************************************)
EXTENDS Lists

CONSTANT Inside         \* pairs of a term and a longer word that contains it

Says(text, term) ==
    \E i \in DOMAIN text : text[i] = term \/ <<term, text[i]>> \in Inside

\* [term for term in terms if term in text]
Said(terms, text) == Filter(terms, LAMBDA term : Says(text, term))

================================================================================
