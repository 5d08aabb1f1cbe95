---------------------------------- MODULE Page ---------------------------------
(***************************************************************************)
(* What WebCrawler.crawl (discovery/crawler.py) makes of the body of a     *)
(* response, and what comes back from the page cache for it.               *)
(*                                                                         *)
(* A document is the sequence of the calls that html.parser makes for it:  *)
(* "start" with a tag and its attributes, "end" with a tag, "data" with the*)
(* words of a text.  html.parser gives an attribute without a value the    *)
(* value None, and between <script> or <style> and its end only data.      *)
(* Of the meta data of a page the parts that nothing reads are left out.   *)
(***************************************************************************)
EXTENDS Words

CONSTANTS
    JsonOf,         \* the objects in each text that is JSON; in any other there are none
    MaxLinks        \* max_links

\* _TECH_KEYWORDS, some of each kind.
TechKeywords == {"docker", "python", "go", "react", "llm", "android"}

None == "None"
Attribute(attrs, name) == IF name \in DOMAIN attrs THEN attrs[name] ELSE ""

\* What html.parser may call: after the start of a script or a style come only data
\* and its end.
Feasible(document) ==
    \A i \in DOMAIN document, j \in DOMAIN document :
        /\ i < j
        /\ document[i].call = "start" /\ document[i].tag \in {"script", "style"}
        /\ \A k \in i+1..j-1 : document[k].call = "data"
        => \/ document[j].call = "data"
           \/ document[j].call = "end" /\ document[j].tag = document[i].tag

\* _PageParser.  `inside' stands for _in_script, _in_style and _in_json_ld, of which
\* at most one is set; `raised', for an exception.
NewParser == [title |-> <<>>, siteName |-> "", jsonLd |-> <<>>, links |-> <<>>, text |-> <<>>,
              inTitle |-> FALSE, inside |-> "", buffer |-> <<>>, raised |-> FALSE]

Raised(p) == [p EXCEPT !.raised = TRUE]

StartScript(p, token) ==
    IF Attribute(token.attrs, "type") = "application/ld+json"
      THEN [p EXCEPT !.inside = "json-ld", !.buffer = <<>>]
      ELSE [p EXCEPT !.inside = token.tag]

\* None has no lower().
Meta(p, attrs) ==
    IF None \in {Attribute(attrs, "name"), Attribute(attrs, "property")} THEN Raised(p)
    ELSE IF Attribute(attrs, "name") # "description" /\ Attribute(attrs, "property") = "og:site_name"
      THEN [p EXCEPT !.siteName = IF Attribute(attrs, "content") = None THEN ""
                                  ELSE Attribute(attrs, "content")]
      ELSE p

\* href is "" for what is not followed: fragments, scripts, addresses; or it is the
\* absolute URL that urljoin makes of it.
Anchor(p, href) ==
    IF href = None THEN Raised(p)
    ELSE IF href # "" /\ Len(p.links) < MaxLinks THEN [p EXCEPT !.links = Append(@, href)]
    ELSE p

StartTag(p, token) ==
    CASE token.tag = "title" -> [p EXCEPT !.inTitle = TRUE]
      [] token.tag \in {"script", "style"} -> StartScript(p, token)
      [] token.tag = "meta" -> Meta(p, token.attrs)
      [] token.tag = "a" -> Anchor(p, Attribute(token.attrs, "href"))
      [] OTHER -> p

\* _flush_json_ld: what is not JSON is dropped; the members of a list are taken as
\* they are.
Flush(p) == IF p.buffer \in DOMAIN JsonOf THEN p.jsonLd \o JsonOf[p.buffer] ELSE p.jsonLd

\* Seeded fault: only a script ends at its end.
EndTagOfScript(p, tag) ==
    CASE tag = "title" -> [p EXCEPT !.inTitle = FALSE]
      [] tag = "script" -> [p EXCEPT !.inside = ""]
      [] OTHER -> p

EndTag(p, tag) ==
    CASE tag = "title" -> [p EXCEPT !.inTitle = FALSE]
      [] tag \in {"script", "style"} ->
           [p EXCEPT !.inside = "", !.jsonLd = IF p.inside = "json-ld" THEN Flush(p) ELSE @]
      [] OTHER -> p

Data(p, words) ==
    CASE p.inside = "json-ld" -> [p EXCEPT !.buffer = @ \o words]
      [] p.inside # "json-ld" /\ p.inTitle -> [p EXCEPT !.title = @ \o words]
      [] p.inside = "" /\ ~p.inTitle -> [p EXCEPT !.text = @ \o words]
      [] OTHER -> p

Handle(p, token) ==
    CASE token.call = "start" -> StartTag(p, token)
      [] token.call = "end" -> EndTag(p, token.tag)
      [] token.call = "data" -> Data(p, token.words)

\* The first exception ends the parsing.
Feed(document) ==
    FoldLeft(LAMBDA p, token : IF p.raised THEN p ELSE Handle(p, token), NewParser, document)

FailedPage == [success |-> FALSE]

\* _build_meta, and crawl() once it has the body.
PageFrom(document) ==
    LET p == Feed(document) IN
    IF p.raised THEN FailedPage
    ELSE [success |-> TRUE, title |-> p.title, text |-> p.text, siteName |-> p.siteName,
          jsonLd |-> p.jsonLd, links |-> p.links,
          techs |-> {tech \in TechKeywords : Says(p.text, tech)}]

\* A page that has been through the cache, which leaves out the links.
FromCache(page) == [page EXCEPT !.links = <<>>]

--------------------------------------------------------------------------------

\* The tag that the data at position i is in, among those whose data is not text:
\* the last one opened before it, if it has not been closed.
Enclosing(document, i) ==
    LET Latest(tags, call) ==
          Max({0} \cup {j \in 1..i-1 : document[j].call = call /\ document[j].tag \in tags})
    IN {tags \in {{"title"}, {"script", "style"}} : Latest(tags, "start") > Latest(tags, "end")}

\* "extracts text": the text of a page is all the data outside titles, scripts and
\* styles, in its order, whatever comes in between; the rest of the code finds
\* its signals in nothing else.
TextIsWhatShows(document) ==
    LET shown == SelectSeq([i \in DOMAIN document |-> i],
                           LAMBDA i : document[i].call = "data" /\ Enclosing(document, i) = {})
        page == PageFrom(document)
    IN page.success => page.text = FlattenSeq(Each(shown, LAMBDA i : document[i].words))

================================================================================
