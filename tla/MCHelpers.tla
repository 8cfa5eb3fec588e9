------------------------------ MODULE MCHelpers ------------------------------
(* Inputs of the helpers for TLC. *)
EXTENDS Helpers

\* The README's hours, one hour twice, hours out of order, midnight, no hour of
\* the day, none at all
Lists == {<<2, 6, 14, 20>>, <<6, 6>>, <<14, 6, 20>>, <<0, 23>>, <<6, 30>>, <<>>}

\* Paths of up to three segments, which may be empty
SomePaths ==
    {FlattenSeq([i \in DOMAIN p |-> IF p[i] = "" THEN <<"/">> ELSE <<"/", p[i]>>]) :
        p \in BoundedSeq({"path", "PATH", ""}, 3)}
SomeTails == {<<>>, <<"?", "path">>, <<"#", "/">>, <<"?", "/", "#">>}

\* Spellings of two pages; titles of which neighbours are similar and the ends not,
\* and titles without a token
Urls == {<<"https://", "host", "/", "path">>, <<"/", "/", "HOST", "/", "path", "/", "?", "path">>,
         <<"http://", "host">>}
Titles == {<<"Storm", "in", "the", "north", "and", "east">>, <<"storm", "in", "north", "and", "east", "now">>,
           <<"storm", "in", "north", "east", "now">>, <<"The">>, <<>>}
SomeArticles == [url : Urls, canonical : Urls \cup {Dedup!NoUrl}, title : Titles]

SiteName == <<"le", "site">>
SomeHeadlines ==
    BoundedSeq({"Storm", "storm", "of", "north"}, 3) \cup {<<"w1", "w2", "w3", "w4", w>> : w \in {"w5", "w6"}}

-----------------------------------------------------------------------------
\* Sequences of up to two parts
Pairs(parts) == {<<>>} \cup parts \cup {p \o q : p, q \in parts}

\* Pages of elements nested three deep
Nested(inside) == {Extract!Element(tag, page) : tag \in {"nav", "aside", "article"}, page \in inside}
Leaf == {<<Extract!Text("w")>>}
Inner == Pairs(Leaf \cup {Extract!Element(tag, <<>>) : tag \in {"nav", "aside", "article"}})
Middle == Leaf \cup Nested(Inner)
Pages == {p \o w : p \in Nested(Pairs(Middle)), w \in Leaf \cup {<<>>}}

\* One paragraph deep, in the regions of a page, with an image and a script, and with
\* a teaser in the header or without
Regions ==
    {Extract!Element("body", Extract!Element("header", Extract!Element(teaser, p)) \o
                             Extract!Element(tag, q \o r)) :
        teaser \in {"article", "p"}, tag \in {"main", "div"}, p \in Leaf \cup {<<>>},
        q \in Leaf \cup {<<>>, <<Extract!Text("&nbsp;")>>},
        r \in Pairs({<<Extract!Open("img")>>, Extract!Element("p", Extract!Element("span", <<Extract!Text("w")>>)),
                     Extract!Element("script", <<Extract!Text("w")>>)})}

SomeDocuments == Pages \cup Regions

-----------------------------------------------------------------------------
\* Addresses of feeds, and links in them of every kind
SomeDirectories == {<<>>, <<"/", "dir">>, <<"/", "dir", "/", "dir">>, <<"/", "dir", "/">>}
SomeFiles == {<<>>, <<"feed">>}
SomeQueries == {<<>>, <<"?", "q">>, <<"?", "/", "q">>}
SomeHrefs ==
    {<<"https:", "/", "/", "other", "/", "page">>, <<"/", "/", "other", "/", "page">>,
     <<"/">>, <<"/", "page">>, <<"page">>, <<"dir", "/", "page">>, <<"?", "q">>, <<"#", "q">>}

SomeContents == BoundedSeq(Feed!Symbols, 3)

Page == <<"https:", "/", "/", "other", "/", "page">>
Query == <<"https:", "/", "/", "page?", "&amp;", "q">>
InCdata(lines, s) == <<"<![CDATA[">> \o lines \o s \o lines \o <<"]]>">>
SomeDates == {Feed!Absent, <<"rfc822">>, <<"soon">>}
SomeTitles == {Feed!Absent, <<"\n">>, <<"word">>}

RssEntries ==
    {[form |-> "rss", links |-> <<>>, tags |-> [title |-> t, link |-> l, pubDate |-> d]] :
        t \in SomeTitles, d \in SomeDates,
        l \in {Feed!Absent, <<"\n">>, Page, <<"\n">> \o Page, Query,
               InCdata(<<>>, Page), InCdata(<<>>, Query), InCdata(<<"\n">>, Page)}}

AtomEntries ==
    {[form |-> "atom", links |-> k, tags |-> [title |-> t, published |-> d, updated |-> u]] :
        t \in SomeTitles, d, u \in SomeDates,
        k \in BoundedSeq([rel : {"alternate", "self", "none"}, relFirst : BOOLEAN,
                          href : {Page, Query, <<"https:", "/", "/", "host", "/", "feed">>}], 2)}

JsonEntries ==
    {[form |-> "json", links |-> <<>>, tags |-> [title |-> t, url |-> u, external_url |-> e]] :
        t \in SomeTitles, u, e \in {Feed!Absent, Feed!None, Page, Query}}

SomeEntries == RssEntries \cup AtomEntries \cup JsonEntries

-----------------------------------------------------------------------------
\* What a page of the web may be: a redirect, not served, or served with a refresh
\* or a canonical link, or with both
Nowhere(u) == [lands |-> u, served |-> TRUE, refresh |-> "none", canonical |-> "none"]
PageOf(u, kind) ==
    CASE kind[1] = "redirect" -> [Nowhere(u) EXCEPT !.lands = kind[2]]
      [] kind[1] = "refresh" -> [Nowhere(u) EXCEPT !.refresh = kind[2]]
      [] kind[1] = "canonical" -> [Nowhere(u) EXCEPT !.canonical = kind[2]]
      [] kind[1] = "both" -> [Nowhere(u) EXCEPT !.refresh = "relative", !.canonical = kind[2]]
      [] kind[1] = "failed" -> [Nowhere(u) EXCEPT !.served = FALSE, !.refresh = kind[2]]

\* Small webs with every link, and longer ones along a line
SmallWebs ==
    LET kinds == {"redirect", "refresh", "canonical", "both", "failed"} \X {"t.co", "u1", "u2"}
    IN  {[u \in {"t.co", "u1", "u2"} |-> PageOf(u, k[u])] : k \in [{"t.co", "u1", "u2"} -> kinds]}

Successor == [u \in {"t.co", "u1", "u2", "u3", "u4"} |->
                CASE u = "t.co" -> "u1" [] u = "u1" -> "u2" [] u = "u2" -> "u3" [] OTHER -> "u4"]
LineWebs ==
    LET names == DOMAIN Successor
    IN  {[u \in names |-> PageOf(u, <<k[u], Successor[u]>>)] :
            k \in [names -> {"redirect", "refresh", "canonical", "failed"}]}

SomeWebs == SmallWebs \cup LineWebs
SomeLinks == {"t.co", "u1"}
=============================================================================
