------------------------------ MODULE FeedParser ------------------------------
(***************************************************************************)
(* The feed parser (src/utils/rss_parser.rs): the format, the sources of   *)
(* each field, the links, and what becomes of the text of a field.         *)
(*                                                                         *)
(* A text is a function from positions to pieces: words, line ends, the    *)
(* delimiters of CDATA sections, tags, and angle brackets, escaped as      *)
(* often as their "&amp;" says.  What is cut leaves a gap.  A URL is a     *)
(* sequence of pieces.  Absent is a tag or a key the entry does not have,  *)
(* None a field without a value.                                           *)
(***************************************************************************)
EXTENDS Naturals, FiniteSets, SequencesExt

Absent == <<"absent">>
None == <<>>

-----------------------------------------------------------------------------
(* unwrap_cdata, strip_html, decode_html_entities.                         *)

Without(s, cut) == Restrict(s, DOMAIN s \ cut)

Between(s, i, j) == {k \in DOMAIN s : i < k /\ k < j}

\* A CDATA section.  The dot of the regex does not match a line end: a section of
\* several lines is none
IsSection(s, i, j) ==
    /\ i < j /\ s[i] = "<![CDATA[" /\ s[j] = "]]>"
    /\ \A k \in Between(s, i, j) : s[k] \notin {"]]>", "\n"}

\* The delimiters of the sections go; what begins inside a section is its text
UnwrapCdata(s) ==
    LET ends == {j \in DOMAIN s : \E i \in DOMAIN s : IsSection(s, i, j)}
        begins == {i \in DOMAIN s : \E j \in ends :
                      IsSection(s, i, j) /\ \A h \in DOMAIN s : h < i => ~IsSection(s, h, j)}
    IN  Without(s, begins \cup ends)

\* From a bracket to the first closing one, with something in between.  The
\* delimiters of a CDATA section begin and end with a bracket
Closing == {">", "<em>", "]]>"}
IsTag(s, i, j) ==
    \/ i = j /\ s[i] = "<em>"
    \/ /\ i < j /\ s[i] \in {"<", "<![CDATA["} /\ s[j] \in Closing
       /\ \A k \in Between(s, i, j) : s[k] \notin Closing
       /\ s[i] = "<" /\ s[j] = ">" => Between(s, i, j) # {}

\* strip_html: the tags of blocks become line ends, which no property tells from
\* nothing.  A bracket inside a tag ends with it
StripHtml(s) ==
    Without(s, {k \in DOMAIN s : \E i, j \in DOMAIN s : IsTag(s, i, j) /\ i <= k /\ k <= j})

\* decode_html_entities takes one "&amp;" or the last escape away
Decode(s) ==
    LET decoded(x) ==
            CASE x = "&lt;" -> "<" [] x = "&gt;" -> ">"
              [] x = "&amp;lt;" -> "&lt;" [] x = "&amp;gt;" -> "&gt;"
              [] x = "&lt;em&gt;" -> "<em>" [] OTHER -> x
    IN  [i \in DOMAIN s |-> decoded(s[i])]

\* From the first to the last piece that is no line end
Trim(s) ==
    LET ink == {i \in DOMAIN s : s[i] # "\n"}
    IN  Restrict(s, {i \in DOMAIN s : \E j, k \in ink : j <= i /\ i <= k})

\* The pieces of a text one after the other
InOrder(s) ==
    LET order == SetToSortSeq(DOMAIN s, LAMBDA i, j : i < j)
    IN  [k \in DOMAIN order |-> s[order[k]]]

\* Mutant: the text is decoded before its tags are stripped
RssTextDecoded(s) ==
    IF s = Absent THEN None ELSE Trim(StripHtml(Decode(UnwrapCdata(s))))

\* The title or the description of an RSS item, of an Atom entry, and the
\* description of a JSON item; what is empty counts as none
RssText(s) ==
    IF s = Absent THEN None ELSE Trim(Decode(StripHtml(UnwrapCdata(s))))

AtomText(s) ==
    IF s = Absent THEN None ELSE Trim(StripHtml(Decode(StripHtml(UnwrapCdata(s)))))

JsonText(s) == IF s = Absent THEN None ELSE Trim(StripHtml(s))

\* An author
NameText(s) == IF s = Absent THEN None ELSE Trim(Decode(UnwrapCdata(s)))

-----------------------------------------------------------------------------
(* normalize_url, on the address of the feed.                              *)

IsAbsolute(url) == url # <<>> /\ url[1] \in {"http:", "https:"}

\* The slash after the host: the first one after "scheme://"
HostEnd(base) == SelectInSubSeq(base, 4, Len(base), LAMBDA x : x = "/")

\* Where the last segment begins; the slashes of "scheme://" do not count
LastSlash(base) == SelectLastInSubSeq(base, 4, Len(base), LAMBDA x : x = "/")

\* Mutant: a relative link is appended to the address of the feed
NormalizeUrlAppending(url, base) ==
    CASE IsAbsolute(url) -> url
      [] ~IsAbsolute(url) /\ IsPrefix(<<"/", "/">>, url) -> <<"https:">> \o url
      [] OTHER -> base \o <<"/">> \o url

NormalizeUrl(url, base) ==
    CASE IsAbsolute(url) -> url
      [] ~IsAbsolute(url) /\ IsPrefix(<<"/", "/">>, url) -> <<"https:">> \o url
      [] ~IsAbsolute(url) /\ ~IsPrefix(<<"/", "/">>, url) /\ url[1] = "/" ->
             (IF HostEnd(base) = 0 THEN base ELSE SubSeq(base, 1, HostEnd(base) - 1)) \o url
      [] OTHER ->
             (IF LastSlash(base) = 0 THEN base \o <<"/">> ELSE SubSeq(base, 1, LastSlash(base))) \o url

\* A link of RSS, or an attribute, as a URL
Link(s, base) == IF s \in {Absent, None} THEN None ELSE NormalizeUrl(s, base)

-----------------------------------------------------------------------------
(* The fields of an entry: tags, or the keys of JSON, with their text, and *)
(* the <link> elements of Atom, whose rel may come before the href or not. *)

Tag(entry, name) == IF name \in DOMAIN entry.tags THEN entry.tags[name] ELSE Absent

\* or_else: the first of the names that is there, whatever it says
FirstPresent(entry, names) ==
    LET k == SelectInSeq(names, LAMBDA n : Tag(entry, n) # Absent)
    IN  IF k = 0 THEN Absent ELSE Tag(entry, names[k])

\* The first of the names that says something
FirstFound(entry, names) ==
    LET k == SelectInSeq(names, LAMBDA n : Tag(entry, n) \notin {Absent, None})
    IN  IF k = 0 THEN Absent ELSE Tag(entry, names[k])

\* parse_date: one of the forms it knows, or none
Dates == {<<"rfc3339">>, <<"rfc822">>, <<"naive">>, <<"day">>}
ParseDate(s) == IF s \in Dates THEN s ELSE None

\* Mutant: the first link is taken, whatever its rel
FirstAtomLink(entry, base) == IF entry.links = <<>> THEN None ELSE Link(entry.links[1].href, base)

\* extract_atom_link: the first alternate whose rel comes first, or the first link
AtomLink(entry, base) ==
    LET k == SelectInSeq(entry.links, LAMBDA l : l.rel = "alternate" /\ l.relFirst) IN
    IF entry.links = <<>> THEN None ELSE Link(entry.links[IF k = 0 THEN 1 ELSE k].href, base)

RssItem(entry, base) ==
    LET link == Tag(entry, "link") IN
    [title       |-> RssText(Tag(entry, "title")),
     link        |-> IF link = Absent THEN None ELSE Link(InOrder(Trim(UnwrapCdata(link))), base),
     description |-> RssText(Tag(entry, "description")),
     date        |-> ParseDate(Tag(entry, "pubDate")),
     author      |-> NameText(FirstPresent(entry, <<"author", "dc:creator">>)),
     image       |-> Link(FirstFound(entry, <<"media:content", "media:thumbnail", "enclosure",
                                              "img of description">>), base)]

AtomItem(entry, base) ==
    [title       |-> AtomText(Tag(entry, "title")),
     link        |-> AtomLink(entry, base),
     description |-> AtomText(FirstPresent(entry, <<"summary", "content">>)),
     date        |-> ParseDate(FirstPresent(entry, <<"published", "updated">>)),
     author      |-> NameText(FirstPresent(entry, <<"author name", "dc:creator">>)),
     image       |-> Link(FirstFound(entry, <<"media:content", "media:thumbnail",
                                              "img of content", "img of summary">>), base)]

\* JSON strings are taken as they are; a key without a string is <<>>
JsonItem(entry) ==
    LET string(s) == IF s = Absent THEN None ELSE s IN
    [title       |-> string(Tag(entry, "title")),
     link        |-> string(FirstPresent(entry, <<"url", "external_url">>)),
     description |-> JsonText(FirstPresent(entry, <<"summary", "content_text">>)),
     date        |-> ParseDate(Tag(entry, "date_published")),
     author      |-> string(FirstFound(entry, <<"author name", "author">>)),
     image       |-> string(FirstPresent(entry, <<"image", "banner_image">>))]

\* A feed: the marks its text has, and its entries in the form it really is of
Format(feed) ==
    CASE "{" \in feed.marks -> "json"
      [] "{" \notin feed.marks /\ "<feed" \in feed.marks -> "atom"
      [] feed.marks \cap {"{", "<feed"} = {} /\ feed.marks \cap {"<rss", "<channel"} # {} -> "rss"
      [] OTHER -> "unknown"

\* parse_feed: an item for each entry of the format that has a title or a link, by the
\* positions of the entries
ParseFeed(feed, base) ==
    LET item(e) ==
            CASE Format(feed) = "json" -> JsonItem(e)
              [] Format(feed) = "atom" -> AtomItem(e, base)
              [] OTHER -> RssItem(e, base)
        entries == IF Format(feed) = feed.form THEN feed.entries ELSE <<>>
        items == [k \in DOMAIN entries |-> item(entries[k])]
    IN  Restrict(items, {k \in DOMAIN items : items[k].title # None \/ items[k].link # None})

-----------------------------------------------------------------------------
(* The reference: what a text says and how it may be written, what a link  *)
(* means (RFC 3986, without dots), which link is the page of an entry.     *)

\* What a text is made of: words, brackets that mean themselves, tags, line ends
Symbols == {"word", "less", "more", "tag", "line"}

InCdata == {"text in CDATA", "html in CDATA"}
Writings == InCdata \cup {"text", "html escaped", "xhtml"}

Piece(symbol, writing) ==
    LET brackets == CASE writing = "text in CDATA" -> <<"<", ">">>
                      [] writing = "html escaped" -> <<"&amp;lt;", "&amp;gt;">>
                      [] OTHER -> <<"&lt;", "&gt;">>
    IN  CASE symbol = "less" -> brackets[1] [] symbol = "more" -> brackets[2]
          [] symbol = "tag" -> (IF writing = "html escaped" THEN "&lt;em&gt;" ELSE "<em>")
          [] symbol = "line" -> "\n" [] OTHER -> symbol

\* The delimiters of CDATA stand around the content
Written(content, writing) ==
    LET around == IF writing \in InCdata THEN {0, Len(content) + 1} ELSE {}
    IN  [i \in DOMAIN content \cup around |->
            IF i \in DOMAIN content THEN Piece(content[i], writing)
            ELSE IF i = 0 THEN "<![CDATA[" ELSE "]]>"]

Read(content) ==
    [i \in {k \in DOMAIN content : content[k] # "tag"} |->
        CASE content[i] = "less" -> "<" [] content[i] = "more" -> ">" [] content[i] = "line" -> "\n"
          [] OTHER -> content[i]]

\* A text says what a reader sees, but for line ends before and behind it
Says(content) == Trim(Read(content))

\* The address of a feed by its parts: a directory begins with a slash, a file has none
Bases(hosts, directories, files, queries) ==
    [host : hosts, dir : directories, slash : BOOLEAN, file : files, query : queries]

HasPath(base) == base.slash \/ base.dir # <<>> \/ base.file # <<>>

Origin(base) == <<"https:", "/", "/", base.host>>

Address(base) ==
    Origin(base) \o base.dir \o (IF HasPath(base) THEN <<"/">> ELSE <<>>) \o base.file \o base.query

Resolved(href, base) ==
    CASE IsAbsolute(href) -> href
      [] IsPrefix(<<"/", "/">>, href) -> <<"https:">> \o href
      [] href[1] = "/" /\ ~IsPrefix(<<"/", "/">>, href) -> Origin(base) \o href
      [] href[1] = "?" -> Address([base EXCEPT !.query = <<>>]) \o href
      [] href[1] = "#" -> Address(base) \o href
      [] OTHER -> Origin(base) \o base.dir \o <<"/">> \o href

\* A text without its delimiters and line ends
Words(s) == Restrict(s, {i \in DOMAIN s : s[i] \notin {"<![CDATA[", "]]>", "\n"}})

\* An address is one text: line ends stand around it, and so does a CDATA section
Enclosed(s) ==
    /\ s \in Seq(STRING)
    /\ \A i \in DOMAIN s : s[i] \in {"<![CDATA[", "]]>"} =>
           s[1] = "<![CDATA[" /\ s[Len(s)] = "]]>" /\ i = (IF s[i] = "<![CDATA[" THEN 1 ELSE Len(s))
    /\ \A i, j \in DOMAIN Words(s), k \in DOMAIN s : i < k /\ k < j => s[k] # "\n"

\* The links of an entry are addresses
Linked(entry) ==
    CASE entry.form = "rss" ->
             LET link == Tag(entry, "link")
                 page == InOrder(Words(link))
             IN  link = Absent \/ (Enclosed(link) /\ (page = None \/ IsAbsolute(page)))
      [] entry.form = "atom" ->
             /\ entry.links \in Seq(ToSet(entry.links))
             /\ \A l \in ToSet(entry.links) : l.href \in Seq(STRING) /\ IsAbsolute(l.href)
      [] OTHER -> entry.form = "json"

\* XML: in the text of an element and in an attribute, "&amp;" means "&", and in a CDATA
\* section itself; in JSON it means itself
HasSection(s) == "<![CDATA[" \in ToSet(s)
HasEscape(s) == "&amp;" \in ToSet(s)

Unescaped(s) == [i \in DOMAIN s |-> IF s[i] = "&amp;" THEN "&" ELSE s[i]]

LinkText(s) == InOrder(IF HasSection(s) THEN Words(s) ELSE Unescaped(Words(s)))

\* The links to the page of an entry: in Atom the alternates, and those without a rel
ToPage(entry) == {l \in ToSet(entry.links) : l.rel \in {"alternate", "none"}}

PageLinks(entry) ==
    CASE entry.form = "atom" -> {Unescaped(l.href) : l \in ToPage(entry)}
      [] entry.form = "rss" -> {LinkText(s) : s \in {Tag(entry, "link")} \ {Absent}} \ {None}
      [] entry.form = "json" -> {FirstFound(entry, <<"url", "external_url">>)} \ {Absent, None}

\* Some tags of feedburner begin with "feed" too
FeedOf(entry, burner) ==
    LET marks == CASE entry.form = "json" -> {"{"} [] entry.form = "atom" -> {"<feed"}
                   [] OTHER -> {"<rss", "<channel"}
    IN  [form |-> entry.form, entries |-> <<entry>>,
         marks |-> marks \cup (IF burner THEN {"<feed"} ELSE {})]

-----------------------------------------------------------------------------
(* What the code does not understand.                                      *)

Broken(s) == {"<![CDATA[", "\n"} \subseteq ToSet(s)

\* A CDATA section of several lines; a tag in plain text; brackets or tags escaped
\* twice; brackets that look like a tag when the code strips tags a second time, or in
\* plain text
Legible(content, writing, atom) ==
    LET symbols == ToSet(content)
        text == Read(content)
    IN
    /\ writing \in InCdata => "line" \notin symbols
    /\ writing \in {"text", "text in CDATA"} => "tag" \notin symbols
    /\ writing = "html escaped" => symbols \cap {"less", "more"} = {} /\ (atom \/ "tag" \notin symbols)
    /\ atom \/ writing = "text in CDATA" => ~\E i, j \in DOMAIN text : IsTag(text, i, j)

\* A query that has a slash, or follows the host; a link without a path
PathIsClear(href, base) ==
    /\ base.query # <<>> => HasPath(base) /\ ~Contains(base.query, "/")
    /\ href[1] \notin {"?", "#"}

\* An escape in a link, which is stored as it is written, outside CDATA; RSS taken for
\* Atom, or a link in a CDATA section of several lines; an alternate behind another link
\* whose rel is behind the href; a url without a string
Understood(entry, burner) ==
    CASE entry.form = "rss" ->
             LET link == Tag(entry, "link")
             IN  ~burner /\ ~Broken(link) /\ (HasSection(link) \/ ~HasEscape(link))
      [] entry.form = "atom" ->
             /\ \A l \in ToPage(entry) : ~HasEscape(l.href)
             /\ \/ \E l \in ToSet(entry.links) : l.rel = "alternate" /\ l.relFirst
                \/ entry.links # <<>> /\ entry.links[1].rel \in {"alternate", "none"}
      [] entry.form = "json" -> Tag(entry, "url") # None
=============================================================================
