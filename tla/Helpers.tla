------------------------------- MODULE Helpers -------------------------------
(***************************************************************************)
(* The helpers of the stages are functions of their input, and of the web. *)
(* Each step here is a call of one of them; the properties compare what it *)
(* returns with what the caller relies on.                                 *)
(***************************************************************************)
EXTENDS Naturals, FiniteSets, Sequences, Cron

CONSTANTS
    Steps, HourLists, \* of the expressions "*/n * * * *" and "0 h1,h2,... * * *"
    Hosts, Paths, Tails, \* of URLs; a tail is a query or a fragment
    Articles,         \* records of a URL, a canonical URL and a title
    Headlines, Site,  \* titles without a separator, the name of a site
    Documents,        \* pages of nested elements
    Directories, Files, Queries, Hrefs, \* of the addresses of feeds, links in them
    Contents,         \* texts, by what they say
    Entries,          \* entries of feeds, with the form of their feed
    Webs, Links       \* what the URLs lead to, links of items

VARIABLE call

Dedup == INSTANCE Dedup
Extract == INSTANCE TextExtract
Feed == INSTANCE FeedParser
Resolver == INSTANCE UrlResolver

ASSUME CronAssumption == Steps \subseteq Nat /\ HourLists \subseteq Seq(Nat)
\* The delimiters stand between the parts of a URL, white space around it
ASSUME UrlsAssumption ==
    /\ Hosts \subseteq STRING \ {"/", "?", "#", " "}
    /\ \A p \in Paths :
          p \in Seq(STRING \ {"?", "#", " "}) /\ (p # <<>> => p[1] = "/")
    /\ \A t \in Tails :
          t \in Seq(STRING) /\ (t # <<>> => t[1] \in {"?", "#"} /\ t[Len(t)] # " ")
\* The separators stand between headline and site, never in one
ASSUME TitlesAssumption ==
    \A t \in Headlines \cup {Site} :
        t \in Seq(STRING) /\ \A sep \in ToSet(Extract!Separators) : ~Contains(t, sep)
\* The pages are nested, whichever elements they have
ASSUME DocumentsAssumption == \A page \in Documents : Extract!Nested(page)
\* So they do between the parts of an address; what is empty is no link
ASSUME AddressesAssumption ==
    /\ \A d \in Directories : d \in Seq(STRING) /\ (d # <<>> => d[1] = "/")
    /\ \A f \in Files : f \in Seq(STRING \ {"/"})
    /\ \A q \in Queries : q \in Seq(STRING)
    /\ \A h \in Hrefs : h \in Seq(STRING) /\ h # <<>>
\* Texts of any length; the links of an entry are addresses, as JoinLink has the others
ASSUME ContentsAssumption == \A c \in Contents : c \in Seq(Feed!Symbols)
ASSUME EntriesAssumption == \A e \in Entries : Feed!Linked(e)
\* A web says of every link where it lands
ASSUME WebsAssumption ==
    \A web \in Webs : Links \subseteq DOMAIN web /\ \A u \in DOMAIN web : web[u].lands # Resolver!None

Idle == [of |-> "none"]

Init == call = Idle

\* The scheduler plans its next wake-up, at any instant of a day
Plan ==
    \E e \in Exprs(Steps, HourLists), t \in 0 .. Day - 1 :
        call' = [of |-> "next_cron_time", expr |-> e, now |-> t]

Normalize ==
    \E parts \in Dedup!Parts(Hosts, Paths, Tails) : call' = [of |-> "normalize_url", parts |-> parts]

Compare == \E a, b \in Articles : call' = [of |-> "check_duplicate", one |-> a, other |-> b]

CleanTitles ==
    \E g, h \in Headlines, s \in ToSet(Extract!Separators) :
        call' = [of |-> "clean_title", one |-> g, other |-> h, separator |-> s]

ExtractPage == \E d \in Documents : call' = [of |-> "extract_text", page |-> d]

CleanText ==
    \E c \in Contents, w \in Feed!Writings, atom \in BOOLEAN :
        call' = [of |-> "text", content |-> c, writing |-> w, atom |-> atom]

JoinLink ==
    \E h \in Hrefs, b \in Feed!Bases(Hosts, Directories, Files, Queries) :
        call' = [of |-> "feed_link", href |-> h, base |-> b]

\* A feed of one entry; an RSS feed may have tags of feedburner, whose names begin
\* with "feed"
Parse ==
    \E e \in Entries, burner \in BOOLEAN :
        call' = [of |-> "parse_feed", entry |-> e, burner |-> burner]

Resolve == \E web \in Webs, u \in Links : call' = [of |-> "resolve_source_url", web |-> web, link |-> u]

Next ==
    /\ call = Idle
    /\ \/ Plan \/ Normalize \/ Compare \/ CleanTitles \/ ExtractPage
       \/ CleanText \/ JoinLink \/ Parse \/ Resolve

Spec == Init /\ [][Next]_call

-----------------------------------------------------------------------------
(* Properties of the scheduler's instants.                                 *)

\* For a sound expression the scheduler wakes at the next instant cron would, at
\* whatever instant it plans, over hour ends and midnights: no fire is left out
\* and none is added.  For a form the code does not know, a single hour among
\* them, it says so of the default hours.
SoundIsCron ==
    call.of = "next_cron_time" /\ Sound(call.expr) =>
        LET due == NextCronTime(call.expr, call.now) IN
            Fires(call.expr, due) /\ \A t \in call.now + 1 .. due - 1 : ~Fires(call.expr, t)

\* Whatever the expression, unless it panics, the next run is in the future, and
\* for "*/n" it is at most n minutes away, also for an n that does not divide the
\* hour or exceeds it: a pass is never planned for the slot it has begun in.
NextIsAhead ==
    call.of = "next_cron_time" /\ ~Panics(call.expr, call.now) =>
        LET due == NextCronTime(call.expr, call.now) IN
            /\ due > call.now
            /\ call.expr.form = "every" /\ call.expr.step # 0
               => due - call.now <= call.expr.step * Minute

-----------------------------------------------------------------------------
(* Properties of the deduplication.                                        *)

\* However a URL is written (scheme left out, upper case, white space, a query, a
\* fragment, slashes at the end), normalize_url gives its one normal form: equal
\* forms are one page, and different schemes, hosts or paths stay apart.
NormalizedUrlIsKey ==
    call.of = "normalize_url" =>
        Dedup!NormalizeUrl(Dedup!Written(call.parts)) = Dedup!Written(Dedup!Key(call.parts))

\* Of two articles it does not matter which one comes first: check_duplicate finds
\* one the duplicate of the other for the same reason either way, although the
\* article and the list have their canonical URLs and titles in different places.
\* Workers take the jobs in any order.
OrderDoesNotMatter ==
    call.of = "check_duplicate" =>
        Dedup!CheckDuplicate(call.one, <<call.other>>) = Dedup!CheckDuplicate(call.other, <<call.one>>)

\* The name of the site in two page titles neither makes two stories one nor hides
\* that they are: after clean_title the headlines alone decide, if they are longer
\* than the name.  A shorter headline is lost, and then all stories of the site are
\* duplicates of each other.  Lengths count words here and bytes in the code.
HeadlineDecides ==
    call.of = "clean_title" /\ Len(call.one) > Len(Site) /\ Len(call.other) > Len(Site) =>
        \A first, second \in BOOLEAN :
            LET title(headline, before) ==
                    IF before THEN Site \o <<call.separator>> \o headline
                    ELSE headline \o <<call.separator>> \o Site
            IN  Dedup!Similar(Extract!CleanTitle(title(call.one, first)),
                              Extract!CleanTitle(title(call.other, second)))
                    <=> Dedup!Similar(call.one, call.other)

-----------------------------------------------------------------------------
(* Properties of the text extraction.                                      *)

\* The replacements of extract_text lose no word a reader sees in the region: an
\* element to strip is cut at its first closing tag, which never is beyond its own,
\* also when the region or an earlier replacement cut other elements in two.
NothingVisibleIsLost ==
    call.of = "extract_text" =>
        LET visible == Extract!Visible(call.page)
            kept == Extract!Words(Extract!ExtractText(call.page))
        IN  \A i \in DOMAIN visible : i \in DOMAIN kept /\ kept[i] = visible[i]

\* No word of an element to strip is left, unless the page has one inside another of
\* its kind, whose rest is then left behind, or the region begins or ends inside one.
NoiseIsStripped ==
    call.of = "extract_text" /\ Extract!Flat(call.page) =>
        Extract!Words(Extract!ExtractText(call.page)) = Extract!Visible(call.page)

-----------------------------------------------------------------------------
(* Properties of the feed parser.                                          *)

\* The text of a field is what it says, whichever way the feed writes it, but for:
\* a CDATA section of several lines, which is not unwrapped; brackets of the text
\* that look like a tag once they are decoded; what is escaped twice; HTML that is
\* escaped in RSS, whose tags stay.
FieldIsText ==
    call.of = "text" /\ Feed!Legible(call.content, call.writing, call.atom) =>
        LET written == Feed!Written(call.content, call.writing) IN
        (IF call.atom THEN Feed!AtomText(written) ELSE Feed!RssText(written)) = Feed!Says(call.content)

\* A link, without dot segments, means the page RFC 3986 says, relative to the https
\* address of the feed, unless a slash in the query of the address is taken for one of
\* its path, or the link is a query or a fragment alone.
LinkResolves ==
    call.of = "feed_link" /\ Feed!PathIsClear(call.href, call.base) =>
        Feed!NormalizeUrl(call.href, Feed!Address(call.base)) = Feed!Resolved(call.href, call.base)

\* An entry that links to its page becomes an item with that link: through the
\* detection of the format, the entries it looks for, the source of the link and
\* its text.  Understood names what is excepted, among it a link in which "&" is
\* escaped: no link is decoded, so the item has another address.
EntryIsRead ==
    call.of = "parse_feed" /\ Feed!Understood(call.entry, call.burner) =>
        LET links == Feed!PageLinks(call.entry)
            items == Feed!ParseFeed(Feed!FeedOf(call.entry, call.burner), <<"https:", "/", "/", "host">>)
        IN  links = {} \/ (1 \in DOMAIN items /\ items[1].link \in links)

-----------------------------------------------------------------------------
(* Properties of the URL resolver.                                         *)

\* As long as no request fails, an item is stored under the page its link leads to
\* at last, which leads nowhere else, so that two links to one story meet; unless
\* a redirect or a canonical link leads to a page that leads on, or the refreshes
\* are more than three.
ResolvedIsFinal ==
    /\ call.of = "resolve_source_url"
    /\ call.link \in Resolver!Shorteners
    /\ Resolver!Settled(call.web, call.link)
    => Resolver!SourceUrls(call.web, call.link, FALSE) = {Resolver!Path(call.web, call.link)[Resolver!MaxDepth + 1]}

\* Whichever requests fail, and however the pages lead in circles, the item is
\* stored under a page its link leads through: it is found again, and never lost.
ResolvedIsOnPath ==
    call.of = "resolve_source_url" =>
        LET path == Resolver!Path(call.web, call.link) IN
        Resolver!SourceUrls(call.web, call.link, TRUE) \subseteq {path[k] : k \in DOMAIN path}
=============================================================================
