-------------------------------- MODULE Dedup --------------------------------
(***************************************************************************)
(* Deduplication (src/utils/dedup.rs).  A URL is a sequence of pieces: the *)
(* scheme with its "://", delimiters, and names, some in upper case.  A    *)
(* title is a sequence of words.                                           *)
(*                                                                         *)
(* ContentStep.tla takes URLs as normalize_url leaves them and titles as   *)
(* classes of similar ones.                                                *)
(***************************************************************************)
EXTENDS Naturals, FiniteSets, SequencesExt

\* to_lowercase, on the pieces and the words that have an upper case
LowerCase == [x \in {"HTTPS://", "HOST", "PATH", "Storm", "The"} |->
                CASE x = "HTTPS://" -> "https://" [] x = "HOST" -> "host" [] x = "PATH" -> "path"
                  [] x = "Storm" -> "storm" [] x = "The" -> "the"]

Lower(s) == [i \in DOMAIN s |-> IF s[i] \in DOMAIN LowerCase THEN LowerCase[s[i]] ELSE s[i]]

\* trim_end_matches and trim_start_matches of a piece
TrimEnd(s, piece) == SubSeq(s, 1, SelectLastInSeq(s, LAMBDA x : x # piece))
TrimStart(s, piece) == Reverse(TrimEnd(Reverse(s), piece))

-----------------------------------------------------------------------------
(* normalize_url.                                                          *)

\* "//host" takes the scheme https
WithScheme(url) ==
    IF IsPrefix(<<"/", "/">>, url) THEN <<"https://">> \o SubSeq(url, 3, Len(url)) ELSE url

\* The piece of s after its first at which one of the delimiters stands
StopAt(s, delimiters) ==
    LET at == SelectInSubSeq(s, 2, Len(s), LAMBDA x : x \in delimiters)
    IN  IF at = 0 THEN Len(s) + 1 ELSE at

\* The regex asks for a scheme and a host
HasHost(s) == s # <<>> /\ s[1] \in {"http://", "https://"} /\ StopAt(s, {"/", "?", "#"}) > 2

\* Mutant: the end of the path keeps its slashes
NormalizeSlashed(url) ==
    LET lower == Lower(WithScheme(TrimStart(TrimEnd(url, " "), " "))) IN
    IF HasHost(lower) THEN SubSeq(lower, 1, StopAt(lower, {"?", "#"}) - 1) ELSE lower

\* Scheme, host and path in lower case, without query, fragment and final slashes
NormalizeUrl(url) ==
    LET lower == Lower(WithScheme(TrimStart(TrimEnd(url, " "), " "))) IN
    IF HasHost(lower) THEN TrimEnd(SubSeq(lower, 1, StopAt(lower, {"?", "#"}) - 1), "/") ELSE lower

-----------------------------------------------------------------------------
(* Titles.                                                                 *)

StopWords == {"the", "a", "of", "le"}

\* tokenize splits at white space and at ":", so that " :: " leaves nothing, but
\* not at the other separators of titles
Tokens(title) ==
    LET piece(w) == CASE w = " - " -> "-" [] w = " | " -> "|" [] OTHER -> w
    IN  {piece(w) : w \in ToSet(Lower(title)) \ {" :: "}} \ StopWords

\* Mutant: the share is taken of the tokens of one title
SimilarToFirst(a, b) == 5 * Cardinality(Tokens(a) \cap Tokens(b)) >= 4 * Cardinality(Tokens(a))

\* jaccard_similarity(a, b) >= 0.8; two titles without a token are similar
Similar(a, b) ==
    5 * Cardinality(Tokens(a) \cap Tokens(b)) >= 4 * Cardinality(Tokens(a) \cup Tokens(b))

-----------------------------------------------------------------------------
(* check_duplicate.                                                        *)

NoUrl == <<>>

\* Mutant: the canonical URL of the article is not looked up among the others
MatchesUrlOneWay(article, existing) ==
    LET url == NormalizeUrl(article.url) IN
    \/ NormalizeUrl(existing.url) = url
    \/ existing.canonical # NoUrl /\ NormalizeUrl(existing.canonical) = url

\* The four comparisons of URLs
MatchesUrl(article, existing) ==
    LET url == NormalizeUrl(article.url)
        canonical == NormalizeUrl(article.canonical)
    IN
    \/ NormalizeUrl(existing.url) = url
    \/ existing.canonical # NoUrl /\ NormalizeUrl(existing.canonical) = url
    \/ article.canonical # NoUrl /\ NormalizeUrl(existing.url) = canonical
    \/ /\ article.canonical # NoUrl /\ existing.canonical # NoUrl
       /\ NormalizeUrl(existing.canonical) = canonical

Reason(article, existing) ==
    CASE MatchesUrl(article, existing) -> "url_exact_match"
      [] ~MatchesUrl(article, existing) /\ Similar(article.title, existing.title) -> "title_similarity"
      [] OTHER -> "distinct"

\* The first article of the list that matches, 0 if none does, and why
CheckDuplicate(article, existing) ==
    LET first == SelectInSeq(existing, LAMBDA e : Reason(article, e) # "distinct")
    IN  [of |-> first, reason |-> IF first = 0 THEN "distinct" ELSE Reason(article, existing[first])]

-----------------------------------------------------------------------------
(* The reference: a URL by its parts, how it may be written, and when two  *)
(* are one page for the code.                                              *)

Parts(hosts, paths, tails) ==
    [scheme : {<<"http://">>, <<"https://">>, <<"HTTPS://">>, <<"/", "/">>},
     host : hosts, path : paths, tail : tails, pad : {<<>>, <<" ">>}]

Written(parts) ==
    parts.pad \o parts.scheme \o <<parts.host>> \o parts.path \o parts.tail \o parts.pad

\* What is left of the parts: the case, the query, the fragment and the slashes at the
\* end of the path do not count, the scheme does
Key(parts) ==
    [scheme |-> IF parts.scheme = <<"http://">> THEN <<"http://">> ELSE <<"https://">>,
     host |-> Lower(<<parts.host>>)[1], path |-> Lower(TrimEnd(parts.path, "/")),
     tail |-> <<>>, pad |-> <<>>]
=============================================================================
