----------------------------- MODULE UrlResolver -----------------------------
(***************************************************************************)
(* The URL resolver (src/utils/url_resolver.rs), which the ingest step     *)
(* asks for the page behind the link of an item.                           *)
(*                                                                         *)
(* A web says of each URL where its redirects land, whether the page there *)
(* is served, and the URLs of its meta refresh and of its canonical link.  *)
(* A request may fail; a URL outside the web, as one found in a page that  *)
(* is relative, is never joined to its page, and its requests always fail. *)
(***************************************************************************)
EXTENDS Naturals

None == "none"

MaxDepth == 3

\* SHORTENER_DOMAINS: only links to these hosts are resolved
Shorteners == {"t.co"}

\* Mutant: a page that cannot be read, or says nothing, hides the refresh that led there
RefreshedOnly(refresh, further) == further

\* The result of the recursion, or the refresh itself if there is none
Refreshed(refresh, further) == {IF r = None THEN refresh ELSE r : r \in further}

Known(web) == DOMAIN web \cup {web[u].refresh : u \in DOMAIN web}

\* resolve_recursive: what it may return for each URL, by what it may return one
\* deeper.  HEAD or GET tells where the redirects land; only a page that was served
\* without one is read
Answers(web, failures, deeper) ==
    LET page(u) ==
            IF web[u].refresh # None THEN Refreshed(web[u].refresh, deeper[web[u].refresh])
            ELSE {web[u].canonical}
        answer(u) ==
            CASE web[u].lands # u -> {web[u].lands}
              [] web[u].lands = u /\ web[u].served -> page(u)
              [] OTHER -> {None}
    IN  [u \in Known(web) |->
            IF u \notin DOMAIN web THEN {None}
            ELSE answer(u) \cup (IF failures THEN {None} ELSE {})]

\* At MaxDepth it returns at once
Outcomes(web, failures) ==
    LET outcomes[d \in 0 .. MaxDepth] ==
            IF d = MaxDepth THEN [u \in Known(web) |-> {None}] ELSE Answers(web, failures, outcomes[d + 1])
    IN  outcomes

\* resolve_source_url
ResolveSourceUrl(web, url, failures) ==
    IF url \in Shorteners THEN Outcomes(web, failures)[0][url] ELSE {None}

\* Mutant: nothing takes the place of what the resolver does not give
SourceUrlsResolved(web, link, failures) == ResolveSourceUrl(web, link, failures)

\* The URLs an item may be stored under: what the resolver returns, or the link
SourceUrls(web, link, failures) ==
    {IF r = None THEN link ELSE r : r \in ResolveSourceUrl(web, link, failures)}

-----------------------------------------------------------------------------
(* The reference: the path of pages a reader is led along.                 *)

\* Where a page leads, itself if nowhere
Hop(web, u) ==
    CASE u \notin DOMAIN web -> u
      [] u \in DOMAIN web /\ web[u].lands # u -> web[u].lands
      [] u \in DOMAIN web /\ web[u].lands = u /\ web[u].served /\ web[u].refresh # None -> web[u].refresh
      [] u \in DOMAIN web /\ web[u].lands = u /\ web[u].served /\ web[u].refresh = None
             /\ web[u].canonical # None -> web[u].canonical
      [] OTHER -> u

Path(web, url) ==
    LET path[k \in 0 .. MaxDepth + 1] == IF k = 0 THEN url ELSE Hop(web, path[k - 1])
    IN  path

Refreshes(web, u) ==
    u \in DOMAIN web /\ web[u].lands = u /\ web[u].served /\ web[u].refresh # None

\* Each hop along the path ends at a page that leads nowhere, except the refreshes
\* the recursion has depth for
Settled(web, url) ==
    LET path == Path(web, url) IN
    \A k \in 0 .. MaxDepth :
        \/ Hop(web, path[k + 1]) = path[k + 1]
        \/ Refreshes(web, path[k]) /\ k < MaxDepth - 1
=============================================================================
