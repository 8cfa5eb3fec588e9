---------------------------- MODULE MCContentStep ----------------------------
(* Instances of ContentStep for TLC: which articles share a URL, a title or a date. *)
EXTENDS ContentStep, TLC

CONSTANTS a1, a2, a3, j1, j2, j3

\* One job per article
OwnJobs2 == j1 :> a1 @@ j2 :> a2
OwnJobs3 == j1 :> a1 @@ j2 :> a2 @@ j3 :> a3

\* Two feeds carry the same URL; a third article has its own
SharedUrl == [a \in Articles |-> IF a = a3 THEN a3 ELSE "u1"]

\* The titles in the feeds differ, and so do those of the pages, or all pages have the
\* title of a1 in its feed
FeedTitles == [a \in Articles |-> a]
PageTitles == [a \in Articles |-> a]
OnePageTitle == [a \in Articles |-> a1]

\* The page of a2 names the URL of a3 as its canonical one
Canonicals == [a \in Articles |-> IF a = a2 THEN a3 ELSE NoUrl]

\* The rows of one batch share their date; a3 is newer
Batches == [a \in Articles |-> IF a = a3 THEN 2 ELSE 1]

=============================================================================
