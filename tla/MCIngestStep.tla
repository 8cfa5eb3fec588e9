----------------------------- MODULE MCIngestStep -----------------------------
(* Instances of IngestStep for TLC: what the feed lists, and where it leads. *)
EXTENDS IngestStep, TLC

CONSTANTS i1, i2, i3

Resolver == INSTANCE UrlResolver

\* The short link of i2 leads to the page of i1 if the requests are answered
Page == [lands |-> "u1", served |-> TRUE, refresh |-> "none", canonical |-> "none"]
Web == "u1" :> Page @@ "t.co" :> [Page EXCEPT !.lands = "t.co", !.refresh = "u1"]

\* i3 has no link
SharedPage ==
    i1 :> Resolver!SourceUrls(Web, "u1", TRUE) @@ i2 :> Resolver!SourceUrls(Web, "t.co", TRUE)
        @@ i3 :> {}

\* i1 is older than i2 and i3, which have one date
Dates == i1 :> 1 @@ i2 :> 2 @@ i3 :> 2

Symmetry == Permutations(Workers) \cup Permutations(Jobs)
=============================================================================
