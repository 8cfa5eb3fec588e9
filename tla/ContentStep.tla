----------------------------- MODULE ContentStep -----------------------------
(***************************************************************************)
(* The content stage: handle_content_job (src/workers/content_worker.rs)   *)
(* runs process_content_step (src/pipeline/content_step.rs) on one article *)
(* per process_article job.  Each database statement and each fetch is a   *)
(* step of its own, so that the steps of several workers interleave, and   *)
(* each statement may fail, before or after it took effect.                *)
(*                                                                         *)
(* The job queue is the one JobLifecycle promises: a job is leased to one  *)
(* worker at a time, is charged for each failure, and is abandoned when    *)
(* its worker crashes or its outcome cannot be written.                    *)
(*                                                                         *)
(* URLs stand for what normalize_url returns, titles for classes of titles *)
(* that are similar.                                                       *)
(***************************************************************************)
EXTENDS Naturals, FiniteSets

CONSTANTS
    Jobs,        \* process_article jobs
    Articles,    \* ids of the raw_articles rows ever inserted
    Workers,     \* worker ids; a restarted process draws a fresh one
    NoWorker, NoJob, NoArticle, NoUrl,
    ArticleOf,   \* the article_id in each job's payload
    Url,         \* raw_articles.url
    Title,       \* raw_articles.title
    CanonicalOf, \* the canonical URL found in the article's page, or NoUrl
    CleanTitle,  \* the title found in the page
    CreatedAt,   \* raw_articles.created_at: when its ingest step began, rows of a batch share it
    ComparableLimit, \* rows get_comparable_articles returns at most: 500
    SimilarLimit,    \* rows find_similar_articles returns at most: 20
    Sources,     \* how many sources of a page are tried: the strategies, then Hetzner
    MaxAttempts, \* jobs.max_attempts
    MaxFaults    \* bound: database statements that fail and workers that crash, together

ASSUME ArticlesAssumption ==
    /\ ArticleOf \in [Jobs -> Articles]
    /\ NoArticle \notin Articles /\ NoJob \notin Jobs /\ NoWorker \notin Workers
    /\ \A a \in Articles : Url[a] # NoUrl
\* The ingest step calls create_job once for an article it inserted, and never again
ASSUME OneJobAssumption == \A j, k \in Jobs : ArticleOf[j] = ArticleOf[k] => j = k
ASSUME LimitsAssumption ==
    /\ IsFiniteSet(Articles) /\ CreatedAt \in [Articles -> Nat]
    /\ ComparableLimit \in Nat \ {0} /\ SimilarLimit \in Nat \ {0}
ASSUME NumbersAssumption ==
    Sources \in Nat \ {0} /\ MaxAttempts \in Nat \ {0} /\ MaxFaults \in Nat

VARIABLES
    processing,   \* raw_articles.processing_status, "absent" before the INSERT
    quality,      \* raw_articles.quality_status
    duplicate,    \* raw_articles.duplicate_status
    duplicateOf,  \* raw_articles.duplicate_of
    stored,       \* articles whose content, title_clean and canonical_url are stored
    rejected,     \* articles with a row in rejected_articles
    pc,           \* where each worker is in the step
    job,          \* the job a worker is processing
    comparable,   \* the answer of get_comparable_articles, kept to the end of the step
    canonicals,   \* those of them that had a canonical_url then
    original,     \* the article the current one is a duplicate of
    tried,        \* sources tried so far in the step
    faults,       \* database failures and crashes so far
    phase, holder, tries  \* the queue

row     == <<processing, quality, duplicate, duplicateOf, stored, rejected>>
local   == <<job, comparable, canonicals, original, tried>>
queue   == <<phase, holder, tries>>
vars    == <<row, pc, local, faults, queue>>

Queue == INSTANCE JobLifecycle

ProcessingStatus ==
    {"ingested", "extracted", "pending_qualification", "qualified", "rejected", "extraction_failed"}

Pcs == {"idle", "loading", "comparing", "fetching", "giving_up", "deduplicating", "enriching",
        "logging", "storing", "qualifying", "finishing", "ok", "err", "gone"}

Article(w) == ArticleOf[job[w]]

Init ==
    /\ processing = [a \in Articles |-> "absent"]
    /\ quality = [a \in Articles |-> "pending"]
    /\ duplicate = [a \in Articles |-> "pending"]
    /\ duplicateOf = [a \in Articles |-> NoArticle]
    /\ stored = {}
    /\ rejected = {}
    /\ pc = [w \in Workers |-> "idle"]
    /\ job = [w \in Workers |-> NoJob]
    /\ comparable = [w \in Workers |-> {}]
    /\ canonicals = [w \in Workers |-> {}]
    /\ original = [w \in Workers |-> NoArticle]
    /\ tried = [w \in Workers |-> 0]
    /\ faults = 0
    /\ Queue!LCInit

-----------------------------------------------------------------------------
(* The two queries, and check_duplicate on their answers.                  *)

\* The URL of one is the URL of the other or the canonical URL of the other
SameUrl(url, canonical, c, withCanonical) ==
    \/ Url[c] = url
    \/ withCanonical /\ CanonicalOf[c] = url
    \/ canonical # NoUrl /\ Url[c] = canonical
    \/ canonical # NoUrl /\ withCanonical /\ CanonicalOf[c] = canonical

Matches(url, canonical, title, candidates, withCanonicals) ==
    {c \in candidates : SameUrl(url, canonical, c, c \in withCanonicals) \/ Title[c] = title}

\* Mutant: articles still to be processed are not considered
ComparableDecided(a) ==
    {c \in Articles \ {a} :
        processing[c] \in {"extracted", "pending_qualification", "qualified"}}

\* Rows both dedup queries consider, other than a itself
Comparable(a) ==
    {c \in Articles \ {a} :
        processing[c] \in {"ingested", "extracted", "pending_qualification", "qualified"}}

\* Rows find_similar_articles considers: those whose stored clean title is similar
Similar(a) == {c \in Comparable(a) \cap stored : CleanTitle[c] = CleanTitle[a]}

\* LIMIT: all the rows, or as many as the limit lets through
Limited(rows, limit) ==
    IF Cardinality(rows) <= limit THEN {rows}
    ELSE {list \in SUBSET rows : Cardinality(list) = limit}

\* get_comparable_articles: ORDER BY created_at DESC LIMIT 500
NewestComparable(a) ==
    {list \in Limited(Comparable(a), ComparableLimit) :
        \A c \in list, d \in Comparable(a) \ list : CreatedAt[c] >= CreatedAt[d]}

\* find_similar_articles: ORDER BY similarity LIMIT 20.  How similar two titles of a
\* class are is not modelled, so any rows may be the first
MostSimilar(a) == Limited(Similar(a), SimilarLimit)

\* check_duplicate stops at the first match: in a list ordered by created_at, one of
\* the newest
First(matches) == {c \in matches : \A d \in matches : CreatedAt[d] <= CreatedAt[c]}

-----------------------------------------------------------------------------
(* The producers of rows and jobs: the ingest stage.                       *)

\* insert_batch comes before the jobs of its articles
Insert(a) ==
    /\ processing[a] = "absent"
    /\ \A j \in Jobs : ArticleOf[j] = a => phase[j] = "absent"
    /\ processing' = [processing EXCEPT ![a] = "ingested"]
    /\ UNCHANGED <<quality, duplicate, duplicateOf, stored, rejected, pc, local, faults, queue>>

SubmitJob(j) ==
    /\ Queue!Submit(j)
    /\ UNCHANGED <<row, pc, local, faults>>

\* A worker picks a job
Begin(w, j) ==
    /\ pc[w] = "idle"
    /\ Queue!Lease(w, {j})
    /\ pc' = [pc EXCEPT ![w] = "loading"]
    /\ job' = [job EXCEPT ![w] = j]
    /\ UNCHANGED <<row, comparable, canonicals, original, tried, faults>>

-----------------------------------------------------------------------------
(* The step.                                                               *)

Goto(w, from, to) ==
    /\ pc[w] = from
    /\ pc' = [pc EXCEPT ![w] = to]

\* A statement fails, or a worker crashes
Fault == faults < MaxFaults /\ faults' = faults + 1

\* Mutant: the step does not look at the status
LoadAny(w) ==
    /\ Goto(w, "loading", "comparing")
    /\ UNCHANGED <<row, local, faults, queue>>

\* get_by_id, and the guard on the status: an article already processed, or one
\* that does not exist, ends the job as a success
Load(w) ==
    /\ Goto(w, "loading", "comparing")
    /\ processing[Article(w)] \in {"ingested", "extracted"}
    /\ UNCHANGED <<row, local, faults, queue>>

Skip(w) ==
    /\ Goto(w, "loading", "ok")
    /\ processing[Article(w)] \notin {"ingested", "extracted"}
    /\ UNCHANGED <<row, local, faults, queue>>

\* get_comparable_articles and the deduplication before the fetch, on the raw
\* title and without a canonical URL
Compare(w) ==
    LET a == Article(w)
        found(list) == Matches(Url[a], NoUrl, Title[a], list, stored)
    IN
    /\ pc[w] = "comparing"
    /\ \E list \in NewestComparable(a) :
           /\ comparable' = [comparable EXCEPT ![w] = list]
           /\ canonicals' = [canonicals EXCEPT ![w] = list \cap stored]
           /\ \/ \E c \in First(found(list)) :
                    Goto(w, "comparing", "enriching") /\ original' = [original EXCEPT ![w] = c]
              \/ found(list) = {} /\ Goto(w, "comparing", "fetching") /\ UNCHANGED original
    /\ tried' = [tried EXCEPT ![w] = 0]
    /\ UNCHANGED <<row, job, faults, queue>>

\* Mutant: a source too many
FetchBeyond(w) ==
    /\ pc[w] = "fetching"
    /\ tried[w] <= Sources
    /\ tried' = [tried EXCEPT ![w] = @ + 1]
    /\ UNCHANGED <<row, pc, job, comparable, canonicals, original, faults, queue>>

\* One source is tried: its text is long enough, or the next source is tried.  A
\* text that is too short counts as none, so the branch that rejects an article
\* for it, after the loop, is never taken
Fetch(w) ==
    /\ tried[w] < Sources
    /\ tried' = [tried EXCEPT ![w] = @ + 1]
    /\ Goto(w, "fetching", "deduplicating") \/ Goto(w, "fetching", "fetching")
    /\ UNCHANGED <<row, job, comparable, canonicals, original, faults, queue>>

AllFailed(w) ==
    /\ tried[w] = Sources
    /\ Goto(w, "fetching", "giving_up")
    /\ UNCHANGED <<row, local, faults, queue>>

\* update_processing_status(ExtractionFailed); its own error is ignored
SetExtractionFailed(a) ==
    /\ processing' = [processing EXCEPT ![a] = "extraction_failed"]
    /\ UNCHANGED <<quality, duplicate, duplicateOf, stored, rejected>>

\* Mutant: the failure is neither stored nor reported
GiveUpSilently(w) ==
    /\ Goto(w, "giving_up", "ok")
    /\ UNCHANGED <<row, local, faults, queue>>

GiveUp(w) ==
    /\ Goto(w, "giving_up", "err")
    /\ \/ SetExtractionFailed(Article(w)) /\ UNCHANGED faults
       \/ (SetExtractionFailed(Article(w)) \/ UNCHANGED row) /\ Fault
    /\ UNCHANGED <<local, queue>>

\* Mutant: the raw title is compared again
DeduplicateRaw(w) ==
    LET a == Article(w)
        found(candidates, withCanonicals) ==
            Matches(Url[a], CanonicalOf[a], Title[a], candidates, withCanonicals)
        decide(matches, originals) ==
            \/ \E c \in originals :
                   Goto(w, "deduplicating", "enriching") /\ original' = [original EXCEPT ![w] = c]
            \/ matches = {} /\ Goto(w, "deduplicating", "storing") /\ UNCHANGED original
        known == found(comparable[w], canonicals[w])
    IN
    /\ pc[w] = "deduplicating"
    /\ \/ /\ \E list \in MostSimilar(a) : decide(found(list, stored), found(list, stored))
          /\ UNCHANGED faults
       \/ decide(known, First(known)) /\ Fault
    /\ UNCHANGED <<row, job, comparable, canonicals, tried, queue>>

\* The deduplication after the fetch, among the rows with a similar title; when
\* that query fails, among the rows read before the fetch
Deduplicate(w) ==
    LET a == Article(w)
        found(candidates, withCanonicals) ==
            Matches(Url[a], CanonicalOf[a], CleanTitle[a], candidates, withCanonicals)
        decide(matches, originals) ==
            \/ \E c \in originals :
                   Goto(w, "deduplicating", "enriching") /\ original' = [original EXCEPT ![w] = c]
            \/ matches = {} /\ Goto(w, "deduplicating", "storing") /\ UNCHANGED original
        known == found(comparable[w], canonicals[w])
    IN
    /\ pc[w] = "deduplicating"
    /\ \/ /\ \E list \in MostSimilar(a) : decide(found(list, stored), found(list, stored))
          /\ UNCHANGED faults
       \/ decide(known, First(known)) /\ Fault
    /\ UNCHANGED <<row, job, comparable, canonicals, tried, queue>>

\* Mutant: enrich_from_duplicate leaves the processing status alone
SetDuplicateOnly(a, c) ==
    /\ duplicate' = [duplicate EXCEPT ![a] = "duplicate"]
    /\ duplicateOf' = [duplicateOf EXCEPT ![a] = c]
    /\ UNCHANGED <<processing, quality, stored, rejected>>

\* enrich_from_duplicate and then insert_from_article; the errors of both are ignored
SetDuplicate(a, c) ==
    /\ processing' = [processing EXCEPT ![a] = "qualified"]
    /\ duplicate' = [duplicate EXCEPT ![a] = "duplicate"]
    /\ duplicateOf' = [duplicateOf EXCEPT ![a] = c]
    /\ UNCHANGED <<quality, stored, rejected>>

Enrich(w) ==
    /\ Goto(w, "enriching", "logging")
    /\ \/ SetDuplicate(Article(w), original[w]) /\ UNCHANGED faults
       \/ (SetDuplicate(Article(w), original[w]) \/ UNCHANGED row) /\ Fault
    /\ UNCHANGED <<local, queue>>

SetRejected(a) ==
    /\ rejected' = rejected \cup {a}
    /\ UNCHANGED <<processing, quality, duplicate, duplicateOf, stored>>

LogRejection(w) ==
    /\ Goto(w, "logging", "ok")
    /\ \/ SetRejected(Article(w)) /\ UNCHANGED faults
       \/ (SetRejected(Article(w)) \/ UNCHANGED row) /\ Fault
    /\ UNCHANGED <<local, queue>>

\* The three UPDATEs that qualify the article
SetExtraction(a) ==
    /\ stored' = stored \cup {a}
    /\ UNCHANGED <<processing, quality, duplicate, duplicateOf, rejected>>

SetQualified(a) ==
    /\ quality' = [quality EXCEPT ![a] = "qualified"]
    /\ UNCHANGED <<processing, duplicate, duplicateOf, stored, rejected>>

SetDistinct(a) ==
    /\ duplicate' = [duplicate EXCEPT ![a] = "distinct"]
    /\ processing' = [processing EXCEPT ![a] = "pending_qualification"]
    /\ UNCHANGED <<quality, duplicateOf, stored, rejected>>

Store(w) ==
    /\ Goto(w, "storing", "qualifying")
    /\ SetExtraction(Article(w))
    /\ UNCHANGED <<local, faults, queue>>

\* Mutant: the quality status is never set
QualifyForgotten(w) ==
    /\ Goto(w, "qualifying", "finishing")
    /\ UNCHANGED <<row, local, faults, queue>>

Qualify(w) ==
    /\ Goto(w, "qualifying", "finishing")
    /\ SetQualified(Article(w))
    /\ UNCHANGED <<local, faults, queue>>

Finish(w) ==
    /\ Goto(w, "finishing", "ok")
    /\ SetDistinct(Article(w))
    /\ UNCHANGED <<local, faults, queue>>

\* A statement whose error is returned fails, before or after its effect: the
\* result is ExtractionFailed, retryable
StepFails(w) ==
    /\ \/ Goto(w, "loading", "err") /\ UNCHANGED row
       \/ Goto(w, "comparing", "err") /\ UNCHANGED row
       \/ Goto(w, "storing", "err") /\ (SetExtraction(Article(w)) \/ UNCHANGED row)
       \/ Goto(w, "qualifying", "err") /\ (SetQualified(Article(w)) \/ UNCHANGED row)
       \/ Goto(w, "finishing", "err") /\ (SetDistinct(Article(w)) \/ UNCHANGED row)
    /\ Fault
    /\ UNCHANGED <<local, queue>>

-----------------------------------------------------------------------------
(* The job's outcome, written by the queue's worker.                       *)

Forget(w) ==
    /\ job' = [job EXCEPT ![w] = NoJob]
    /\ comparable' = [comparable EXCEPT ![w] = {}]
    /\ canonicals' = [canonicals EXCEPT ![w] = {}]
    /\ original' = [original EXCEPT ![w] = NoArticle]
    /\ tried' = [tried EXCEPT ![w] = 0]

Return(w) ==
    /\ \/ Goto(w, "ok", "idle") /\ Queue!Succeed(job[w])
       \/ Goto(w, "err", "idle") /\ Queue!Fail(job[w])
    /\ Forget(w)
    /\ UNCHANGED <<row, faults>>

\* complete_job or fail_job fails: the job stays running, in nobody's hands
ReturnFails(w) ==
    /\ Goto(w, "ok", "idle") \/ Goto(w, "err", "idle")
    /\ Queue!Abandon(w, {job[w]})
    /\ Fault
    /\ Forget(w)
    /\ UNCHANGED row

Crash(w) ==
    /\ pc[w] \notin {"idle", "gone"}
    /\ pc' = [pc EXCEPT ![w] = "gone"]
    /\ Queue!Abandon(w, {job[w]})
    /\ Fault
    /\ Forget(w)
    /\ UNCHANGED row

-----------------------------------------------------------------------------
\* What a worker does without waiting for a web server
Move(w) ==
    \/ \E j \in Jobs : Begin(w, j)
    \/ Load(w) \/ Skip(w) \/ Compare(w) \/ AllFailed(w) \/ GiveUp(w) \/ Deduplicate(w)
    \/ Enrich(w) \/ LogRejection(w) \/ Store(w) \/ Qualify(w) \/ Finish(w) \/ Return(w)

Next ==
    \/ \E a \in Articles : Insert(a)
    \/ \E j \in Jobs : SubmitJob(j)
    \/ \E w \in Workers : Move(w) \/ Fetch(w) \/ StepFails(w) \/ ReturnFails(w) \/ Crash(w)

Spec == Init /\ [][Next]_vars

\* A free worker picks what is due and the database answers.  A fetch need not
\* end: the client of the configuration, which the step prefers to its own of 15
\* seconds, is built without a timeout
Fairness == \A w \in Workers : WF_vars(Move(w))

CodeSpec == Spec /\ Fairness

\* Of the environment: a web server answers, or closes the connection
ServersAnswer == \A w \in Workers : WF_vars(Fetch(w))

FairSpec == CodeSpec /\ ServersAnswer

-----------------------------------------------------------------------------
(* Properties.                                                             *)

TypeOK ==
    /\ processing \in [Articles -> ProcessingStatus \cup {"absent"}]
    /\ quality \in [Articles -> {"pending", "qualified"}]
    /\ duplicate \in [Articles -> {"pending", "distinct", "duplicate"}]
    /\ duplicateOf \in [Articles -> Articles \cup {NoArticle}]
    /\ stored \in SUBSET Articles
    /\ rejected \in SUBSET Articles
    /\ pc \in [Workers -> Pcs]
    /\ job \in [Workers -> Jobs \cup {NoJob}]
    /\ comparable \in [Workers -> SUBSET Articles]
    /\ canonicals \in [Workers -> SUBSET Articles]
    /\ original \in [Workers -> Articles \cup {NoArticle}]
    /\ tried \in [Workers -> 0 .. Sources]
    /\ faults \in 0 .. MaxFaults
    /\ phase \in [Jobs -> Queue!Phases]
    /\ holder \in [Jobs -> Workers \cup {NoWorker}]
    /\ tries \in [Jobs -> Nat]

\* An article announced for qualification is complete: the three UPDATEs of
\* step 7 come in this order, so no failure, retry, second job or crash leaves
\* a row that later stages read without its content or its quality status.
AnnouncedIsComplete ==
    \A a \in Articles :
        processing[a] = "pending_qualification" =>
            a \in stored /\ quality[a] = "qualified" /\ duplicate[a] = "distinct"

\* Other rows inserted by now that are at least as new as a, whatever has become of them
Newer(a, b) == {c \in Articles \ {a, b} : processing[c] # "absent" /\ CreatedAt[c] >= CreatedAt[a]}

\* Of two articles with the same URL one at most is announced, although each worker
\* decides on a list it read before a long fetch, unless the older one is no more among
\* the newest ComparableLimit rows, which is all a step looks at.
OneAnnouncedPerUrl ==
    \A a, b \in Articles :
        /\ a # b /\ Url[a] = Url[b] /\ CreatedAt[a] <= CreatedAt[b]
        /\ processing[a] = "pending_qualification" /\ processing[b] = "pending_qualification"
        => Cardinality(Newer(a, b)) >= ComparableLimit

\* Once the step has decided on an article, no later step, retry or second run
\* changes the decision: what the status guard of the step is for.  A failed extraction
\* counts as one, since the guard takes it for one.
DecisionIsFinal ==
    [][\A a \in Articles :
         processing[a] \in {"pending_qualification", "qualified", "extraction_failed"} =>
            processing'[a] = processing[a] /\ duplicateOf'[a] = duplicateOf[a]]_vars

\* The three statuses of an article agree, although they are written one by one: exactly
\* the articles marked as duplicates are filed as qualified without content work, exactly
\* the announced ones are distinct, and of these alone the quality is qualified, but while
\* the step is between its last two UPDATEs, or once a fault has kept it from the last one:
\* its retry may find that the article is a duplicate.
StatusesAgree ==
    \A a \in Articles :
        /\ duplicate[a] = "duplicate" <=> processing[a] = "qualified"
        /\ duplicate[a] = "distinct" <=> processing[a] = "pending_qualification"
        /\ duplicate[a] = "duplicate" <=> duplicateOf[a] # NoArticle
        /\ quality[a] = "qualified" =>
              \/ processing[a] = "pending_qualification"
              \/ \E w \in Workers : pc[w] = "finishing" /\ Article(w) = a
              \/ faults > 0

\* What the comparison before the fetch sees of an article b and a stored article a: b's
\* URL is one of a's, or their titles in the feeds are similar
FirstSees(a, b) == Url[b] \in {Url[a], CanonicalOf[a]} \/ Title[b] = Title[a]

\* What the comparison after it sees more, of articles whose pages have similar titles:
\* b's canonical URL is one of a's, or the title of b's page is that of a in the feed.
\* It does not see that two pages have one title if a's title in the feed is another
SecondSees(a, b) ==
    /\ CleanTitle[b] = CleanTitle[a]
    /\ \/ CanonicalOf[b] # NoUrl /\ CanonicalOf[b] \in {Url[a], CanonicalOf[a]}
       \/ CleanTitle[b] = Title[a]

\* Other stored rows whose page has a title similar to that of b's page
Alike(a, b) == {c \in stored \ {a, b} : CleanTitle[c] = CleanTitle[b]}

\* An article that is about to be announced is no duplicate the comparisons see of another
\* announced one that was in its list, stored, when its step read the others: whatever has
\* changed since, also when the step falls back on that list, unless SimilarLimit other rows
\* have a similar title.  Two articles of one story are both announced only if their steps
\* overlap, if the one was older than the newest ComparableLimit rows when the other was
\* compared, if it is crowded out like that, or if neither comparison sees what they share.
LaterDuplicateIsCaught ==
    \A w \in Workers, a \in Articles :
        /\ pc[w] \in {"storing", "qualifying", "finishing"}
        /\ a \in canonicals[w] /\ processing[a] = "pending_qualification"
        => /\ ~FirstSees(a, Article(w))
           /\ SecondSees(a, Article(w)) => Cardinality(Alike(a, Article(w))) >= SimilarLimit

\* Why the invariants hold (ContentStepProofs): what each stage of the step knows.

\* A worker in a step has the lease of its job
LeaseInv ==
    \A w \in Workers :
        /\ job[w] = NoJob <=> pc[w] \in {"idle", "gone"}
        /\ job[w] # NoJob => phase[job[w]] = "leased" /\ holder[job[w]] = w

\* Nobody decides on the article of a step but the step
UndecidedInv ==
    \A w \in Workers :
        /\ pc[w] \in {"comparing", "fetching", "giving_up", "deduplicating", "enriching",
                      "storing", "qualifying", "finishing"}
           => processing[Article(w)] \in {"ingested", "extracted"}
        /\ pc[w] = "enriching" => original[w] \in Articles
        /\ pc[w] \in {"qualifying", "finishing"} => Article(w) \in stored
        /\ pc[w] = "finishing" => quality[Article(w)] = "qualified"

\* An article that has passed the first comparison keeps the others of its URL from it, as
\* long as it is in their lists
Passed(a) ==
    \/ processing[a] = "pending_qualification"
    \/ \E w \in Workers :
          /\ pc[w] \in {"fetching", "giving_up", "deduplicating", "storing", "qualifying", "finishing"}
          /\ Article(w) = a

PassedInv ==
    \A a, b \in Articles :
        a # b /\ Url[a] = Url[b] /\ CreatedAt[a] <= CreatedAt[b] /\ Passed(a) /\ Passed(b) =>
            Cardinality(Newer(a, b)) >= ComparableLimit

\* What each comparison has excluded for the articles that were in the list of the first,
\* stored
ComparedBy(w) ==
    /\ canonicals[w] \subseteq comparable[w] \cap stored
    /\ \A a \in canonicals[w] :
        /\ pc[w] \in {"fetching", "deduplicating", "storing", "qualifying", "finishing"}
           => ~FirstSees(a, Article(w))
        /\ pc[w] \in {"storing", "qualifying", "finishing"}
           => \/ processing[a] \in {"extraction_failed", "rejected"}
              \/ ~SecondSees(a, Article(w))
              \/ Cardinality(Alike(a, Article(w))) >= SimilarLimit

ComparedInv ==
    /\ \A a \in stored : processing[a] # "absent"
    /\ \A w \in Workers : ComparedBy(w)

IInv ==
    /\ TypeOK /\ LeaseInv /\ UndecidedInv /\ PassedInv /\ ComparedInv
    /\ AnnouncedIsComplete /\ StatusesAgree

\* duplicate_of refers to the original article (README), so not to a duplicate
OriginalIsNotDuplicate ==
    \A a \in Articles :
        duplicate[a] = "duplicate" => duplicate[duplicateOf[a]] # "duplicate"

\* A failed extraction is retryable, so its job does not end as completed while
\* the article is still failed.
FailureIsRetried ==
    \A j \in Jobs : phase[j] = "done" => processing[ArticleOf[j]] # "extraction_failed"

\* A fetch ends, with a page or without: the README gives each strategy 15 seconds,
\* and a worker that waits for a server takes no other job.
FetchEnds == \A w \in Workers : pc[w] = "fetching" ~> pc[w] # "fetching"

\* Without crashes and database failures, and if servers answer, the jobs come to an
\* end, and each is dead or its article is decided, one way or another.
EveryArticleDecided ==
    [](faults = 0) =>
        <>[](\A j \in Jobs :
                \/ phase[j] \in {"absent", "dead"}
                \/ phase[j] = "done" /\ processing[ArticleOf[j]] # "ingested")
=============================================================================
