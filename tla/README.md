# A TLA+ model of ingest-pipeline

ingest-pipeline fetches RSS feeds on a schedule, stores their articles, fetches the page of
each article, rejects duplicates and leaves the rest for qualification. Its parts are separate
processes or tasks that meet only in PostgreSQL: a jobs table with row locks, and article rows
whose status columns are written one statement at a time, mostly without transactions. What is
hard about it is therefore what happens between two statements: another worker's statement, a
failure, a crash, a retry. That is what these modules model.

## The system

| part | state | operations | interacts with |
|---|---|---|---|
| job queue (`queue/jobs.rs`) | rows of `jobs`: status, attempts, run_at, priority, locked_by | create_job, pick_jobs, complete_job, fail_job; by hand mark_dead, retry_job, cleanup_dead_jobs | written by every other part |
| worker loop (`queue/worker.rs`, `workers/mod.rs`) | its batch and the job being processed | wake (NOTIFY or a timer), pick, process one by one, settle, stop | queue; the handlers of the two stages |
| ingest stage (`ingest_worker.rs`, `ingest_step.rs`) | rows of `raw_articles`, the feed's cursor and fetch status | fetch, filter, insert_batch, create_job per article, move the cursor | feed servers, URL resolver, queue |
| content stage (`content_worker.rs`, `content_step.rs`) | three status columns, duplicate_of, the stored text, `rejected_articles` | load, compare, fetch, compare again, qualify or reject | web servers, queue, rows of other workers' articles |
| scheduler (`scheduler.rs`, `run_queries.rs`) | `pipeline_runs`, `pipeline_step_runs` | plan the next slot, sleep, fail zombies, clean, guard, start a run, create jobs, prune | queue, article rows and their foreign keys |
| pure helpers (`dedup.rs`, `url_resolver.rs`, `rss_parser.rs`, `text_extract.rs`, `word_count.rs`) | none | functions of their input and of the network | called by the stages |
| API, configuration, start-up | none | one health route; `main` ends the process when one task ends | |

What is hard, part by part (the `hazards` of `PROJECT.json` give the lines):

* *queue*: picks that overlap, rows updated by id alone, a worker that dies or an answer that
  is lost between the pick and the outcome, the account of attempts;
* *ingest*: an INSERT whose error is swallowed, jobs created after the rows, two jobs of one
  feed, a cursor that is read and written far apart;
* *content*: decisions taken on rows read before a long fetch, three UPDATEs for one decision,
  ignored errors, retries that meet what an earlier attempt wrote, a server that never answers;
* *scheduler*: a sleep that ends before its slot, runs nothing completes, a crash in the middle
  of a fan-out, foreign keys that fail a clean-up;
* *pure helpers*: several small transformations in one order for inputs nobody enumerated
  (spellings of a URL, writings of a text, nested or cut elements, links of every kind), a
  recursion over the network that may fail at every request.

What makes each part correct: a job is in one worker's hands and its attempts are counted; a
settled job stays settled; a job nobody failed ends. Every listed item is stored or is lost in a
way one can name; every stored row has its job. An article is decided once, its statuses agree,
and of two articles with one URL at most one is announced. Every slot has one run, and a run
covers its feeds. Each helper agrees with a reference that says what its caller takes it for.

## The modules

`JobQueue` models the jobs table and the workers. An action is a statement of `jobs.rs` or a
step of `Worker::run` and `process_job`. A pick is two actions, `PickSelect` (the CTE, which
chooses and locks) and `PickUpdate`, so that picks overlap as in the database; a row locked in
between blocks every other UPDATE of it. `PickFails` and `SettleFails` are statements that
return an error, with or without their effect; `Stop` and `Crash` end a worker. Time is
`wait[j]`, the seconds to `run_at`. `starts`, `since` and `touched` are history variables.

`JobLifecycle` is what the queue promises: a job waits, is leased to one worker at a time, and
its lease ends in success, a counted failure, or abandonment. `JobQueueRefinement` maps the rows
and loops of `JobQueue` to it. The two stages instantiate `JobLifecycle` for their jobs instead
of the rows, so what they show rests on the refinement and not on a queue of their own. A
refined queue has no manual operations (`MaxAdmin = 0`).

`ContentStep` models `handle_content_job` and `process_content_step`: `pc` says which statement
or fetch a worker is at, each is an action, several workers interleave, and each statement may
fail before or after it took effect (`StepFails` when the error is returned, a disjunct of the
statement's own action when it is ignored). URLs are what `normalize_url` returns, titles are
classes of similar titles.

`IngestStep` models `handle_ingest_job` and `process_ingest_step` for one feed, whose cursor and
unique (url, source_id) rows are the shared state. The feed grows while jobs run. A row's id
names the job and the attempt that inserted it, as a fresh UUID does. What the URL resolver
returns is any of the item's `Resolutions`.

`Scheduler` models `run_scheduler` and `handle_scheduled_run`, one action per statement, with a
clock that ticks inside seconds, and article rows only as far as the foreign keys of the two
clean-ups see them.

The pure helpers have a module each, without variables: operators that follow the code's
functions, and below them a *reference*, which says what the result means and is written
without a look at how the code gets there.

* `Cron`: `get_next_cron_time` and `parse_cron_next` on instants. Reference: when cron fires.
  `SoundIsCron` justifies the `NextSlot` of `Scheduler`, the least slot after now, for the
  expressions it holds for.
* `Dedup`: `normalize_url`, `tokenize`, `jaccard_similarity`, `check_duplicate`, on URLs and
  titles as sequences of pieces. Reference: the parts of a URL and which of them count. It
  justifies the URLs of `ContentStep`, which are what `normalize_url` returns.
* `TextExtract`: the region, the replacements of `extract_text`, `clean_title`, on pages as
  sequences of tags and words. What is left of a page is a set of its positions, so that a
  replacement is a set to take away. Reference: what is outside the elements to strip.
* `FeedParser`: the format, the sources of the fields, the order in which CDATA, tags and
  entities are undone, the links. A text is a function from positions to pieces, and what is cut
  leaves a gap. Reference: what a text says and in how many ways it may be written, what a
  relative link means (RFC 3986), which link is an entry's page.
* `UrlResolver`: the recursion over redirects, meta refreshes and canonical links. Reference:
  the path of pages a reader is led along. `MCIngestStep` takes the URLs of its items from it.

`Helpers` calls them: each step of it is one call with its input, and its invariants compare
the result with the reference. Where the code does not do what the reference says, a
precondition says so by name (`Sound`, `Flat`, `Legible`, `PathIsClear`, `Understood`,
`Settled`); the list is below.

The theorems are in `JobQueueProofs`, `JobQueueRefinementProofs`, `ContentStepProofs`,
`IngestStepProofs`, `SchedulerProofs`, `HelpersProofs` (wake-ups, order of comparison, titles),
`UrlProofs` (normal forms, links, the resolver) and `TextProofs` (pages, fields, entries). The `MC` modules give the constants of the instances.

## The runs

| run | instance | shows |
|---|---|---|
| `queue_safety` | 2 jobs, one without a handler, 2 workers, batches of 2, 3 attempts, 1 crash or stop, 1 failed statement, 1 manual operation | exclusive ownership, the account of attempts and starts, settled is final, delays respected, and that the invariant of the proofs holds |
| `queue_refinement` | 2 jobs of 2 priorities taken one at a time, 2 workers, 2 attempts, 1 crash, 1 failed statement | the queue implements `JobLifecycle`, with its fairness if handlers return; then jobs settle |
| `queue_crash` (violation) | 1 job, 2 workers, 1 crash | a job whose worker crashes is never retried nor dead |
| `content` | 3 articles (two with one URL, one canonical URL that leads to the newer third, one page title), lists of one row, 2 workers, 1 failure or crash | announced articles are complete, one per URL but for what the limit hides, later duplicates are caught, statuses agree but for the quality after a failure, decisions are final, the invariant of the proofs holds, and without failures all are decided |
| `content_silent` (violation) | 2 articles, no failures, fairness of the code alone | a worker waits for ever for a server that does not answer |
| `content_original` (violation) | 2 articles with one URL | each is marked the duplicate of the other |
| `content_retry` (violation) | 1 article is enough | the retry of a failed extraction does nothing and succeeds |
| `ingest` | 3 items (two that may resolve to one page, one without a link, a fractional date, two of one date), a limit of 2, 2 jobs, 2 workers, 1 failure or crash | the cursor passes only what is stored or lost in a named way; so for finished jobs; rows have their jobs; the invariant of the proofs holds |
| `ingest_partial` (violation) | the same | a row that never gets its process_article job |
| `scheduler` | 2 slots, 2 articles, 3 feeds, 1 failure or crash | one run per slot, no slot skipped, complete fan-out, and that the invariant of the proofs holds |
| `scheduler_blocked` (violation) | the same without failures | no run ever again after one undeletable article |
| `helpers` | every half minute of a day with 10 steps and 6 lists of hours; 2,560 spellings of URLs; pairs of 60 articles; pairs of 87 headlines; 25,000 pages nested three deep; 156 texts in 5 writings; 8 links from 96 addresses; 9,381 entries; 4,400 webs with a short link | the twelve properties of the pure helpers |

A violation run checks one sentence of the repository; `findings` quotes it. The counterexamples
in words:

* *`queue_crash`*. `pick_jobs` sets the row to running and the worker dies. Only pending rows are
  ever picked and nothing reads `locked_at`.
* *`content_original`*. Articles a and b have one URL and both are ingested; `get_comparable_articles`
  returns ingested rows and also duplicates (filed as `qualified`), so the step marks a as the
  duplicate of b, then b as the duplicate of a: the story is lost.
* *`content_silent`*. The step builds a client with a time-out of 15 seconds and then uses the
  one of the configuration, which the worker always passes and which has none. A request that
  is accepted and never answered never ends, and the jobs of the worker's batch wait with it.
* *`content_retry`*. `extraction_failed` is written before the retryable error is returned, and
  the guard at the head of the step skips that status.
* *`ingest_partial`*. `insert_batch` succeeds, `create_job` fails, and the retry counts the rows
  as known.
* *`scheduler_blocked`*. An ingested article older than seven days is the original of a duplicate;
  the foreign key fails the orphan clean, whose `?` ends every scheduled run before `start_run`.

One disagreement is stated by an exception instead of a run: `update_quality_status` succeeds, the
UPDATE after it fails, another article of the URL is inserted meanwhile, and the retry makes
the first one its duplicate. It keeps the quality `qualified`, which the README of the repository says
is set after a validated deduplication and which the import filters on. `StatusesAgree` excepts the
quality of a row from there on (`faults > 0`), and TLC reaches such a row in `content`.

The passing properties say what remains true around those. `OneAnnouncedPerUrl` is the harmless
half of the race in `content_original`: never two, unless the older one is no more among the
newest 500 rows (`ComparableLimit`) when the other is compared. `PassedIsStored` and `DoneIsStored` name the
ways an item is lost (the limit of 30, a late listing, the swallowed INSERT error) and show there
is no fourth. `NoSlotSkipped` shows that zombie marking makes up for runs nothing completes when
slots are more than two hours apart. `RowsAreQueued` shows that two jobs that insert the same URL
do not leave the row to each other. `LaterDuplicateIsCaught` says which duplicates the two
comparisons of the content step see together when the steps do not overlap: `FirstSees` what the
URLs and the titles in the feeds tell, `SecondSees` what the pages tell, of the rows the limits
leave in the lists (`Alike` counts what may crowd a row out of the second one).

The properties of `helpers` are the promises the stages rely on: one story has one normal URL,
it does not matter which of two articles comes first, no visible text is lost and no other kept,
a field is what the feed says, a link leads where its author meant, an entry becomes an item,
and an item is stored under a page its link leads to.

### Bounds

`MaxGone`, `MaxFaults`, `MaxAdmin` (queue), `MaxFaults` (the stages and the scheduler: failures
and crashes together), `Horizon` and `MaxBusy` (scheduler) bound
what is unbounded; every one is a guard named as a constant. One fault is enough for each
partial failure to be followed by its retry, and a second worker or job for each race; two
attempts give one retry and one exhaustion, three give two delays. In `queue_safety` a batch
takes all due jobs, in `queue_refinement` the LIMIT and the priority decide; the theorems are for
any number. Two jobs of a feed are a retry and the next slot's job.

The limits 500 and 20 of the dedup queries are constants of `ContentStep`. In `content` both are 1.
A list that is not full holds all there is, so while the third article is absent (or not yet
stored, for the second query) the properties hold without exception; once it is there, the newer third
row keeps the first of the two with one URL out of the list, and TLC reaches two announced rows of
one URL. A row crowded out of the similar ones without being a duplicate of another takes a fourth
article; that the limit of the second query excuses nothing else is left to `LaterCaught`, and
that the order by `created_at` matters to `OnePerUrl`. Rows of one batch share `created_at`, and the database may order them in any
way; how the second query ranks similar titles is not modelled, so any of them may be returned.

In `helpers` the inputs are bounded and not the steps. `Plan` starts from every instant of a day
because the hours and midnight are where the arithmetic can go wrong. A URL has up to three
segments, empty ones at any place; an article's neighbours in similarity are similar and the ends of the chain are not.
Pages nest three elements that are stripped or chosen as the region, so that a region can be cut
by each and hold each. A text has three pieces, enough for a pair of brackets around a word. A
web has every link between three pages, or a line of five, two more than the recursion follows.

`CHECK_DEADLOCK FALSE` is said everywhere: an instance has finitely many jobs, articles or slots
and stops when they are used up; that nothing is stuck earlier is what `EveryJobSettles`,
`EveryArticleDecided` and `NoSlotSkipped` say. A state of `helpers` is one finished call.

### Fairness

`JobQueue`: `CodeSpec` has weak fairness of `Tick` (time passes) and of each worker's `Move`, all
it does but wait for a handler: the poll timer ticks every second whatever LISTEN does, and the
database answers. That a handler returns (`HandlersReturn`) is an assumption on the servers it
asks, since their client has no time-out, and `content_silent` shows that it can fail;
`FairSpec` adds it, and the liveness properties are of `FairSpec`. Failures and crashes are never
fair, and a crashed worker's actions are disabled. The jobs of an instance are finite, so nothing
is said of a job that an endless stream of jobs of higher priority keeps waiting.

`ContentStep` keeps the two apart. `CodeSpec` has the fairness the code justifies, of each
worker's `Move`, everything but a fetch: statements are answered, and a free worker leases what
waits, as the fairness of `Move` in `JobQueue` gives it. `FairSpec` adds `ServersAnswer`. `EveryArticleDecided`
holds of `FairSpec`, and `FetchEnds` fails of `CodeSpec`: the assumption is needed.

`IngestStep`, `Scheduler` and `Helpers` have safety properties only; `NoSlotSkipped` bounds the
time to a run by the clock instead.

## The proofs

For any jobs, workers, priorities, batch size, max_attempts and bounds, assuming only that
`Jobs` is finite, the null values are no members, `max_attempts` is positive and the powers of
two of the delays are numbers, none above that of `max_attempts` (the provers know no powers),
`JobQueueProofs` proves of `Spec`:

* `TypeCorrect`: `TypeOK`;
* `Ownership`: `ExclusiveOwnership`;
* `Inductive`: `IInv`;
* `Exhaustion`: `DeadWhenExhausted`;
* `BoundedStarts`: `StartsAccounted`;
* `Finality`: `SettledIsFinal`;
* `Delayed`: `BackoffRespected`.

and `JobQueueRefinementProofs`, assuming besides that `MaxAdmin = 0`:

* `Refinement`: `ImplementsLifecycle`.

`ExclusiveOwnership` is not inductive: it does not say why a pick cannot take a job another worker
holds. `OwnershipInv` does: locked rows are still pending, two picks have locked different rows,
a held row is running and carries its holder's id, and the loop's shape ties `pc` to `batch` and
`cur`. A new pick takes pending, unlocked rows, so none that is held. `AccountInv` says for each
status how attempts and starts compare, and for each held job whether its current start is
already charged; it needs ownership, since `fail_job` charges by id and only the one holder may
call it. `DelayInv` says that a row locked by a pick is due and that what a retry has waited and has
still to wait make up its delay. Each step lemma (`TypeStep`, `OwnershipStep`, `AccountStep`,
`DelayStep`) has a step per action; the theorems combine them with PTL. `Finality` and `Delayed` need
no more than `IInv` and `RowStep`, which lists all that a step does to an untouched row: `complete_job` and
`fail_job` have no status guard, and only ownership makes the row they update a running one. Jobs in `touched` are excepted throughout: `retry_job` on a running
job does put it in two workers' hands.

`Refinement` needs that exception away, hence `MaxAdmin = 0`: `JobLifecycle` is what the queue
promises to the stages, which know of no administrator. Its states are computed from the rows and
from the workers' variables: a pending row is waiting, a running one is leased by the worker that holds
it, or abandoned when none does. `BarInv` says job by job what that comes to; it rests on
`ExclusiveOwnership`, without which the holder would not be determined. `StepRefines` then goes
through the steps of the queue: `PickUpdate` is the one that moves several jobs at once
(`TakenBatch`), and `JobLifecycle` takes them as a set, whether the worker then goes on, misses
the answer or is gone; `LetGo` covers what leaves a running row with no worker: a crash with jobs
in hand, or a `complete_job` or `fail_job` that never reaches the database; a failure below `max_attempts` is a return to waiting.
What a worker does between its statements changes nothing there.

Of `ContentStep`, for any articles, jobs, workers, sources, limits and faults, whatever the URLs,
titles and dates, `ContentStepProofs` proves:

* `Inductive`: `IInv`;
* `TypeCorrect`: `TypeOK`;
* `Complete`: `AnnouncedIsComplete`;
* `Agreement`: `StatusesAgree`;
* `OnePerUrl`: `OneAnnouncedPerUrl`;
* `LaterCaught`: `LaterDuplicateIsCaught`;
* `Final`: `DecisionIsFinal`.

It assumes `OneJobAssumption`: an article has one job. The ingest step calls `create_job` only for
rows it has just inserted, and nothing in `process_content_step` would keep two jobs of one article
apart: all the statements update by id alone. `LeaseInv` ties a worker to the job the queue
leased to it. With it, `UndecidedInv` says that from the status guard to the decision the article's
status is the one the guard accepted, and which of the three UPDATEs are behind the worker:
`AnnouncedIsComplete`, `StatusesAgree` and `DecisionIsFinal` follow step by step; for the quality
status, an article has one worker (`OneWorker`), so the one that set it is the one that announces
it unless a fault comes between.
`OneAnnouncedPerUrl` is not inductive, since two workers could both be on the way: `PassedInv` says
it already of articles that are past the first comparison. Whoever passes it has no other row of
its URL in its list; one that is announced or undecided and not in the list is missing because the
limit is reached by rows at least as new (`MissingIsOld`), and those only become more (`NewerStays`).
`ComparedInv` says what each of the two comparisons has excluded for the articles that were
stored in the list of the first; the second uses other rows and other titles and may fall back on
the first, and `ComparedStep` shows that both ways find what `SecondSees` names (`SeenIsFound`) unless
the row is crowded out (`CrowdedOut`), which it then stays (`AlikeStays`). The limits are any positive
numbers; the rows and their dates are any, but finitely many, so that they can be counted.

Of `Scheduler`, for any feeds, slots, articles and faults, `SchedulerProofs` proves:

* `Inductive`: `IInv`;
* `TypeCorrect`: `TypeOK`;
* `OnePerSlot`: `OneRunPerSlot`;
* `FannedOut`: `RunIsFannedOut`;
* `NoneSkipped`: `NoSlotSkipped`, under `SlotsApart`.

It assumes some slot after the horizon and `PaceAssumption`: a pass of the loop and a second take no
longer than the two hours of a zombie. The guard of the loop has no idea of slots, so `OneRunPerSlot`
needs the clock. `PaceInv` says that a pass is for a slot less than a second after its
sleep, and runs no longer than its bound; `RunsInv`, that a run is started no earlier than a second
before a slot and no later than the bound after it, and that any two are more than the zombie age
apart, because the later one found the earlier one failed. Two runs of one slot would be closer. The
distance of the slots plays no part. `FanOutInv` follows the feeds that still need a job.
That a set of numbers has a least and a greatest member comes from the library's `WFMin`.

`NoSlotSkipped` does need the distance of the slots. `SlotsApart` asks for a zombie age, a pass and a
second between two of them, and for the first after the bound of a pass, when the process has
planned; the default schedule (2, 6, 14 and 20 o'clock) leaves four hours at least, a zombie is two hours old.
It is a hypothesis of the theorem and not of the module, since closer slots are legal and
merely skipped. `SlotInv` says which slot a pass is for (`PassFor`): those before it have their runs
(`HasRun`), and it has its own once the guard has found a run, because a run young enough to stop
the pass cannot be of the slot before (`YoungRun`), or once the pass is over. Planning goes to
the next slot and to none beyond it (`PlanServes`), though the sleep is cut to whole seconds
and the loop may wake twice for one slot.

Of `IngestStep`, for any items, dates, resolutions, jobs, workers, limit, attempts and faults,
assuming only types, a positive limit and number of attempts, and null values that are no
members, `IngestStepProofs` proves:

* `Inductive`: `IInv`;
* `TypeCorrect`: `TypeOK`;
* `CursorIsSafe`: `PassedIsStored`;
* `CompletedIsStored`: `DoneIsStored`;
* `NoRowForgotten`: `RowsAreQueued`.

`PassedIsStored` is about a cursor that several jobs of one feed move, and each from a feed it
has fetched earlier. What carries it is `DatesCovered`: whatever is older than the newest date a worker has
fetched was in the feed it saw, and whatever its cutoff leaves out is stored already. For that,
every date in use is the date of a listed item (`DatesListed`): an item listed later with an older
date is then late, and counts as lost, whoever holds that date. `SeenBy` follows the items a job
has seen on their way, from the window to the batch to the table; an item leaves the way only when it is stored, or lost
in the insert whose error is only logged. `DoneIsStored` is where that way ends. `RowsAreQueued`
goes over two lemmas: without a failure a worker that owes a row its job goes on owing it or
creates it (`OwedStays`), and the one that inserts a row owes it (`InsertedIsOwed`).

Of the pure helpers the theorems are about all inputs and not the enumerated ones.
`HelpersProofs` assumes that steps and hours are natural numbers, and that neither a headline nor
the name of a site holds a separator:

* `WakesAsCron`: `SoundIsCron`;
* `WakesLater`: `NextIsAhead`;
* `EitherWay`: `OrderDoesNotMatter`;
* `HeadlinesDecide`: `HeadlineDecides`.

The lemmas behind them (`SoundFires`, `CronIsAhead`) hold at every instant, not only on the one day
of `Plan`. They read an instant as day, hour and minute (`Reading`) and know that it has one such
reading (`OneReading`). `NextMultiple` says that the code's quotient gives the least multiple ahead; when n divides the
hour that multiple is at most 60, so nothing is lost in the turn of the hour. In a list of
hours, `FirstToCome` is where the loop stops; that nothing fires before it needs the order.
`EitherWay` needs nothing of `normalize_url` or of the tokens: the four comparisons of URLs mirror
each other, and the similarity of titles is that of two sets. For `HeadlinesDecide`, `clean_title`
looks for its three separators in turn and finds only the one of the title (`Parted`); that one stands
once (`SeparatorAt`), so there are two parts (`TwoParts`) and the longer one is kept (`LongerKept`).

`UrlProofs` assumes that the delimiters stand between the parts of a URL or of an address and never
in one, and that a web says of every link where it lands. Those are assumptions about how an input is
divided into parts; any URL can be so divided. It proves:

* `NormalizedKey`: `NormalizedUrlIsKey`;
* `LinksResolve`: `LinkResolves`;
* `EndsAtPage`: `ResolvedIsFinal`;
* `StaysOnPath`: `ResolvedIsOnPath`.

For `NormalizedKey` a URL is its scheme, its host, its path and what follows, joined (`Splits`):
`normalize_url` stops at the first delimiter, and neither host nor path has one, so it cuts exactly the
tail (`TailCut`) and then the slashes at the end of the path; what it joins again is the normal form
of the parts that count (`Normalized`, `KeyOf`). `LinksResolve` goes through the kinds of links. The code
looks for the first slash behind the scheme, which ends the host (`HostCut`), or for the last one,
which ends the directory unless the query has one (`DirectoryCut`); `AddressOf` and `BaseOf` say what that
means for the parts of the address.

The recursion of the resolver has the depth of a constant, three, so `ThreeDeep` and `PathHops` unroll it: the function
with those four values satisfies its equation. `AnswerLeads` is one level of it: an answer is
nothing, where the page's hop leads, or an answer of that page. Without failures a page has one
answer (`OneAnswer`, `LeftToRefresh`).

`TextProofs` assumes that pages are nested, that texts are made of the five symbols, and that the links of
an entry are addresses; pages, texts and lists of links are of any length. It proves:

* `VisibleKept`: `NothingVisibleIsLost`;
* `NoiseCut`: `NoiseIsStripped`;
* `FieldSays`: `FieldIsText`;
* `EntryGetsLink`: `EntryIsRead`.

No induction over the page is needed, because a replacement is given by positions: from an opening tag
to the first closing one of its kind behind it, among the positions that are left. In a nested page that
is never beyond the element's own end (`NestedFacts`), so whatever is cut is inside an element to strip; that is
`VisibleKept`, and five replacements are five steps. `NoiseCut` needs the converse, that
an element is cut as a whole or not at all: `Whole` and `Gone` are what each replacement keeps, for a page
that is `Flat`. `FieldSays` follows a text piece by piece: `Unwrapped` takes the delimiters of its CDATA section
away, `StrippedAndDecoded` the tags and one level of escapes, `StrippedAgain` the tags that Atom
escapes, and after each step the text is again a function whose pieces are known. `Legible` excludes what
the code takes for a tag and is none. `EntryGetsLink` has one argument per format: an enclosed address
survives the CDATA section and the line ends (`AddressIsEnclosed`) and means itself (`LinkIsWords`), the chosen Atom link leads to the page
(`PageIsFound`), the two keys of JSON are read alike (`FirstOfTwo`); `ItemIsReturned` is the detection of the
format and the one item.

Every safety invariant and action property of the passing runs is proved. Only model-checked is
liveness (`EveryJobSettles`, `ImplementsFairLifecycle`,
`EveryArticleDecided`), which is out of the provers' reach.

## Not modelled, and noticed on the way

* rs-trafilatura, an external library whose answer the content step prefers to `extract_text`,
  also when it is too short and the other would do; the regular expressions that find tags,
  attributes and metadata; dates beyond the forms `parse_date` knows; the word count; the
  environment variables; the health route.
* Two schedulers: `README.md:419` of the repository allows one, though nothing in the code
  keeps a second from passing the guard.
* `run_queries.rs` has statements without a caller outside tests (completing runs and steps,
  with a count of running and of failed steps in two statements);
  they are left out because no process executes them.
* The `content_too_short` branch of the content step cannot be reached, since the loop before it
  accepts only texts that are long enough; `README.md:241` of the repository describes it.
* `cleanup_old_duplicates` deletes rows that `rejected_articles` refers to, so it fails as
  soon as one old duplicate has its log row; `Prune` models that, and the scheduled run is complete by then.
* `*/n` with an n that does not divide 60 drifts (`*/7` fires at :03 after :56), an n above 60
  fires every hour, hours out of order are skipped (`14,6` never fires at 6), an hour above 23
  panics once the hours before it are past, and the other three fields are ignored. `SoundIsCron`
  excludes exactly these expressions; `NextIsAhead` holds for them too, but for the panic. A single
  hour (`0 6 * * *`) has no comma and means the default hours.
* The comparison after the fetch looks for rows with a similar page title and then compares
  this article's page title with their *feed* titles (`content_step.rs:291`). Two pages with one
  title whose feed titles differ are found in one order of processing and not in the other.
* `check_duplicate` is symmetric (`OrderDoesNotMatter`), but similarity is not transitive, so
  the classes of `ContentStep` are a simplification. `normalize_url` keeps http and https apart
  and drops the query, which on some sites is all that tells pages apart.
* `clean_title` (its lengths are bytes in the code and words in the model) loses a headline shorter than the name of the site; then the site's stories are
  duplicates of each other. `HeadlineDecides` asks for longer headlines.
* An element inside another of its kind ends the outer one early, and the rest stays in the
  text; so does an element the region cuts in two, as an article inside an aside. `Flat`
  excludes these; `NothingVisibleIsLost` holds for them too.
* `unwrap_cdata` does not see a section of several lines, since its dot stops at a line end, and
  the text is lost with the markers, as if they were a tag. HTML escaped in RSS keeps its tags,
  entities escaped twice stay, and brackets of a text that look like a tag are cut (`Legible`).
* A feed of RSS with tags of feedburner contains `<feed`, is parsed as Atom and has no items; a
  `null` url of a JSON item hides its external_url; an Atom link whose `href` precedes its `rel`
  is not seen as the alternate; the entities of a link are never decoded (`rss_parser.rs:58`,
  `:183`), so `?a=1&amp;b=2` is stored with its `&amp;`, another address (`Understood`). A slash in the query of a feed's address, or a
  query right behind the host, spoils its relative links, and a link that is only a query or a
  fragment is joined to the directory instead of the page (`PathIsClear`).
* A redirect or canonical link is not followed further, a refresh at most three times, and a
  relative refresh or canonical URL is stored without its page (`Settled`).
* Slots less than two hours apart (`*/15`) are skipped while the last run is not a zombie yet.

## Plan

1. Done: the queue with its abstraction, refinement and theorems; the content stage and
   the scheduler with theirs; the ingest stage; the pure helpers.
2. Done: the theorems of the refinement of `JobLifecycle` without manual operations, of
   `IngestStep`, of `NoSlotSkipped`, and of all helpers. Liveness stays with TLC.
3. Not planned any more: a module for LISTEN and the timer, as the wake-up of `JobQueue` may come
   at any time and the timer runs whatever LISTEN does; the bookkeeping of runs nobody calls; the
   stages composed on shared rows, as they share rows only by status and only the orphan clean
   takes a row from under a worker, after seven days.

The number of runs is kept small: a new module shares a run with an existing one where one instance
can answer both questions.
