------------------------------ MODULE IngestStep ------------------------------
(***************************************************************************)
(* The ingest stage: handle_ingest_job (src/workers/ingest_worker.rs) runs *)
(* process_ingest_step (src/pipeline/ingest_step.rs) for one fetch_feed    *)
(* job: fetch the feed, leave out what is known or older than the cursor,  *)
(* insert the rest in one statement, create a process_article job for each *)
(* and move the cursor.  Each database statement is a step of its own and  *)
(* may fail, before or after it took effect.                               *)
(*                                                                         *)
(* The feed is one feed: rows are unique per (url, source_id) and the      *)
(* cursor is a column of the feed.  Several jobs for it are in the queue   *)
(* at once when a job is retried while the next scheduled run creates      *)
(* another.  The queue is the one JobLifecycle promises.                   *)
(***************************************************************************)
EXTENDS Naturals, FiniteSets

CONSTANTS
    Jobs,        \* fetch_feed jobs of the feed
    Workers,     \* worker ids; a restarted process draws a fresh one
    NoWorker, NoJob, NoId,
    Items,       \* entries the feed ever lists
    Urls,
    Resolutions, \* the URLs resolve_source_url may return for an item's link: {} without a link
    Date,        \* pub_date of an item, 0 for none
    Fractional,  \* dates with a fraction of a second, which parse_cutoff_date cannot read back
    MaxRecent,   \* MAX_RECENT_ITEMS
    MaxAttempts, \* jobs.max_attempts
    MaxFaults    \* bound: database statements that fail and workers that crash, together

ASSUME FeedAssumption ==
    /\ Resolutions \in [Items -> SUBSET Urls]
    /\ Date \in [Items -> Nat]
    /\ NoJob \notin Jobs /\ NoWorker \notin Workers
ASSUME NumbersAssumption ==
    MaxRecent \in Nat \ {0} /\ MaxAttempts \in Nat \ {0} /\ MaxFaults \in Nat

VARIABLES
    feed,        \* items the feed server lists
    rows,        \* for each URL, the id of the raw_articles row that has it, or NoId
    queued,      \* ids that have a process_article job
    cursor,      \* feed_sources.last_ingested_pub_date, 0 for NULL
    fetchStatus, \* feed_sources.fetch_status
    pc,          \* where each worker is in the handler
    job,         \* the job a worker is processing
    window,      \* items of the fetched feed still to look at
    maxDate,     \* max_pub_date of the fetched feed
    cutoff,      \* the cursor as it was read, 0 for None
    batch,       \* articles to insert, then those without a job yet
    faults,      \* database failures and crashes so far
    phase, holder, tries, \* the queue
    seen,        \* history: items listed when each job's current or last attempt fetched the feed
    lost         \* history: items the limit cut off, listed late, or in an INSERT that failed

data    == <<rows, queued, cursor, fetchStatus>>
local   == <<job, window, maxDate, cutoff, batch>>
queue   == <<phase, holder, tries>>
history == <<seen, lost>>
vars    == <<feed, data, pc, local, faults, queue, history>>

Queue == INSTANCE JobLifecycle

Pcs == {"idle", "fetching", "cutting", "checking", "reporting", "queueing", "ok", "err", "gone"}

\* An article built from an item, and its fresh id: one per attempt of a job
Articles == UNION {{[item |-> i, url |-> u] : u \in Resolutions[i]} : i \in Items}
Id(w, a) == [item |-> a.item, url |-> a.url, job |-> job[w], attempt |-> tries[job[w]]]
Ids == [item : Items, url : Urls, job : Jobs, attempt : 0 .. MaxAttempts]

ASSUME IdsAssumption == NoId \notin Ids

Init ==
    /\ feed = {}
    /\ rows = [u \in Urls |-> NoId]
    /\ queued = {}
    /\ cursor = 0
    /\ fetchStatus = "pending"
    /\ pc = [w \in Workers |-> "idle"]
    /\ job = [w \in Workers |-> NoJob]
    /\ window = [w \in Workers |-> {}]
    /\ maxDate = [w \in Workers |-> 0]
    /\ cutoff = [w \in Workers |-> 0]
    /\ batch = [w \in Workers |-> {}]
    /\ faults = 0
    /\ Queue!LCInit
    /\ seen = [j \in Jobs |-> {}]
    /\ lost = {}

-----------------------------------------------------------------------------
(* The feed server and the scheduler.                                      *)

\* An item may be listed after a newer one: the cutoff may then leave it out
Publish(i) ==
    /\ i \notin feed
    /\ feed' = feed \cup {i}
    /\ lost' = IF \E k \in feed : Date[k] > Date[i] THEN lost \cup {i} ELSE lost
    /\ UNCHANGED <<data, pc, local, faults, queue, seen>>

SubmitJob(j) ==
    /\ Queue!Submit(j)
    /\ UNCHANGED <<feed, data, pc, local, faults, history>>

\* A worker picks a job
Begin(w, j) ==
    /\ pc[w] = "idle"
    /\ Queue!Lease(w, {j})
    /\ pc' = [pc EXCEPT ![w] = "fetching"]
    /\ job' = [job EXCEPT ![w] = j]
    /\ seen' = [seen EXCEPT ![j] = {}]
    /\ UNCHANGED <<feed, data, window, maxDate, cutoff, batch, faults, lost>>

-----------------------------------------------------------------------------
Goto(w, from, to) ==
    /\ pc[w] = from
    /\ pc' = [pc EXCEPT ![w] = to]

\* A statement fails, or a worker crashes
Fault == faults < MaxFaults /\ faults' = faults + 1

Newest(S) == {i \in S : \A k \in S : Date[k] <= Date[i]}

\* Sorted by date, newest first and undated last, and cut to MaxRecent: items of
\* one date are in the order of the feed, which is any order
Recent(S) ==
    {W \in SUBSET S :
        /\ Cardinality(W) = IF Cardinality(S) < MaxRecent THEN Cardinality(S) ELSE MaxRecent
        /\ \A i \in W, k \in S \ W : Date[k] <= Date[i]}

LatestDate(S) == IF S = {} THEN 0 ELSE Date[CHOOSE i \in S : i \in Newest(S)]

\* The feed is read and parsed
Fetch(w) ==
    /\ Goto(w, "fetching", "cutting")
    /\ \E W \in Recent(feed) :
           /\ window' = [window EXCEPT ![w] = W]
           /\ maxDate' = [maxDate EXCEPT ![w] = LatestDate(W)]
           /\ lost' = lost \cup (feed \ W)
    /\ seen' = [seen EXCEPT ![job[w]] = feed]
    /\ UNCHANGED <<feed, data, job, cutoff, batch, faults, queue>>

\* The feed is disabled or missing: an error that is not retryable, so the job
\* ends as a success
Refuse(w) ==
    /\ Goto(w, "fetching", "ok")
    /\ UNCHANGED <<feed, data, local, faults, queue, history>>

\* A network error or an HTTP status is retryable, a 404 or a parse error is not;
\* the error of update_fetch_status is ignored
FetchFails(w) ==
    /\ Goto(w, "fetching", "ok") \/ Goto(w, "fetching", "err")
    /\ \/ fetchStatus' = "failed" /\ UNCHANGED faults
       \/ UNCHANGED fetchStatus /\ Fault
    /\ UNCHANGED <<feed, rows, queued, cursor, local, queue, history>>

\* get_by_id fails
LoadFails(w) ==
    /\ Goto(w, "fetching", "err")
    /\ Fault
    /\ UNCHANGED <<feed, data, local, queue, history>>

\* parse_cutoff_date, on the text PostgreSQL makes of the date
ParseCutoff(d) == IF d \in Fractional THEN 0 ELSE d

\* get_last_ingested_pub_date; without an answer there is no cutoff
ReadCutoff(w) ==
    /\ Goto(w, "cutting", "checking")
    /\ \/ cutoff' = [cutoff EXCEPT ![w] = ParseCutoff(cursor)] /\ UNCHANGED faults
       \/ UNCHANGED cutoff /\ Fault
    /\ UNCHANGED <<feed, data, job, window, maxDate, batch, queue, history>>

\* Mutant: an item as old as the cutoff is left out
TooOldOrEqual(w, i) == cutoff[w] # 0 /\ Date[i] # 0 /\ Date[i] <= cutoff[w]

\* Mutant: the feed's newest date is the cutoff
OlderThanNewest(w, i) == Date[i] # 0 /\ Date[i] < maxDate[w]

TooOld(w, i) == cutoff[w] # 0 /\ Date[i] # 0 /\ Date[i] < cutoff[w]

\* The loop over the items: an item becomes an article unless it has no link, its
\* URL is stored (when get_by_url fails, as if it were not), or it is too old
CheckItem(w) ==
    /\ pc[w] = "checking"
    /\ \E i \in Newest(window[w]) :
           /\ window' = [window EXCEPT ![w] = @ \ {i}]
           /\ \/ Resolutions[i] = {} /\ UNCHANGED <<batch, faults>>
              \/ \E u \in Resolutions[i] :
                     LET new == [batch EXCEPT ![w] =
                                    IF TooOld(w, i) THEN @ ELSE @ \cup {[item |-> i, url |-> u]}]
                     IN  \/ rows[u] # NoId /\ UNCHANGED <<batch, faults>>
                         \/ rows[u] = NoId /\ batch' = new /\ UNCHANGED faults
                         \/ rows[u] # NoId /\ batch' = new /\ Fault
    /\ UNCHANGED <<feed, data, pc, job, maxDate, cutoff, queue, history>>

First(S) == {a \in S : \A b \in S : Date[b.item] <= Date[a.item]}

\* insert_batch, ON CONFLICT (url, source_id) DO NOTHING: a stored row stays, and
\* of two articles with one URL the first gets the row
InsertRows(w) ==
    \E winner \in [{a.url : a \in batch[w]} -> batch[w]] :
        /\ \A u \in DOMAIN winner : winner[u] \in First({a \in batch[w] : a.url = u})
        /\ rows' = [u \in Urls |->
                       IF u \in DOMAIN winner /\ rows[u] = NoId THEN Id(w, winner[u]) ELSE rows[u]]

\* The error of insert_batch is only logged: the step goes on as if it had worked
InsertBatch(w) ==
    /\ window[w] = {}
    /\ Goto(w, "checking", "reporting")
    /\ \/ InsertRows(w) /\ UNCHANGED <<faults, lost>>
       \/ batch[w] # {} /\ InsertRows(w) /\ Fault /\ UNCHANGED lost
       \/ /\ batch[w] # {} /\ Fault
          /\ lost' = lost \cup {a.item : a \in batch[w]}
          /\ UNCHANGED rows
    /\ UNCHANGED <<feed, queued, cursor, fetchStatus, local, queue, seen>>

\* update_fetch_status; its error is ignored
Report(w) ==
    /\ Goto(w, "reporting", "queueing")
    /\ \/ fetchStatus' = "success" /\ UNCHANGED faults
       \/ UNCHANGED fetchStatus /\ Fault
    /\ UNCHANGED <<feed, rows, queued, cursor, local, queue, history>>

-----------------------------------------------------------------------------
(* The rest of the handler, after process_ingest_step.                     *)

\* Mutant: the loop ends after the first job
QueueFirst(w) ==
    /\ pc[w] = "queueing"
    /\ \E a \in First(batch[w]) : queued' = queued \cup {Id(w, a)}
    /\ batch' = [batch EXCEPT ![w] = {}]
    /\ UNCHANGED <<feed, rows, cursor, fetchStatus, pc, job, window, maxDate, cutoff, faults, queue, history>>

\* create_job for one article, whether or not its row was inserted
QueueArticle(w) ==
    /\ pc[w] = "queueing"
    /\ \E a \in First(batch[w]) :
           /\ queued' = queued \cup {Id(w, a)}
           /\ batch' = [batch EXCEPT ![w] = @ \ {a}]
    /\ UNCHANGED <<feed, rows, cursor, fetchStatus, pc, job, window, maxDate, cutoff, faults, queue, history>>

\* create_job fails, at its INSERT or at the NOTIFY after it: the job is retried
QueueFails(w) ==
    /\ Goto(w, "queueing", "err")
    /\ \E a \in First(batch[w]) : queued' = queued \cup {Id(w, a)} \/ UNCHANGED queued
    /\ Fault
    /\ UNCHANGED <<feed, rows, cursor, fetchStatus, local, queue, history>>

\* Mutant: the cursor is put after the newest item
SetCursorPast(w) == cursor' = IF maxDate[w] = 0 THEN cursor ELSE maxDate[w] + 1

SetCursor(w) == cursor' = IF maxDate[w] = 0 THEN cursor ELSE maxDate[w]

SaveCursor(w) ==
    /\ batch[w] = {}
    /\ Goto(w, "queueing", "ok")
    /\ SetCursor(w)
    /\ UNCHANGED <<feed, rows, queued, fetchStatus, local, faults, queue, history>>

SaveFails(w) ==
    /\ batch[w] = {} /\ maxDate[w] # 0
    /\ Goto(w, "queueing", "err")
    /\ SetCursor(w) \/ UNCHANGED cursor
    /\ Fault
    /\ UNCHANGED <<feed, rows, queued, fetchStatus, local, queue, history>>

-----------------------------------------------------------------------------
(* The job's outcome, written by the queue's worker.                       *)

Forget(w) ==
    /\ job' = [job EXCEPT ![w] = NoJob]
    /\ window' = [window EXCEPT ![w] = {}]
    /\ maxDate' = [maxDate EXCEPT ![w] = 0]
    /\ cutoff' = [cutoff EXCEPT ![w] = 0]
    /\ batch' = [batch EXCEPT ![w] = {}]

Return(w) ==
    /\ \/ Goto(w, "ok", "idle") /\ Queue!Succeed(job[w])
       \/ Goto(w, "err", "idle") /\ Queue!Fail(job[w])
    /\ Forget(w)
    /\ UNCHANGED <<feed, data, faults, history>>

\* complete_job or fail_job fails: the job stays running, in nobody's hands
ReturnFails(w) ==
    /\ Goto(w, "ok", "idle") \/ Goto(w, "err", "idle")
    /\ Queue!Abandon(w, {job[w]})
    /\ Fault
    /\ Forget(w)
    /\ UNCHANGED <<feed, data, history>>

Crash(w) ==
    /\ pc[w] \notin {"idle", "gone"}
    /\ pc' = [pc EXCEPT ![w] = "gone"]
    /\ Queue!Abandon(w, {job[w]})
    /\ Fault
    /\ Forget(w)
    /\ UNCHANGED <<feed, data, history>>

-----------------------------------------------------------------------------
Step(w) ==
    \/ Fetch(w) \/ Refuse(w) \/ FetchFails(w) \/ ReadCutoff(w) \/ CheckItem(w) \/ InsertBatch(w)
    \/ Report(w) \/ QueueArticle(w) \/ SaveCursor(w) \/ Return(w)

Next ==
    \/ \E i \in Items : Publish(i)
    \/ \E j \in Jobs : SubmitJob(j)
    \/ \E w \in Workers, j \in Jobs : Begin(w, j)
    \/ \E w \in Workers :
           Step(w) \/ LoadFails(w) \/ QueueFails(w) \/ SaveFails(w) \/ ReturnFails(w) \/ Crash(w)

Spec == Init /\ [][Next]_vars

-----------------------------------------------------------------------------
(* Properties.                                                             *)

TypeOK ==
    /\ feed \in SUBSET Items /\ IsFiniteSet(feed)
    /\ rows \in [Urls -> Ids \cup {NoId}]
    /\ queued \in SUBSET Ids
    /\ cursor \in {Date[i] : i \in Items} \cup {0}
    /\ fetchStatus \in {"pending", "success", "failed"}
    /\ pc \in [Workers -> Pcs]
    /\ job \in [Workers -> Jobs \cup {NoJob}]
    /\ window \in [Workers -> SUBSET Items]
    /\ maxDate \in [Workers -> {Date[i] : i \in Items} \cup {0}]
    /\ cutoff \in [Workers -> {Date[i] : i \in Items} \cup {0}]
    /\ batch \in [Workers -> SUBSET Articles]
    /\ faults \in 0 .. MaxFaults
    /\ phase \in [Jobs -> Queue!Phases]
    /\ holder \in [Jobs -> Workers \cup {NoWorker}]
    /\ tries \in [Jobs -> 0 .. MaxAttempts]
    /\ seen \in [Jobs -> SUBSET Items]
    /\ lost \in SUBSET Items

Stored(i) == Resolutions[i] = {} \/ \E u \in Resolutions[i] : rows[u] # NoId

\* The cursor never moves past an item that is not stored: an item older than it
\* is lost for good in only three ways, the limit of 30, a late listing, and the
\* INSERT whose error is swallowed, whatever two jobs of the feed, retries,
\* crashes and lost answers do.
PassedIsStored ==
    \A i \in feed \ lost : 0 < Date[i] /\ Date[i] < cursor => Stored(i)

\* A job that ends completed has stored every item its fetch listed, unless the
\* item was lost in one of those ways.
DoneIsStored ==
    \A j \in Jobs : phase[j] = "done" => \A i \in seen[j] \ lost : Stored(i)

\* Every row has its process_article job, or the worker that inserted the row is
\* about to create it, as long as nothing failed: two jobs that insert the same
\* URL at once do not leave the row to each other.
RowsAreQueued ==
    faults = 0 =>
        \A u \in Urls :
            rows[u] # NoId =>
                \/ rows[u] \in queued
                \/ \E w \in Workers :
                       /\ pc[w] \in {"reporting", "queueing"}
                       /\ \E a \in batch[w] : Id(w, a) = rows[u]

\* An ingested article gets a process_article job (README): when its fetch_feed
\* job has ended completed, after an attempt that still saw the item, its job exists.
IngestedIsQueued ==
    \A u \in Urls :
        rows[u] # NoId /\ phase[rows[u].job] = "done" /\ rows[u].item \in seen[rows[u].job] =>
            rows[u] \in queued

-----------------------------------------------------------------------------
(* Why they hold: what a worker knows of the feed at each point.           *)

\* A busy worker has a lease on its job, an idle one has nothing
WorkerShape ==
    \A w \in Workers :
        IF pc[w] \in {"idle", "gone"}
        THEN /\ job[w] = NoJob /\ maxDate[w] = 0 /\ cutoff[w] = 0
             /\ window[w] = {} /\ batch[w] = {}
        ELSE job[w] \in Jobs /\ phase[job[w]] = "leased" /\ holder[job[w]] = w

\* A job that may still be run has an attempt left
AttemptLeft ==
    \A j \in Jobs : phase[j] \in {"absent", "waiting", "leased"} => tries[j] < MaxAttempts

Listed(d) == d = 0 \/ \E k \in feed : d = Date[k]

\* Every item the feed lists before date d, and that is not lost, is in S
AllBefore(d, S) == \A i \in feed \ lost : 0 < Date[i] /\ Date[i] < d => i \in S

StoredItems == {i \in Items : Stored(i)}

\* The dates in use are dates of listed items, so that an item listed later with
\* an older date is a late one
DatesListed ==
    /\ Listed(cursor)
    /\ \A w \in Workers : Listed(maxDate[w]) /\ Listed(cutoff[w])

\* What the cutoff leaves out is stored, and what is older than the newest item
\* of the fetched feed was seen in it
DatesCovered ==
    \A w \in Workers :
        /\ AllBefore(cutoff[w], StoredItems)
        /\ maxDate[w] # 0 => AllBefore(maxDate[w], seen[job[w]])

\* How far the items the job of w has seen have come on their way to the table
SeenBy(w) ==
    /\ pc[w] = "fetching" => seen[job[w]] = {} /\ window[w] = {} /\ batch[w] = {}
    /\ pc[w] = "cutting" => batch[w] = {}
    /\ pc[w] \in {"cutting", "checking"} =>
           seen[job[w]] \ lost \subseteq window[w] \cup {a.item : a \in batch[w]} \cup StoredItems
    /\ pc[w] \in {"reporting", "queueing", "ok"} => seen[job[w]] \ lost \subseteq StoredItems

SeenAccount ==
    /\ \A j \in Jobs : seen[j] \subseteq feed
    /\ \A w \in Workers : SeenBy(w)

IInv ==
    /\ TypeOK
    /\ WorkerShape /\ AttemptLeft
    /\ DatesListed /\ DatesCovered /\ SeenAccount
    /\ PassedIsStored /\ DoneIsStored
    /\ RowsAreQueued
=============================================================================
