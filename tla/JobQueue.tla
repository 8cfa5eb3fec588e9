------------------------------ MODULE JobQueue ------------------------------
(***************************************************************************)
(* The PostgreSQL job queue: the jobs table with the statements of         *)
(* src/queue/jobs.rs, and the workers of src/queue/worker.rs that poll it. *)
(*                                                                         *)
(* A pick is one SQL statement that first selects and locks rows (FOR      *)
(* UPDATE SKIP LOCKED) and then updates them.  The two halves are two      *)
(* actions here, so that two picks overlap as they do in the database; a   *)
(* row locked by a pick blocks every other UPDATE of it until the pick     *)
(* commits or rolls back.                                                  *)
(*                                                                         *)
(* Time is a countdown: wait[j] is run_at - now() in seconds, 0 when due.  *)
(*                                                                         *)
(* starts, since and touched are history variables: nothing in the code    *)
(* reads them.                                                             *)
(***************************************************************************)
EXTENDS Naturals, FiniteSets

CONSTANTS
    Jobs,         \* ids of the rows ever inserted
    Workers,      \* worker ids; a restarted process draws a fresh one
    NoJob,        \* no job is being processed
    NoWorker,     \* locked_by IS NULL
    Unhandled,    \* jobs whose job_type has no registered handler
    Priorities,   \* values of the priority column
    BatchSize,    \* Worker.batch_size
    MaxAttempts,  \* jobs.max_attempts (column default)
    MaxGone,      \* bound: workers that may crash or be stopped
    MaxFaults,    \* bound: database statements that may fail
    MaxAdmin      \* bound: calls of mark_dead and retry_job

ASSUME JobsAssumption ==
    IsFiniteSet(Jobs) /\ NoJob \notin Jobs /\ Unhandled \subseteq Jobs
ASSUME WorkersAssumption == NoWorker \notin Workers
ASSUME PrioritiesAssumption == Priorities \subseteq Nat
ASSUME AttemptsAssumption == MaxAttempts \in Nat \ {0}
\* Arithmetic the provers do not know
ASSUME BackoffAssumption == \A k \in 0 .. MaxAttempts : 2 ^ k \in Nat /\ 2 ^ k <= 2 ^ MaxAttempts
ASSUME BoundsAssumption ==
    BatchSize \in Nat \ {0} /\ MaxGone \in Nat /\ MaxFaults \in Nat /\ MaxAdmin \in Nat

VARIABLES
    status,    \* jobs.status; "absent" before the INSERT, "deleted" after the DELETE
    attempts,  \* jobs.attempts
    wait,      \* seconds until jobs.run_at
    lockedBy,  \* jobs.locked_by
    priority,  \* jobs.priority
    order,     \* jobs.created_at, as the rank of the INSERT
    pc,        \* where each worker's loop is
    batch,     \* rows locked by a pick, then the picked jobs still to process
    cur,       \* the job in process_job
    faults,    \* database failures so far
    admin,     \* manual operations so far
    starts,    \* history: times process_job began on the job
    since,     \* history: seconds since fail_job last requeued the job (capped)
    touched    \* history: jobs hit by mark_dead or retry_job

rows    == <<status, attempts, wait, lockedBy, priority, order>>
loop    == <<pc, batch, cur>>
history == <<starts, since, touched>>
vars    == <<rows, loop, faults, admin, history>>

JobStatus == {"pending", "running", "completed", "dead"}
Pcs == {"idle", "picking", "draining", "handling", "completing", "failing", "gone"}

\* fail_job's delay after an attempt: power(2, attempts), attempts before the increment
Backoff(k) == 2 ^ k

\* A job waits at most Backoff(MaxAttempts) seconds, so the cap hides nothing
SinceCap == Backoff(MaxAttempts)

Inserted(j) == status[j] \in JobStatus

\* Rows whose lock is held between the two halves of a pick
Locked == UNION {batch[w] : w \in {v \in Workers : pc[v] = "picking"}}

\* ORDER BY priority DESC, created_at ASC
Before(a, b) ==
    \/ priority[a] > priority[b]
    \/ priority[a] = priority[b] /\ order[a] < order[b]

\* Mutant: a pick without SKIP LOCKED, reading rows another pick has locked
DueLockedToo == {j \in Jobs : status[j] = "pending" /\ wait[j] = 0}

\* Mutant: a pick that forgets status = 'pending'
DueAnyStatus == {j \in Jobs : Inserted(j) /\ wait[j] = 0} \ Locked

\* WHERE status = 'pending' AND run_at <= now() ... SKIP LOCKED
Due == {j \in Jobs : status[j] = "pending" /\ wait[j] = 0} \ Locked

\* The first BatchSize rows of S
TopRanked(S) ==
    {a \in S : Cardinality({b \in S : Before(b, a)}) < BatchSize}

Holds(w) == batch[w] \cup ({cur[w]} \ {NoJob})

Gone == {w \in Workers : pc[w] = "gone"}

Init ==
    /\ status = [j \in Jobs |-> "absent"]
    /\ attempts = [j \in Jobs |-> 0]
    /\ wait = [j \in Jobs |-> 0]
    /\ lockedBy = [j \in Jobs |-> NoWorker]
    /\ priority = [j \in Jobs |-> 0]
    /\ order = [j \in Jobs |-> 0]
    /\ pc = [w \in Workers |-> "idle"]
    /\ batch = [w \in Workers |-> {}]
    /\ cur = [w \in Workers |-> NoJob]
    /\ faults = 0
    /\ admin = 0
    /\ starts = [j \in Jobs |-> 0]
    /\ since = [j \in Jobs |-> 0]
    /\ touched = {}

-----------------------------------------------------------------------------
(* The producers: create_job.  The NOTIFY that follows the INSERT only     *)
(* shortens the wait for the next poll, so it is not a step here.          *)

CreateJob(j, p) ==
    /\ status[j] = "absent"
    /\ status' = [status EXCEPT ![j] = "pending"]
    /\ priority' = [priority EXCEPT ![j] = p]
    /\ order' = [order EXCEPT ![j] = 1 + Cardinality({k \in Jobs : status[k] # "absent"})]
    /\ UNCHANGED <<attempts, wait, lockedBy, loop, faults, admin, history>>

-----------------------------------------------------------------------------
(* The worker's loop: a poll tick or a notification starts a pick.         *)

\* The CTE of pick_jobs: choose the rows and lock them
PickSelect(w) ==
    /\ pc[w] = "idle"
    /\ Due # {}
    /\ pc' = [pc EXCEPT ![w] = "picking"]
    /\ batch' = [batch EXCEPT ![w] = TopRanked(Due)]
    /\ UNCHANGED <<rows, cur, faults, admin, history>>

\* The UPDATE of pick_jobs, on the rows the CTE locked
TakeRows(w) ==
    /\ status' = [j \in Jobs |-> IF j \in batch[w] THEN "running" ELSE status[j]]
    /\ lockedBy' = [j \in Jobs |-> IF j \in batch[w] THEN w ELSE lockedBy[j]]
    /\ UNCHANGED <<attempts, wait, priority, order>>

PickUpdate(w) ==
    /\ pc[w] = "picking"
    /\ TakeRows(w)
    /\ pc' = [pc EXCEPT ![w] = "draining"]
    /\ UNCHANGED <<batch, cur, faults, admin, history>>

\* pick_jobs returns Err, which the loop only logs: the statement rolled back,
\* or it committed and its answer was lost
PickFails(w) ==
    /\ pc[w] = "picking"
    /\ faults < MaxFaults
    /\ TakeRows(w) \/ UNCHANGED rows
    /\ pc' = [pc EXCEPT ![w] = "idle"]
    /\ batch' = [batch EXCEPT ![w] = {}]
    /\ faults' = faults + 1
    /\ UNCHANGED <<cur, admin, history>>

\* process_job: look the handler up.  RETURNING promises no order, so the batch
\* is taken in any order
StartJob(w, j) ==
    /\ pc[w] = "draining"
    /\ j \in batch[w]
    /\ batch' = [batch EXCEPT ![w] = @ \ {j}]
    /\ cur' = [cur EXCEPT ![w] = j]
    /\ pc' = [pc EXCEPT ![w] = IF j \in Unhandled THEN "failing" ELSE "handling"]
    /\ starts' = [starts EXCEPT ![j] = @ + 1]
    /\ UNCHANGED <<rows, faults, admin, since, touched>>

\* handler(job).await returned Ok or Err
HandlerReturns(w) ==
    /\ pc[w] = "handling"
    /\ \E next \in {"completing", "failing"} : pc' = [pc EXCEPT ![w] = next]
    /\ UNCHANGED <<rows, batch, cur, faults, admin, history>>

\* process_job is over: next job of the batch
NextInBatch(w) ==
    /\ pc' = [pc EXCEPT ![w] = "draining"]
    /\ cur' = [cur EXCEPT ![w] = NoJob]
    /\ UNCHANGED batch

CompleteJob(w) ==
    /\ pc[w] = "completing"
    /\ cur[w] \notin Locked
    /\ status' = [status EXCEPT ![cur[w]] = IF Inserted(cur[w]) THEN "completed" ELSE @]
    /\ NextInBatch(w)
    /\ UNCHANGED <<attempts, wait, lockedBy, priority, order, faults, admin, history>>

\* Mutants of Requeue: no delay, the status forgotten
RequeueAtOnce(j) ==
    /\ attempts[j] + 1 < MaxAttempts
    /\ status' = [status EXCEPT ![j] = "pending"]
    /\ since' = [since EXCEPT ![j] = 0]
    /\ UNCHANGED wait

RequeueStillRunning(j) ==
    /\ attempts[j] + 1 < MaxAttempts
    /\ wait' = [wait EXCEPT ![j] = Backoff(attempts[j])]
    /\ since' = [since EXCEPT ![j] = 0]
    /\ UNCHANGED status

\* The two outcomes of fail_job's CASE
Requeue(j) ==
    /\ attempts[j] + 1 < MaxAttempts
    /\ status' = [status EXCEPT ![j] = "pending"]
    /\ wait' = [wait EXCEPT ![j] = Backoff(attempts[j])]
    /\ since' = [since EXCEPT ![j] = 0]

Exhaust(j) ==
    /\ attempts[j] + 1 >= MaxAttempts
    /\ status' = [status EXCEPT ![j] = "dead"]
    /\ UNCHANGED <<wait, since>>

\* Mutant: the attempt is not counted
FailJobUncounted(w) ==
    /\ pc[w] = "failing"
    /\ cur[w] \notin Locked
    /\ Requeue(cur[w]) \/ Exhaust(cur[w])
    /\ NextInBatch(w)
    /\ UNCHANGED <<attempts, lockedBy, priority, order, faults, admin, starts, touched>>

FailJob(w) ==
    /\ pc[w] = "failing"
    /\ cur[w] \notin Locked
    /\ IF Inserted(cur[w])
       THEN /\ Requeue(cur[w]) \/ Exhaust(cur[w])
            /\ attempts' = [attempts EXCEPT ![cur[w]] = @ + 1]
       ELSE UNCHANGED <<status, attempts, wait, since>>
    /\ NextInBatch(w)
    /\ UNCHANGED <<lockedBy, priority, order, faults, admin, starts, touched>>

\* complete_job or fail_job returns Err, which is only logged: the row stays as it
\* is (or the answer alone is lost, which is CompleteJob or FailJob)
SettleFails(w) ==
    /\ pc[w] \in {"completing", "failing"}
    /\ faults < MaxFaults
    /\ NextInBatch(w)
    /\ faults' = faults + 1
    /\ UNCHANGED <<rows, admin, history>>

\* Mutant: the worker stops after its first batch
EndBatchForGood(w) ==
    /\ pc[w] = "draining"
    /\ batch[w] = {}
    /\ pc' = [pc EXCEPT ![w] = "gone"]
    /\ UNCHANGED <<rows, batch, cur, faults, admin, history>>

EndBatch(w) ==
    /\ pc[w] = "draining"
    /\ batch[w] = {}
    /\ pc' = [pc EXCEPT ![w] = "idle"]
    /\ UNCHANGED <<rows, batch, cur, faults, admin, history>>

-----------------------------------------------------------------------------
(* The ends of a worker.  Ctrl-C is polled between batches only; a crash,  *)
(* a panic of a handler, or the end of main in `all` mode comes anywhere,  *)
(* and a pick under way then commits or rolls back.                        *)

Leave(w) ==
    /\ Cardinality(Gone) < MaxGone
    /\ pc' = [pc EXCEPT ![w] = "gone"]
    /\ batch' = [batch EXCEPT ![w] = {}]
    /\ cur' = [cur EXCEPT ![w] = NoJob]
    /\ UNCHANGED <<faults, admin, history>>

Stop(w) ==
    /\ pc[w] = "idle"
    /\ Leave(w)
    /\ UNCHANGED rows

Crash(w) ==
    /\ pc[w] \notin {"idle", "gone"}
    /\ Leave(w)
    /\ \/ UNCHANGED rows
       \/ pc[w] = "picking" /\ TakeRows(w)

-----------------------------------------------------------------------------
(* Manual operations of jobs.rs; no component calls them.                  *)

Touch(j) ==
    /\ admin < MaxAdmin
    /\ Inserted(j)
    /\ j \notin Locked
    /\ admin' = admin + 1
    /\ touched' = touched \cup {j}
    /\ UNCHANGED <<attempts, lockedBy, priority, order, loop, faults, starts, since>>

\* Mutants: a manual UPDATE without its WHERE clause
MarkEveryRowDead(j) ==
    /\ Touch(j)
    /\ status' = [k \in Jobs |-> IF Inserted(k) THEN "dead" ELSE status[k]]
    /\ UNCHANGED wait

RetryEveryRow(j, backoff) ==
    /\ Touch(j)
    /\ status' = [k \in Jobs |-> IF Inserted(k) THEN "pending" ELSE status[k]]
    /\ wait' = [wait EXCEPT ![j] = backoff]

MarkDead(j) ==
    /\ Touch(j)
    /\ status' = [status EXCEPT ![j] = "dead"]
    /\ UNCHANGED wait

RetryJob(j, backoff) ==
    /\ Touch(j)
    /\ status' = [status EXCEPT ![j] = "pending"]
    /\ wait' = [wait EXCEPT ![j] = backoff]

\* cleanup_dead_jobs deletes the dead rows whose last update is old enough: a
\* set the age limit picks
CleanupDeadJobs ==
    \E old \in SUBSET {j \in Jobs : status[j] = "dead"} :
        /\ MaxAdmin > 0
        /\ old # {}
        /\ status' = [j \in Jobs |-> IF j \in old THEN "deleted" ELSE status[j]]
        /\ UNCHANGED <<attempts, wait, lockedBy, priority, order, loop, faults, admin, history>>

-----------------------------------------------------------------------------
\* Mutant: the countdown runs below zero
TickUnclamped ==
    /\ \E j \in Jobs : wait[j] > 0
    /\ wait' = [j \in Jobs |-> wait[j] - 1]
    /\ UNCHANGED <<status, attempts, lockedBy, priority, order, loop, faults, admin, starts, since, touched>>

\* One second passes
Tick ==
    /\ \E j \in Jobs : wait[j] > 0
    /\ wait' = [j \in Jobs |-> IF wait[j] > 0 THEN wait[j] - 1 ELSE 0]
    /\ since' = [j \in Jobs |-> IF since[j] < SinceCap THEN since[j] + 1 ELSE since[j]]
    /\ UNCHANGED <<status, attempts, lockedBy, priority, order, loop, faults, admin, starts, touched>>

\* What a live worker and the database do by themselves
Move(w) ==
    \/ PickSelect(w)
    \/ PickUpdate(w)
    \/ \E j \in Jobs : StartJob(w, j)
    \/ CompleteJob(w)
    \/ FailJob(w)
    \/ EndBatch(w)

Work(w) == Move(w) \/ HandlerReturns(w)

Next ==
    \/ \E j \in Jobs, p \in Priorities : CreateJob(j, p)
    \/ \E w \in Workers : Work(w)
    \/ \E w \in Workers : PickFails(w) \/ SettleFails(w)
    \/ \E w \in Workers : Stop(w) \/ Crash(w)
    \/ \E j \in Jobs : MarkDead(j) \/ RetryJob(j, 0) \/ RetryJob(j, 1)
    \/ CleanupDeadJobs
    \/ Tick

Spec == Init /\ [][Next]_vars

\* Time passes, the runtime keeps polling a live worker's loop, and the database answers
Fairness == WF_vars(Tick) /\ \A w \in Workers : WF_vars(Move(w))

CodeSpec == Spec /\ Fairness

\* Of the environment, not of the code: the servers a handler asks answer it or close
\* the connection.  Nothing in the loop bounds a handler, and the shared HTTP client
\* has no timeout (see FetchEnds in ContentStep)
HandlersReturn == \A w \in Workers : WF_vars(HandlerReturns(w))

FairSpec == CodeSpec /\ HandlersReturn

-----------------------------------------------------------------------------
(* Properties.  They speak of jobs no manual operation has touched: those  *)
(* rewrite the row of a job that may be running.                           *)

TypeOK ==
    /\ status \in [Jobs -> JobStatus \cup {"absent", "deleted"}]
    /\ attempts \in [Jobs -> Nat]
    /\ wait \in [Jobs -> Nat]
    /\ lockedBy \in [Jobs -> Workers \cup {NoWorker}]
    /\ priority \in [Jobs -> Nat]
    /\ order \in [Jobs -> Nat]
    /\ pc \in [Workers -> Pcs]
    /\ batch \in [Workers -> SUBSET Jobs]
    /\ cur \in [Workers -> Jobs \cup {NoJob}]
    /\ faults \in Nat
    /\ admin \in Nat
    /\ starts \in [Jobs -> Nat]
    /\ since \in [Jobs -> Nat]
    /\ touched \in SUBSET Jobs

\* Two workers never hold the same job, from the lock of the pick to the end of
\* process_job: what FOR UPDATE SKIP LOCKED and the status guard of pick_jobs
\* are for, across batches, retries, lost answers and crashes.
ExclusiveOwnership ==
    \A v, w \in Workers :
        v # w => \A j \in Holds(v) \cap Holds(w) : j \in touched

\* fail_job's CASE and its unconditional UPDATE keep the account: a job is dead
\* exactly when it has used all its attempts, and never exceeds them.
DeadWhenExhausted ==
    \A j \in Jobs \ touched :
        /\ attempts[j] <= MaxAttempts
        /\ status[j] = "dead" => attempts[j] = MaxAttempts
        /\ attempts[j] = MaxAttempts => status[j] \in {"dead", "deleted"}

\* A handler is never entered more than max_attempts times for a job, and a
\* pending job has been charged one attempt for each time it was entered: no
\* pick of a job whose earlier run is still unaccounted for.
StartsAccounted ==
    \A j \in Jobs \ touched :
        /\ starts[j] <= MaxAttempts
        /\ status[j] = "pending" => starts[j] = attempts[j]

\* complete_job and fail_job update by id whatever the row's status is, and yet
\* no step takes a job out of completed or dead, other than cleanup_dead_jobs.
SettledIsFinal ==
    [][\A j \in Jobs :
         j \notin touched' /\ status[j] \in {"completed", "dead"} =>
            status'[j] \in {status[j]} \cup (IF status[j] = "dead" THEN {"deleted"} ELSE {})]_vars

\* A retried job is picked again only after the exponential delay of fail_job:
\* 2^(n-1) seconds after its n-th failure, whoever picks it.
BackoffRespected ==
    [][\A j \in Jobs \ touched :
         status[j] = "pending" /\ status'[j] = "running" /\ attempts[j] > 0 =>
            since[j] >= 2 ^ (attempts[j] - 1)]_vars

-----------------------------------------------------------------------------
(* Why they hold: who holds what, and what each held row says.             *)

\* Rows a pick has locked are still pending: nothing can update them
LockedRowsPending ==
    \A w \in Workers : pc[w] = "picking" => \A j \in batch[w] : status[j] = "pending"

\* Two picks under way have locked different rows
LocksDisjoint ==
    \A v, w \in Workers :
        v # w /\ pc[v] = "picking" /\ pc[w] = "picking" => batch[v] \cap batch[w] = {}

\* A job in a worker's hands is a running row that carries its id
HeldRowsRunning ==
    \A w \in Workers :
        pc[w] # "picking" =>
            \A j \in Holds(w) \ touched : status[j] = "running" /\ lockedBy[j] = w

LoopShape ==
    \A w \in Workers :
        /\ pc[w] \in {"handling", "completing", "failing"} <=> cur[w] # NoJob
        /\ pc[w] \in {"idle", "gone"} => batch[w] = {}
        /\ cur[w] \notin batch[w]

\* Attempts charged, and starts made, in each status
RowAccount ==
    \A j \in Jobs \ touched :
        /\ status[j] \in {"absent", "pending"} => starts[j] = attempts[j] /\ attempts[j] < MaxAttempts
        /\ status[j] = "running" => attempts[j] < MaxAttempts /\ starts[j] <= attempts[j] + 1
        /\ status[j] = "completed" => attempts[j] < MaxAttempts /\ starts[j] = attempts[j] + 1
        /\ status[j] \in {"dead", "deleted"} => attempts[j] = MaxAttempts /\ starts[j] = MaxAttempts

\* A job waiting in a batch has not been started on this attempt, the current one has
HeldAccount ==
    \A w \in Workers :
        /\ \A j \in batch[w] \ touched : starts[j] = attempts[j]
        /\ cur[w] \in Jobs \ touched => starts[cur[w]] = attempts[cur[w]] + 1

\* A pick locks only rows that are due
LockedRowsDue ==
    \A w \in Workers : pc[w] = "picking" => \A j \in batch[w] : wait[j] = 0

\* A row is inserted without an attempt charged
AbsentUncharged == \A j \in Jobs : status[j] = "absent" => attempts[j] = 0

\* What a retry has waited and what it has still to wait make up its delay
DelayAccount ==
    \A j \in Jobs \ touched :
        status[j] = "pending" /\ attempts[j] > 0 =>
            since[j] + wait[j] >= Backoff(attempts[j] - 1) \/ since[j] >= SinceCap

OwnershipInv == LockedRowsPending /\ LocksDisjoint /\ HeldRowsRunning /\ LoopShape
AccountInv == RowAccount /\ HeldAccount
DelayInv == LockedRowsDue /\ AbsentUncharged /\ DelayAccount
IInv == TypeOK /\ OwnershipInv /\ AccountInv /\ DelayInv

-----------------------------------------------------------------------------
(* Progress.                                                               *)

Settled(j) == status[j] \in {"completed", "dead"}

\* Max three attempts before dead (README): every job created ends completed or
\* dead.
EveryJobEnds == \A j \in Jobs : Inserted(j) ~> Settled(j)

\* And so it does as long as the workers and the database do not fail, if handlers
\* return and jobs do not arrive for ever.
EveryJobSettles == [](Gone = {} /\ faults = 0) => EveryJobEnds
=============================================================================
