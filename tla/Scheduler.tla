------------------------------ MODULE Scheduler ------------------------------
(***************************************************************************)
(* The scheduler (src/workers/scheduler.rs): a loop that sleeps until the  *)
(* next cron slot and then starts a pipeline run, the queries it makes     *)
(* (src/db/run_queries.rs, cleanup_old_duplicates), and the rows that the  *)
(* foreign keys of those queries are about.                                *)
(*                                                                         *)
(* One process runs it, as the README asks; it may crash and be restarted. *)
(* Nothing in production completes a run: it ends when the next slot finds *)
(* it old enough to be a zombie.                                           *)
(*                                                                         *)
(* The clock ticks several times a second, because the sleep is a whole    *)
(* number of seconds, and a scheduled run takes at most MaxBusy ticks.     *)
(***************************************************************************)
EXTENDS Naturals, Sequences, FiniteSets

CONSTANTS
    Feeds,     \* enabled feeds
    Tier1,     \* those of tier 'tier1_keep'
    Slots,     \* times of the cron slots, in ticks
    Second,    \* ticks per second
    ZombieAge, \* the two hours of mark_zombie_runs_failed, in ticks
    MaxBusy,   \* bound: ticks a pass of the loop takes
    Horizon,   \* bound: the clock stops here
    Articles,  \* ids of raw_articles
    NoArticle,
    MaxFaults  \* bound: statements that fail and crashes, together

ASSUME FeedsAssumption == Tier1 \subseteq Feeds /\ IsFiniteSet(Feeds)
ASSUME ClockAssumption ==
    /\ Slots \subseteq Nat /\ Second \in Nat \ {0}
    /\ ZombieAge \in Nat /\ MaxBusy \in Nat /\ Horizon \in Nat /\ MaxFaults \in Nat
    /\ \E s \in Slots : s > Horizon
ASSUME ArticlesAssumption == NoArticle \notin Articles
\* A run is not a zombie yet within the pass that may start it a second time
ASSUME PaceAssumption == Second + MaxBusy <= ZombieAge

VARIABLES
    now,         \* the clock
    busy,        \* ticks since the current pass of the loop began
    pc,          \* where the scheduler is
    wakeAt,      \* when its sleep ends
    runs,        \* pipeline_runs: [status, started], updated_at being started_at
    stepped,     \* runs with a pipeline_step_runs row
    jobs,        \* fetch_feed jobs created, as <<run, feed>>
    todo,        \* feeds still to get a job in this run
    kind,        \* what each raw_articles row is
    duplicateOf, \* raw_articles.duplicate_of
    logged,      \* articles with a rejected_articles row
    old,         \* articles more than 7 days old
    faults,      \* failures and crashes so far
    blocked      \* history: a scheduled run ended at the orphan clean's foreign keys

articles == <<kind, duplicateOf, logged, old>>
tables   == <<runs, stepped, jobs>>
vars     == <<now, busy, pc, wakeAt, tables, todo, articles, faults, blocked>>

Pcs == {"planning", "sleeping", "marking", "cleaning", "guarding", "starting", "stepping",
        "creating", "pruning", "down"}
Kinds == {"absent", "ingested", "decided", "duplicate", "deleted"}

Init ==
    /\ now = 0
    /\ busy = 0
    /\ pc = "planning"
    /\ wakeAt = 0
    /\ runs = <<>>
    /\ stepped = {}
    /\ jobs = {}
    /\ todo = {}
    /\ kind = [a \in Articles |-> "absent"]
    /\ duplicateOf = [a \in Articles |-> NoArticle]
    /\ logged = {}
    /\ old = {}
    /\ faults = 0
    /\ blocked = FALSE

-----------------------------------------------------------------------------
(* The articles, as the other stages leave them.                           *)

Arrive(a) ==
    /\ kind[a] = "absent"
    /\ kind' = [kind EXCEPT ![a] = "ingested"]
    /\ UNCHANGED <<now, busy, pc, wakeAt, tables, todo, duplicateOf, logged, old, faults, blocked>>

\* The content step decides on the article other than as a duplicate
Decide(a) ==
    /\ kind[a] = "ingested"
    /\ kind' = [kind EXCEPT ![a] = "decided"]
    /\ UNCHANGED <<now, busy, pc, wakeAt, tables, todo, duplicateOf, logged, old, faults, blocked>>

\* The content step finds the article a duplicate of c, which may itself be
\* waiting or a duplicate, and logs it; either statement may fail unnoticed
MarkDuplicate(a, c) ==
    /\ kind[a] = "ingested"
    /\ c # a /\ kind[c] \in {"ingested", "decided", "duplicate"}
    /\ LET enrich == /\ kind' = [kind EXCEPT ![a] = "duplicate"]
                     /\ duplicateOf' = [duplicateOf EXCEPT ![a] = c]
           log == logged' = logged \cup {a}
       IN  \/ enrich /\ log /\ UNCHANGED faults
           \/ /\ faults < MaxFaults /\ faults' = faults + 1
              /\ \/ enrich /\ UNCHANGED logged
                 \/ log /\ UNCHANGED <<kind, duplicateOf>>
    /\ UNCHANGED <<now, busy, pc, wakeAt, tables, todo, old, blocked>>

GrowOld(a) ==
    /\ kind[a] \notin {"absent", "deleted"} /\ a \notin old
    /\ old' = old \cup {a}
    /\ UNCHANGED <<now, busy, pc, wakeAt, tables, todo, kind, duplicateOf, logged, faults, blocked>>

-----------------------------------------------------------------------------
(* The clock and the sleep.                                                *)

Tick ==
    /\ now < Horizon
    /\ \/ pc = "down"
       \/ pc = "sleeping" /\ now < wakeAt
       \/ busy < MaxBusy
    /\ now' = now + 1
    /\ busy' = IF pc = "down" \/ (pc = "sleeping" /\ now < wakeAt) THEN busy ELSE busy + 1
    /\ UNCHANGED <<pc, wakeAt, tables, todo, articles, faults, blocked>>

\* get_next_cron_time: the first slot after now
NextSlot == CHOOSE s \in Slots : s > now /\ \A t \in Slots : t > now => s <= t

\* The seconds to sleep are truncated, so the sleep may end before the slot; the
\* scheduled run is then over before the slot too, and the slot is planned again
Plan ==
    /\ pc = "planning"
    /\ wakeAt' = now + ((NextSlot - now) \div Second) * Second
    /\ pc' = "sleeping"
    /\ busy' = 0
    /\ UNCHANGED <<now, tables, todo, articles, faults, blocked>>

Goto(from, to) == pc = from /\ pc' = to

Wake ==
    /\ now >= wakeAt
    /\ Goto("sleeping", "marking")
    /\ UNCHANGED <<now, busy, wakeAt, tables, todo, articles, faults, blocked>>

-----------------------------------------------------------------------------
(* handle_scheduled_run.                                                   *)

Running == {r \in DOMAIN runs : runs[r].status = "running"}

\* Mutant: the UPDATE matches no running run
SpareZombies == UNCHANGED runs

\* mark_zombie_runs_failed
FailZombies ==
    runs' = [r \in DOMAIN runs |->
                IF r \in Running /\ now - runs[r].started > ZombieAge
                THEN [runs[r] EXCEPT !.status = "failed"]
                ELSE runs[r]]

MarkZombies ==
    /\ Goto("marking", "cleaning")
    /\ FailZombies
    /\ UNCHANGED <<now, busy, wakeAt, stepped, jobs, todo, articles, faults, blocked>>

\* The DELETE of the rows in S breaks no foreign key: none of them has a
\* rejected_articles row or is the original of a row that stays
Deletable(S) ==
    /\ S \cap logged = {}
    /\ \A a \in Articles \ S : duplicateOf[a] \notin S

Delete(S) ==
    /\ kind' = [a \in Articles |-> IF a \in S THEN "deleted" ELSE kind[a]]
    /\ duplicateOf' = [a \in Articles |-> IF a \in S THEN NoArticle ELSE duplicateOf[a]]

\* clean_orphaned_articles_from_failed_runs spares the sources of articles older
\* than a running run: all of them, as runs older than two hours are failed now
Orphans == IF Running = {} THEN {a \in old : kind[a] = "ingested"} ELSE {}

CleanOrphans ==
    /\ Goto("cleaning", "guarding")
    /\ Deletable(Orphans)
    /\ Delete(Orphans)
    /\ UNCHANGED <<now, busy, wakeAt, tables, todo, logged, old, faults, blocked>>

\* A foreign key fails the DELETE, and the scheduled run with it
CleanBlocked ==
    /\ Goto("cleaning", "planning")
    /\ ~Deletable(Orphans)
    /\ blocked' = TRUE
    /\ UNCHANGED <<now, busy, wakeAt, tables, todo, articles, faults>>

\* Mutant: the guard is passed whatever runs
ProceedAlways ==
    /\ Goto("guarding", "starting")
    /\ UNCHANGED <<now, busy, wakeAt, tables, todo, articles, faults, blocked>>

\* The guard on runs under way
Proceed ==
    /\ Goto("guarding", "starting")
    /\ Running = {}
    /\ UNCHANGED <<now, busy, wakeAt, tables, todo, articles, faults, blocked>>

SkipSlot ==
    /\ Goto("guarding", "planning")
    /\ Running # {}
    /\ UNCHANGED <<now, busy, wakeAt, tables, todo, articles, faults, blocked>>

\* The feeds of a run: tier 1, or all enabled feeds when there are none
Selected == IF Tier1 # {} THEN Tier1 ELSE Feeds

InsertRun == runs' = Append(runs, [status |-> "running", started |-> now])

StartRun ==
    /\ Goto("starting", "stepping")
    /\ InsertRun
    /\ todo' = Selected
    /\ UNCHANGED <<now, busy, wakeAt, stepped, jobs, articles, faults, blocked>>

\* Mutant: the step is that of another run
InsertStepElsewhere == stepped' = stepped \cup {Len(runs) + 1}

InsertStep == stepped' = stepped \cup {Len(runs)}

StartStep ==
    /\ Goto("stepping", "creating")
    /\ InsertStep
    /\ UNCHANGED <<now, busy, wakeAt, runs, jobs, todo, articles, faults, blocked>>

InsertJob(f) == jobs' = jobs \cup {<<Len(runs), f>>}

CreateJob(f) ==
    /\ pc = "creating"
    /\ f \in todo
    /\ InsertJob(f)
    /\ todo' = todo \ {f}
    /\ UNCHANGED <<now, busy, pc, wakeAt, runs, stepped, articles, faults, blocked>>

\* Mutant: the loop ends after the first feed
EndAfterFirst ==
    /\ Goto("creating", "pruning")
    /\ todo # Selected
    /\ todo' = {}
    /\ UNCHANGED <<now, busy, wakeAt, tables, articles, faults, blocked>>

EndJobs ==
    /\ Goto("creating", "pruning")
    /\ todo = {}
    /\ UNCHANGED <<now, busy, wakeAt, tables, todo, articles, faults, blocked>>

\* cleanup_old_duplicates; when a foreign key fails it nothing is deleted, and
\* the scheduled run ends with an error
Prune ==
    LET duplicates == {a \in old : kind[a] = "duplicate"} IN
    /\ Goto("pruning", "planning")
    /\ IF Deletable(duplicates) THEN Delete(duplicates) ELSE UNCHANGED <<kind, duplicateOf>>
    /\ UNCHANGED <<now, busy, wakeAt, tables, todo, logged, old, faults, blocked>>

-----------------------------------------------------------------------------
Fault == faults < MaxFaults /\ faults' = faults + 1

\* A statement fails, before or after it took effect: the scheduled run ends
StatementFails ==
    /\ \/ Goto("marking", "planning") /\ (FailZombies \/ UNCHANGED runs) /\ UNCHANGED <<stepped, jobs>>
       \/ Goto("cleaning", "planning") /\ UNCHANGED tables
       \/ Goto("guarding", "planning") /\ UNCHANGED tables
       \/ Goto("starting", "planning") /\ (InsertRun \/ UNCHANGED runs) /\ UNCHANGED <<stepped, jobs>>
       \/ Goto("stepping", "planning") /\ (InsertStep \/ UNCHANGED stepped) /\ UNCHANGED <<runs, jobs>>
       \/ /\ Goto("creating", "planning")
          /\ \E f \in todo : InsertJob(f) \/ UNCHANGED jobs
          /\ UNCHANGED <<runs, stepped>>
    /\ todo' = {}
    /\ Fault
    /\ UNCHANGED <<now, busy, wakeAt, articles, blocked>>

Crash ==
    /\ pc # "down"
    /\ pc' = "down"
    /\ todo' = {}
    /\ Fault
    /\ UNCHANGED <<now, busy, wakeAt, tables, articles, blocked>>

Restart ==
    /\ Goto("down", "planning")
    /\ UNCHANGED <<now, busy, wakeAt, tables, todo, articles, faults, blocked>>

-----------------------------------------------------------------------------
Next ==
    \/ \E a \in Articles : Arrive(a) \/ Decide(a) \/ GrowOld(a)
    \/ \E a, c \in Articles : MarkDuplicate(a, c)
    \/ Tick \/ Plan \/ Wake
    \/ MarkZombies \/ CleanOrphans \/ CleanBlocked \/ Proceed \/ SkipSlot
    \/ StartRun \/ StartStep \/ EndJobs \/ Prune
    \/ \E f \in Feeds : CreateJob(f)
    \/ StatementFails \/ Crash \/ Restart

Spec == Init /\ [][Next]_vars

-----------------------------------------------------------------------------
(* Properties.                                                             *)

TypeOK ==
    /\ now \in 0 .. Horizon
    /\ busy \in 0 .. MaxBusy
    /\ pc \in Pcs
    /\ wakeAt \in Nat
    /\ runs \in Seq([status : {"running", "failed"}, started : 0 .. Horizon])
    /\ stepped \subseteq DOMAIN runs
    /\ jobs \subseteq (DOMAIN runs) \X Feeds
    /\ todo \subseteq Feeds
    /\ kind \in [Articles -> Kinds]
    /\ duplicateOf \in [Articles -> Articles \cup {NoArticle}]
    /\ logged \subseteq Articles
    /\ old \subseteq Articles
    /\ faults \in 0 .. MaxFaults
    /\ blocked \in BOOLEAN

\* The slot a run belongs to: the scheduler may be up to a second early for it
SlotOf(t) ==
    LET due == {s \in Slots : s < t + Second}
    IN  IF due = {} THEN 0 ELSE CHOOSE s \in due : \A u \in due : u <= s

\* The truncated sleep wakes the scheduler several times for one slot, and a
\* crash or a lost answer may make it start over: the guard leaves one run per
\* slot all the same, so that no feed is fetched twice for it.
OneRunPerSlot ==
    \A r, q \in DOMAIN runs : r # q => SlotOf(runs[r].started) # SlotOf(runs[q].started)

\* Nothing ever completes a run, and yet no slot is skipped for a run that is
\* still running: as long as no statement fails and the process lives, each slot
\* has its run soon after it came, because runs are zombies before the next slot.
SlotServed(s) ==
    now > s + MaxBusy + Second => \E r \in DOMAIN runs : SlotOf(runs[r].started) = s

NoSlotSkipped ==
    faults = 0 /\ ~blocked => \A s \in Slots : SlotServed(s)

\* Creates a pipeline_run and the fetch_feed jobs of its feeds (README): unless a
\* statement failed or the process crashed, a run the scheduler has left has its
\* step and a job for every selected feed.
RunIsFannedOut ==
    faults = 0 =>
        \A r \in DOMAIN runs :
            \/ r = Len(runs) /\ pc \in {"stepping", "creating"}
            \/ r \in stepped /\ \A f \in Selected : <<r, f>> \in jobs

\* Why the invariants hold (SchedulerProofs).

\* From the sleep on, a pass is for a slot less than a second after its end, and
\* what it does comes no later than the ticks it has been busy
PaceInv ==
    /\ pc \notin {"planning", "down"} =>
           /\ now <= wakeAt + busy
           /\ \E s \in Slots : wakeAt <= s /\ s < wakeAt + Second
    /\ pc \notin {"planning", "down", "sleeping"} => wakeAt <= now

\* The runs are the zombie age apart, because each found the one before it failed
RunsInv ==
    /\ \A r \in DOMAIN runs :
           /\ runs[r].started <= now
           /\ runs[r].status = "failed" => now - runs[r].started > ZombieAge
           /\ \E s \in Slots : s < runs[r].started + Second /\ runs[r].started <= s + MaxBusy
    /\ \A r, q \in DOMAIN runs : r < q => runs[q].started - runs[r].started > ZombieAge
    /\ pc = "starting" => Running = {}

\* The step and the jobs of the run the scheduler is at
FanOutInv ==
    /\ pc = "stepping" => todo = Selected
    /\ pc \in {"stepping", "creating"} => runs # <<>>
    /\ pc = "creating" =>
           Len(runs) \in stepped /\ \A f \in Selected \ todo : <<Len(runs), f>> \in jobs

\* The slots leave time for a pass and for its run to become a zombie, as those of the
\* default schedule do, and the first one comes after the process has started
SlotsApart ==
    /\ \A s \in Slots : s > MaxBusy
    /\ \A s, t \in Slots : s < t => t - s >= ZombieAge + MaxBusy + Second

\* A run started for slot s
HasRun(s) ==
    \E r \in DOMAIN runs : s < runs[r].started + Second /\ runs[r].started <= s + MaxBusy

\* The pass is for slot s, or was before the loop plans again: the slots before s have
\* their runs, and s has its own once the guard has found a run or the pass is over
PassFor(s) ==
    /\ wakeAt <= s /\ s < wakeAt + Second
    /\ \A u \in Slots : u < s => HasRun(u)
    /\ pc = "planning" \/ s \in Slots
    /\ pc \in {"cleaning", "guarding"} /\ Running # {} => HasRun(s)
    /\ pc \in {"planning", "stepping", "creating", "pruning"} /\ s \in Slots => HasRun(s)

SlotInv ==
    SlotsApart /\ faults = 0 /\ ~blocked =>
        /\ pc # "down" /\ now <= wakeAt + busy
        /\ \E s \in Slots \cup {0} : PassFor(s)

IInv == TypeOK /\ PaceInv /\ RunsInv /\ FanOutInv /\ RunIsFannedOut /\ SlotInv

\* A cron slot creates a pipeline run (README): with nothing failing and the
\* process alive, every slot has its run.
EverySlotServed ==
    faults = 0 => \A s \in Slots : SlotServed(s)
=============================================================================
