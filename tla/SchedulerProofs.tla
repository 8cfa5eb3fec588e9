--------------------------- MODULE SchedulerProofs ---------------------------
(***************************************************************************)
(* Theorems of Scheduler, for any feeds, slots, articles and bounds under  *)
(* which a pass of the loop ends before its run is a zombie.               *)
(***************************************************************************)
EXTENDS Scheduler, TLAPS, WellFoundedInduction

\* A set of numbers has a least one.
LEMMA Least ==
    ASSUME NEW S \in SUBSET Nat, S # {}
    PROVE  \E m \in S : \A k \in S : m <= k
  <1>1. \E x \in S : \A y \in S : <<y, x>> \notin OpToRel(<, Nat)
    BY NatLessThanWellFounded, WFMin, Zenon
  <1>2. ASSUME NEW x \in Nat, NEW y \in Nat, <<y, x>> \notin OpToRel(<, Nat)
        PROVE  x <= y
    BY <1>2 DEF OpToRel
  <1>. QED
    BY <1>1, <1>2

\* And one that is bounded has a greatest.
LEMMA Greatest ==
    ASSUME NEW S \in SUBSET Nat, S # {}, NEW b \in Nat, \A k \in S : k <= b
    PROVE  \E m \in S : \A k \in S : k <= m
  <1> DEFINE T == {b - k : k \in S}
  <1>1. T \in SUBSET Nat /\ T # {}
    <2>1. PICK k \in S : TRUE
      OBVIOUS
    <2>2. b - k \in T
      BY <2>1
    <2>3. ASSUME NEW k2 \in S
          PROVE  b - k2 \in Nat
      OBVIOUS
    <2>. QED
      BY <2>2, <2>3
  <1>2. PICK t \in T : \A u \in T : t <= u
    <2> HIDE DEF T
    <2>. QED
      BY <1>1, Least
  <1>3. PICK m \in S : t = b - m
    BY <1>2
  <1>4. ASSUME NEW k \in S
        PROVE  k <= m
    <2>1. b - k \in T
      OBVIOUS
    <2>2. b - m <= b - k
      BY <1>2, <1>3, <2>1
    <2>. QED
      BY <2>2
  <1>. QED
    BY <1>4

\* There is a slot after every reading of the clock, and get_next_cron_time returns it.
LEMMA NextSlotIsAhead ==
    ASSUME now \in 0 .. Horizon
    PROVE  NextSlot \in Slots /\ NextSlot > now
  <1> USE ClockAssumption
  <1> DEFINE S == {s \in Slots : s > now}
  <1>1. S \in SUBSET Nat /\ S # {}
    <2>1. PICK s \in Slots : s > Horizon
      OBVIOUS
    <2>2. s \in S
      BY <2>1
    <2>. QED
      BY <2>2
  <1>2. \E m \in S : \A k \in S : m <= k
    <2> HIDE DEF S
    <2>. QED
      BY <1>1, Least
  <1>3. \E s \in Slots : s > now /\ \A t \in Slots : t > now => s <= t
    BY <1>2
  <1>. QED
    BY <1>3 DEF NextSlot

\* The sleep is cut to whole seconds, so it ends less than a second early.
LEMMA Truncated ==
    ASSUME NEW d \in Nat, NEW n \in Nat \ {0}
    PROVE  (d \div n) * n \in Nat /\ (d \div n) * n <= d /\ d < (d \div n) * n + n
  OBVIOUS


\* The plan of the loop: awake less than a second before the next slot.
LEMMA PlannedFor ==
    ASSUME now \in 0 .. Horizon
    PROVE  LET wake == now + ((NextSlot - now) \div Second) * Second
           IN  wake <= NextSlot /\ NextSlot < wake + Second
  <1> USE ClockAssumption
  <1> DEFINE d == NextSlot - now
             sleep == (d \div Second) * Second
  <1>1. NextSlot \in Nat /\ now \in Nat /\ d \in Nat
    <2>1. NextSlot \in Slots /\ NextSlot > now
      BY NextSlotIsAhead
    <2>2. NextSlot \in Nat /\ now \in Nat
      BY <2>1
    <2>. QED
      BY <2>1, <2>2
  <1>2. sleep \in Nat /\ sleep <= d /\ d < sleep + Second
    <2> HIDE DEF d
    <2>. QED
      BY <1>1, Truncated
  <1>. QED
    <2> HIDE DEF sleep
    <2>1. now + sleep <= NextSlot /\ NextSlot < now + sleep + Second
      BY <1>1, <1>2
    <2>. QED
      BY <2>1 DEF sleep

\* That is a slot, and the wake-up is no earlier than now.
LEMMA Planned ==
    ASSUME now \in 0 .. Horizon
    PROVE  LET wake == now + ((NextSlot - now) \div Second) * Second
           IN  wake \in Nat /\ now <= wake /\ \E s \in Slots : wake <= s /\ s < wake + Second
  <1> USE ClockAssumption
  <1> DEFINE sleep == ((NextSlot - now) \div Second) * Second
  <1>1. NextSlot \in Slots /\ NextSlot > now
    BY NextSlotIsAhead
  <1>2. NextSlot \in Nat /\ now \in Nat /\ NextSlot - now \in Nat
    BY <1>1
  <1>3. sleep \in Nat
    <2> DEFINE d == NextSlot - now
    <2> HIDE DEF d
    <2>1. (d \div Second) * Second \in Nat
      BY <1>2, Truncated DEF d
    <2>. QED
      BY <2>1 DEF d
  <1>4. now + sleep <= NextSlot /\ NextSlot < now + sleep + Second
    BY PlannedFor
  <1> HIDE DEF sleep
  <1>5. now + sleep \in Nat /\ now <= now + sleep
    BY <1>2, <1>3
  <1>. QED
    BY <1>1, <1>4, <1>5 DEF sleep

\* A row of pipeline_runs is a record of its two columns.
LEMMA RunIsRecord ==
    ASSUME TypeOK, NEW r \in DOMAIN runs
    PROVE  runs[r] \in [status : {"running", "failed"}, started : 0 .. Horizon]
  <1> DEFINE R == [status : {"running", "failed"}, started : 0 .. Horizon]
  <1>1. runs \in Seq(R)
    BY DEF TypeOK
  <1> HIDE DEF R
  <1>2. runs[r] \in R
    BY <1>1
  <1>. QED
    BY <1>2 DEF R

\* Marking zombies keeps the list of runs and their starting times.
LEMMA ZombiesFailed ==
    ASSUME runs \in Seq([status : {"running", "failed"}, started : 0 .. Horizon]), FailZombies
    PROVE  /\ runs' \in Seq([status : {"running", "failed"}, started : 0 .. Horizon])
           /\ Len(runs') = Len(runs) /\ DOMAIN runs' = DOMAIN runs
           /\ \A r \in DOMAIN runs :
                  /\ runs'[r].started = runs[r].started
                  /\ runs'[r].status = "failed" =>
                         runs[r].status = "failed" \/ now - runs[r].started > ZombieAge
  <1> DEFINE R == [status : {"running", "failed"}, started : 0 .. Horizon]
  <1>1. DOMAIN runs = 1 .. Len(runs) /\ Len(runs) \in Nat
    OBVIOUS
  <1>2. ASSUME NEW r \in DOMAIN runs
        PROVE  /\ runs'[r] \in R /\ runs'[r].started = runs[r].started
               /\ runs'[r].status = "failed" =>
                      runs[r].status = "failed" \/ now - runs[r].started > ZombieAge
    <2>1. runs[r] \in R
      <3>1. runs \in Seq(R)
        OBVIOUS
      <3> HIDE DEF R
      <3>. QED
        BY <1>1, <3>1
    <2>2. CASE r \in Running /\ now - runs[r].started > ZombieAge
      <3>1. runs'[r] = [runs[r] EXCEPT !.status = "failed"]
        BY <2>2 DEF FailZombies
      <3>. QED
        BY <2>1, <2>2, <3>1
    <2>3. CASE ~(r \in Running /\ now - runs[r].started > ZombieAge)
      <3>1. runs'[r] = runs[r]
        BY <2>3 DEF FailZombies
      <3>. QED
        BY <2>1, <3>1
    <2>. QED
      BY <2>2, <2>3
  <1>3. runs' \in [1 .. Len(runs) -> R]
    BY <1>1, <1>2 DEF FailZombies
  <1>4. runs' \in Seq(R) /\ Len(runs') = Len(runs)
    BY <1>1, <1>3
  <1>. QED
    BY <1>1, <1>2, <1>3, <1>4

\* A run still running once the zombies are marked is not one.
LEMMA YoungestFailed ==
    ASSUME TypeOK, FailZombies, NEW r \in Running'
    PROVE  ~(now - runs[r].started > ZombieAge)
  <1> SUFFICES ASSUME now - runs[r].started > ZombieAge PROVE FALSE
    OBVIOUS
  <1>1. DOMAIN runs' = DOMAIN runs
    BY ZombiesFailed DEF TypeOK
  <1>2. r \in DOMAIN runs /\ runs'[r].status = "running"
    BY <1>1 DEF Running
  <1>3. r \notin Running
    <2>1. ASSUME r \in Running PROVE FALSE
      <3>1. runs'[r] = [runs[r] EXCEPT !.status = "failed"]
        BY <1>2, <2>1 DEF FailZombies
      <3>2. runs[r].status = "running"
        BY <2>1 DEF Running
      <3>3. runs'[r].status = "failed"
        BY <1>2, <3>1, RunIsRecord
      <3>. QED
        BY <1>2, <3>3
    <2>. QED
      BY <2>1
  <1>4. runs'[r] = runs[r]
    BY <1>2, <1>3 DEF FailZombies
  <1>. QED
    BY <1>2, <1>3, <1>4 DEF Running

\* A run is added at the end of the list, started now.
LEMMA RunInserted ==
    ASSUME runs \in Seq([status : {"running", "failed"}, started : 0 .. Horizon]),
           now \in 0 .. Horizon, InsertRun
    PROVE  /\ runs' \in Seq([status : {"running", "failed"}, started : 0 .. Horizon])
           /\ Len(runs) \in Nat /\ Len(runs') = Len(runs) + 1
           /\ DOMAIN runs = 1 .. Len(runs) /\ DOMAIN runs' = 1 .. Len(runs) + 1
           /\ \A r \in DOMAIN runs : runs'[r] = runs[r]
           /\ runs'[Len(runs) + 1] = [status |-> "running", started |-> now]
  BY DEF InsertRun

\* Every action keeps every variable in its type.
LEMMA TypeStep == TypeOK /\ FanOutInv /\ [Next]_vars => TypeOK'
  <1> SUFFICES ASSUME TypeOK, FanOutInv, [Next]_vars PROVE TypeOK'
    OBVIOUS
  <1> USE FeedsAssumption, ClockAssumption DEF TypeOK, Pcs, Kinds, tables, articles, Goto,
          Fault
  <1>1. ASSUME NEW a \in Articles, Arrive(a) PROVE TypeOK'
    BY <1>1 DEF Arrive
  <1>2. ASSUME NEW a \in Articles, Decide(a) PROVE TypeOK'
    BY <1>2 DEF Decide
  <1>3. ASSUME NEW a \in Articles, GrowOld(a) PROVE TypeOK'
    BY <1>3 DEF GrowOld
  <1>4. ASSUME NEW a \in Articles, NEW c \in Articles, MarkDuplicate(a, c) PROVE TypeOK'
    <2>1. \/ UNCHANGED <<kind, duplicateOf>>
          \/ /\ kind' = [kind EXCEPT ![a] = "duplicate"]
             /\ duplicateOf' = [duplicateOf EXCEPT ![a] = c]
      BY <1>4 DEF MarkDuplicate
    <2>2. kind' \in [Articles -> Kinds] /\ duplicateOf' \in [Articles -> Articles \cup {NoArticle}]
      BY <2>1
    <2>3. logged' \subseteq Articles /\ faults' \in 0 .. MaxFaults
      BY <1>4 DEF MarkDuplicate
    <2>4. UNCHANGED <<now, busy, pc, wakeAt, runs, stepped, jobs, todo, old, blocked>>
      BY <1>4 DEF MarkDuplicate
    <2>. QED
      BY <2>2, <2>3, <2>4
  <1>5. CASE Tick
    BY <1>5 DEF Tick
  <1>6. CASE Plan
    BY <1>6, Planned DEF Plan
  <1>7. CASE Wake
    BY <1>7 DEF Wake
  <1>8. CASE MarkZombies
    BY <1>8, ZombiesFailed DEF MarkZombies
  <1>9. CASE CleanOrphans
    BY <1>9 DEF CleanOrphans, Delete, Orphans
  <1>10. CASE CleanBlocked
    BY <1>10 DEF CleanBlocked
  <1>11. CASE Proceed
    BY <1>11 DEF Proceed
  <1>12. CASE SkipSlot
    BY <1>12 DEF SkipSlot
  <1>13. CASE StartRun
    BY <1>13, RunInserted DEF StartRun, Selected
  <1>14. CASE StartStep
    BY <1>14 DEF StartStep, InsertStep, FanOutInv
  <1>15. CASE EndJobs
    BY <1>15 DEF EndJobs
  <1>16. CASE Prune
    BY <1>16 DEF Prune, Delete
  <1>17. ASSUME NEW f \in Feeds, CreateJob(f) PROVE TypeOK'
    BY <1>17 DEF CreateJob, InsertJob, FanOutInv
  <1>18. CASE StatementFails
    BY <1>18, ZombiesFailed, RunInserted DEF StatementFails, InsertStep, InsertJob, FanOutInv
  <1>19. CASE Crash
    BY <1>19 DEF Crash
  <1>20. CASE Restart
    BY <1>20 DEF Restart
  <1>21. CASE UNCHANGED vars
    BY <1>21 DEF vars
  <1>. QED
    BY <1>1, <1>2, <1>3, <1>4, <1>5, <1>6, <1>7, <1>8, <1>9, <1>10, <1>11, <1>12,
       <1>13, <1>14, <1>15, <1>16, <1>17, <1>18, <1>19, <1>20, <1>21 DEF Next

\* A pass begins with a sleep until a slot, and the clock moves only while it
\* may be busy.
LEMMA PaceStep == TypeOK /\ PaceInv /\ [Next]_vars => PaceInv'
  <1> SUFFICES ASSUME TypeOK, PaceInv, [Next]_vars PROVE PaceInv'
    OBVIOUS
  <1> USE ClockAssumption DEF TypeOK, PaceInv, Pcs, tables, articles, Goto, Fault
  <1>1. ASSUME NEW a \in Articles, Arrive(a) PROVE PaceInv'
    BY <1>1 DEF Arrive
  <1>2. ASSUME NEW a \in Articles, Decide(a) PROVE PaceInv'
    BY <1>2 DEF Decide
  <1>3. ASSUME NEW a \in Articles, GrowOld(a) PROVE PaceInv'
    BY <1>3 DEF GrowOld
  <1>4. ASSUME NEW a \in Articles, NEW c \in Articles, MarkDuplicate(a, c) PROVE PaceInv'
    BY <1>4 DEF MarkDuplicate
  <1>5. CASE Tick
    BY <1>5 DEF Tick
  <1>6. CASE Plan
    BY <1>6, Planned DEF Plan
  <1>7. CASE Wake
    BY <1>7 DEF Wake
  <1>8. CASE MarkZombies
    BY <1>8 DEF MarkZombies
  <1>9. CASE CleanOrphans
    BY <1>9 DEF CleanOrphans
  <1>10. CASE CleanBlocked
    BY <1>10 DEF CleanBlocked
  <1>11. CASE Proceed
    BY <1>11 DEF Proceed
  <1>12. CASE SkipSlot
    BY <1>12 DEF SkipSlot
  <1>13. CASE StartRun
    BY <1>13 DEF StartRun
  <1>14. CASE StartStep
    BY <1>14 DEF StartStep, InsertStep
  <1>15. CASE EndJobs
    BY <1>15 DEF EndJobs
  <1>16. CASE Prune
    BY <1>16 DEF Prune
  <1>17. ASSUME NEW f \in Feeds, CreateJob(f) PROVE PaceInv'
    BY <1>17 DEF CreateJob, InsertJob
  <1>18. CASE StatementFails
    BY <1>18 DEF StatementFails, InsertStep, InsertJob
  <1>19. CASE Crash
    BY <1>19 DEF Crash
  <1>20. CASE Restart
    BY <1>20 DEF Restart
  <1>21. CASE UNCHANGED vars
    BY <1>21 DEF vars
  <1>. QED
    BY <1>1, <1>2, <1>3, <1>4, <1>5, <1>6, <1>7, <1>8, <1>9, <1>10, <1>11, <1>12,
       <1>13, <1>14, <1>15, <1>16, <1>17, <1>18, <1>19, <1>20, <1>21 DEF Next

\* The types of a row of pipeline_runs.
LEMMA RunType ==
    ASSUME TypeOK, NEW r \in DOMAIN runs
    PROVE  runs[r].status \in {"running", "failed"} /\ runs[r].started \in 0 .. Horizon
  <1> DEFINE R == [status : {"running", "failed"}, started : 0 .. Horizon]
  <1>1. runs[r] \in R
    <2>1. runs \in Seq(R)
      BY DEF TypeOK
    <2> HIDE DEF R
    <2>. QED
      BY <2>1
  <1>. QED
    BY <1>1

\* The runs stay a zombie age apart while none is added, and only zombies are failed.
LEMMA RunsKept ==
    ASSUME TypeOK, RunsInv, now' \in Nat, now <= now', ZombieAge \in Nat,
           DOMAIN runs' = DOMAIN runs,
           \A r \in DOMAIN runs :
               /\ runs'[r].started = runs[r].started
               /\ runs'[r].status = "failed" =>
                      runs[r].status = "failed" \/ now - runs[r].started > ZombieAge,
           pc' = "starting" => Running' = {}
    PROVE  RunsInv'
  <1>1. ASSUME NEW r \in DOMAIN runs
        PROVE  runs[r].started \in Nat /\ now \in Nat
    BY RunType, ClockAssumption DEF TypeOK
  <1>2. ASSUME NEW r \in DOMAIN runs
        PROVE  /\ runs'[r].started <= now'
               /\ runs'[r].status = "failed" => now' - runs'[r].started > ZombieAge
    <2>1. runs[r].started <= now
      BY DEF RunsInv
    <2>2. runs'[r].status = "failed" => now - runs[r].started > ZombieAge
      BY DEF RunsInv
    <2>. QED
      BY <1>1, <2>1, <2>2
  <1>3. ASSUME NEW r \in DOMAIN runs
        PROVE  \E s \in Slots : s < runs'[r].started + Second /\ runs'[r].started <= s + MaxBusy
    BY DEF RunsInv
  <1>4. ASSUME NEW r \in DOMAIN runs, NEW q \in DOMAIN runs, r < q
        PROVE  runs'[q].started - runs'[r].started > ZombieAge
    BY <1>4 DEF RunsInv
  <1>. QED
    BY <1>2, <1>3, <1>4 DEF RunsInv

\* A run started when all the others have failed is a zombie age after them.
LEMMA RunAdded ==
    ASSUME TypeOK, PaceInv, RunsInv, InsertRun, UNCHANGED now,
           pc \notin {"planning", "down", "sleeping"}, Running = {}, pc' # "starting"
    PROVE  RunsInv'
  <1> USE ClockAssumption
  <1> DEFINE n == Len(runs) + 1
  <1>1. /\ Len(runs) \in Nat /\ DOMAIN runs = 1 .. Len(runs) /\ DOMAIN runs' = 1 .. n
        /\ \A r \in DOMAIN runs : runs'[r] = runs[r]
        /\ runs'[n] = [status |-> "running", started |-> now]
    BY RunInserted DEF TypeOK
  <1>2. \E s \in Slots : s < now + Second /\ now <= s + MaxBusy
    <2>1. PICK s \in Slots : wakeAt <= s /\ s < wakeAt + Second
      BY DEF PaceInv
    <2>2. now <= wakeAt + busy /\ wakeAt <= now
      BY DEF PaceInv
    <2>3. now \in Nat /\ busy \in 0 .. MaxBusy /\ wakeAt \in Nat /\ s \in Nat
      BY DEF TypeOK
    <2>. QED
      BY <2>1, <2>2, <2>3
  <1>3. ASSUME NEW r \in DOMAIN runs
        PROVE  now - runs[r].started > ZombieAge
    <2>1. runs[r].status = "failed"
      BY RunType DEF Running
    <2>. QED
      BY <2>1 DEF RunsInv
  <1>4. ASSUME NEW r \in DOMAIN runs'
        PROVE  /\ runs'[r].started <= now'
               /\ runs'[r].status = "failed" => now' - runs'[r].started > ZombieAge
               /\ \E s \in Slots : s < runs'[r].started + Second /\ runs'[r].started <= s + MaxBusy
    <2>1. CASE r \in DOMAIN runs
      BY <1>1, <2>1 DEF RunsInv
    <2>2. CASE r = n
      <3>1. now <= now
        BY DEF TypeOK
      <3>2. runs'[r].started = now /\ runs'[r].status = "running"
        BY <1>1, <2>2
      <3>. QED
        BY <1>2, <3>1, <3>2
    <2>. QED
      BY <1>1, <2>1, <2>2
  <1>5. ASSUME NEW r \in DOMAIN runs', NEW q \in DOMAIN runs', r < q
        PROVE  runs'[q].started - runs'[r].started > ZombieAge
    <2>1. r \in DOMAIN runs
      BY <1>1, <1>5
    <2>2. CASE q \in DOMAIN runs
      BY <1>1, <1>5, <2>1, <2>2 DEF RunsInv
    <2>3. CASE q = n
      BY <1>1, <1>3, <2>1, <2>3
    <2>. QED
      BY <1>1, <2>2, <2>3
  <1>. QED
    BY <1>4, <1>5 DEF RunsInv

\* A run is started in a pass, at most a second before its slot, when every run
\* before it has failed, and so is old enough for that.
LEMMA RunsStep == TypeOK /\ PaceInv /\ RunsInv /\ [Next]_vars => RunsInv'
  <1> SUFFICES ASSUME TypeOK, PaceInv, RunsInv, [Next]_vars PROVE RunsInv'
    OBVIOUS
  <1> USE FeedsAssumption, ClockAssumption DEF TypeOK, tables, articles, Goto, Fault
  <1>1. ASSUME NEW a \in Articles, Arrive(a) PROVE RunsInv'
    BY <1>1 DEF Arrive, RunsInv, Running
  <1>2. ASSUME NEW a \in Articles, Decide(a) PROVE RunsInv'
    BY <1>2 DEF Decide, RunsInv, Running
  <1>3. ASSUME NEW a \in Articles, GrowOld(a) PROVE RunsInv'
    BY <1>3 DEF GrowOld, RunsInv, Running
  <1>4. ASSUME NEW a \in Articles, NEW c \in Articles, MarkDuplicate(a, c) PROVE RunsInv'
    BY <1>4 DEF MarkDuplicate, RunsInv, Running
  <1>5. CASE Tick
    <2>1. now \in Nat /\ now' \in Nat /\ now <= now' /\ ZombieAge \in Nat
      BY <1>5 DEF Tick
    <2>2. UNCHANGED <<pc, runs>>
      BY <1>5 DEF Tick
    <2>. QED
      BY <2>1, <2>2, RunsKept DEF RunsInv, Running
  <1>6. CASE Plan
    BY <1>6 DEF Plan, RunsInv, Running
  <1>7. CASE Wake
    BY <1>7 DEF Wake, RunsInv, Running
  <1>8. CASE MarkZombies
    <2>1. /\ DOMAIN runs' = DOMAIN runs
          /\ \A r \in DOMAIN runs :
                 /\ runs'[r].started = runs[r].started
                 /\ runs'[r].status = "failed" =>
                        runs[r].status = "failed" \/ now - runs[r].started > ZombieAge
      BY <1>8, ZombiesFailed DEF MarkZombies
    <2>2. now' \in Nat /\ now <= now' /\ ZombieAge \in Nat /\ pc' # "starting"
      BY <1>8 DEF MarkZombies
    <2>. QED
      BY <2>1, <2>2, RunsKept
  <1>9. CASE CleanOrphans
    BY <1>9 DEF CleanOrphans, RunsInv, Running
  <1>10. CASE CleanBlocked
    BY <1>10 DEF CleanBlocked, RunsInv, Running
  <1>11. CASE Proceed
    BY <1>11 DEF Proceed, RunsInv, Running
  <1>12. CASE SkipSlot
    BY <1>12 DEF SkipSlot, RunsInv, Running
  <1>13. CASE StartRun
    BY <1>13, RunAdded DEF StartRun, RunsInv
  <1>14. CASE StartStep
    BY <1>14 DEF StartStep, InsertStep, RunsInv, Running
  <1>15. CASE EndJobs
    BY <1>15 DEF EndJobs, RunsInv, Running
  <1>16. CASE Prune
    BY <1>16 DEF Prune, RunsInv, Running
  <1>17. ASSUME NEW f \in Feeds, CreateJob(f) PROVE RunsInv'
    BY <1>17 DEF CreateJob, InsertJob, RunsInv, Running
  <1>18. CASE StatementFails
    <2>1. now \in Nat /\ now' = now /\ now <= now' /\ ZombieAge \in Nat /\ pc' = "planning"
      BY <1>18 DEF StatementFails
    <2>2. CASE UNCHANGED runs
      BY <2>1, <2>2, RunsKept
    <2>3. CASE FailZombies
      <3>1. /\ DOMAIN runs' = DOMAIN runs
            /\ \A r \in DOMAIN runs :
                   /\ runs'[r].started = runs[r].started
                   /\ runs'[r].status = "failed" =>
                          runs[r].status = "failed" \/ now - runs[r].started > ZombieAge
        BY <2>3, ZombiesFailed
      <3>. QED
        BY <2>1, <3>1, RunsKept
    <2>4. CASE pc = "starting" /\ InsertRun
      BY <2>1, <2>4, RunAdded DEF RunsInv
    <2>. QED
      BY <1>18, <2>2, <2>3, <2>4 DEF StatementFails
  <1>19. CASE Crash
    BY <1>19 DEF Crash, RunsInv, Running
  <1>20. CASE Restart
    BY <1>20 DEF Restart, RunsInv, Running
  <1>21. CASE UNCHANGED vars
    BY <1>21 DEF vars, RunsInv, Running
  <1>. QED
    BY <1>1, <1>2, <1>3, <1>4, <1>5, <1>6, <1>7, <1>8, <1>9, <1>10, <1>11, <1>12,
       <1>13, <1>14, <1>15, <1>16, <1>17, <1>18, <1>19, <1>20, <1>21 DEF Next

\* The step is inserted before the jobs, and the feeds still to do are the
\* selected ones without a job.
LEMMA FanOutStep == TypeOK /\ FanOutInv /\ [Next]_vars => FanOutInv'
  <1> SUFFICES ASSUME TypeOK, FanOutInv, [Next]_vars PROVE FanOutInv'
    OBVIOUS
  <1> USE FeedsAssumption, ClockAssumption DEF TypeOK, FanOutInv, Selected, Pcs, tables,
          articles, Goto, Fault
  <1>1. ASSUME NEW a \in Articles, Arrive(a) PROVE FanOutInv'
    BY <1>1 DEF Arrive
  <1>2. ASSUME NEW a \in Articles, Decide(a) PROVE FanOutInv'
    BY <1>2 DEF Decide
  <1>3. ASSUME NEW a \in Articles, GrowOld(a) PROVE FanOutInv'
    BY <1>3 DEF GrowOld
  <1>4. ASSUME NEW a \in Articles, NEW c \in Articles, MarkDuplicate(a, c) PROVE FanOutInv'
    BY <1>4 DEF MarkDuplicate
  <1>5. CASE Tick
    BY <1>5 DEF Tick
  <1>6. CASE Plan
    BY <1>6 DEF Plan
  <1>7. CASE Wake
    BY <1>7 DEF Wake
  <1>8. CASE MarkZombies
    BY <1>8, ZombiesFailed DEF MarkZombies
  <1>9. CASE CleanOrphans
    BY <1>9 DEF CleanOrphans
  <1>10. CASE CleanBlocked
    BY <1>10 DEF CleanBlocked
  <1>11. CASE Proceed
    BY <1>11 DEF Proceed
  <1>12. CASE SkipSlot
    BY <1>12 DEF SkipSlot
  <1>13. CASE StartRun
    BY <1>13, RunInserted DEF StartRun
  <1>14. CASE StartStep
    BY <1>14 DEF StartStep, InsertStep
  <1>15. CASE EndJobs
    BY <1>15 DEF EndJobs
  <1>16. CASE Prune
    BY <1>16 DEF Prune
  <1>17. ASSUME NEW f \in Feeds, CreateJob(f) PROVE FanOutInv'
    BY <1>17 DEF CreateJob, InsertJob
  <1>18. CASE StatementFails
    BY <1>18, ZombiesFailed, RunInserted DEF StatementFails, InsertStep, InsertJob
  <1>19. CASE Crash
    BY <1>19 DEF Crash
  <1>20. CASE Restart
    BY <1>20 DEF Restart
  <1>21. CASE UNCHANGED vars
    BY <1>21 DEF vars
  <1>. QED
    BY <1>1, <1>2, <1>3, <1>4, <1>5, <1>6, <1>7, <1>8, <1>9, <1>10, <1>11, <1>12,
       <1>13, <1>14, <1>15, <1>16, <1>17, <1>18, <1>19, <1>20, <1>21 DEF Next

\* Without a failure, the scheduler leaves a run only by way of EndJobs.
LEMMA FannedStep ==
    TypeOK /\ FanOutInv /\ RunIsFannedOut /\ [Next]_vars => RunIsFannedOut'
  <1> SUFFICES ASSUME TypeOK, FanOutInv, RunIsFannedOut, [Next]_vars PROVE RunIsFannedOut'
    OBVIOUS
  <1> USE FeedsAssumption, ClockAssumption DEF TypeOK, FanOutInv, RunIsFannedOut, Selected,
          Pcs, tables, articles, Goto, Fault
  <1>1. ASSUME NEW a \in Articles, Arrive(a) PROVE RunIsFannedOut'
    BY <1>1 DEF Arrive
  <1>2. ASSUME NEW a \in Articles, Decide(a) PROVE RunIsFannedOut'
    BY <1>2 DEF Decide
  <1>3. ASSUME NEW a \in Articles, GrowOld(a) PROVE RunIsFannedOut'
    BY <1>3 DEF GrowOld
  <1>4. ASSUME NEW a \in Articles, NEW c \in Articles, MarkDuplicate(a, c) PROVE RunIsFannedOut'
    BY <1>4 DEF MarkDuplicate
  <1>5. CASE Tick
    BY <1>5 DEF Tick
  <1>6. CASE Plan
    BY <1>6 DEF Plan
  <1>7. CASE Wake
    BY <1>7 DEF Wake
  <1>8. CASE MarkZombies
    BY <1>8, ZombiesFailed DEF MarkZombies
  <1>9. CASE CleanOrphans
    BY <1>9 DEF CleanOrphans
  <1>10. CASE CleanBlocked
    BY <1>10 DEF CleanBlocked
  <1>11. CASE Proceed
    BY <1>11 DEF Proceed
  <1>12. CASE SkipSlot
    BY <1>12 DEF SkipSlot
  <1>13. CASE StartRun
    BY <1>13, RunInserted DEF StartRun
  <1>14. CASE StartStep
    BY <1>14 DEF StartStep, InsertStep
  <1>15. CASE EndJobs
    BY <1>15 DEF EndJobs
  <1>16. CASE Prune
    BY <1>16 DEF Prune
  <1>17. ASSUME NEW f \in Feeds, CreateJob(f) PROVE RunIsFannedOut'
    BY <1>17 DEF CreateJob, InsertJob
  <1>18. CASE StatementFails
    BY <1>18 DEF StatementFails, InsertStep, InsertJob
  <1>19. CASE Crash
    BY <1>19 DEF Crash
  <1>20. CASE Restart
    BY <1>20 DEF Restart
  <1>21. CASE UNCHANGED vars
    BY <1>21 DEF vars
  <1>. QED
    BY <1>1, <1>2, <1>3, <1>4, <1>5, <1>6, <1>7, <1>8, <1>9, <1>10, <1>11, <1>12,
       <1>13, <1>14, <1>15, <1>16, <1>17, <1>18, <1>19, <1>20, <1>21 DEF Next

-----------------------------------------------------------------------------
(* No slot is skipped, when the slots are far enough apart.                *)

\* A slot that has a run keeps it: runs are added and failed, never removed.
LEMMA HasRunKept ==
    ASSUME TypeOK, [Next]_vars, NEW s, HasRun(s)
    PROVE  HasRun(s)'
  <1>1. PICK r \in DOMAIN runs : s < runs[r].started + Second /\ runs[r].started <= s + MaxBusy
    BY DEF HasRun
  <1>2. UNCHANGED runs \/ FailZombies \/ InsertRun
    BY DEF Next, Arrive, Decide, GrowOld, MarkDuplicate, Tick, Plan, Wake, MarkZombies,
           CleanOrphans, CleanBlocked, Proceed, SkipSlot, StartRun, StartStep, EndJobs,
           Prune, CreateJob, InsertJob, StatementFails, Crash, Restart, vars, tables
  <1>3. r \in DOMAIN runs' /\ runs'[r].started = runs[r].started
    <2>1. CASE UNCHANGED runs
      BY <2>1
    <2>2. CASE FailZombies
      BY <2>2, ZombiesFailed DEF TypeOK
    <2>3. CASE InsertRun
      BY <2>3, RunInserted DEF TypeOK
    <2>. QED
      BY <1>2, <2>1, <2>2, <2>3
  <1>. QED
    BY <1>1, <1>3 DEF HasRun

\* A run that is not yet a zombie when the pass for slot s comes to mark them is that
\* of slot s itself: those of earlier slots are old enough, and there are no later ones.
LEMMA YoungRun ==
    ASSUME TypeOK, PaceInv, RunsInv, SlotsApart, NEW s \in Slots, wakeAt <= s, s < wakeAt + Second,
           pc = "marking", NEW r \in DOMAIN runs, ~(now - runs[r].started > ZombieAge)
    PROVE  s < runs[r].started + Second /\ runs[r].started <= s + MaxBusy
  <1> USE ClockAssumption
  <1> DEFINE t == runs[r].started
  <1>1. PICK u \in Slots : u < t + Second /\ t <= u + MaxBusy
    BY DEF RunsInv
  <1>2. t <= now /\ now <= wakeAt + busy /\ wakeAt <= now
    BY DEF RunsInv, PaceInv
  <1>3. now \in Nat /\ wakeAt \in Nat /\ busy \in Nat /\ busy <= MaxBusy /\ s \in Nat /\ u \in Nat
    BY DEF TypeOK
  <1>4. t \in Nat
    BY RunType
  <1>5. ~(now - t > ZombieAge)
    OBVIOUS
  <1> HIDE DEF t
  <1>6. ~(u < s)
    <2> SUFFICES ASSUME u < s PROVE FALSE
      OBVIOUS
    <2>1. s - u >= ZombieAge + MaxBusy + Second
      BY DEF SlotsApart
    <2>. QED
      BY <1>1, <1>2, <1>3, <1>4, <1>5, <2>1
  <1>7. ~(s < u)
    <2> SUFFICES ASSUME s < u PROVE FALSE
      OBVIOUS
    <2>1. u - s >= ZombieAge + MaxBusy + Second
      BY DEF SlotsApart
    <2>. QED
      BY <1>1, <1>2, <1>3, <1>4, <2>1
  <1>8. u = s
    BY <1>3, <1>6, <1>7
  <1>. QED
    BY <1>1, <1>8 DEF t

\* Planning again, every slot that has passed has its run, and the next one becomes the
\* slot of the pass.
LEMMA PlanServes ==
    ASSUME TypeOK, SlotsApart, pc = "planning", now <= wakeAt + busy,
           NEW s \in Slots \cup {0}, PassFor(s)
    PROVE  \A u \in Slots : u < NextSlot => HasRun(u)
  <1> USE ClockAssumption
  <1>1. now \in 0 .. Horizon /\ now \in Nat /\ wakeAt \in Nat /\ busy \in Nat /\ busy <= MaxBusy
        /\ s \in Nat
    BY DEF TypeOK
  <1>2. \A u \in Slots : u < NextSlot => ~(u > now)
    <2> DEFINE S == {t \in Slots : t > now}
    <2>1. S \in SUBSET Nat /\ S # {}
      <3>1. NextSlot \in S
        BY <1>1, NextSlotIsAhead
      <3>. QED
        BY <3>1
    <2>2. \E m \in S : \A k \in S : m <= k
      <3> HIDE DEF S
      <3>. QED
        BY <2>1, Least
    <2>3. \E m \in Slots : m > now /\ \A k \in Slots : k > now => m <= k
      BY <2>2
    <2>4. NextSlot \in Slots /\ \A k \in Slots : k > now => NextSlot <= k
      BY <2>3 DEF NextSlot
    <2>. QED
      BY <2>4
  <1>3. ASSUME NEW u \in Slots, u <= now
        PROVE  u <= s
    <2>1. u \in Nat /\ now <= s + MaxBusy
      BY <1>1 DEF PassFor
    <2>2. CASE s \in Slots
      <3>1. s < u => u - s >= ZombieAge + MaxBusy + Second
        BY <2>2 DEF SlotsApart
      <3>. QED
        BY <1>1, <1>3, <2>1, <3>1
    <2>3. CASE s = 0
      BY <1>1, <1>3, <2>1, <2>3 DEF SlotsApart
    <2>. QED
      BY <2>2, <2>3
  <1>4. ASSUME NEW u \in Slots, u < NextSlot
        PROVE  HasRun(u)
    <2>1. u <= s
      <3>1. u \in Nat /\ ~(u > now)
        BY <1>2, <1>4
      <3>. QED
        BY <1>1, <1>3, <3>1
    <2>2. u \in Nat
      OBVIOUS
    <2>. QED
      BY <1>1, <2>1, <2>2 DEF PassFor
  <1>. QED
    BY <1>4

\* Without a failure, a pass ends with a run for its slot, its own or one it found, and
\* no slot passes in the meantime.
LEMMA SlotStep == TypeOK /\ PaceInv /\ RunsInv /\ SlotInv /\ [Next]_vars => SlotInv'
  <1> SUFFICES ASSUME TypeOK, PaceInv, RunsInv, SlotInv, [Next]_vars,
                      SlotsApart, faults' = 0, ~blocked'
               PROVE  /\ pc' # "down" /\ now' <= wakeAt' + busy'
                      /\ \E s \in Slots \cup {0} : PassFor(s)'
    BY DEF SlotInv
  <1> DEFINE Goal == /\ pc' # "down" /\ now' <= wakeAt' + busy'
                     /\ \E s \in Slots \cup {0} : PassFor(s)'
  <1> USE ClockAssumption DEF tables, articles, Goto
  <1>1. faults = 0 /\ ~blocked
    <2>1. faults' = faults \/ faults' = faults + 1
      BY DEF Next, Arrive, Decide, GrowOld, MarkDuplicate, Tick, Plan, Wake, MarkZombies,
             CleanOrphans, CleanBlocked, Proceed, SkipSlot, StartRun, StartStep, EndJobs, Prune,
             CreateJob, InsertJob, StatementFails, Crash, Restart, vars, Fault
    <2>2. blocked => blocked'
      BY DEF Next, Arrive, Decide, GrowOld, MarkDuplicate, Tick, Plan, Wake, MarkZombies,
             CleanOrphans, CleanBlocked, Proceed, SkipSlot, StartRun, StartStep, EndJobs, Prune,
             CreateJob, InsertJob, StatementFails, Crash, Restart, vars
    <2>. QED
      BY <2>1, <2>2 DEF TypeOK
  <1>2. pc # "down" /\ now <= wakeAt + busy
    BY <1>1 DEF SlotInv
  <1>3. PICK s \in Slots \cup {0} : PassFor(s)
    BY <1>1 DEF SlotInv
  <1>4. /\ now \in Nat /\ wakeAt \in Nat /\ busy \in Nat /\ busy <= MaxBusy /\ s \in Nat
        /\ pc \in Pcs
    BY DEF TypeOK
  <1>5. \A u \in Slots : HasRun(u) => HasRun(u)'
    BY HasRunKept
  <1>6. CASE UNCHANGED <<now, busy, pc, wakeAt, runs>>
    <2>1. PassFor(s)'
      BY <1>3, <1>6 DEF PassFor, HasRun, Running
    <2>. QED
      BY <1>2, <1>6, <2>1
  <1>7. CASE Tick
    <2>1. UNCHANGED <<pc, wakeAt, runs>>
      BY <1>7 DEF Tick
    <2>2. PassFor(s)'
      BY <1>3, <2>1 DEF PassFor, HasRun, Running
    <2>3. now' <= wakeAt' + busy'
      BY <1>2, <1>4, <1>7 DEF Tick
    <2>. QED
      BY <1>2, <2>1, <2>2, <2>3
  <1>8. CASE Plan
    <2>1. /\ wakeAt' = now + ((NextSlot - now) \div Second) * Second
          /\ pc' = "sleeping" /\ busy' = 0 /\ UNCHANGED <<now, runs>>
      BY <1>8 DEF Plan
    <2>2. NextSlot \in Slots
      BY NextSlotIsAhead DEF TypeOK
    <2>3. wakeAt' \in Nat /\ now' <= wakeAt' + busy'
      BY <1>4, <2>1, Planned DEF TypeOK
    <2>4. wakeAt' <= NextSlot /\ NextSlot < wakeAt' + Second
      BY <2>1, PlannedFor DEF TypeOK
    <2>5. \A u \in Slots : u < NextSlot => HasRun(u)'
      BY <1>2, <1>3, <1>5, <1>8, PlanServes DEF Plan
    <2>6. \E m \in Slots \cup {0} : PassFor(m)'
      <3>1. \A m : m = NextSlot => PassFor(m)'
        BY <2>1, <2>2, <2>4, <2>5 DEF PassFor
      <3>. QED
        BY <2>2, <3>1
    <2>. QED
      BY <2>1, <2>3, <2>6
  <1>9. CASE Wake \/ CleanOrphans \/ Proceed
    <2>1. UNCHANGED <<now, busy, wakeAt, runs>>
      BY <1>9 DEF Wake, CleanOrphans, Proceed
    <2>2. \/ pc = "sleeping" /\ pc' = "marking"
          \/ pc = "cleaning" /\ pc' = "guarding"
          \/ pc = "guarding" /\ pc' = "starting"
      BY <1>9 DEF Wake, CleanOrphans, Proceed
    <2>3. PassFor(s)'
      BY <1>3, <2>1, <2>2 DEF PassFor, HasRun, Running
    <2>. QED
      BY <1>2, <2>1, <2>2, <2>3
  <1>10. CASE MarkZombies
    <2>1. pc = "marking" /\ pc' = "cleaning" /\ FailZombies /\ UNCHANGED <<now, busy, wakeAt>>
      BY <1>10 DEF MarkZombies
    <2>2. s \in Slots /\ wakeAt <= s /\ s < wakeAt + Second
      BY <1>3, <2>1 DEF PassFor
    <2>3. Running' # {} => HasRun(s)'
      <3> SUFFICES ASSUME NEW r \in Running' PROVE HasRun(s)'
        OBVIOUS
      <3>1. r \in DOMAIN runs /\ r \in DOMAIN runs' /\ runs'[r].started = runs[r].started
        BY <2>1, ZombiesFailed DEF TypeOK, Running
      <3>2. ~(now - runs[r].started > ZombieAge)
        BY <2>1, <3>1, YoungestFailed
      <3>3. s < runs[r].started + Second /\ runs[r].started <= s + MaxBusy
        BY <2>1, <2>2, <3>1, <3>2, YoungRun
      <3>. QED
        BY <3>1, <3>3 DEF HasRun
    <2>4. PassFor(s)'
      BY <1>3, <1>5, <2>1, <2>2, <2>3 DEF PassFor
    <2>. QED
      BY <1>2, <2>1, <2>4
  <1>11. CASE SkipSlot
    <2>1. /\ pc = "guarding" /\ pc' = "planning" /\ Running # {}
          /\ UNCHANGED <<now, busy, wakeAt, runs>>
      BY <1>11 DEF SkipSlot
    <2>2. PassFor(s)'
      BY <1>3, <2>1 DEF PassFor, HasRun
    <2>. QED
      BY <1>2, <2>1, <2>2
  <1>12. CASE StartRun
    <2>1. /\ pc = "starting" /\ pc' = "stepping" /\ InsertRun
          /\ UNCHANGED <<now, busy, wakeAt>>
      BY <1>12 DEF StartRun
    <2>2. s \in Slots /\ wakeAt <= s /\ s < wakeAt + Second /\ wakeAt <= now
      BY <1>3, <2>1 DEF PassFor, PaceInv
    <2>3. HasRun(s)'
      <3>1. /\ Len(runs) + 1 \in DOMAIN runs'
            /\ runs'[Len(runs) + 1] = [status |-> "running", started |-> now]
        BY <2>1, RunInserted DEF TypeOK
      <3>2. s < now + Second /\ now <= s + MaxBusy
        BY <1>2, <1>4, <2>2
      <3>. QED
        BY <3>1, <3>2 DEF HasRun
    <2>4. PassFor(s)'
      BY <1>3, <1>5, <2>1, <2>2, <2>3 DEF PassFor
    <2>. QED
      BY <1>2, <2>1, <2>4
  <1>13. CASE StartStep \/ EndJobs \/ Prune
    <2>1. UNCHANGED <<now, busy, wakeAt, runs>>
      BY <1>13 DEF StartStep, EndJobs, Prune
    <2>2. /\ pc \in {"stepping", "creating", "pruning"}
          /\ pc' \in {"creating", "pruning", "planning"}
      BY <1>13 DEF StartStep, EndJobs, Prune
    <2>3. PassFor(s)'
      BY <1>3, <2>1, <2>2 DEF PassFor, HasRun
    <2>. QED
      BY <1>2, <2>1, <2>2, <2>3
  <1>14. ~(CleanBlocked \/ StatementFails \/ Crash \/ Restart)
    BY <1>1, <1>2 DEF CleanBlocked, StatementFails, Crash, Restart, Fault
  <1>15. ASSUME \/ \E a \in Articles : Arrive(a) \/ Decide(a) \/ GrowOld(a)
                \/ \E a, c \in Articles : MarkDuplicate(a, c)
                \/ \E f \in Feeds : CreateJob(f)
                \/ UNCHANGED vars
         PROVE  UNCHANGED <<now, busy, pc, wakeAt, runs>>
    BY <1>15 DEF Arrive, Decide, GrowOld, MarkDuplicate, CreateJob, InsertJob, vars
  <1>. QED
    BY <1>6, <1>7, <1>8, <1>9, <1>10, <1>11, <1>12, <1>13, <1>14, <1>15 DEF Next

-----------------------------------------------------------------------------
\* The invariant holds at the start: there is no run, and the loop is about to plan.
LEMMA InitInv == Init => IInv
  <1> SUFFICES ASSUME Init PROVE IInv
    OBVIOUS
  <1> USE FeedsAssumption, ClockAssumption DEF Init
  <1>1. TypeOK
    <2>1. runs \in Seq([status : {"running", "failed"}, started : 0 .. Horizon])
      OBVIOUS
    <2>2. stepped \subseteq DOMAIN runs /\ jobs \subseteq (DOMAIN runs) \X Feeds /\ todo \subseteq Feeds
      OBVIOUS
    <2>3. kind \in [Articles -> Kinds] /\ duplicateOf \in [Articles -> Articles \cup {NoArticle}]
      BY DEF Kinds
    <2>4. now \in 0 .. Horizon /\ busy \in 0 .. MaxBusy /\ wakeAt \in Nat /\ faults \in 0 .. MaxFaults
      OBVIOUS
    <2>5. pc \in Pcs /\ logged \subseteq Articles /\ old \subseteq Articles /\ blocked \in BOOLEAN
      BY DEF Pcs
    <2> HIDE DEF Init
    <2>. QED
      BY <2>1, <2>2, <2>3, <2>4, <2>5 DEF TypeOK
  <1>2. PaceInv /\ FanOutInv
    BY DEF PaceInv, FanOutInv
  <1>3. RunsInv /\ RunIsFannedOut
    BY DEF RunsInv, RunIsFannedOut
  <1>4. SlotInv
    <2> SUFFICES ASSUME SlotsApart
                 PROVE  pc # "down" /\ now <= wakeAt + busy /\ \E s \in Slots \cup {0} : PassFor(s)
      BY DEF SlotInv
    <2>1. \A u \in Slots : u \in Nat /\ 0 < u
      <3>1. \A u \in Slots : u > MaxBusy
        BY DEF SlotsApart
      <3>2. MaxBusy \in Nat /\ Slots \subseteq Nat
        OBVIOUS
      <3>. QED
        BY <3>1, <3>2
    <2>2. 0 \notin Slots /\ \A u \in Slots : ~(u < 0)
      BY <2>1
    <2>3. wakeAt <= 0 /\ 0 < wakeAt + Second
      OBVIOUS
    <2>4. pc = "planning" /\ pc \notin {"cleaning", "guarding"}
      OBVIOUS
    <2>5. pc # "down" /\ now <= wakeAt + busy
      OBVIOUS
    <2> HIDE DEF Init
    <2>6. PassFor(0)
      BY <2>2, <2>3, <2>4 DEF PassFor
    <2>. QED
      BY <2>5, <2>6
  <1>. QED
    BY <1>1, <1>2, <1>3, <1>4 DEF IInv

\* Every step keeps the invariant.
LEMMA NextInv == IInv /\ [Next]_vars => IInv'
  BY TypeStep, PaceStep, RunsStep, FanOutStep, FannedStep, SlotStep DEF IInv

\* The slot of a run: the last one less than a second after its start.
LEMMA SlotOfRun ==
    ASSUME NEW t \in Nat, NEW s \in Slots, s < t + Second
    PROVE  /\ SlotOf(t) \in Slots /\ SlotOf(t) < t + Second
           /\ \A u \in Slots : u < t + Second => u <= SlotOf(t)
  <1> USE ClockAssumption
  <1> DEFINE due == {u \in Slots : u < t + Second}
  <1>1. due \in SUBSET Nat /\ s \in due /\ t + Second \in Nat /\ \A u \in due : u <= t + Second
    <2>1. due \in SUBSET Nat /\ s \in due
      OBVIOUS
    <2>2. t + Second \in Nat
      OBVIOUS
    <2>3. ASSUME NEW u \in due
          PROVE  u <= t + Second
      <3>1. u \in Nat /\ u < t + Second
        OBVIOUS
      <3>. QED
        BY <2>2, <3>1
    <2>. QED
      BY <2>1, <2>2, <2>3
  <1>2. \E m \in due : \A u \in due : u <= m
    <2> HIDE DEF due
    <2>. QED
      BY <1>1, Greatest
  <1>3. SlotOf(t) = CHOOSE m \in due : \A u \in due : u <= m
    BY <1>1 DEF SlotOf
  <1>4. SlotOf(t) \in due /\ \A u \in due : u <= SlotOf(t)
    <2> HIDE DEF due
    <2>. QED
      BY <1>2, <1>3
  <1>. QED
    BY <1>4

\* Two runs of one slot would be less than a zombie age apart.
LEMMA SlotsDiffer ==
    ASSUME TypeOK, RunsInv, NEW r \in DOMAIN runs, NEW q \in DOMAIN runs, r < q
    PROVE  SlotOf(runs[r].started) # SlotOf(runs[q].started)
  <1> USE ClockAssumption
  <1> DEFINE t == runs[r].started
             u == runs[q].started
  <1>1. t \in Nat /\ u \in Nat
    BY RunType
  <1>2. PICK s \in Slots : s < t + Second
    BY DEF RunsInv
  <1>3. PICK v \in Slots : v < u + Second /\ u <= v + MaxBusy
    BY DEF RunsInv
  <1>4. u - t > ZombieAge
    BY DEF RunsInv
  <1> HIDE DEF t, u
  <1>5. SlotOf(t) \in Nat /\ SlotOf(t) < t + Second
    BY <1>1, <1>2, SlotOfRun
  <1>6. v <= SlotOf(u) /\ SlotOf(u) \in Nat
    BY <1>1, <1>3, SlotOfRun
  <1>7. v \in Nat
    OBVIOUS
  <1>8. SlotOf(t) < SlotOf(u)
    BY <1>1, <1>3, <1>4, <1>5, <1>6, <1>7, PaceAssumption
  <1>. QED
    BY <1>5, <1>6, <1>8 DEF t, u

\* A run started for a slot is the run of that slot, when the next one is far away.
LEMMA SlotOfItsRun ==
    ASSUME SlotsApart, NEW t \in Nat, NEW s \in Slots, s < t + Second, t <= s + MaxBusy
    PROVE  SlotOf(t) = s
  <1> USE ClockAssumption
  <1>1. SlotOf(t) \in Slots /\ SlotOf(t) < t + Second /\ s <= SlotOf(t)
    BY SlotOfRun
  <1>2. s < SlotOf(t) => SlotOf(t) - s >= ZombieAge + MaxBusy + Second
    BY <1>1 DEF SlotsApart
  <1>3. SlotOf(t) \in Nat /\ s \in Nat
    BY <1>1
  <1>. QED
    BY <1>1, <1>2, <1>3

\* The inductive invariant of the scheduler: the pace of a pass, what the runs have
\* in common, and how far the fan-out of the last one is.
THEOREM Inductive == Spec => []IInv
  BY InitInv, NextInv, PTL DEF Spec

\* The variables of the scheduler keep their types.
THEOREM TypeCorrect == Spec => []TypeOK
  <1>1. IInv => TypeOK
    BY DEF IInv
  <1>. QED
    BY <1>1, Inductive, PTL

\* No slot has two runs, though the loop may wake several times for one, and start
\* over after a crash or a lost answer.
THEOREM OnePerSlot == Spec => []OneRunPerSlot
  <1>1. IInv => OneRunPerSlot
    <2> SUFFICES ASSUME IInv, NEW r \in DOMAIN runs, NEW q \in DOMAIN runs, r # q
                 PROVE  SlotOf(runs[r].started) # SlotOf(runs[q].started)
      BY DEF OneRunPerSlot
    <2>1. TypeOK /\ RunsInv
      BY DEF IInv
    <2>2. DOMAIN runs \subseteq Nat
      BY <2>1 DEF TypeOK
    <2>3. r < q \/ q < r
      BY <2>2
    <2>. QED
      BY <2>1, <2>3, SlotsDiffer
  <1>. QED
    BY <1>1, Inductive, PTL

\* Without a failure or a crash, a run the scheduler has left has its step and a job
\* for every selected feed.
THEOREM FannedOut == Spec => []RunIsFannedOut
  <1>1. IInv => RunIsFannedOut
    BY DEF IInv
  <1>. QED
    BY <1>1, Inductive, PTL

\* Nothing completes a run, and yet every slot has its run soon after it came, as long as
\* nothing fails and the slots are a zombie age, a pass and a second apart: the run that
\* is still there when the next slot comes is a zombie by then.
THEOREM NoneSkipped ==
    ASSUME SlotsApart
    PROVE  Spec => []NoSlotSkipped
  <1>1. IInv => NoSlotSkipped
    <2> SUFFICES ASSUME IInv, faults = 0, ~blocked, NEW s \in Slots, now > s + MaxBusy + Second
                 PROVE  \E r \in DOMAIN runs : SlotOf(runs[r].started) = s
      BY DEF NoSlotSkipped, SlotServed
    <2>1. TypeOK /\ now <= wakeAt + busy
      BY DEF IInv, SlotInv
    <2>2. PICK t \in Slots \cup {0} : PassFor(t)
      BY DEF IInv, SlotInv
    <2>3. /\ now \in Nat /\ wakeAt \in Nat /\ busy \in Nat /\ busy <= MaxBusy /\ wakeAt <= t
          /\ s \in Nat /\ t \in Nat /\ MaxBusy \in Nat /\ Second \in Nat
      BY <2>1, <2>2, ClockAssumption DEF TypeOK, PassFor
    <2>4. s < t
      BY <2>1, <2>3
    <2>5. HasRun(s)
      BY <2>2, <2>4 DEF PassFor
    <2>6. PICK r \in DOMAIN runs : s < runs[r].started + Second /\ runs[r].started <= s + MaxBusy
      BY <2>5 DEF HasRun
    <2>7. runs[r].started \in Nat
      BY <2>1, RunType
    <2>. QED
      BY <2>6, <2>7, SlotOfItsRun
  <1>. QED
    BY <1>1, Inductive, PTL
=============================================================================
