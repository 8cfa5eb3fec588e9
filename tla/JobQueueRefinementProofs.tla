---------------------- MODULE JobQueueRefinementProofs ----------------------
(***************************************************************************)
(* The queue implements JobLifecycle, for any jobs, workers, priorities,   *)
(* batch size, max_attempts, crashes and failures, when no manual          *)
(* operation is called.                                                    *)
(***************************************************************************)
EXTENDS JobQueueRefinement, JobQueueProofs

\* Nothing was rewritten by hand.
Untouched == admin = 0 /\ touched = {}

\* Without manual operations no job is ever touched.
LEMMA UntouchedStep ==
  ASSUME MaxAdmin = 0, Untouched, [Next]_vars
  PROVE  Untouched'
  <1> USE DEF Untouched, loop, history, NextInBatch, Leave
  <1>1. ASSUME NEW j \in Jobs, Touch(j) PROVE FALSE
    BY <1>1 DEF Touch
  <1>2. ~CleanupDeadJobs
    BY DEF CleanupDeadJobs
  <1>3. CASE UNCHANGED vars
    BY <1>3 DEF vars
  <1>4. ASSUME NEW w \in Workers, Work(w) PROVE Untouched'
    BY <1>4
    DEF Work, Move, PickSelect, PickUpdate, StartJob, HandlerReturns, CompleteJob, FailJob, EndBatch
  <1>5. ASSUME NEW w \in Workers, PickFails(w) \/ SettleFails(w) \/ Stop(w) \/ Crash(w)
        PROVE  Untouched'
    BY <1>5 DEF PickFails, SettleFails, Stop, Crash
  <1>6. ASSUME NEW j \in Jobs, NEW p \in Priorities, CreateJob(j, p) PROVE Untouched'
    BY <1>6 DEF CreateJob
  <1>7. CASE Tick
    BY <1>7 DEF Tick
  <1>. QED
    BY <1>1, <1>2, <1>3, <1>4, <1>5, <1>6, <1>7 DEF Next, MarkDead, RetryJob

-----------------------------------------------------------------------------
(* The refinement mapping, job by job.                                     *)

\* The phase of a job at rest follows from its status, that of a running one from
\* the worker that has it.
BarInv ==
  /\ phaseBar = [j \in Jobs |-> phaseBar[j]]
  /\ holderBar = [j \in Jobs |-> holderBar[j]]
  /\ \A j \in Jobs :
       /\ status[j] # "running" => holderBar[j] = NoWorker
       /\ status[j] = "absent" => phaseBar[j] = "absent"
       /\ status[j] = "pending" => phaseBar[j] = "waiting"
       /\ status[j] = "completed" => phaseBar[j] = "done"
       /\ status[j] \in {"dead", "deleted"} => phaseBar[j] = "dead"
       /\ \A w \in Workers : HeldBy(w, j) => phaseBar[j] = "leased" /\ holderBar[j] = w
       /\ status[j] = "running" /\ (\A w \in Workers : ~HeldBy(w, j)) =>
            phaseBar[j] = "abandoned" /\ holderBar[j] = NoWorker

\* The bars are so in every state of the inductive invariant.
LEMMA Bars ==
  ASSUME IInv, Untouched
  PROVE  BarInv
  <1>1. ASSUME NEW j \in Jobs, NEW v \in Workers, NEW w \in Workers, HeldBy(v, j), HeldBy(w, j)
        PROVE  v = w
    BY <1>1, HeldByOne DEF IInv, ExclusiveOwnership, HeldBy, Untouched
  <1>2. /\ phaseBar = [j \in Jobs |-> phaseBar[j]]
        /\ holderBar = [j \in Jobs |-> holderBar[j]]
    BY DEF phaseBar, holderBar
  <1>3. ASSUME NEW j \in Jobs, NEW w \in Workers, HeldBy(w, j)
        PROVE  phaseBar[j] = "leased" /\ holderBar[j] = w
    <2>1. phaseBar[j] = "leased"
      BY <1>3 DEF phaseBar, HeldBy
    <2>2. holderBar[j] = CHOOSE v \in Workers : HeldBy(v, j)
      BY <1>3 DEF holderBar
    <2>. QED
      BY <1>1, <1>3, <2>1, <2>2
  <1>4. ASSUME NEW j \in Jobs, \A w \in Workers : ~HeldBy(w, j)
        PROVE  holderBar[j] = NoWorker /\ (status[j] = "running" => phaseBar[j] = "abandoned")
    BY <1>4 DEF phaseBar, holderBar
  <1>5. ASSUME NEW j \in Jobs, status[j] # "running"
        PROVE  \A w \in Workers : ~HeldBy(w, j)
    BY <1>5 DEF HeldBy
  <1>6. ASSUME NEW j \in Jobs
        PROVE  /\ status[j] = "absent" => phaseBar[j] = "absent"
               /\ status[j] = "pending" => phaseBar[j] = "waiting"
               /\ status[j] = "completed" => phaseBar[j] = "done"
               /\ status[j] \in {"dead", "deleted"} => phaseBar[j] = "dead"
    BY DEF phaseBar
  <1>. QED
    BY <1>2, <1>3, <1>4, <1>5, <1>6 DEF BarInv

\* The row and the holders of job j stay as they are.
Kept(j) == status'[j] = status[j] /\ \A w \in Workers : HeldBy(w, j)' <=> HeldBy(w, j)

\* The promise moves the jobs of S to phase p and holder v.
MoveTo(S, p, v) ==
  /\ phaseBar' = [j \in Jobs |-> IF j \in S THEN p ELSE phaseBar[j]]
  /\ holderBar' = [j \in Jobs |-> IF j \in S THEN v ELSE holderBar[j]]

\* A job whose row and holders stay as they are stays in its phase.
LEMMA SameBar ==
  ASSUME TypeOK, BarInv, BarInv', NEW j \in Jobs, Kept(j)
  PROVE  phaseBar'[j] = phaseBar[j] /\ holderBar'[j] = holderBar[j]
  <1>1. CASE \E w \in Workers : HeldBy(w, j)
    BY <1>1 DEF BarInv, Kept
  <1>2. CASE \A w \in Workers : ~HeldBy(w, j)
    BY <1>2 DEF BarInv, Kept, TypeOK, JobStatus
  <1>. QED
    BY <1>1, <1>2

\* If all jobs are like that, the step is a stutter of the promise.
LEMMA Stutter ==
  ASSUME TypeOK, BarInv, BarInv', UNCHANGED attempts, \A j \in Jobs : Kept(j)
  PROVE  UNCHANGED LC!lcvars
  <1>1. \A j \in Jobs : phaseBar'[j] = phaseBar[j] /\ holderBar'[j] = holderBar[j]
    BY SameBar
  <1>2. phaseBar' = phaseBar /\ holderBar' = holderBar
    BY <1>1 DEF BarInv
  <1>. QED
    BY <1>2 DEF LC!lcvars

\* If the jobs of S move to phase p and holder v, and all others stay as they are,
\* the promise moves the jobs of S there.
LEMMA Moved ==
  ASSUME TypeOK, BarInv, BarInv', NEW S \in SUBSET Jobs, NEW p, NEW v,
         \A j \in S : phaseBar'[j] = p /\ holderBar'[j] = v,
         \A j \in Jobs \ S : Kept(j)
  PROVE  MoveTo(S, p, v)
  <1>1. \A j \in Jobs \ S : phaseBar'[j] = phaseBar[j] /\ holderBar'[j] = holderBar[j]
    BY SameBar
  <1>2. /\ phaseBar' = [j \in Jobs |-> phaseBar'[j]]
        /\ holderBar' = [j \in Jobs |-> holderBar'[j]]
    BY DEF BarInv
  <1>3. phaseBar' = [j \in Jobs |-> IF j \in S THEN p ELSE phaseBar[j]]
    BY <1>1, <1>2
  <1>4. holderBar' = [j \in Jobs |-> IF j \in S THEN v ELSE holderBar[j]]
    BY <1>1, <1>2
  <1>. QED
    BY <1>3, <1>4 DEF MoveTo

\* The same for a single job, in the words of Submit and Release.
LEMMA MovedOne ==
  ASSUME TypeOK, BarInv, BarInv', NEW k \in Jobs, NEW p, NEW v,
         phaseBar'[k] = p, holderBar'[k] = v,
         \A j \in Jobs \ {k} : Kept(j)
  PROVE  /\ phaseBar' = [phaseBar EXCEPT ![k] = p]
         /\ holderBar' = [holderBar EXCEPT ![k] = v]
  <1>1. {k} \in SUBSET Jobs /\ \A j \in {k} : phaseBar'[j] = p /\ holderBar'[j] = v
    OBVIOUS
  <1>2. MoveTo({k}, p, v)
    BY <1>1, Moved
  <1>3. /\ phaseBar = [j \in Jobs |-> phaseBar[j]]
        /\ holderBar = [j \in Jobs |-> holderBar[j]]
    BY DEF BarInv
  <1>4. phaseBar' = [phaseBar EXCEPT ![k] = p]
    BY <1>2, <1>3 DEF MoveTo
  <1>5. holderBar' = [holderBar EXCEPT ![k] = v]
    BY <1>2, <1>3 DEF MoveTo
  <1>. QED
    BY <1>4, <1>5

-----------------------------------------------------------------------------
(* Step by step.                                                           *)

\* The UPDATE of a pick that hands its rows to the worker is a Lease; one whose
\* worker never learns of it is an Abandon.
LEMMA TakenRows ==
  ASSUME TypeOK, OwnershipInv, BarInv, BarInv', NEW w \in Workers, pc[w] = "picking", TakeRows(w),
         \/ \A j \in batch[w] : HeldBy(w, j)'
         \/ \A j \in batch[w], u \in Workers : ~HeldBy(u, j)',
         \A j \in Jobs \ batch[w] : Kept(j)
  PROVE  [LC!LCNext]_LC!lcvars
  <1> DEFINE S == batch[w]
  <1>1. S \in SUBSET Jobs
    BY DEF TypeOK
  <1>2. ASSUME NEW j \in S
        PROVE  j \in Jobs /\ status'[j] = "running" /\ phaseBar[j] = "waiting"
    <2>1. j \in Jobs /\ status[j] = "pending"
      BY <1>1 DEF OwnershipInv, LockedRowsPending
    <2>2. status'[j] = "running"
      BY <2>1 DEF TakeRows
    <2>. QED
      BY <2>1, <2>2 DEF BarInv
  <1>3. \A j \in Jobs \ S : Kept(j)
    OBVIOUS
  <1>4. UNCHANGED attempts
    BY DEF TakeRows
  <1>5. CASE S = {}
    BY <1>3, <1>4, <1>5, Stutter
  <1>6. CASE S # {} /\ \A j \in S : HeldBy(w, j)'
    <2>1. \A j \in S : phaseBar'[j] = "leased" /\ holderBar'[j] = w
      BY <1>2, <1>6 DEF BarInv
    <2>2. MoveTo(S, "leased", w)
      BY <1>1, <1>3, <2>1, Moved
    <2>3. LC!Lease(w, S)
      BY <1>2, <1>4, <1>6, <2>2 DEF LC!Lease, MoveTo
    <2>. QED
      BY <1>1, <2>3 DEF LC!LCNext
  <1>7. CASE S # {} /\ \A j \in S, u \in Workers : ~HeldBy(u, j)'
    <2>1. \A j \in S : phaseBar'[j] = "abandoned" /\ holderBar'[j] = NoWorker
      BY <1>2, <1>7 DEF BarInv
    <2>2. MoveTo(S, "abandoned", NoWorker)
      BY <1>1, <1>3, <2>1, Moved
    <2>3. LC!Abandon(w, S)
      BY <1>2, <1>4, <1>7, <2>2 DEF LC!Abandon, MoveTo
    <2>. QED
      BY <1>1, <2>3 DEF LC!LCNext
  <1>. QED
    BY <1>5, <1>6, <1>7

\* A worker that lets go of held jobs without a word to the database abandons them.
LEMMA LetGo ==
  ASSUME TypeOK, OwnershipInv, Untouched, BarInv, BarInv', UNCHANGED <<status, attempts>>,
         NEW w \in Workers, pc[w] # "picking", NEW S \in SUBSET Holds(w),
         Holds(w)' = Holds(w) \ S,
         \A v \in Workers \ {w} : Holds(v)' = Holds(v)
  PROVE  [LC!LCNext]_LC!lcvars
  <1>1. S \in SUBSET Jobs
    BY DEF TypeOK, Holds
  <1>2. \A j \in S : HeldBy(w, j)
    BY DEF OwnershipInv, HeldRowsRunning, Untouched, HeldBy
  <1>3. \A j \in S, v \in Workers : ~HeldBy(v, j)'
    <2> SUFFICES ASSUME NEW j \in S, NEW v \in Workers, j \in Holds(v)'
                 PROVE  FALSE
      BY DEF HeldBy
    <2>1. v # w /\ j \in Holds(v) /\ j \in Holds(w)
      OBVIOUS
    <2>. QED
      BY <2>1, HeldByOne DEF ExclusiveOwnership, Untouched
  <1>4. \A j \in Jobs \ S : Kept(j)
    BY DEF HeldBy, Kept
  <1>5. CASE S = {}
    BY <1>4, <1>5, Stutter
  <1>6. CASE S # {}
    <2>1. \A j \in S : phaseBar[j] = "leased" /\ holderBar[j] = w
      BY <1>1, <1>2 DEF BarInv
    <2>2. \A j \in S : phaseBar'[j] = "abandoned" /\ holderBar'[j] = NoWorker
      BY <1>1, <1>2, <1>3 DEF BarInv, HeldBy
    <2>3. MoveTo(S, "abandoned", NoWorker)
      BY <1>1, <1>4, <2>2, Moved
    <2>4. LC!Abandon(w, S)
      BY <1>6, <2>1, <2>3 DEF LC!Abandon, MoveTo
    <2>. QED
      BY <1>1, <2>4 DEF LC!LCNext
  <1>. QED
    BY <1>5, <1>6

\* What a worker does to the holdings of all when it settles its current job.
LEMMA SettledHolds ==
  ASSUME TypeOK, OwnershipInv, NEW w \in Workers, pc[w] \in {"completing", "failing"}, NextInBatch(w)
  PROVE  /\ Holds(w)' = Holds(w) \ {cur[w]}
         /\ \A v \in Workers \ {w} : Holds(v)' = Holds(v)
  BY CurIsJob, JobsAssumption DEF OwnershipInv, TypeOK, NextInBatch, Holds

\* The current job of a worker about to settle it is leased to that worker.
LEMMA CurLeased ==
  ASSUME TypeOK, OwnershipInv, Untouched, BarInv,
         NEW w \in Workers, pc[w] \in {"completing", "failing"}
  PROVE  cur[w] \in Jobs /\ status[cur[w]] = "running" /\ phaseBar[cur[w]] = "leased"
  <1>1. cur[w] \in Jobs /\ cur[w] \in Holds(w)
    BY CurIsJob DEF OwnershipInv
  <1>2. HeldBy(w, cur[w])
    BY <1>1 DEF OwnershipInv, HeldRowsRunning, Untouched, HeldBy
  <1>. QED
    BY <1>1, <1>2 DEF BarInv, HeldBy

\* complete_job is Succeed.
LEMMA CompleteJobRefines ==
  ASSUME TypeOK, OwnershipInv, Untouched, BarInv, BarInv', NEW w \in Workers, CompleteJob(w)
  PROVE  \E j \in Jobs : LC!Succeed(j)
  <1> DEFINE k == cur[w]
  <1>1. pc[w] = "completing" /\ NextInBatch(w) /\ UNCHANGED attempts
    BY DEF CompleteJob
  <1>2. k \in Jobs /\ status[k] = "running" /\ phaseBar[k] = "leased"
    BY <1>1, CurLeased
  <1>3. status'[k] = "completed" /\ \A j \in Jobs \ {k} : status'[j] = status[j]
    BY <1>2 DEF CompleteJob, TypeOK, Inserted, JobStatus
  <1>4. \A j \in Jobs \ {k} : Kept(j)
    BY <1>1, <1>3, SettledHolds DEF HeldBy, Kept
  <1>5. phaseBar'[k] = "done" /\ holderBar'[k] = NoWorker
    BY <1>2, <1>3 DEF BarInv
  <1>6. /\ phaseBar' = [phaseBar EXCEPT ![k] = "done"]
        /\ holderBar' = [holderBar EXCEPT ![k] = NoWorker]
    BY <1>2, <1>4, <1>5, MovedOne
  <1>. QED
    BY <1>1, <1>2, <1>6 DEF LC!Succeed, LC!Release

\* fail_job is Fail: its CASE is the promise's.
LEMMA FailJobRefines ==
  ASSUME TypeOK, OwnershipInv, Untouched, BarInv, BarInv', NEW w \in Workers, FailJob(w)
  PROVE  \E j \in Jobs : LC!Fail(j)
  <1> DEFINE k == cur[w]
             p == IF attempts[k] + 1 < MaxAttempts THEN "waiting" ELSE "dead"
  <1>1. pc[w] = "failing" /\ NextInBatch(w)
    BY DEF FailJob
  <1>2. k \in Jobs /\ status[k] = "running" /\ phaseBar[k] = "leased"
    BY <1>1, CurLeased
  <1>3. /\ Requeue(k) \/ Exhaust(k)
        /\ attempts' = [attempts EXCEPT ![k] = @ + 1]
    BY <1>2 DEF FailJob, Inserted, JobStatus
  <1>4. status'[k] = (IF attempts[k] + 1 < MaxAttempts THEN "pending" ELSE "dead")
    BY <1>2, <1>3, AttemptsAssumption DEF Requeue, Exhaust, TypeOK
  <1>5. \A j \in Jobs \ {k} : status'[j] = status[j]
    BY <1>3 DEF Requeue, Exhaust, TypeOK
  <1>6. \A j \in Jobs \ {k} : Kept(j)
    BY <1>1, <1>5, SettledHolds DEF HeldBy, Kept
  <1>7. phaseBar'[k] = p /\ holderBar'[k] = NoWorker
    BY <1>2, <1>4 DEF BarInv
  <1>8. /\ phaseBar' = [phaseBar EXCEPT ![k] = p]
        /\ holderBar' = [holderBar EXCEPT ![k] = NoWorker]
    <2> HIDE DEF p
    <2>. QED
      BY <1>2, <1>6, <1>7, MovedOne
  <1>. QED
    BY <1>2, <1>3, <1>8 DEF LC!Fail, LC!Release

\* create_job is Submit.
LEMMA CreateJobRefines ==
  ASSUME TypeOK, BarInv, BarInv', NEW k \in Jobs, NEW r \in Priorities, CreateJob(k, r)
  PROVE  LC!Submit(k)
  <1>1. /\ status[k] = "absent" /\ status'[k] = "pending"
        /\ \A j \in Jobs \ {k} : status'[j] = status[j]
        /\ UNCHANGED <<attempts, batch, cur>>
    BY DEF CreateJob, TypeOK, loop
  <1>2. \A j \in Jobs \ {k} : Kept(j)
    BY <1>1 DEF HeldBy, Holds, Kept
  <1>3. /\ phaseBar[k] = "absent" /\ phaseBar'[k] = "waiting"
        /\ holderBar'[k] = NoWorker /\ holderBar[k] = NoWorker
    BY <1>1 DEF BarInv
  <1>4. /\ phaseBar' = [phaseBar EXCEPT ![k] = "waiting"]
        /\ holderBar' = [holderBar EXCEPT ![k] = NoWorker]
    BY <1>2, <1>3, MovedOne
  <1>5. [holderBar EXCEPT ![k] = NoWorker] = holderBar
    BY <1>3 DEF BarInv
  <1>. QED
    BY <1>1, <1>3, <1>4, <1>5 DEF LC!Submit

\* A step that leaves the rows' status and attempts, and every holding, as they are
\* is a stutter of the promise.
LEMMA SameHoldings ==
  ASSUME TypeOK, BarInv, BarInv', UNCHANGED <<status, attempts>>,
         \A w \in Workers : Holds(w)' = Holds(w)
  PROVE  UNCHANGED LC!lcvars
  <1>1. \A j \in Jobs : Kept(j)
    BY DEF Kept, HeldBy
  <1>. QED
    BY <1>1, Stutter

\* The first half of a pick and its failure change only what a picking or idle worker
\* has: locked rows, which are pending.
LEMMA PendingOnly ==
  ASSUME TypeOK, OwnershipInv, BarInv, BarInv', UNCHANGED <<status, attempts, cur>>, NEW w \in Workers,
         \A j \in batch[w] \cup batch'[w] : status[j] = "pending",
         \A v \in Workers \ {w} : batch'[v] = batch[v]
  PROVE  UNCHANGED LC!lcvars
  <1>1. \A j \in Jobs : Kept(j)
    BY DEF Kept, HeldBy, Holds
  <1>. QED
    BY <1>1, Stutter

\* A pick that takes its rows, whether its worker goes on, misses the answer or is gone.
LEMMA TakenBatch ==
  ASSUME TypeOK, OwnershipInv, Untouched, BarInv, BarInv', NEW w \in Workers,
         pc[w] = "picking", TakeRows(w), UNCHANGED cur,
         batch' = batch \/ batch' = [batch EXCEPT ![w] = {}]
  PROVE  [LC!LCNext]_LC!lcvars
  <1>1. cur[w] = NoJob /\ batch[w] \subseteq Jobs
    BY DEF OwnershipInv, LoopShape, TypeOK
  <1>2. \A v \in Workers \ {w} : Holds(v)' = Holds(v)
    BY DEF TypeOK, Holds
  <1>3. \A j \in batch[w] : status[j] = "pending" /\ status'[j] = "running"
    BY <1>1 DEF OwnershipInv, LockedRowsPending, TakeRows
  <1>4. \A j \in Jobs \ batch[w] : status'[j] = status[j]
    BY DEF TakeRows
  <1>5. \A j \in Jobs \ batch[w] : Kept(j)
    <2>1. Holds(w) = batch[w] /\ Holds(w)' \subseteq batch[w]
      BY <1>1 DEF Holds, TypeOK
    <2>. QED
      BY <1>2, <1>4, <2>1 DEF Kept, HeldBy
  <1>6. ASSUME NEW j \in batch[w], NEW v \in Workers \ {w}
        PROVE  j \notin Holds(v)
    BY HeldByOne DEF ExclusiveOwnership, Untouched, Holds
  <1>7. CASE UNCHANGED batch
    <2>1. \A j \in batch[w] : HeldBy(w, j)'
      BY <1>3, <1>7 DEF HeldBy, Holds
    <2>. QED
      BY <1>5, <2>1, TakenRows
  <1>8. CASE batch' = [batch EXCEPT ![w] = {}]
    <2>1. Holds(w)' = {}
      BY <1>1, <1>8 DEF Holds, TypeOK
    <2>2. \A j \in batch[w], u \in Workers : ~HeldBy(u, j)'
      BY <1>2, <1>6, <2>1 DEF HeldBy
    <2>. QED
      BY <1>5, <2>2, TakenRows
  <1>. QED
    BY <1>7, <1>8

\* Every step of the queue is a step of the promise or leaves it as it is.
LEMMA StepRefines ==
  ASSUME MaxAdmin = 0, IInv, Untouched, BarInv, BarInv', [Next]_vars
  PROVE  [LC!LCNext]_LC!lcvars
  <1> USE DEF IInv, rows, loop, history
  <1>1. ASSUME NEW j \in Jobs, NEW p \in Priorities, CreateJob(j, p)
        PROVE  [LC!LCNext]_LC!lcvars
    <2>1. LC!Submit(j)
      BY <1>1, CreateJobRefines
    <2>. QED
      BY <2>1 DEF LC!LCNext
  <1>2. ASSUME NEW w \in Workers, PickSelect(w) PROVE [LC!LCNext]_LC!lcvars
    <2>1. batch[w] = {} /\ batch'[w] \subseteq Due
      BY <1>2, TopRankedSubset DEF PickSelect, OwnershipInv, LoopShape, TypeOK
    <2>. QED
      BY <1>2, <2>1, PendingOnly DEF PickSelect, Due, TypeOK
  <1>3. ASSUME NEW w \in Workers, PickUpdate(w) PROVE [LC!LCNext]_LC!lcvars
    BY <1>3, TakenBatch DEF PickUpdate
  <1>4. ASSUME NEW w \in Workers, PickFails(w) PROVE [LC!LCNext]_LC!lcvars
    <2>1. CASE TakeRows(w)
      BY <1>4, <2>1, TakenBatch DEF PickFails
    <2>2. CASE UNCHANGED rows
      BY <1>4, <2>2, PendingOnly DEF PickFails, OwnershipInv, LockedRowsPending, TypeOK
    <2>. QED
      BY <1>4, <2>1, <2>2 DEF PickFails
  <1>5. ASSUME NEW w \in Workers, NEW j \in Jobs, StartJob(w, j) PROVE [LC!LCNext]_LC!lcvars
    <2>1. cur[w] = NoJob
      BY <1>5 DEF StartJob, OwnershipInv, LoopShape
    <2>2. \A v \in Workers : Holds(v)' = Holds(v)
      BY <1>5, <2>1, JobsAssumption DEF StartJob, Holds, TypeOK
    <2>. QED
      BY <1>5, <2>2, SameHoldings DEF StartJob
  <1>6. ASSUME UNCHANGED <<status, attempts, batch, cur>> PROVE [LC!LCNext]_LC!lcvars
    BY <1>6, SameHoldings DEF Holds
  <1>7. ASSUME NEW w \in Workers, CompleteJob(w) PROVE [LC!LCNext]_LC!lcvars
    BY <1>7, CompleteJobRefines DEF LC!LCNext, LC!Settle
  <1>8. ASSUME NEW w \in Workers, FailJob(w) PROVE [LC!LCNext]_LC!lcvars
    BY <1>8, FailJobRefines DEF LC!LCNext, LC!Settle
  <1>9. ASSUME NEW w \in Workers, SettleFails(w) PROVE [LC!LCNext]_LC!lcvars
    <2>1. pc[w] \in {"completing", "failing"} /\ NextInBatch(w)
      BY <1>9 DEF SettleFails
    <2>2. {cur[w]} \in SUBSET Holds(w)
      BY <2>1, CurIsJob DEF OwnershipInv
    <2>3. Holds(w)' = Holds(w) \ {cur[w]} /\ \A v \in Workers \ {w} : Holds(v)' = Holds(v)
      BY <2>1, SettledHolds
    <2>. QED
      BY <1>9, <2>1, <2>2, <2>3, LetGo DEF SettleFails
  <1>10. ASSUME NEW w \in Workers, Stop(w) PROVE [LC!LCNext]_LC!lcvars
    <2>1. batch[w] = {} /\ cur[w] = NoJob
      BY <1>10 DEF Stop, OwnershipInv, LoopShape
    <2>2. UNCHANGED <<batch, cur>>
      BY <1>10, <2>1 DEF Stop, Leave, TypeOK
    <2>. QED
      BY <1>6, <1>10, <2>2 DEF Stop
  <1>11. ASSUME NEW w \in Workers, Crash(w) PROVE [LC!LCNext]_LC!lcvars
    <2>1. batch' = [batch EXCEPT ![w] = {}] /\ cur' = [cur EXCEPT ![w] = NoJob]
      BY <1>11 DEF Crash, Leave
    <2>2. CASE pc[w] = "picking"
      <3>1. UNCHANGED cur
        BY <2>1, <2>2, PickingCur DEF OwnershipInv
      <3>2. CASE TakeRows(w)
        BY <2>1, <2>2, <3>1, <3>2, TakenBatch
      <3>3. CASE UNCHANGED rows
        BY <2>1, <2>2, <3>1, <3>3, PendingOnly DEF OwnershipInv, LockedRowsPending, TypeOK
      <3>. QED
        BY <1>11, <3>2, <3>3 DEF Crash
    <2>3. CASE pc[w] # "picking"
      <3>1. UNCHANGED rows
        BY <1>11, <2>3 DEF Crash
      <3>2. Holds(w)' = Holds(w) \ Holds(w) /\ \A v \in Workers \ {w} : Holds(v)' = Holds(v)
        BY <2>1 DEF Holds, TypeOK
      <3>. QED
        BY <2>3, <3>1, <3>2, LetGo
    <2>. QED
      BY <2>2, <2>3
  <1>12. ASSUME NEW j \in Jobs, MarkDead(j) \/ RetryJob(j, 0) \/ RetryJob(j, 1) PROVE FALSE
    BY <1>12 DEF MarkDead, RetryJob, Touch, Untouched
  <1>13. ~CleanupDeadJobs
    BY DEF CleanupDeadJobs
  <1>14. Tick \/ UNCHANGED vars => UNCHANGED <<status, attempts, batch, cur>>
    BY DEF Tick, vars
  <1>15. ASSUME NEW w \in Workers, HandlerReturns(w) \/ EndBatch(w)
         PROVE  UNCHANGED <<status, attempts, batch, cur>>
    BY <1>15 DEF HandlerReturns, EndBatch
  <1>. QED
    BY <1>1, <1>2, <1>3, <1>4, <1>5, <1>6, <1>7, <1>8, <1>9, <1>10, <1>11, <1>12, <1>13,
       <1>14, <1>15
    DEF Next, Work, Move

\* An empty queue is an empty promise.
LEMMA InitRefines == Init => LC!LCInit
  <1> SUFFICES ASSUME Init PROVE LC!LCInit
    OBVIOUS
  <1>1. \A j \in Jobs : status[j] = "absent"
    BY DEF Init
  <1>2. \A j \in Jobs, w \in Workers : ~HeldBy(w, j)
    BY <1>1 DEF HeldBy
  <1>3. phaseBar = [j \in Jobs |-> "absent"]
    BY <1>1 DEF phaseBar
  <1>4. holderBar = [j \in Jobs |-> NoWorker]
    BY <1>2 DEF holderBar
  <1>. QED
    BY <1>3, <1>4 DEF Init, LC!LCInit

\* The polling workers, their overlapping picks, crashes and lost answers give what
\* JobLifecycle promises: no job is leased twice, charged twice, settled without a lease
\* or brought back once it is over.
THEOREM Refinement ==
  ASSUME MaxAdmin = 0
  PROVE  Spec => ImplementsLifecycle
  <1>1. Init => Untouched
    BY DEF Init, Untouched
  <1>2. Untouched /\ [Next]_vars => Untouched'
    BY UntouchedStep
  <1>3. IInv /\ Untouched => BarInv
    BY Bars
  <1>4. IInv /\ Untouched /\ BarInv /\ BarInv' /\ [Next]_vars => [LC!LCNext]_LC!lcvars
    BY StepRefines
  <1>. QED
    BY <1>1, <1>2, <1>3, <1>4, InitRefines, Inductive, PTL DEF Spec, ImplementsLifecycle, LC!LCSpec
=============================================================================
