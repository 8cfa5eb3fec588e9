--------------------------- MODULE JobQueueProofs ---------------------------
(* Theorems of JobQueue, for any jobs, workers, batch size and max_attempts. *)
EXTENDS JobQueue, FiniteSetTheorems, TLAPS

\* The delay of a retry is a number, for the attempts a retry can have.
LEMMA BackoffType == \A k \in Nat : k <= MaxAttempts => Backoff(k) \in Nat
  BY BackoffAssumption, AttemptsAssumption DEF Backoff

\* TopRanked only selects.
LEMMA TopRankedSubset == ASSUME NEW S PROVE TopRanked(S) \subseteq S
  BY DEF TopRanked

\* The rank of an INSERT is a number, since there are finitely many rows.
LEMMA RankType == 1 + Cardinality({k \in Jobs : status[k] # "absent"}) \in Nat
  <1>1. IsFiniteSet({k \in Jobs : status[k] # "absent"})
    BY JobsAssumption, FS_Subset
  <1>2. Cardinality({k \in Jobs : status[k] # "absent"}) \in Nat
    BY <1>1, FS_CardinalityType
  <1>3. QED
    BY <1>2

\* Every action keeps every variable in its type.
LEMMA TypeStep == TypeOK /\ [Next]_vars => TypeOK'
  <1> SUFFICES ASSUME TypeOK, [Next]_vars PROVE TypeOK'
    OBVIOUS
  <1> USE DEF TypeOK, rows, loop, history, JobStatus, Pcs
  <1>1. ASSUME NEW j \in Jobs, NEW p \in Priorities, CreateJob(j, p) PROVE TypeOK'
    BY <1>1, RankType, PrioritiesAssumption DEF CreateJob
  <1>2. ASSUME NEW w \in Workers, PickSelect(w) PROVE TypeOK'
    <2>1. TopRanked(Due) \subseteq Jobs
      BY TopRankedSubset DEF Due
    <2>2. QED
      BY <1>2, <2>1 DEF PickSelect
  <1>3. ASSUME NEW w \in Workers, PickUpdate(w) PROVE TypeOK'
    BY <1>3 DEF PickUpdate, TakeRows
  <1>4. ASSUME NEW w \in Workers, NEW j \in Jobs, StartJob(w, j) PROVE TypeOK'
    BY <1>4 DEF StartJob
  <1>5. ASSUME NEW w \in Workers, HandlerReturns(w) PROVE TypeOK'
    BY <1>5 DEF HandlerReturns
  <1>6. ASSUME NEW w \in Workers, CompleteJob(w) PROVE TypeOK'
    BY <1>6 DEF CompleteJob, NextInBatch, Inserted
  <1>7. ASSUME NEW w \in Workers, FailJob(w) PROVE TypeOK'
    <2>1. status' \in [Jobs -> JobStatus \cup {"absent", "deleted"}]
      BY <1>7 DEF FailJob, Requeue, Exhaust
    <2>2. wait' \in [Jobs -> Nat] /\ since' \in [Jobs -> Nat]
      <3>1. CASE Inserted(cur[w]) /\ Requeue(cur[w])
        <4>1. CASE cur[w] \in Jobs
          BY <3>1, <4>1, BackoffType, AttemptsAssumption DEF Requeue
        <4>2. CASE cur[w] \notin Jobs
          BY <3>1, <4>2 DEF Requeue
        <4>3. QED
          BY <4>1, <4>2
      <3>2. CASE ~(Inserted(cur[w]) /\ Requeue(cur[w]))
        BY <1>7, <3>2 DEF FailJob, Exhaust
      <3>3. QED
        BY <3>1, <3>2
    <2>3. attempts' \in [Jobs -> Nat]
      BY <1>7 DEF FailJob
    <2>4. pc' \in [Workers -> Pcs] /\ batch' \in [Workers -> SUBSET Jobs]
          /\ cur' \in [Workers -> Jobs \cup {NoJob}]
      BY <1>7 DEF FailJob, NextInBatch
    <2>5. QED
      BY <1>7, <2>1, <2>2, <2>3, <2>4 DEF FailJob
  <1>8. ASSUME NEW w \in Workers, EndBatch(w) PROVE TypeOK'
    BY <1>8 DEF EndBatch
  <1>9. ASSUME NEW w \in Workers, PickFails(w) PROVE TypeOK'
    BY <1>9, BoundsAssumption DEF PickFails, TakeRows
  <1>10. ASSUME NEW w \in Workers, SettleFails(w) PROVE TypeOK'
    BY <1>10 DEF SettleFails, NextInBatch
  <1>11. ASSUME NEW w \in Workers, Stop(w) PROVE TypeOK'
    BY <1>11 DEF Stop, Leave
  <1>12. ASSUME NEW w \in Workers, Crash(w) PROVE TypeOK'
    BY <1>12 DEF Crash, Leave, TakeRows
  <1>13. ASSUME NEW j \in Jobs, MarkDead(j) PROVE TypeOK'
    BY <1>13 DEF MarkDead, Touch
  <1>14. ASSUME NEW j \in Jobs, NEW b \in {0, 1}, RetryJob(j, b) PROVE TypeOK'
    BY <1>14 DEF RetryJob, Touch
  <1>15. CASE CleanupDeadJobs
    BY <1>15 DEF CleanupDeadJobs
  <1>16. CASE Tick
    BY <1>16 DEF Tick
  <1>17. CASE UNCHANGED vars
    BY <1>17 DEF vars
  <1>18. QED
    BY <1>1, <1>2, <1>3, <1>4, <1>5, <1>6, <1>7, <1>8, <1>9, <1>10, <1>11,
       <1>12, <1>13, <1>14, <1>15, <1>16, <1>17 DEF Next, Work, Move

\* Type correctness of the queue.
THEOREM TypeCorrect == Spec => []TypeOK
  <1>1. Init => TypeOK
    BY DEF Init, TypeOK, Pcs
  <1>2. QED
    BY <1>1, TypeStep, PTL DEF Spec

-----------------------------------------------------------------------------
(* Ownership.                                                              *)

\* A job is in at most one worker's hands, unless it was touched by hand.
LEMMA HeldByOne ==
  ASSUME TypeOK, OwnershipInv
  PROVE  ExclusiveOwnership
  <1> SUFFICES ASSUME NEW v \in Workers, NEW w \in Workers, v # w,
                      NEW j \in Holds(v) \cap Holds(w), j \notin touched
               PROVE FALSE
    BY DEF ExclusiveOwnership
  <1> USE DEF OwnershipInv
  <1>1. pc[v] = "picking" => cur[v] = NoJob
    BY DEF LoopShape
  <1>2. pc[w] = "picking" => cur[w] = NoJob
    BY DEF LoopShape
  <1>3. CASE pc[v] = "picking" /\ pc[w] = "picking"
    BY <1>1, <1>2, <1>3 DEF LocksDisjoint, Holds
  <1>4. CASE pc[v] = "picking" /\ pc[w] # "picking"
    <2>1. status[j] = "pending"
      BY <1>1, <1>4 DEF LockedRowsPending, Holds
    <2>2. status[j] = "running"
      BY <1>4 DEF HeldRowsRunning
    <2>3. QED
      BY <2>1, <2>2
  <1>5. CASE pc[v] # "picking" /\ pc[w] = "picking"
    <2>1. status[j] = "pending"
      BY <1>2, <1>5 DEF LockedRowsPending, Holds
    <2>2. status[j] = "running"
      BY <1>5 DEF HeldRowsRunning
    <2>3. QED
      BY <2>1, <2>2
  <1>6. CASE pc[v] # "picking" /\ pc[w] # "picking"
    <2>1. lockedBy[j] = v /\ lockedBy[j] = w
      BY <1>6 DEF HeldRowsRunning
    <2>2. QED
      BY <2>1
  <1>7. QED
    BY <1>3, <1>4, <1>5, <1>6

\* The current job is a real one exactly in the middle of process_job.
LEMMA CurIsJob ==
  ASSUME TypeOK, LoopShape, NEW w \in Workers,
         pc[w] \in {"handling", "completing", "failing"}
  PROVE  cur[w] \in Jobs /\ cur[w] \in Holds(w) /\ cur[w] \notin batch[w]
  BY DEF TypeOK, LoopShape, Holds

\* The first half of a pick locks pending rows that nobody has locked.
LEMMA PickSelectOwnership ==
  ASSUME TypeOK, OwnershipInv, NEW w \in Workers, PickSelect(w)
  PROVE  OwnershipInv'
  <1> USE DEF OwnershipInv, TypeOK, PickSelect, rows, history
  <1>1. batch'[w] \subseteq Due
    BY TopRankedSubset
  <1>2. \A v \in Workers : v # w => batch'[v] = batch[v] /\ pc'[v] = pc[v]
    OBVIOUS
  <1>3. pc'[w] = "picking" /\ cur' = cur /\ cur[w] = NoJob
    BY DEF LoopShape
  <1>4. LockedRowsPending'
    BY <1>1, <1>2 DEF LockedRowsPending, Due
  <1>5. LocksDisjoint'
    BY <1>1, <1>2 DEF LocksDisjoint, Due, Locked
  <1>6. HeldRowsRunning'
    BY <1>2, <1>3 DEF HeldRowsRunning, Holds
  <1>7. LoopShape'
    <2>1. cur[w] \notin batch'[w]
      BY <1>1, <1>3, JobsAssumption DEF Due
    <2>2. QED
      BY <1>2, <1>3, <2>1 DEF LoopShape
  <1>8. QED
    BY <1>4, <1>5, <1>6, <1>7

\* The second half hands the locked rows over, whether or not the worker hears
\* of it: no other worker holds any of them.
LEMMA TakeRowsOwnership ==
  ASSUME TypeOK, OwnershipInv, NEW w \in Workers, pc[w] = "picking", TakeRows(w),
         UNCHANGED <<cur, touched>>,
         \/ /\ pc' = [pc EXCEPT ![w] = "draining"]
            /\ UNCHANGED batch
         \/ /\ \E next \in {"idle", "gone"} : pc' = [pc EXCEPT ![w] = next]
            /\ batch' = [batch EXCEPT ![w] = {}]
  PROVE  OwnershipInv'
  <1> USE DEF OwnershipInv, TypeOK
  <1>1. cur[w] = NoJob
    BY DEF LoopShape
  <1>2. \A v \in Workers : v # w => batch'[v] = batch[v] /\ pc'[v] = pc[v]
    OBVIOUS
  <1>3. pc'[w] \in {"draining", "idle", "gone"} /\ batch'[w] \subseteq batch[w]
    OBVIOUS
  <1>4. LockedRowsPending'
    BY <1>2, <1>3 DEF LockedRowsPending, LocksDisjoint, TakeRows
  <1>5. LocksDisjoint'
    BY <1>2, <1>3 DEF LocksDisjoint
  <1>6. HeldRowsRunning'
    <2> SUFFICES ASSUME NEW v \in Workers, pc'[v] # "picking", NEW j \in Holds(v)' \ touched
                 PROVE status'[j] = "running" /\ lockedBy'[j] = v
      BY DEF HeldRowsRunning
    <2>1. CASE v = w
      BY <1>1, <1>3, <2>1 DEF Holds, TakeRows
    <2>2. CASE v # w
      <3>1. status[j] = "running" /\ lockedBy[j] = v
        BY <1>2, <2>2 DEF HeldRowsRunning, Holds
      <3>2. j \notin batch[w]
        BY <3>1 DEF LockedRowsPending
      <3>3. j \in Jobs
        BY <1>2, <2>2 DEF Holds
      <3>4. QED
        BY <3>1, <3>2, <3>3 DEF TakeRows
    <2>3. QED
      BY <2>1, <2>2
  <1>7. LoopShape'
    BY <1>1, <1>2, <1>3 DEF LoopShape
  <1>8. QED
    BY <1>4, <1>5, <1>6, <1>7

\* Leaving rows alone and letting go of jobs keeps ownership.
LEMMA LetGoOwnership ==
  ASSUME TypeOK, OwnershipInv, NEW w \in Workers,
         UNCHANGED <<rows, touched>>,
         \E next \in {"idle", "gone"} : pc' = [pc EXCEPT ![w] = next],
         batch' = [batch EXCEPT ![w] = {}],
         cur' = [cur EXCEPT ![w] = NoJob]
  PROVE  OwnershipInv'
  BY DEF OwnershipInv, TypeOK, LockedRowsPending, LocksDisjoint, HeldRowsRunning,
         LoopShape, Holds, rows

\* A row that its holder settles was in no other hands.
LEMMA SettleOwnership ==
  ASSUME TypeOK, OwnershipInv, NEW w \in Workers,
         pc[w] \in {"completing", "failing"},
         \A j \in Jobs : j # cur[w] => status'[j] = status[j],
         UNCHANGED <<lockedBy, touched>>,
         cur[w] \notin Locked \/ UNCHANGED status,
         NextInBatch(w)
  PROVE  OwnershipInv'
  <1> USE DEF OwnershipInv, TypeOK, NextInBatch
  <1> DEFINE k == cur[w]
  <1>1. k \in Jobs /\ k \in Holds(w) /\ k \notin batch[w]
    BY CurIsJob
  <1>2. \A v \in Workers : v # w => cur'[v] = cur[v] /\ pc'[v] = pc[v]
    OBVIOUS
  <1>3. cur'[w] = NoJob /\ pc'[w] = "draining"
    OBVIOUS
  <1>4. LockedRowsPending'
    BY <1>2, <1>3 DEF LockedRowsPending, Locked
  <1>5. LocksDisjoint'
    BY <1>2, <1>3 DEF LocksDisjoint
  <1>6. HeldRowsRunning'
    <2> SUFFICES ASSUME NEW v \in Workers, pc'[v] # "picking", NEW j \in Holds(v)' \ touched
                 PROVE status'[j] = "running" /\ lockedBy'[j] = v
      BY DEF HeldRowsRunning
    <2>1. j \in Holds(v) /\ pc[v] # "picking" /\ j \in Jobs
      BY <1>2, <1>3 DEF Holds
    <2>2. status[j] = "running" /\ lockedBy[j] = v
      BY <2>1 DEF HeldRowsRunning
    <2>3. CASE v = w
      BY <1>1, <1>3, <2>1, <2>2, <2>3 DEF Holds
    <2>4. CASE v # w
      BY <1>1, <2>1, <2>2, <2>4, HeldByOne DEF ExclusiveOwnership
    <2>5. QED
      BY <2>3, <2>4
  <1>7. LoopShape'
    BY <1>1, <1>2, <1>3, JobsAssumption DEF LoopShape
  <1>8. QED
    BY <1>4, <1>5, <1>6, <1>7

\* A picking worker has no current job: dropping it changes nothing.
LEMMA PickingCur ==
  ASSUME TypeOK, LoopShape, NEW w \in Workers, pc[w] \in {"picking", "idle"}
  PROVE  [cur EXCEPT ![w] = NoJob] = cur
  <1>1. cur[w] = NoJob
    BY DEF LoopShape
  <1>2. QED
    BY <1>1 DEF TypeOK

\* A manual operation rewrites a row no pick has locked.
LEMMA TouchOwnership ==
  ASSUME TypeOK, OwnershipInv, NEW j \in Jobs, Touch(j),
         \A k \in Jobs : k # j => status'[k] = status[k]
  PROVE  OwnershipInv'
  BY DEF OwnershipInv, TypeOK, Touch, LockedRowsPending, LocksDisjoint, Locked,
         HeldRowsRunning, LoopShape, Holds, loop

\* Every step keeps ownership.
LEMMA OwnershipStep == TypeOK /\ OwnershipInv /\ [Next]_vars => OwnershipInv'
  <1> SUFFICES ASSUME TypeOK, OwnershipInv, [Next]_vars PROVE OwnershipInv'
    OBVIOUS
  <1>1. ASSUME NEW j \in Jobs, NEW p \in Priorities, CreateJob(j, p) PROVE OwnershipInv'
    BY <1>1 DEF CreateJob, OwnershipInv, TypeOK, LockedRowsPending, LocksDisjoint,
                HeldRowsRunning, LoopShape, Holds, loop, history
  <1>2. ASSUME NEW w \in Workers, PickSelect(w) PROVE OwnershipInv'
    BY <1>2, PickSelectOwnership
  <1>3. ASSUME NEW w \in Workers, PickUpdate(w) PROVE OwnershipInv'
    BY <1>3, TakeRowsOwnership DEF PickUpdate, history
  <1>4. ASSUME NEW w \in Workers, PickFails(w) PROVE OwnershipInv'
    <2>1. CASE TakeRows(w)
      BY <1>4, <2>1, TakeRowsOwnership DEF PickFails, history
    <2>2. CASE UNCHANGED rows
      BY <1>4, <2>2, PickingCur, LetGoOwnership DEF PickFails, history, OwnershipInv
    <2>3. QED
      BY <1>4, <2>1, <2>2 DEF PickFails
  <1>5. ASSUME NEW w \in Workers, NEW j \in Jobs, StartJob(w, j) PROVE OwnershipInv'
    <2>1. cur[w] = NoJob /\ j # NoJob
      BY <1>5, JobsAssumption DEF StartJob, OwnershipInv, LoopShape
    <2>2. pc'[w] \in {"failing", "handling"} /\ cur'[w] = j /\ batch'[w] = batch[w] \ {j}
      BY <1>5 DEF StartJob, TypeOK
    <2>3. \A v \in Workers : v # w => pc'[v] = pc[v] /\ cur'[v] = cur[v] /\ batch'[v] = batch[v]
      BY <1>5 DEF StartJob, TypeOK
    <2>4. Holds(w)' \subseteq Holds(w)
      BY <1>5, <2>2 DEF StartJob, Holds
    <2>5. LockedRowsPending' /\ LocksDisjoint'
      BY <1>5, <2>2, <2>3 DEF StartJob, OwnershipInv, LockedRowsPending, LocksDisjoint, rows
    <2>6. HeldRowsRunning'
      BY <1>5, <2>2, <2>3, <2>4 DEF StartJob, OwnershipInv, HeldRowsRunning, Holds, rows
    <2>7. LoopShape'
      BY <1>5, <2>1, <2>2, <2>3 DEF StartJob, OwnershipInv, LoopShape
    <2>8. QED
      BY <2>5, <2>6, <2>7 DEF OwnershipInv
  <1>6. ASSUME NEW w \in Workers, HandlerReturns(w) PROVE OwnershipInv'
    BY <1>6 DEF HandlerReturns, OwnershipInv, TypeOK, LockedRowsPending, LocksDisjoint,
                HeldRowsRunning, LoopShape, Holds, rows, history
  <1>7. ASSUME NEW w \in Workers, CompleteJob(w) PROVE OwnershipInv'
    <2>1. \A j \in Jobs : j # cur[w] => status'[j] = status[j]
      BY <1>7 DEF CompleteJob, TypeOK
    <2>2. QED
      BY <1>7, <2>1, SettleOwnership DEF CompleteJob, history
  <1>8. ASSUME NEW w \in Workers, FailJob(w) PROVE OwnershipInv'
    <2>1. \A j \in Jobs : j # cur[w] => status'[j] = status[j]
      BY <1>8 DEF FailJob, Requeue, Exhaust, TypeOK
    <2>2. QED
      BY <1>8, <2>1, SettleOwnership DEF FailJob
  <1>9. ASSUME NEW w \in Workers, SettleFails(w) PROVE OwnershipInv'
    BY <1>9, SettleOwnership DEF SettleFails, rows, history
  <1>10. ASSUME NEW w \in Workers, EndBatch(w) PROVE OwnershipInv'
    BY <1>10 DEF EndBatch, OwnershipInv, TypeOK, LockedRowsPending, LocksDisjoint,
                 HeldRowsRunning, LoopShape, Holds, rows, history
  <1>11. ASSUME NEW w \in Workers, Stop(w) PROVE OwnershipInv'
    BY <1>11, LetGoOwnership DEF Stop, Leave, history
  <1>12. ASSUME NEW w \in Workers, Crash(w) PROVE OwnershipInv'
    <2>1. CASE UNCHANGED rows
      BY <1>12, <2>1, LetGoOwnership DEF Crash, Leave, history
    <2>2. CASE pc[w] = "picking" /\ TakeRows(w)
      <3>1. [cur EXCEPT ![w] = NoJob] = cur
        BY <2>2, PickingCur DEF OwnershipInv
      <3>2. QED
        BY <1>12, <2>2, <3>1, TakeRowsOwnership DEF Crash, Leave, history
    <2>3. QED
      BY <1>12, <2>1, <2>2 DEF Crash
  <1>13. ASSUME NEW j \in Jobs, MarkDead(j) PROVE OwnershipInv'
    BY <1>13, TouchOwnership DEF MarkDead, TypeOK
  <1>14. ASSUME NEW j \in Jobs, NEW b \in {0, 1}, RetryJob(j, b) PROVE OwnershipInv'
    BY <1>14, TouchOwnership DEF RetryJob, TypeOK
  <1>15. CASE CleanupDeadJobs
    BY <1>15 DEF CleanupDeadJobs, OwnershipInv, TypeOK, LockedRowsPending, LocksDisjoint,
                 HeldRowsRunning, LoopShape, Holds, loop, history
  <1>16. CASE Tick
    BY <1>16 DEF Tick, OwnershipInv, LockedRowsPending, LocksDisjoint,
                 HeldRowsRunning, LoopShape, Holds, loop
  <1>17. CASE UNCHANGED vars
    BY <1>17 DEF vars, rows, loop, history, OwnershipInv, LockedRowsPending, LocksDisjoint,
                 HeldRowsRunning, LoopShape, Holds
  <1>18. QED
    BY <1>1, <1>2, <1>3, <1>4, <1>5, <1>6, <1>7, <1>8, <1>9, <1>10, <1>11,
       <1>12, <1>13, <1>14, <1>15, <1>16, <1>17 DEF Next, Work, Move

\* Two workers never hold the same job.
THEOREM Ownership == Spec => []ExclusiveOwnership
  <1>1. Init => OwnershipInv
    BY DEF Init, OwnershipInv, LockedRowsPending, LocksDisjoint, HeldRowsRunning,
           LoopShape, Holds
  <1>2. TypeOK /\ OwnershipInv => ExclusiveOwnership
    BY HeldByOne
  <1>3. QED
    BY <1>1, <1>2, TypeCorrect, OwnershipStep, PTL DEF Spec

-----------------------------------------------------------------------------
(* The account of attempts.                                                *)

\* What a worker settles, if untouched, is a running row started once since its
\* last charge.
LEMMA SettledRow ==
  ASSUME TypeOK, OwnershipInv, AccountInv, NEW w \in Workers,
         pc[w] \in {"completing", "failing"}
  PROVE  /\ cur[w] \in Jobs
         /\ cur[w] \notin touched =>
              /\ status[cur[w]] = "running"
              /\ attempts[cur[w]] < MaxAttempts
              /\ starts[cur[w]] = attempts[cur[w]] + 1
         /\ \A v \in Workers : cur[w] \in batch[v] \cup ({cur[v]} \ {NoJob}) /\ v # w
              => cur[w] \in touched
         /\ cur[w] \notin batch[w]
  <1>1. cur[w] \in Jobs /\ cur[w] \in Holds(w) /\ cur[w] \notin batch[w]
    BY CurIsJob DEF OwnershipInv
  <1>2. ASSUME cur[w] \notin touched PROVE status[cur[w]] = "running"
    BY <1>1, <1>2 DEF OwnershipInv, HeldRowsRunning
  <1>3. ASSUME cur[w] \notin touched
        PROVE attempts[cur[w]] < MaxAttempts /\ starts[cur[w]] = attempts[cur[w]] + 1
    BY <1>1, <1>2, <1>3 DEF AccountInv, RowAccount, HeldAccount
  <1>4. ASSUME NEW v \in Workers, cur[w] \in Holds(v), v # w PROVE cur[w] \in touched
    BY <1>1, <1>4, HeldByOne DEF ExclusiveOwnership
  <1>5. QED
    BY <1>1, <1>2, <1>3, <1>4 DEF Holds

\* Letting go of jobs or moving them to running keeps the account.
LEMMA UnchargedAccount ==
  ASSUME TypeOK, AccountInv, UNCHANGED <<attempts, starts, touched>>,
         \A j \in Jobs \ touched :
            \/ status'[j] = status[j]
            \/ status[j] \in {"absent", "pending"} /\ status'[j] \in {"pending", "running"}
            \/ status[j] = "dead" /\ status'[j] = "deleted",
         \A w \in Workers : batch'[w] \subseteq batch[w] /\ cur'[w] \in {cur[w], NoJob}
  PROVE  AccountInv'
  <1> USE DEF TypeOK, AccountInv
  <1>1. RowAccount'
    <2> SUFFICES ASSUME NEW j \in Jobs \ touched
                 PROVE
        /\ status'[j] \in {"absent", "pending"} => starts[j] = attempts[j] /\ attempts[j] < MaxAttempts
        /\ status'[j] = "running" => attempts[j] < MaxAttempts /\ starts[j] <= attempts[j] + 1
        /\ status'[j] = "completed" => attempts[j] < MaxAttempts /\ starts[j] = attempts[j] + 1
        /\ status'[j] \in {"dead", "deleted"} => attempts[j] = MaxAttempts /\ starts[j] = MaxAttempts
      BY DEF RowAccount
    <2>1. CASE status'[j] = status[j]
      BY <2>1 DEF RowAccount
    <2>2. CASE status[j] \in {"absent", "pending"} /\ status'[j] \in {"pending", "running"}
      BY <2>2 DEF RowAccount
    <2>3. CASE status[j] = "dead" /\ status'[j] = "deleted"
      BY <2>3 DEF RowAccount
    <2>4. QED
      BY <2>1, <2>2, <2>3
  <1>2. HeldAccount'
    BY JobsAssumption DEF HeldAccount
  <1>3. QED
    BY <1>1, <1>2

\* Every step keeps the account.
LEMMA AccountStep == TypeOK /\ OwnershipInv /\ AccountInv /\ [Next]_vars => AccountInv'
  <1> SUFFICES ASSUME TypeOK, OwnershipInv, AccountInv, [Next]_vars PROVE AccountInv'
    OBVIOUS
  <1>1. ASSUME NEW j \in Jobs, NEW p \in Priorities, CreateJob(j, p) PROVE AccountInv'
    <2>1. \A k \in Jobs : \/ status'[k] = status[k]
                          \/ status[k] = "absent" /\ status'[k] = "pending"
      BY <1>1 DEF CreateJob, TypeOK
    <2>2. QED
      BY <1>1, <2>1, UnchargedAccount DEF CreateJob, loop, history
  <1>2. ASSUME NEW w \in Workers, PickSelect(w) PROVE AccountInv'
    <2>1. RowAccount'
      BY <1>2 DEF PickSelect, rows, history, AccountInv, RowAccount
    <2>2. \A v \in Workers : v # w => batch'[v] = batch[v]
      BY <1>2 DEF PickSelect, TypeOK
    <2>3. batch'[w] \subseteq Due
      BY <1>2, TopRankedSubset DEF PickSelect, TypeOK
    <2>4. \A j \in batch'[w] \ touched : starts[j] = attempts[j]
      BY <2>3 DEF Due, AccountInv, RowAccount
    <2>5. HeldAccount'
      BY <1>2, <2>2, <2>4 DEF PickSelect, rows, history, AccountInv, HeldAccount
    <2>6. QED
      BY <2>1, <2>5 DEF AccountInv
  <1>3. ASSUME NEW w \in Workers, pc[w] = "picking", TakeRows(w) \/ UNCHANGED rows,
               UNCHANGED <<starts, touched>>,
               \A v \in Workers : batch'[v] \subseteq batch[v] /\ cur'[v] \in {cur[v], NoJob}
        PROVE AccountInv'
    <2>1. \A j \in batch[w] : status[j] = "pending"
      BY <1>3 DEF OwnershipInv, LockedRowsPending
    <2>2. \A j \in Jobs : \/ status'[j] = status[j]
                          \/ status[j] = "pending" /\ status'[j] = "running"
      BY <1>3, <2>1 DEF TakeRows, rows
    <2>3. attempts' = attempts
      BY <1>3 DEF TakeRows, rows
    <2>4. QED
      BY <1>3, <2>2, <2>3, UnchargedAccount
  <1>4. ASSUME NEW w \in Workers, PickUpdate(w) PROVE AccountInv'
    BY <1>3, <1>4 DEF PickUpdate, history
  <1>5. ASSUME NEW w \in Workers, PickFails(w) PROVE AccountInv'
    BY <1>3, <1>5 DEF PickFails, history, TypeOK
  <1>6. ASSUME NEW w \in Workers, NEW j \in Jobs, StartJob(w, j) PROVE AccountInv'
    <2>1. j \notin touched => status[j] = "running" /\ attempts[j] < MaxAttempts /\ starts[j] = attempts[j]
      BY <1>6 DEF StartJob, OwnershipInv, HeldRowsRunning, Holds, AccountInv, RowAccount, HeldAccount
    <2>2. starts'[j] = starts[j] + 1 /\ \A k \in Jobs : k # j => starts'[k] = starts[k]
      BY <1>6 DEF StartJob, TypeOK
    <2>3. RowAccount'
      BY <1>6, <2>1, <2>2 DEF StartJob, rows, TypeOK, AccountInv, RowAccount
    <2>4. \A v \in Workers : j \in Holds(v) /\ v # w => j \in touched
      BY <1>6, HeldByOne DEF StartJob, Holds, ExclusiveOwnership
    <2>5. batch'[w] = batch[w] \ {j} /\ cur'[w] = j
      BY <1>6 DEF StartJob, TypeOK
    <2>6. \A v \in Workers : v # w => batch'[v] = batch[v] /\ cur'[v] = cur[v]
      BY <1>6 DEF StartJob, TypeOK
    <2>7. ASSUME NEW v \in Workers, NEW k \in batch'[v] \ touched PROVE starts'[k] = attempts[k]
      <3>1. k # j
        BY <2>4, <2>5, <2>6, <2>7 DEF Holds
      <3>2. k \in batch[v] /\ k \in Jobs
        BY <2>5, <2>6, <2>7 DEF TypeOK
      <3>3. QED
        BY <2>2, <2>7, <3>1, <3>2 DEF AccountInv, HeldAccount
    <2>8. ASSUME NEW v \in Workers, cur'[v] \in Jobs \ touched
          PROVE starts'[cur'[v]] = attempts[cur'[v]] + 1
      <3>1. CASE v = w
        BY <2>1, <2>2, <2>5, <2>8, <3>1
      <3>2. CASE v # w
        <4>1. cur[v] # j
          BY <2>4, <2>6, <2>8, <3>2, JobsAssumption DEF Holds
        <4>2. QED
          BY <2>2, <2>6, <2>8, <3>2, <4>1 DEF AccountInv, HeldAccount
      <3>3. QED
        BY <3>1, <3>2
    <2>9. HeldAccount'
      BY <1>6, <2>7, <2>8 DEF StartJob, rows, HeldAccount
    <2>10. QED
      BY <2>3, <2>9 DEF AccountInv
  <1>7. ASSUME NEW w \in Workers, HandlerReturns(w) PROVE AccountInv'
    BY <1>7, UnchargedAccount DEF HandlerReturns, rows, history
  <1>8. ASSUME NEW w \in Workers, NextInBatch(w)
        PROVE /\ \A v \in Workers : batch'[v] = batch[v]
              /\ \A v \in Workers : cur'[v] \in {cur[v], NoJob}
    BY <1>8 DEF NextInBatch, TypeOK
  <1>9. ASSUME NEW w \in Workers, CompleteJob(w) PROVE AccountInv'
    <2>1. pc[w] \in {"completing", "failing"} /\ NextInBatch(w)
      BY <1>9 DEF CompleteJob
    <2>2. \A j \in Jobs : j # cur[w] => status'[j] = status[j]
      BY <1>9 DEF CompleteJob, TypeOK
    <2>3. status'[cur[w]] = "completed" \/ status'[cur[w]] = status[cur[w]]
      BY <1>9, <2>1, SettledRow DEF CompleteJob, TypeOK
    <2>4. RowAccount'
      BY <1>9, <2>1, <2>2, <2>3, SettledRow DEF CompleteJob, history, AccountInv, RowAccount
    <2>5. HeldAccount'
      BY <1>8, <1>9, <2>1, JobsAssumption DEF CompleteJob, history, AccountInv, HeldAccount
    <2>6. QED
      BY <2>4, <2>5 DEF AccountInv
  <1>10. ASSUME NEW w \in Workers, FailJob(w) PROVE AccountInv'
    <2> DEFINE k == cur[w]
    <2>1. pc[w] \in {"completing", "failing"} /\ NextInBatch(w)
      BY <1>10 DEF FailJob
    <2>2. k \in Jobs
      BY <2>1, SettledRow
    <2>3. \A j \in Jobs : j # k => status'[j] = status[j] /\ attempts'[j] = attempts[j]
      BY <1>10, <2>2 DEF FailJob, Requeue, Exhaust, TypeOK
    <2>4. ASSUME k \notin touched
          PROVE /\ attempts'[k] = attempts[k] + 1
                /\ \/ attempts[k] + 1 < MaxAttempts /\ status'[k] = "pending"
                   \/ attempts[k] + 1 >= MaxAttempts /\ status'[k] = "dead"
                /\ starts[k] = attempts[k] + 1 /\ attempts[k] < MaxAttempts
      <3>1. status[k] = "running" /\ starts[k] = attempts[k] + 1 /\ attempts[k] < MaxAttempts
        BY <2>1, <2>4, SettledRow
      <3>2. Inserted(k)
        BY <3>1 DEF Inserted, JobStatus
      <3>3. QED
        BY <1>10, <2>2, <3>1, <3>2 DEF FailJob, Requeue, Exhaust, TypeOK
    <2>5. RowAccount'
      <3> SUFFICES ASSUME NEW j \in Jobs \ touched
                   PROVE
        /\ status'[j] \in {"absent", "pending"} => starts[j] = attempts'[j] /\ attempts'[j] < MaxAttempts
        /\ status'[j] = "running" => attempts'[j] < MaxAttempts /\ starts[j] <= attempts'[j] + 1
        /\ status'[j] = "completed" => attempts'[j] < MaxAttempts /\ starts[j] = attempts'[j] + 1
        /\ status'[j] \in {"dead", "deleted"} => attempts'[j] = MaxAttempts /\ starts[j] = MaxAttempts
        BY <1>10 DEF FailJob, RowAccount
      <3>1. CASE j = k
        BY <2>2, <2>4, <3>1, AttemptsAssumption DEF TypeOK
      <3>2. CASE j # k
        BY <2>3, <3>2 DEF AccountInv, RowAccount
      <3>3. QED
        BY <3>1, <3>2
    <2>6. \A v \in Workers : k \in batch[v] => k \in touched
      BY <2>1, SettledRow
    <2>7. \A v \in Workers : cur'[v] = k => k \in touched
      <3>1. cur'[w] = NoJob /\ \A v \in Workers : v # w => cur'[v] = cur[v]
        BY <2>1 DEF NextInBatch, TypeOK
      <3>2. QED
        BY <2>1, <2>2, <3>1, SettledRow, JobsAssumption
    <2>8. HeldAccount'
      BY <1>8, <1>10, <2>1, <2>3, <2>6, <2>7, JobsAssumption
      DEF FailJob, AccountInv, HeldAccount, TypeOK
    <2>9. QED
      BY <2>5, <2>8 DEF AccountInv
  <1>11. ASSUME NEW w \in Workers, SettleFails(w) PROVE AccountInv'
    BY <1>8, <1>11, UnchargedAccount DEF SettleFails, rows, history
  <1>12. ASSUME NEW w \in Workers, EndBatch(w) PROVE AccountInv'
    BY <1>12, UnchargedAccount DEF EndBatch, rows, history
  <1>13. ASSUME NEW w \in Workers, Leave(w)
         PROVE \A v \in Workers : batch'[v] \subseteq batch[v] /\ cur'[v] \in {cur[v], NoJob}
    BY <1>13 DEF Leave, TypeOK
  <1>14. ASSUME NEW w \in Workers, Stop(w) PROVE AccountInv'
    BY <1>13, <1>14, UnchargedAccount DEF Stop, Leave, rows, history
  <1>15. ASSUME NEW w \in Workers, Crash(w) PROVE AccountInv'
    <2>1. CASE UNCHANGED rows
      BY <1>13, <1>15, <2>1, UnchargedAccount DEF Crash, Leave, rows, history
    <2>2. CASE pc[w] = "picking" /\ TakeRows(w)
      BY <1>3, <1>13, <1>15, <2>2 DEF Crash, Leave, history
    <2>3. QED
      BY <1>15, <2>1, <2>2 DEF Crash
  <1>16. ASSUME NEW j \in Jobs, Touch(j), \A k \in Jobs : k # j => status'[k] = status[k]
         PROVE AccountInv'
    BY <1>16 DEF Touch, loop, AccountInv, RowAccount, HeldAccount
  <1>17. ASSUME NEW j \in Jobs, MarkDead(j) PROVE AccountInv'
    BY <1>16, <1>17 DEF MarkDead, TypeOK
  <1>18. ASSUME NEW j \in Jobs, NEW b \in {0, 1}, RetryJob(j, b) PROVE AccountInv'
    BY <1>16, <1>18 DEF RetryJob, TypeOK
  <1>19. CASE CleanupDeadJobs
    BY <1>19, UnchargedAccount DEF CleanupDeadJobs, loop, history
  <1>20. CASE Tick
    BY <1>20, UnchargedAccount DEF Tick, loop
  <1>21. CASE UNCHANGED vars
    BY <1>21, UnchargedAccount DEF vars, rows, loop, history
  <1>22. QED
    BY <1>1, <1>2, <1>4, <1>5, <1>6, <1>7, <1>9, <1>10, <1>11, <1>12, <1>14,
       <1>15, <1>17, <1>18, <1>19, <1>20, <1>21 DEF Next, Work, Move

-----------------------------------------------------------------------------
(* The delays of retries.                                                  *)

\* Rows that change neither their counters nor their clock keep the delays, if
\* none becomes pending but a new one.
LEMMA QuietDelay ==
  ASSUME TypeOK, DelayInv, UNCHANGED <<attempts, wait, since, touched>>,
         \A j \in Jobs :
            \/ status'[j] = status[j]
            \/ status[j] = "absent"
            \/ status'[j] \notin {"absent", "pending"},
         \A w \in Workers :
            pc'[w] = "picking" =>
              \/ pc[w] = "picking" /\ batch'[w] \subseteq batch[w]
              \/ batch'[w] \subseteq Due
  PROVE  DelayInv'
  <1> USE DEF TypeOK, DelayInv
  <1>1. LockedRowsDue'
    BY DEF LockedRowsDue, Due
  <1>2. AbsentUncharged'
    BY DEF AbsentUncharged
  <1>3. DelayAccount'
    BY DEF DelayAccount, AbsentUncharged, SinceCap, Backoff
  <1>4. QED
    BY <1>1, <1>2, <1>3

\* A manual operation sets the clock of a row no pick has locked.
LEMMA TouchDelay ==
  ASSUME TypeOK, DelayInv, NEW j \in Jobs, Touch(j), status'[j] # "absent",
         \A k \in Jobs : k # j => status'[k] = status[k] /\ wait'[k] = wait[k]
  PROVE  DelayInv'
  <1> USE DEF TypeOK, DelayInv, Touch, loop
  <1>1. LockedRowsDue'
    BY DEF LockedRowsDue, Locked
  <1>2. AbsentUncharged'
    BY DEF AbsentUncharged
  <1>3. DelayAccount'
    BY DEF DelayAccount, SinceCap, Backoff
  <1>4. QED
    BY <1>1, <1>2, <1>3

\* A second counted down is a second waited.
LEMMA TickDelay ==
  ASSUME TypeOK, DelayInv, AccountInv, Tick
  PROVE  DelayInv'
  <1> USE DEF TypeOK, DelayInv, Tick, loop
  <1>1. LockedRowsDue'
    BY DEF LockedRowsDue
  <1>2. AbsentUncharged'
    BY DEF AbsentUncharged
  <1>3. DelayAccount'
    <2> SUFFICES ASSUME NEW j \in Jobs \ touched, status[j] = "pending", attempts[j] > 0
                 PROVE  \/ since'[j] + wait'[j] >= Backoff(attempts[j] - 1)
                        \/ since'[j] >= SinceCap
      BY DEF DelayAccount, SinceCap, Backoff
    <2>1. attempts[j] - 1 \in Nat /\ attempts[j] - 1 <= MaxAttempts
      BY AttemptsAssumption DEF AccountInv, RowAccount
    <2>2. Backoff(attempts[j] - 1) \in Nat /\ SinceCap \in Nat
      BY <2>1, BackoffType, AttemptsAssumption DEF SinceCap
    <2>3. since[j] + wait[j] >= Backoff(attempts[j] - 1) \/ since[j] >= SinceCap
      BY DEF DelayAccount
    <2>4. /\ wait'[j] = IF wait[j] > 0 THEN wait[j] - 1 ELSE 0
          /\ since'[j] = IF since[j] < SinceCap THEN since[j] + 1 ELSE since[j]
          /\ wait[j] \in Nat /\ since[j] \in Nat
      OBVIOUS
    <2>5. QED
      BY <2>2, <2>3, <2>4
  <1>4. QED
    BY <1>1, <1>2, <1>3

\* fail_job starts the delay of the attempt it charges.
LEMMA FailDelay ==
  ASSUME TypeOK, OwnershipInv, AccountInv, DelayInv, NEW w \in Workers, FailJob(w)
  PROVE  DelayInv'
  <1> USE DEF TypeOK, DelayInv
  <1> DEFINE k == cur[w]
  <1>1. k \in Jobs /\ k \notin Locked /\ pc[w] = "failing"
    BY CurIsJob DEF FailJob, OwnershipInv
  <1>2. \A v \in Workers : pc'[v] = "picking" => pc[v] = "picking" /\ v # w
    BY DEF FailJob, NextInBatch
  <1>3. batch' = batch /\ touched' = touched
    BY DEF FailJob, NextInBatch
  <1>4. \A j \in Jobs : j # k =>
          /\ status'[j] = status[j] /\ attempts'[j] = attempts[j]
          /\ wait'[j] = wait[j] /\ since'[j] = since[j]
    BY <1>1 DEF FailJob, Requeue, Exhaust
  <1>5. LockedRowsDue'
    BY <1>1, <1>2, <1>3, <1>4 DEF LockedRowsDue, Locked
  <1>6. AbsentUncharged'
    <2>1. CASE Inserted(k)
      <3>1. status'[k] \in {"pending", "dead"}
        BY <1>1, <2>1 DEF FailJob, Requeue, Exhaust
      <3>2. QED
        BY <1>4, <3>1 DEF AbsentUncharged
    <2>2. CASE ~Inserted(k)
      BY <2>2 DEF FailJob, AbsentUncharged
    <2>3. QED
      BY <2>1, <2>2
  <1>7. DelayAccount'
    <2> SUFFICES ASSUME NEW j \in Jobs \ touched, status'[j] = "pending", attempts'[j] > 0
                 PROVE  \/ since'[j] + wait'[j] >= Backoff(attempts'[j] - 1)
                        \/ since'[j] >= SinceCap
      BY <1>3 DEF DelayAccount, SinceCap, Backoff
    <2>1. CASE j # k
      BY <1>4, <2>1 DEF DelayAccount
    <2>2. CASE j = k
      <3>1. status[k] = "running" /\ attempts[k] < MaxAttempts
        BY <1>1, <2>2, SettledRow
      <3>2. Requeue(k) /\ attempts' = [attempts EXCEPT ![k] = @ + 1]
        BY <1>1, <2>2, <3>1 DEF FailJob, Exhaust, Inserted, JobStatus
      <3>3. attempts'[k] - 1 = attempts[k]
        BY <1>1, <3>2
      <3>4. wait'[k] = Backoff(attempts[k]) /\ since'[k] = 0
        BY <1>1, <3>2 DEF Requeue
      <3>5. Backoff(attempts[k]) \in Nat
        <4>1. attempts[k] \in Nat /\ attempts[k] <= MaxAttempts
          BY <1>1, <3>1, AttemptsAssumption
        <4>2. QED
          BY <4>1, BackoffType
      <3>6. since'[k] + wait'[k] = Backoff(attempts[k])
        BY <3>4, <3>5
      <3>7. since'[k] + wait'[k] >= Backoff(attempts[k])
        BY <3>5, <3>6
      <3>8. QED
        BY <2>2, <3>3, <3>7
    <2>3. QED
      BY <2>1, <2>2
  <1>8. QED
    BY <1>5, <1>6, <1>7

\* A pick that commits moves locked, pending rows to running.
LEMMA TakeRowsStatus ==
  ASSUME TypeOK, OwnershipInv, NEW w \in Workers, pc[w] = "picking", TakeRows(w)
  PROVE  \A j \in Jobs :
            \/ status'[j] = status[j]
            \/ j \in batch[w] /\ status[j] = "pending" /\ status'[j] = "running"
  BY DEF OwnershipInv, LockedRowsPending, TakeRows

\* Every step keeps the delays.
LEMMA DelayStep ==
  TypeOK /\ OwnershipInv /\ AccountInv /\ DelayInv /\ [Next]_vars => DelayInv'
  <1> SUFFICES ASSUME TypeOK, OwnershipInv, AccountInv, DelayInv, [Next]_vars PROVE DelayInv'
    OBVIOUS
  <1> USE DEF rows, loop, history
  <1>1. ASSUME NEW j \in Jobs, NEW p \in Priorities, CreateJob(j, p) PROVE DelayInv'
    BY <1>1, QuietDelay DEF CreateJob, TypeOK
  <1>2. ASSUME NEW w \in Workers, PickSelect(w) PROVE DelayInv'
    <2>1. TopRanked(Due) \subseteq Due
      BY TopRankedSubset
    <2>2. QED
      BY <1>2, <2>1, QuietDelay DEF PickSelect, TypeOK
  <1>3. ASSUME NEW w \in Workers, PickUpdate(w) PROVE DelayInv'
    <2>1. TakeRows(w) /\ pc[w] = "picking"
      BY <1>3 DEF PickUpdate
    <2>2. QED
      BY <1>3, <2>1, TakeRowsStatus, QuietDelay DEF PickUpdate, TakeRows, TypeOK
  <1>4. ASSUME NEW w \in Workers, PickFails(w) PROVE DelayInv'
    <2>1. CASE TakeRows(w)
      BY <1>4, <2>1, TakeRowsStatus, QuietDelay DEF PickFails, TakeRows, TypeOK
    <2>2. CASE UNCHANGED rows
      BY <1>4, <2>2, QuietDelay DEF PickFails, TypeOK
    <2>3. QED
      BY <1>4, <2>1, <2>2 DEF PickFails
  <1>5. ASSUME NEW w \in Workers, NEW j \in Jobs, StartJob(w, j) PROVE DelayInv'
    BY <1>5, QuietDelay DEF StartJob, TypeOK
  <1>6. ASSUME NEW w \in Workers, HandlerReturns(w) PROVE DelayInv'
    BY <1>6, QuietDelay DEF HandlerReturns, TypeOK
  <1>7. ASSUME NEW w \in Workers, CompleteJob(w) PROVE DelayInv'
    <2>1. \A j \in Jobs : status'[j] \in {status[j], "completed"}
      BY <1>7 DEF CompleteJob, TypeOK
    <2>2. QED
      BY <1>7, <2>1, QuietDelay DEF CompleteJob, NextInBatch, TypeOK
  <1>8. ASSUME NEW w \in Workers, FailJob(w) PROVE DelayInv'
    BY <1>8, FailDelay
  <1>9. ASSUME NEW w \in Workers, SettleFails(w) PROVE DelayInv'
    BY <1>9, QuietDelay DEF SettleFails, NextInBatch, TypeOK
  <1>10. ASSUME NEW w \in Workers, EndBatch(w) PROVE DelayInv'
    BY <1>10, QuietDelay DEF EndBatch, TypeOK
  <1>11. ASSUME NEW w \in Workers, Stop(w) PROVE DelayInv'
    BY <1>11, QuietDelay DEF Stop, Leave, TypeOK
  <1>12. ASSUME NEW w \in Workers, Crash(w) PROVE DelayInv'
    <2>1. CASE UNCHANGED rows
      BY <1>12, <2>1, QuietDelay DEF Crash, Leave, TypeOK
    <2>2. CASE pc[w] = "picking" /\ TakeRows(w)
      BY <1>12, <2>2, TakeRowsStatus, QuietDelay DEF Crash, Leave, TakeRows, TypeOK
    <2>3. QED
      BY <1>12, <2>1, <2>2 DEF Crash
  <1>13. ASSUME NEW j \in Jobs, MarkDead(j) PROVE DelayInv'
    BY <1>13, TouchDelay DEF MarkDead, TypeOK
  <1>14. ASSUME NEW j \in Jobs, NEW b \in {0, 1}, RetryJob(j, b) PROVE DelayInv'
    BY <1>14, TouchDelay DEF RetryJob, TypeOK
  <1>15. CASE CleanupDeadJobs
    <2>1. \A j \in Jobs : status'[j] \in {status[j], "deleted"}
      BY <1>15 DEF CleanupDeadJobs
    <2>2. QED
      BY <1>15, <2>1, QuietDelay DEF CleanupDeadJobs
  <1>16. CASE Tick
    BY <1>16, TickDelay
  <1>17. CASE UNCHANGED vars
    BY <1>17, QuietDelay DEF vars
  <1>18. QED
    BY <1>1, <1>2, <1>3, <1>4, <1>5, <1>6, <1>7, <1>8, <1>9, <1>10, <1>11,
       <1>12, <1>13, <1>14, <1>15, <1>16, <1>17 DEF Next, Work, Move

-----------------------------------------------------------------------------
(* The theorems.                                                           *)

\* The whole inductive invariant holds.
THEOREM Inductive == Spec => []IInv
  <1>1. Init => IInv
    BY AttemptsAssumption, JobsAssumption
    DEF Init, IInv, TypeOK, Pcs, OwnershipInv, LockedRowsPending, LocksDisjoint, HeldRowsRunning,
        LoopShape, Holds, AccountInv, RowAccount, HeldAccount, DelayInv, LockedRowsDue,
        AbsentUncharged, DelayAccount
  <1>2. IInv /\ [Next]_vars => IInv'
    BY TypeStep, OwnershipStep, AccountStep, DelayStep DEF IInv
  <1>3. QED
    BY <1>1, <1>2, PTL DEF Spec

\* A job is dead exactly when its attempts are used up, and never exceeds them.
THEOREM Exhaustion == Spec => []DeadWhenExhausted
  <1>1. IInv => DeadWhenExhausted
    <2> SUFFICES ASSUME IInv, NEW j \in Jobs \ touched
                 PROVE /\ attempts[j] <= MaxAttempts
                       /\ status[j] = "dead" => attempts[j] = MaxAttempts
                       /\ attempts[j] = MaxAttempts => status[j] \in {"dead", "deleted"}
      BY DEF DeadWhenExhausted
    <2>1. status[j] \in JobStatus \cup {"absent", "deleted"} /\ attempts[j] \in Nat
      BY DEF IInv, TypeOK
    <2>2. QED
      BY <2>1, AttemptsAssumption DEF IInv, AccountInv, RowAccount, JobStatus
  <1>2. QED
    BY <1>1, Inductive, PTL

\* No job is started more often than max_attempts, whatever crashes or is lost.
THEOREM BoundedStarts == Spec => []StartsAccounted
  <1>1. IInv => StartsAccounted
    <2> SUFFICES ASSUME IInv, NEW j \in Jobs \ touched
                 PROVE /\ starts[j] <= MaxAttempts
                       /\ status[j] = "pending" => starts[j] = attempts[j]
      BY DEF StartsAccounted
    <2>1. /\ status[j] \in JobStatus \cup {"absent", "deleted"}
          /\ attempts[j] \in Nat /\ starts[j] \in Nat
      BY DEF IInv, TypeOK
    <2>2. QED
      BY <2>1, AttemptsAssumption DEF IInv, AccountInv, RowAccount, JobStatus
  <1>2. QED
    BY <1>1, Inductive, PTL

\* What a step does to the row of a job no manual operation has touched: a pick
\* takes it while pending and due, a settlement moves it only while running.
LEMMA RowStep ==
  ASSUME IInv, Next, NEW j \in Jobs \ touched'
  PROVE  \/ status'[j] = status[j]
         \/ status[j] = "absent"
         \/ status[j] = "pending" /\ wait[j] = 0
         \/ status[j] = "running" /\ status'[j] # "running"
         \/ status[j] = "dead" /\ status'[j] = "deleted"
  <1> DEFINE Result ==
         \/ status'[j] = status[j]
         \/ status[j] = "absent"
         \/ status[j] = "pending" /\ wait[j] = 0
         \/ status[j] = "running" /\ status'[j] # "running"
         \/ status[j] = "dead" /\ status'[j] = "deleted"
  <1> USE DEF IInv, rows
  <1>0. j \in Jobs /\ status \in [Jobs -> JobStatus \cup {"absent", "deleted"}]
    BY DEF TypeOK
  <1>1. ASSUME NEW w \in Workers, pc[w] = "picking", TakeRows(w) PROVE Result
    BY <1>0, <1>1, TakeRowsStatus DEF DelayInv, LockedRowsDue
  <1>2. ASSUME NEW w \in Workers, UNCHANGED status \/ PickUpdate(w) \/ PickFails(w) \/ Crash(w)
        PROVE  Result
    BY <1>1, <1>2 DEF PickUpdate, PickFails, Crash
  <1>3. ASSUME NEW w \in Workers, CompleteJob(w) PROVE Result
    <2>1. pc[w] = "completing" /\ touched' = touched
      BY <1>3 DEF CompleteJob, history
    <2>2. cur[w] \in Jobs /\ (cur[w] = j => status[j] = "running")
      BY <2>1, SettledRow
    <2>3. QED
      BY <1>0, <1>3, <2>2 DEF CompleteJob
  <1>4. ASSUME NEW w \in Workers, FailJob(w) PROVE Result
    <2>1. pc[w] = "failing" /\ touched' = touched
      BY <1>4 DEF FailJob
    <2>2. cur[w] \in Jobs /\ (cur[w] = j => status[j] = "running")
      BY <2>1, SettledRow
    <2>3. QED
      BY <1>0, <1>4, <2>2 DEF FailJob, Requeue, Exhaust
  <1>5. ASSUME NEW k \in Jobs, MarkDead(k) \/ RetryJob(k, 0) \/ RetryJob(k, 1) PROVE Result
    <2>1. k # j
      BY <1>5 DEF MarkDead, RetryJob, Touch
    <2>2. QED
      BY <1>0, <1>5, <2>1 DEF MarkDead, RetryJob
  <1>6. ASSUME NEW k \in Jobs, NEW p \in Priorities, CreateJob(k, p) PROVE Result
    BY <1>0, <1>6 DEF CreateJob
  <1>7. CASE CleanupDeadJobs
    BY <1>0, <1>7 DEF CleanupDeadJobs
  <1>8. ASSUME NEW w \in Workers, Work(w) PROVE Result
    BY <1>2, <1>3, <1>4, <1>8
    DEF Work, Move, PickSelect, StartJob, HandlerReturns, EndBatch
  <1>9. QED
    BY <1>2, <1>5, <1>6, <1>7, <1>8 DEF Next, SettleFails, Stop, Tick

\* The manual operation that first touches a job does not start it.
LEMMA FirstTouch ==
  ASSUME IInv, Next, NEW j \in Jobs \ touched, j \in touched'
  PROVE  status'[j] # "running"
  <1> USE DEF IInv, rows, loop, history
  <1>1. \E k \in Jobs : MarkDead(k) \/ RetryJob(k, 0) \/ RetryJob(k, 1)
    BY DEF Next, Work, Move, CreateJob, PickSelect, PickUpdate, PickFails, StartJob, HandlerReturns,
           CompleteJob, FailJob, SettleFails, EndBatch, Stop, Crash, Leave, CleanupDeadJobs, Tick
  <1>2. PICK k \in Jobs : MarkDead(k) \/ RetryJob(k, 0) \/ RetryJob(k, 1)
    BY <1>1
  <1>3. k = j
    BY <1>2 DEF MarkDead, RetryJob, Touch
  <1>4. QED
    BY <1>2, <1>3 DEF MarkDead, RetryJob, TypeOK

\* No step takes a job out of completed or dead, other than the cleanup of dead
\* rows: complete_job and fail_job need no status guard of their own.
THEOREM Finality == Spec => SettledIsFinal
  <1> DEFINE A ==
         \A j \in Jobs :
            j \notin touched' /\ status[j] \in {"completed", "dead"} =>
               status'[j] \in {status[j]} \cup (IF status[j] = "dead" THEN {"deleted"} ELSE {})
  <1>1. IInv /\ [Next]_vars => [A]_vars
    <2>1. ASSUME IInv, Next PROVE A
      BY <2>1, RowStep
    <2>2. QED
      BY <2>1
  <1>2. QED
    BY <1>1, Inductive, PTL DEF Spec, SettledIsFinal

\* A retried job is picked again only after the delay of its last failure.
THEOREM Delayed == Spec => BackoffRespected
  <1> DEFINE A ==
         \A j \in Jobs \ touched :
            status[j] = "pending" /\ status'[j] = "running" /\ attempts[j] > 0 =>
               since[j] >= 2 ^ (attempts[j] - 1)
  <1>1. IInv /\ [Next]_vars => [A]_vars
    <2>1. ASSUME IInv, Next, NEW j \in Jobs \ touched,
                 status[j] = "pending", status'[j] = "running", attempts[j] > 0
          PROVE  since[j] >= 2 ^ (attempts[j] - 1)
      <3>1. wait[j] = 0
        <4>1. CASE j \notin touched'
          BY <2>1, <4>1, RowStep
        <4>2. CASE j \in touched'
          BY <2>1, <4>2, FirstTouch
        <4>3. QED
          BY <4>1, <4>2
      <3>2. /\ attempts[j] \in Nat /\ since[j] \in Nat
            /\ attempts[j] < MaxAttempts
        BY <2>1 DEF IInv, TypeOK, AccountInv, RowAccount
      <3>3. /\ attempts[j] - 1 \in 0 .. MaxAttempts
            /\ MaxAttempts \in 0 .. MaxAttempts
        BY <2>1, <3>2, AttemptsAssumption
      <3>4. /\ 2 ^ (attempts[j] - 1) \in Nat
            /\ 2 ^ (attempts[j] - 1) <= 2 ^ MaxAttempts
            /\ 2 ^ MaxAttempts \in Nat
        BY <3>3, BackoffAssumption
      <3>5. since[j] + wait[j] >= 2 ^ (attempts[j] - 1) \/ since[j] >= 2 ^ MaxAttempts
        BY <2>1 DEF IInv, DelayInv, DelayAccount, Backoff, SinceCap
      <3>6. QED
        BY <3>1, <3>2, <3>4, <3>5
    <2>2. QED
      BY <2>1
  <1>2. QED
    BY <1>1, Inductive, PTL DEF Spec, BackoffRespected
=============================================================================
