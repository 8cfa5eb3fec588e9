------------------------- MODULE JobQueueRefinement -------------------------
(***************************************************************************)
(* The queue of JobQueue implements JobLifecycle, as long as nobody        *)
(* rewrites rows by hand (MaxAdmin = 0).                                   *)
(***************************************************************************)
EXTENDS JobQueue

\* A running row is leased to the worker that will settle it, if there is one
HeldBy(w, j) == status[j] = "running" /\ j \in Holds(w)

phaseBar ==
    [j \in Jobs |->
        CASE status[j] = "absent" -> "absent"
          [] status[j] = "pending" -> "waiting"
          [] status[j] = "completed" -> "done"
          [] status[j] \in {"dead", "deleted"} -> "dead"
          [] OTHER -> IF \E w \in Workers : HeldBy(w, j) THEN "leased" ELSE "abandoned"]

holderBar ==
    [j \in Jobs |->
        IF \E w \in Workers : HeldBy(w, j)
        THEN CHOOSE w \in Workers : HeldBy(w, j)
        ELSE NoWorker]

LC == INSTANCE JobLifecycle WITH phase <- phaseBar, holder <- holderBar, tries <- attempts

\* Every step of the workers and the database is a step of the promise or
\* leaves it unchanged: no job is leased twice, charged twice, settled without a
\* lease or brought back.
ImplementsLifecycle == LC!LCSpec

\* A waiting job is leased and a lease ends, through crashes and database failures, as
\* long as a worker is left.  The first rests on the fairness of the code (a failed pick
\* or the end of a batch leads back to the next pick), the second also on HandlersReturn:
\* a handler that never returns keeps its lease.  Jobs is finite, so no job waits behind
\* an endless stream of jobs of higher priority; nothing in the code excludes one.
ImplementsFairLifecycle == LC!LCFairSpec
=============================================================================
