---------------------------- MODULE JobLifecycle ----------------------------
(***************************************************************************)
(* What the job queue promises, without rows, locks or statements: a job   *)
(* waits, is leased to one worker at a time, and each lease ends in        *)
(* success, in a counted failure, or in abandonment.                       *)
(*                                                                         *)
(* Abandonment is the queue's weak spot: nothing leads out of it, since no *)
(* code looks for jobs whose worker is gone.                               *)
(***************************************************************************)
EXTENDS Naturals

CONSTANTS Jobs, Workers, NoWorker, MaxAttempts

VARIABLES
    phase,   \* where each job stands
    holder,  \* the worker it is leased to
    tries    \* failures counted so far

lcvars == <<phase, holder, tries>>

Phases == {"absent", "waiting", "leased", "done", "dead", "abandoned"}

LCInit ==
    /\ phase = [j \in Jobs |-> "absent"]
    /\ holder = [j \in Jobs |-> NoWorker]
    /\ tries = [j \in Jobs |-> 0]

Submit(j) ==
    /\ phase[j] = "absent"
    /\ phase' = [phase EXCEPT ![j] = "waiting"]
    /\ UNCHANGED <<holder, tries>>

\* A worker leases a set of waiting jobs in one step
Lease(w, S) ==
    /\ S # {}
    /\ \A j \in S : phase[j] = "waiting"
    /\ phase' = [j \in Jobs |-> IF j \in S THEN "leased" ELSE phase[j]]
    /\ holder' = [j \in Jobs |-> IF j \in S THEN w ELSE holder[j]]
    /\ UNCHANGED tries

\* The lease of j ends, and j is then in phase p
Release(j, p) ==
    /\ phase[j] = "leased"
    /\ phase' = [phase EXCEPT ![j] = p]
    /\ holder' = [holder EXCEPT ![j] = NoWorker]

Succeed(j) ==
    /\ Release(j, "done")
    /\ UNCHANGED tries

Fail(j) ==
    /\ Release(j, IF tries[j] + 1 < MaxAttempts THEN "waiting" ELSE "dead")
    /\ tries' = [tries EXCEPT ![j] = @ + 1]

\* Jobs leased to w, or waiting jobs whose lease w never learnt of, are lost
Abandon(w, S) ==
    /\ S # {}
    /\ \/ \A j \in S : phase[j] = "leased" /\ holder[j] = w
       \/ \A j \in S : phase[j] = "waiting"
    /\ phase' = [j \in Jobs |-> IF j \in S THEN "abandoned" ELSE phase[j]]
    /\ holder' = [j \in Jobs |-> IF j \in S THEN NoWorker ELSE holder[j]]
    /\ UNCHANGED tries

Settle(j) == Succeed(j) \/ Fail(j)

LeaseOf(j) == \E w \in Workers, S \in SUBSET Jobs : j \in S /\ Lease(w, S)

LCNext ==
    \/ \E j \in Jobs : Submit(j) \/ Settle(j)
    \/ \E w \in Workers, S \in SUBSET Jobs : Lease(w, S) \/ Abandon(w, S)

LCSpec == LCInit /\ [][LCNext]_lcvars

\* A waiting job is leased, and a lease ends
LCFairSpec ==
    /\ LCSpec
    /\ \A j \in Jobs : WF_lcvars(LeaseOf(j)) /\ WF_lcvars(Settle(j))
=============================================================================
