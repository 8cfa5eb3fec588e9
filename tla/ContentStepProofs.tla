-------------------------- MODULE ContentStepProofs --------------------------
(***************************************************************************)
(* Theorems of ContentStep, for any articles, jobs, workers, sources and   *)
(* bounds: the inductive invariant, one lemma per part of it and one step  *)
(* per action, and what follows from it.                                   *)
(***************************************************************************)
EXTENDS ContentStep, FiniteSetTheorems, TLAPS

\* The lists the queries return are rows they consider, and the first match is a match.
LEMMA NewestRows ==
    ASSUME NEW b, NEW list \in NewestComparable(b)
    PROVE  list \subseteq Comparable(b) /\ list \subseteq Articles \ {b}
  BY DEF NewestComparable, Limited, Comparable

LEMMA SimilarRows ==
    ASSUME NEW b, NEW list \in MostSimilar(b)
    PROVE  list \subseteq Similar(b) /\ list \subseteq Articles \ {b}
  BY DEF MostSimilar, Limited, Similar, Comparable

LEMMA FirstRows == \A S : First(S) \subseteq S
  BY DEF First

\* What Compare does with the list it reads.
ReadsList(w, list) ==
    /\ pc[w] = "comparing"
    /\ list \subseteq Comparable(Article(w)) /\ list \subseteq Articles
    /\ comparable' = [comparable EXCEPT ![w] = list]
    /\ canonicals' = [canonicals EXCEPT ![w] = list \cap stored]
    /\ \/ /\ pc' = [pc EXCEPT ![w] = "enriching"]
          /\ \E c \in Articles : original' = [original EXCEPT ![w] = c]
       \/ /\ pc' = [pc EXCEPT ![w] = "fetching"]
          /\ Matches(Url[Article(w)], NoUrl, Title[Article(w)], list, stored) = {}
          /\ UNCHANGED original
    /\ tried' = [tried EXCEPT ![w] = 0]
    /\ UNCHANGED <<row, job, faults, queue>>

LEMMA CompareReads ==
    ASSUME NEW w \in Workers, Compare(w)
    PROVE  \E list \in NewestComparable(Article(w)) : ReadsList(w, list)
  <1>1. PICK list \in NewestComparable(Article(w)) :
           /\ pc[w] = "comparing"
           /\ comparable' = [comparable EXCEPT ![w] = list]
           /\ canonicals' = [canonicals EXCEPT ![w] = list \cap stored]
           /\ \/ \E c \in First(Matches(Url[Article(w)], NoUrl, Title[Article(w)], list, stored)) :
                    Goto(w, "comparing", "enriching") /\ original' = [original EXCEPT ![w] = c]
              \/ /\ Matches(Url[Article(w)], NoUrl, Title[Article(w)], list, stored) = {}
                 /\ Goto(w, "comparing", "fetching") /\ UNCHANGED original
           /\ tried' = [tried EXCEPT ![w] = 0]
           /\ UNCHANGED <<row, job, faults, queue>>
    BY DEF Compare
  <1>2. list \subseteq Comparable(Article(w)) /\ list \subseteq Articles
    BY NewestRows
  <1>3. First(Matches(Url[Article(w)], NoUrl, Title[Article(w)], list, stored)) \subseteq Articles
    BY <1>2, FirstRows DEF Matches
  <1>. QED
    BY <1>1, <1>2, <1>3 DEF Goto, ReadsList

\* The second comparison of w finds no duplicate among these rows.
SeesNone(w, candidates, withCanonicals) ==
    Matches(Url[Article(w)], CanonicalOf[Article(w)], CleanTitle[Article(w)], candidates, withCanonicals) = {}

\* What the second comparison sees, it finds among any rows that hold it.
LEMMA SeenIsFound ==
    ASSUME NEW w, NEW a, SecondSees(a, Article(w)), NEW S, NEW T, a \in S, a \in T
    PROVE  ~SeesNone(w, S, T)
  BY DEF SeesNone, Matches, SameUrl, SecondSees

\* What Deduplicate does, with the similar rows or, after a failure, with the earlier list.
Decides(w) ==
    /\ pc[w] = "deduplicating"
    /\ faults' \in {faults, faults + 1} /\ (faults' # faults => faults < MaxFaults)
    /\ \/ /\ pc' = [pc EXCEPT ![w] = "enriching"]
          /\ \E c \in Articles : original' = [original EXCEPT ![w] = c]
       \/ /\ pc' = [pc EXCEPT ![w] = "storing"]
          /\ \/ \E list \in MostSimilar(Article(w)) : SeesNone(w, list, stored)
             \/ SeesNone(w, comparable[w], canonicals[w])
          /\ UNCHANGED original
    /\ UNCHANGED <<row, job, comparable, canonicals, tried, queue>>

LEMMA DeduplicateDecides ==
    ASSUME TypeOK, NEW w \in Workers, Deduplicate(w)
    PROVE  Decides(w)
  <1> DEFINE matches(S, T) == Matches(Url[Article(w)], CanonicalOf[Article(w)], CleanTitle[Article(w)], S, T)
             goesOn(S, originals) ==
                 \/ \E c \in originals :
                        Goto(w, "deduplicating", "enriching") /\ original' = [original EXCEPT ![w] = c]
                 \/ S = {} /\ Goto(w, "deduplicating", "storing") /\ UNCHANGED original
  <1>1. /\ pc[w] = "deduplicating"
        /\ \/ /\ \E list \in MostSimilar(Article(w)) : goesOn(matches(list, stored), matches(list, stored))
              /\ UNCHANGED faults
           \/ /\ goesOn(matches(comparable[w], canonicals[w]), First(matches(comparable[w], canonicals[w])))
              /\ Fault
        /\ UNCHANGED <<row, job, comparable, canonicals, tried, queue>>
    BY DEF Deduplicate
  <1>2. CASE UNCHANGED faults /\ \E list \in MostSimilar(Article(w)) : goesOn(matches(list, stored), matches(list, stored))
    <2>1. PICK list \in MostSimilar(Article(w)) : goesOn(matches(list, stored), matches(list, stored))
      BY <1>2
    <2>2. matches(list, stored) \subseteq Articles
      BY SimilarRows DEF Matches
    <2>. QED
      BY <1>1, <1>2, <2>1, <2>2 DEF Goto, Decides, SeesNone
  <1>3. CASE Fault /\ goesOn(matches(comparable[w], canonicals[w]), First(matches(comparable[w], canonicals[w])))
    <2>1. First(matches(comparable[w], canonicals[w])) \subseteq Articles
      BY FirstRows DEF Matches, TypeOK
    <2>. QED
      BY <1>1, <1>3, <2>1 DEF Goto, Decides, SeesNone, Fault, TypeOK
  <1>. QED
    BY <1>1, <1>2, <1>3

\* Every action keeps every variable in its type.
LEMMA TypeStep == TypeOK /\ LeaseInv /\ UndecidedInv /\ [Next]_vars => TypeOK'
  <1> SUFFICES ASSUME TypeOK, LeaseInv, UndecidedInv, [Next]_vars PROVE TypeOK'
    OBVIOUS
  <1> USE ArticlesAssumption, NumbersAssumption
      DEF TypeOK, row, local, queue, Pcs, ProcessingStatus, Queue!Phases, Goto, Fault
  <1> DEFINE Active(w) == pc[w] \notin {"idle", "gone"}
  <1>0. \A w \in Workers : Active(w) => job[w] \in Jobs /\ Article(w) \in Articles
    BY DEF LeaseInv, Article
  <1>1. ASSUME NEW a \in Articles, Insert(a) PROVE TypeOK'
    BY <1>1 DEF Insert
  <1>2. ASSUME NEW j \in Jobs, SubmitJob(j) PROVE TypeOK'
    BY <1>2 DEF SubmitJob, Queue!Submit
  <1>3. ASSUME NEW w \in Workers, NEW j \in Jobs, Begin(w, j) PROVE TypeOK'
    BY <1>3 DEF Begin, Queue!Lease
  <1>4. ASSUME NEW w \in Workers, Load(w) \/ Skip(w) \/ AllFailed(w) PROVE TypeOK'
    BY <1>4 DEF Load, Skip, AllFailed
  <1>5. ASSUME NEW w \in Workers, Compare(w) PROVE TypeOK'
    <2>1. PICK list \in NewestComparable(Article(w)) : ReadsList(w, list)
      BY <1>5, CompareReads
    <2>. QED
      BY <2>1 DEF ReadsList
  <1>6. ASSUME NEW w \in Workers, Fetch(w) PROVE TypeOK'
    BY <1>6 DEF Fetch
  <1>7. ASSUME NEW w \in Workers, GiveUp(w) PROVE TypeOK'
    BY <1>7, <1>0, SMTT(30) DEF GiveUp, SetExtractionFailed
  <1>8. ASSUME NEW w \in Workers, Deduplicate(w) PROVE TypeOK'
    BY <1>8, <1>0, SMTT(30), DeduplicateDecides DEF Decides
  <1>9. ASSUME NEW w \in Workers, Enrich(w) PROVE TypeOK'
    BY <1>9, <1>0, SMTT(30) DEF Enrich, SetDuplicate, UndecidedInv
  <1>10. ASSUME NEW w \in Workers, LogRejection(w) PROVE TypeOK'
    BY <1>10, <1>0, SMTT(30) DEF LogRejection, SetRejected
  <1>11. ASSUME NEW w \in Workers, Store(w) \/ Qualify(w) \/ Finish(w) PROVE TypeOK'
    <2>1. CASE Store(w)
      BY <2>1, <1>0, SMTT(30) DEF Store, SetExtraction
    <2>2. CASE Qualify(w)
      BY <2>2, <1>0, SMTT(30) DEF Qualify, SetQualified
    <2>3. CASE Finish(w)
      BY <2>3, <1>0, SMTT(30) DEF Finish, SetDistinct
    <2>. QED
      BY <1>11, <2>1, <2>2, <2>3
  <1>12. ASSUME NEW w \in Workers, StepFails(w) PROVE TypeOK'
    BY <1>12, <1>0, SMTT(30) DEF StepFails, SetExtraction, SetQualified, SetDistinct
  <1>13. ASSUME NEW w \in Workers, Return(w) PROVE TypeOK'
    BY <1>13, <1>0, SMTT(30) DEF Return, Forget, Queue!Succeed, Queue!Fail, Queue!Release
  <1>14. ASSUME NEW w \in Workers, ReturnFails(w) PROVE TypeOK'
    BY <1>14, <1>0, SMTT(30) DEF ReturnFails, Forget, Queue!Abandon
  <1>15. ASSUME NEW w \in Workers, Crash(w) PROVE TypeOK'
    BY <1>15, <1>0, SMTT(30) DEF Crash, Forget, Queue!Abandon
  <1>16. CASE UNCHANGED vars
    BY <1>16 DEF vars
  <1>17. QED
    BY <1>1, <1>2, <1>3, <1>4, <1>5, <1>6, <1>7, <1>8, <1>9, <1>10, <1>11, <1>12, <1>13,
       <1>14, <1>15, <1>16 DEF Next, Move

\* The queue leases a job to one worker, and a worker forgets its job in the
\* step that ends the lease.
LEMMA LeaseStep ==
    TypeOK /\ LeaseInv /\ [Next]_vars => LeaseInv'
  <1> SUFFICES ASSUME TypeOK, LeaseInv, [Next]_vars
               PROVE LeaseInv'
    OBVIOUS
  <1> USE ArticlesAssumption, NumbersAssumption DEF TypeOK, LeaseInv, row, local, queue,
          Goto, Fault
  <1>1. ASSUME NEW a \in Articles, Insert(a) PROVE LeaseInv'
    BY <1>1 DEF Insert
  <1>2. ASSUME NEW j \in Jobs, SubmitJob(j) PROVE LeaseInv'
    BY <1>2 DEF SubmitJob, Queue!Submit
  <1>3. ASSUME NEW w \in Workers, NEW j \in Jobs, Begin(w, j) PROVE LeaseInv'
    BY <1>3 DEF Begin, Queue!Lease
  <1>4. ASSUME NEW w \in Workers, Load(w) PROVE LeaseInv'
    BY <1>4 DEF Load
  <1>5. ASSUME NEW w \in Workers, Skip(w) PROVE LeaseInv'
    BY <1>5 DEF Skip
  <1>6. ASSUME NEW w \in Workers, AllFailed(w) PROVE LeaseInv'
    BY <1>6 DEF AllFailed
  <1>7. ASSUME NEW w \in Workers, Compare(w) PROVE LeaseInv'
    BY <1>7, CompareReads DEF ReadsList
  <1>8. ASSUME NEW w \in Workers, Fetch(w) PROVE LeaseInv'
    BY <1>8 DEF Fetch
  <1>9. ASSUME NEW w \in Workers, GiveUp(w) PROVE LeaseInv'
    BY <1>9 DEF GiveUp, SetExtractionFailed
  <1>10. ASSUME NEW w \in Workers, Deduplicate(w) PROVE LeaseInv'
    BY <1>10, DeduplicateDecides DEF Decides
  <1>11. ASSUME NEW w \in Workers, Enrich(w) PROVE LeaseInv'
    BY <1>11 DEF Enrich, SetDuplicate
  <1>12. ASSUME NEW w \in Workers, LogRejection(w) PROVE LeaseInv'
    BY <1>12 DEF LogRejection, SetRejected
  <1>13. ASSUME NEW w \in Workers, Store(w) PROVE LeaseInv'
    BY <1>13 DEF Store, SetExtraction
  <1>14. ASSUME NEW w \in Workers, Qualify(w) PROVE LeaseInv'
    BY <1>14 DEF Qualify, SetQualified
  <1>15. ASSUME NEW w \in Workers, Finish(w) PROVE LeaseInv'
    BY <1>15 DEF Finish, SetDistinct
  <1>16. ASSUME NEW w \in Workers, StepFails(w) PROVE LeaseInv'
    BY <1>16 DEF StepFails, SetExtraction, SetQualified, SetDistinct
  <1>17. ASSUME NEW w \in Workers, Return(w) PROVE LeaseInv'
    BY <1>17 DEF Return, Forget, Queue!Succeed, Queue!Fail, Queue!Release
  <1>18. ASSUME NEW w \in Workers, ReturnFails(w) PROVE LeaseInv'
    BY <1>18 DEF ReturnFails, Forget, Queue!Abandon
  <1>19. ASSUME NEW w \in Workers, Crash(w) PROVE LeaseInv'
    BY <1>19 DEF Crash, Forget, Queue!Abandon
  <1>20. CASE UNCHANGED vars
    BY <1>20 DEF vars
  <1>21. QED
    BY <1>1, <1>2, <1>3, <1>4, <1>5, <1>6, <1>7, <1>8, <1>9, <1>10, <1>11, <1>12,
       <1>13, <1>14, <1>15, <1>16, <1>17, <1>18, <1>19, <1>20 DEF Next, Move

\* The statuses of an article in a step are written by that step alone: an
\* article has one job, and a job one worker.
LEMMA UndecidedStep ==
    TypeOK /\ LeaseInv /\ UndecidedInv /\ [Next]_vars => UndecidedInv'
  <1> SUFFICES ASSUME TypeOK, LeaseInv, UndecidedInv, [Next]_vars
               PROVE UndecidedInv'
    OBVIOUS
  <1> USE ArticlesAssumption, OneJobAssumption DEF TypeOK, LeaseInv, UndecidedInv, row,
          local, queue, Goto, Fault, Article
  <1>1. ASSUME NEW a \in Articles, Insert(a) PROVE UndecidedInv'
    BY <1>1 DEF Insert
  <1>2. ASSUME NEW j \in Jobs, SubmitJob(j) PROVE UndecidedInv'
    BY <1>2 DEF SubmitJob, Queue!Submit
  <1>3. ASSUME NEW w \in Workers, NEW j \in Jobs, Begin(w, j) PROVE UndecidedInv'
    BY <1>3 DEF Begin, Queue!Lease
  <1>4. ASSUME NEW w \in Workers, Load(w) PROVE UndecidedInv'
    BY <1>4 DEF Load
  <1>5. ASSUME NEW w \in Workers, Skip(w) PROVE UndecidedInv'
    BY <1>5 DEF Skip
  <1>6. ASSUME NEW w \in Workers, AllFailed(w) PROVE UndecidedInv'
    BY <1>6 DEF AllFailed
  <1>7. ASSUME NEW w \in Workers, Compare(w) PROVE UndecidedInv'
    BY <1>7, CompareReads DEF ReadsList
  <1>8. ASSUME NEW w \in Workers, Fetch(w) PROVE UndecidedInv'
    BY <1>8 DEF Fetch
  <1>9. ASSUME NEW w \in Workers, GiveUp(w) PROVE UndecidedInv'
    BY <1>9 DEF GiveUp, SetExtractionFailed
  <1>10. ASSUME NEW w \in Workers, Deduplicate(w) PROVE UndecidedInv'
    BY <1>10, DeduplicateDecides DEF Decides
  <1>11. ASSUME NEW w \in Workers, Enrich(w) PROVE UndecidedInv'
    BY <1>11 DEF Enrich, SetDuplicate
  <1>12. ASSUME NEW w \in Workers, LogRejection(w) PROVE UndecidedInv'
    BY <1>12 DEF LogRejection, SetRejected
  <1>13. ASSUME NEW w \in Workers, Store(w) PROVE UndecidedInv'
    BY <1>13 DEF Store, SetExtraction
  <1>14. ASSUME NEW w \in Workers, Qualify(w) PROVE UndecidedInv'
    BY <1>14 DEF Qualify, SetQualified
  <1>15. ASSUME NEW w \in Workers, Finish(w) PROVE UndecidedInv'
    BY <1>15 DEF Finish, SetDistinct
  <1>16. ASSUME NEW w \in Workers, StepFails(w) PROVE UndecidedInv'
    BY <1>16 DEF StepFails, SetExtraction, SetQualified, SetDistinct
  <1>17. ASSUME NEW w \in Workers, Return(w) PROVE UndecidedInv'
    BY <1>17 DEF Return, Forget, Queue!Succeed, Queue!Fail, Queue!Release
  <1>18. ASSUME NEW w \in Workers, ReturnFails(w) PROVE UndecidedInv'
    BY <1>18 DEF ReturnFails, Forget, Queue!Abandon
  <1>19. ASSUME NEW w \in Workers, Crash(w) PROVE UndecidedInv'
    BY <1>19 DEF Crash, Forget, Queue!Abandon
  <1>20. CASE UNCHANGED vars
    BY <1>20 DEF vars
  <1>21. QED
    BY <1>1, <1>2, <1>3, <1>4, <1>5, <1>6, <1>7, <1>8, <1>9, <1>10, <1>11, <1>12,
       <1>13, <1>14, <1>15, <1>16, <1>17, <1>18, <1>19, <1>20 DEF Next, Move

\* The announcement comes last, and whoever announces has stored the content
\* and the quality status.
LEMMA AnnouncedStep ==
    TypeOK /\ LeaseInv /\ UndecidedInv /\ AnnouncedIsComplete /\ [Next]_vars =>
        AnnouncedIsComplete'
  <1> SUFFICES ASSUME TypeOK, LeaseInv, UndecidedInv, AnnouncedIsComplete, [Next]_vars
               PROVE AnnouncedIsComplete'
    OBVIOUS
  <1> USE ArticlesAssumption, OneJobAssumption DEF TypeOK, LeaseInv, UndecidedInv, row,
          local, queue, Goto, Fault, Article, AnnouncedIsComplete
  <1>1. ASSUME NEW a \in Articles, Insert(a) PROVE AnnouncedIsComplete'
    BY <1>1 DEF Insert
  <1>2. ASSUME NEW j \in Jobs, SubmitJob(j) PROVE AnnouncedIsComplete'
    BY <1>2 DEF SubmitJob, Queue!Submit
  <1>3. ASSUME NEW w \in Workers, NEW j \in Jobs, Begin(w, j) PROVE AnnouncedIsComplete'
    BY <1>3 DEF Begin, Queue!Lease
  <1>4. ASSUME NEW w \in Workers, Load(w) PROVE AnnouncedIsComplete'
    BY <1>4 DEF Load
  <1>5. ASSUME NEW w \in Workers, Skip(w) PROVE AnnouncedIsComplete'
    BY <1>5 DEF Skip
  <1>6. ASSUME NEW w \in Workers, AllFailed(w) PROVE AnnouncedIsComplete'
    BY <1>6 DEF AllFailed
  <1>7. ASSUME NEW w \in Workers, Compare(w) PROVE AnnouncedIsComplete'
    BY <1>7, CompareReads DEF ReadsList
  <1>8. ASSUME NEW w \in Workers, Fetch(w) PROVE AnnouncedIsComplete'
    BY <1>8 DEF Fetch
  <1>9. ASSUME NEW w \in Workers, GiveUp(w) PROVE AnnouncedIsComplete'
    BY <1>9 DEF GiveUp, SetExtractionFailed
  <1>10. ASSUME NEW w \in Workers, Deduplicate(w) PROVE AnnouncedIsComplete'
    BY <1>10, DeduplicateDecides DEF Decides
  <1>11. ASSUME NEW w \in Workers, Enrich(w) PROVE AnnouncedIsComplete'
    BY <1>11 DEF Enrich, SetDuplicate
  <1>12. ASSUME NEW w \in Workers, LogRejection(w) PROVE AnnouncedIsComplete'
    BY <1>12 DEF LogRejection, SetRejected
  <1>13. ASSUME NEW w \in Workers, Store(w) PROVE AnnouncedIsComplete'
    BY <1>13 DEF Store, SetExtraction
  <1>14. ASSUME NEW w \in Workers, Qualify(w) PROVE AnnouncedIsComplete'
    BY <1>14 DEF Qualify, SetQualified
  <1>15. ASSUME NEW w \in Workers, Finish(w) PROVE AnnouncedIsComplete'
    BY <1>15 DEF Finish, SetDistinct
  <1>16. ASSUME NEW w \in Workers, StepFails(w) PROVE AnnouncedIsComplete'
    BY <1>16 DEF StepFails, SetExtraction, SetQualified, SetDistinct
  <1>17. ASSUME NEW w \in Workers, Return(w) PROVE AnnouncedIsComplete'
    BY <1>17 DEF Return, Forget, Queue!Succeed, Queue!Fail, Queue!Release
  <1>18. ASSUME NEW w \in Workers, ReturnFails(w) PROVE AnnouncedIsComplete'
    BY <1>18 DEF ReturnFails, Forget, Queue!Abandon
  <1>19. ASSUME NEW w \in Workers, Crash(w) PROVE AnnouncedIsComplete'
    BY <1>19 DEF Crash, Forget, Queue!Abandon
  <1>20. CASE UNCHANGED vars
    BY <1>20 DEF vars
  <1>21. QED
    BY <1>1, <1>2, <1>3, <1>4, <1>5, <1>6, <1>7, <1>8, <1>9, <1>10, <1>11, <1>12,
       <1>13, <1>14, <1>15, <1>16, <1>17, <1>18, <1>19, <1>20 DEF Next, Move

DecisionsAgree ==
    \A a \in Articles :
        /\ duplicate[a] = "duplicate" <=> processing[a] = "qualified"
        /\ duplicate[a] = "distinct" <=> processing[a] = "pending_qualification"
        /\ duplicate[a] = "duplicate" <=> duplicateOf[a] # NoArticle

\* An article whose quality is set early is in the hands of the worker that set it
Accounted(a) ==
    \/ processing[a] = "pending_qualification"
    \/ \E w \in Workers : pc[w] = "finishing" /\ Article(w) = a
    \/ faults > 0

QualityAgrees == \A a \in Articles : quality[a] = "qualified" => Accounted(a)

\* The two halves of StatusesAgree.
LEMMA StatusesParts == StatusesAgree <=> DecisionsAgree /\ QualityAgrees
  BY DEF StatusesAgree, DecisionsAgree, QualityAgrees, Accounted

\* The duplicate status and the processing status of a decision are one UPDATE,
\* of an article nobody has decided on.
LEMMA DecisionsStep ==
    TypeOK /\ LeaseInv /\ UndecidedInv /\ DecisionsAgree /\ [Next]_vars => DecisionsAgree'
  <1> SUFFICES ASSUME TypeOK, LeaseInv, UndecidedInv, DecisionsAgree, [Next]_vars
               PROVE DecisionsAgree'
    OBVIOUS
  <1> USE ArticlesAssumption, OneJobAssumption DEF TypeOK, LeaseInv, UndecidedInv, row,
          local, queue, Goto, Fault, Article, DecisionsAgree
  <1>1. ASSUME NEW a \in Articles, Insert(a) PROVE DecisionsAgree'
    BY <1>1 DEF Insert
  <1>2. ASSUME NEW j \in Jobs, SubmitJob(j) PROVE DecisionsAgree'
    BY <1>2 DEF SubmitJob, Queue!Submit
  <1>3. ASSUME NEW w \in Workers, NEW j \in Jobs, Begin(w, j) PROVE DecisionsAgree'
    BY <1>3 DEF Begin, Queue!Lease
  <1>4. ASSUME NEW w \in Workers, Load(w) PROVE DecisionsAgree'
    BY <1>4 DEF Load
  <1>5. ASSUME NEW w \in Workers, Skip(w) PROVE DecisionsAgree'
    BY <1>5 DEF Skip
  <1>6. ASSUME NEW w \in Workers, AllFailed(w) PROVE DecisionsAgree'
    BY <1>6 DEF AllFailed
  <1>7. ASSUME NEW w \in Workers, Compare(w) PROVE DecisionsAgree'
    BY <1>7, CompareReads DEF ReadsList
  <1>8. ASSUME NEW w \in Workers, Fetch(w) PROVE DecisionsAgree'
    BY <1>8 DEF Fetch
  <1>9. ASSUME NEW w \in Workers, GiveUp(w) PROVE DecisionsAgree'
    BY <1>9 DEF GiveUp, SetExtractionFailed
  <1>10. ASSUME NEW w \in Workers, Deduplicate(w) PROVE DecisionsAgree'
    BY <1>10, DeduplicateDecides DEF Decides
  <1>11. ASSUME NEW w \in Workers, Enrich(w) PROVE DecisionsAgree'
    BY <1>11 DEF Enrich, SetDuplicate
  <1>12. ASSUME NEW w \in Workers, LogRejection(w) PROVE DecisionsAgree'
    BY <1>12 DEF LogRejection, SetRejected
  <1>13. ASSUME NEW w \in Workers, Store(w) PROVE DecisionsAgree'
    BY <1>13 DEF Store, SetExtraction
  <1>14. ASSUME NEW w \in Workers, Qualify(w) PROVE DecisionsAgree'
    BY <1>14 DEF Qualify, SetQualified
  <1>15. ASSUME NEW w \in Workers, Finish(w) PROVE DecisionsAgree'
    BY <1>15 DEF Finish, SetDistinct
  <1>16. ASSUME NEW w \in Workers, StepFails(w) PROVE DecisionsAgree'
    BY <1>16 DEF StepFails, SetExtraction, SetQualified, SetDistinct
  <1>17. ASSUME NEW w \in Workers, Return(w) PROVE DecisionsAgree'
    BY <1>17 DEF Return, Forget, Queue!Succeed, Queue!Fail, Queue!Release
  <1>18. ASSUME NEW w \in Workers, ReturnFails(w) PROVE DecisionsAgree'
    BY <1>18 DEF ReturnFails, Forget, Queue!Abandon
  <1>19. ASSUME NEW w \in Workers, Crash(w) PROVE DecisionsAgree'
    BY <1>19 DEF Crash, Forget, Queue!Abandon
  <1>20. CASE UNCHANGED vars
    BY <1>20 DEF vars
  <1>21. QED
    BY <1>1, <1>2, <1>3, <1>4, <1>5, <1>6, <1>7, <1>8, <1>9, <1>10, <1>11, <1>12,
       <1>13, <1>14, <1>15, <1>16, <1>17, <1>18, <1>19, <1>20 DEF Next, Move

\* An article has one worker at a time.
LEMMA OneWorker ==
    ASSUME TypeOK, LeaseInv
    PROVE  \A v, w \in Workers :
              /\ pc[v] \notin {"idle", "gone"} /\ pc[w] \notin {"idle", "gone"}
              /\ Article(v) = Article(w)
              => v = w
  BY OneJobAssumption DEF TypeOK, LeaseInv, Article

\* Without a fault the worker that qualifies an article is the one that announces it.
LEMMA QualityStep ==
    TypeOK /\ LeaseInv /\ UndecidedInv /\ QualityAgrees /\ [Next]_vars => QualityAgrees'
  <1> SUFFICES ASSUME TypeOK, LeaseInv, UndecidedInv, QualityAgrees, [Next]_vars,
                      NEW c \in Articles, quality'[c] = "qualified"
               PROVE  Accounted(c)'
    BY DEF QualityAgrees
  <1> USE ArticlesAssumption, OneWorker DEF TypeOK, LeaseInv, row, local, queue, Goto, Fault,
          Article, QualityAgrees, Accounted
  <1>1. ASSUME NEW a \in Articles, Insert(a) PROVE Accounted(c)'
    BY <1>1 DEF Insert
  <1>2. ASSUME NEW j \in Jobs, SubmitJob(j) PROVE Accounted(c)'
    BY <1>2 DEF SubmitJob, Queue!Submit
  <1>3. ASSUME NEW w \in Workers, NEW j \in Jobs, Begin(w, j) PROVE Accounted(c)'
    BY <1>3 DEF Begin, Queue!Lease
  <1>4. ASSUME NEW w \in Workers, Load(w) PROVE Accounted(c)'
    BY <1>4 DEF Load
  <1>5. ASSUME NEW w \in Workers, Skip(w) PROVE Accounted(c)'
    BY <1>5 DEF Skip
  <1>6. ASSUME NEW w \in Workers, AllFailed(w) PROVE Accounted(c)'
    BY <1>6 DEF AllFailed
  <1>7. ASSUME NEW w \in Workers, Compare(w) PROVE Accounted(c)'
    BY <1>7, CompareReads DEF ReadsList
  <1>8. ASSUME NEW w \in Workers, Fetch(w) PROVE Accounted(c)'
    BY <1>8 DEF Fetch
  <1>9. ASSUME NEW w \in Workers, GiveUp(w) PROVE Accounted(c)'
    BY <1>9 DEF GiveUp, SetExtractionFailed, UndecidedInv
  <1>10. ASSUME NEW w \in Workers, Deduplicate(w) PROVE Accounted(c)'
    BY <1>10, DeduplicateDecides DEF Decides
  <1>11. ASSUME NEW w \in Workers, Enrich(w) PROVE Accounted(c)'
    <2>1. Accounted(c)
      BY <1>11 DEF Enrich, SetDuplicate
    <2>2. CASE processing[c] = "pending_qualification"
      BY <1>11, <2>2 DEF Enrich, SetDuplicate, UndecidedInv
    <2>3. CASE \E v \in Workers : pc[v] = "finishing" /\ Article(v) = c
      BY <1>11, <2>3 DEF Enrich, SetDuplicate
    <2>4. CASE faults > 0
      BY <1>11, <2>4 DEF Enrich, SetDuplicate
    <2>. QED
      BY <2>1, <2>2, <2>3, <2>4
  <1>12. ASSUME NEW w \in Workers, LogRejection(w) PROVE Accounted(c)'
    BY <1>12 DEF LogRejection, SetRejected
  <1>13. ASSUME NEW w \in Workers, Store(w) PROVE Accounted(c)'
    BY <1>13 DEF Store, SetExtraction
  <1>14. ASSUME NEW w \in Workers, Qualify(w) PROVE Accounted(c)'
    BY <1>14 DEF Qualify, SetQualified
  <1>15. ASSUME NEW w \in Workers, Finish(w) PROVE Accounted(c)'
    BY <1>15 DEF Finish, SetDistinct
  <1>16. ASSUME NEW w \in Workers, StepFails(w) PROVE Accounted(c)'
    BY <1>16 DEF StepFails, SetExtraction, SetQualified, SetDistinct
  <1>17. ASSUME NEW w \in Workers, Return(w) PROVE Accounted(c)'
    BY <1>17 DEF Return, Forget, Queue!Succeed, Queue!Fail, Queue!Release
  <1>18. ASSUME NEW w \in Workers, ReturnFails(w) PROVE Accounted(c)'
    BY <1>18 DEF ReturnFails, Forget, Queue!Abandon
  <1>19. ASSUME NEW w \in Workers, Crash(w) PROVE Accounted(c)'
    BY <1>19 DEF Crash, Forget, Queue!Abandon
  <1>20. CASE UNCHANGED vars
    BY <1>20 DEF vars
  <1>21. QED
    BY <1>1, <1>2, <1>3, <1>4, <1>5, <1>6, <1>7, <1>8, <1>9, <1>10, <1>11, <1>12,
       <1>13, <1>14, <1>15, <1>16, <1>17, <1>18, <1>19, <1>20 DEF Next, Move

\* A row, once inserted, is never absent again.
LEMMA PresentStays ==
    TypeOK /\ [Next]_vars =>
        \A c \in Articles : processing[c] # "absent" => processing'[c] # "absent"
  <1> SUFFICES ASSUME TypeOK, [Next]_vars, NEW c \in Articles, processing[c] # "absent"
               PROVE  processing'[c] # "absent"
    OBVIOUS
  <1> USE DEF TypeOK, row, local, queue, Fault
  <1>1. ASSUME NEW a \in Articles, Insert(a) PROVE processing'[c] # "absent"
    BY <1>1 DEF Insert
  <1>2. ASSUME NEW j \in Jobs, SubmitJob(j) PROVE processing'[c] # "absent"
    BY <1>2 DEF SubmitJob, Queue!Submit
  <1>3. ASSUME NEW w \in Workers, NEW j \in Jobs, Begin(w, j) PROVE processing'[c] # "absent"
    BY <1>3 DEF Begin, Queue!Lease
  <1>4. ASSUME NEW w \in Workers, Load(w) PROVE processing'[c] # "absent"
    BY <1>4 DEF Load
  <1>5. ASSUME NEW w \in Workers, Skip(w) PROVE processing'[c] # "absent"
    BY <1>5 DEF Skip
  <1>6. ASSUME NEW w \in Workers, AllFailed(w) PROVE processing'[c] # "absent"
    BY <1>6 DEF AllFailed
  <1>7. ASSUME NEW w \in Workers, Compare(w) PROVE processing'[c] # "absent"
    BY <1>7, CompareReads DEF ReadsList
  <1>8. ASSUME NEW w \in Workers, Fetch(w) PROVE processing'[c] # "absent"
    BY <1>8 DEF Fetch
  <1>9. ASSUME NEW w \in Workers, GiveUp(w) PROVE processing'[c] # "absent"
    BY <1>9 DEF GiveUp, SetExtractionFailed
  <1>10. ASSUME NEW w \in Workers, Deduplicate(w) PROVE processing'[c] # "absent"
    BY <1>10, DeduplicateDecides DEF Decides
  <1>11. ASSUME NEW w \in Workers, Enrich(w) PROVE processing'[c] # "absent"
    BY <1>11 DEF Enrich, SetDuplicate
  <1>12. ASSUME NEW w \in Workers, LogRejection(w) PROVE processing'[c] # "absent"
    BY <1>12 DEF LogRejection, SetRejected
  <1>13. ASSUME NEW w \in Workers, Store(w) PROVE processing'[c] # "absent"
    BY <1>13 DEF Store, SetExtraction
  <1>14. ASSUME NEW w \in Workers, Qualify(w) PROVE processing'[c] # "absent"
    BY <1>14 DEF Qualify, SetQualified
  <1>15. ASSUME NEW w \in Workers, Finish(w) PROVE processing'[c] # "absent"
    BY <1>15 DEF Finish, SetDistinct
  <1>16. ASSUME NEW w \in Workers, StepFails(w) PROVE processing'[c] # "absent"
    BY <1>16 DEF StepFails, SetExtraction, SetQualified, SetDistinct
  <1>17. ASSUME NEW w \in Workers, Return(w) PROVE processing'[c] # "absent"
    BY <1>17 DEF Return, Forget, Queue!Succeed, Queue!Fail, Queue!Release
  <1>18. ASSUME NEW w \in Workers, ReturnFails(w) PROVE processing'[c] # "absent"
    BY <1>18 DEF ReturnFails, Forget, Queue!Abandon
  <1>19. ASSUME NEW w \in Workers, Crash(w) PROVE processing'[c] # "absent"
    BY <1>19 DEF Crash, Forget, Queue!Abandon
  <1>20. CASE UNCHANGED vars
    BY <1>20 DEF vars
  <1>21. QED
    BY <1>1, <1>2, <1>3, <1>4, <1>5, <1>6, <1>7, <1>8, <1>9, <1>10, <1>11, <1>12,
       <1>13, <1>14, <1>15, <1>16, <1>17, <1>18, <1>19, <1>20 DEF Next, Move

\* So the rows that are newer than an article only become more.
LEMMA NewerStays ==
    ASSUME NEW a \in Articles, NEW b \in Articles, TypeOK, [Next]_vars,
           Cardinality(Newer(a, b)) >= ComparableLimit
    PROVE  Cardinality(Newer(a, b)') >= ComparableLimit
  <1>1. Newer(a, b) \subseteq Newer(a, b)'
    BY PresentStays DEF Newer
  <1>2. IsFiniteSet(Newer(a, b)')
    BY LimitsAssumption, FS_Subset DEF Newer
  <1>3. IsFiniteSet(Newer(a, b))
    BY LimitsAssumption, FS_Subset DEF Newer
  <1>4. Cardinality(Newer(a, b)) <= Cardinality(Newer(a, b)')
    BY <1>1, <1>2, FS_Subset
  <1>5. Cardinality(Newer(a, b)) \in Nat /\ Cardinality(Newer(a, b)') \in Nat
    BY <1>2, <1>3, FS_CardinalityType
  <1>. QED
    BY <1>4, <1>5, LimitsAssumption

\* Among rows newer than the newer of two articles there are none that are not newer than
\* the older one.
LEMMA NewerThanOlder ==
    ASSUME NEW a \in Articles, NEW b \in Articles, CreatedAt[b] <= CreatedAt[a],
           Cardinality(Newer(a, b)) >= ComparableLimit
    PROVE  Cardinality(Newer(b, a)) >= ComparableLimit
  <1>1. Newer(a, b) \subseteq Newer(b, a)
    BY LimitsAssumption DEF Newer
  <1>2. IsFiniteSet(Newer(b, a)) /\ IsFiniteSet(Newer(a, b))
    BY LimitsAssumption, FS_Subset DEF Newer
  <1>3. Cardinality(Newer(a, b)) <= Cardinality(Newer(b, a))
    BY <1>1, <1>2, FS_Subset
  <1>4. Cardinality(Newer(a, b)) \in Nat /\ Cardinality(Newer(b, a)) \in Nat
    BY <1>2, FS_CardinalityType
  <1>. QED
    BY <1>3, <1>4, LimitsAssumption

\* A row to compare with is missing from the list only if the limit is reached by newer ones.
LEMMA MissingIsOld ==
    ASSUME NEW b \in Articles, NEW list \in NewestComparable(b), NEW a \in Comparable(b) \ list
    PROVE  Cardinality(Newer(a, b)) >= ComparableLimit
  <1>1. list # Comparable(b) /\ list \in Limited(Comparable(b), ComparableLimit)
    BY DEF NewestComparable
  <1>2. Cardinality(list) = ComparableLimit
    BY <1>1 DEF Limited
  <1>3. list \subseteq Newer(a, b)
    BY NewestRows DEF NewestComparable, Comparable, Newer
  <1>4. IsFiniteSet(Newer(a, b))
    BY LimitsAssumption, FS_Subset DEF Newer
  <1>5. Cardinality(list) <= Cardinality(Newer(a, b))
    BY <1>3, <1>4, FS_Subset
  <1>6. Cardinality(Newer(a, b)) \in Nat
    BY <1>4, FS_CardinalityType
  <1>. QED
    BY <1>2, <1>5, <1>6, LimitsAssumption

\* Who passes the first comparison saw every other article of its URL that was in its
\* list in a status that bars it from passing.
LEMMA PassedStep ==
    TypeOK /\ LeaseInv /\ UndecidedInv /\ PassedInv /\ [Next]_vars => PassedInv'
  <1> SUFFICES ASSUME TypeOK, LeaseInv, UndecidedInv, PassedInv, [Next]_vars
               PROVE PassedInv'
    OBVIOUS
  <1> DEFINE Kept == \A a \in Articles : Passed(a)' => Passed(a)
  <1>0. ASSUME Kept PROVE PassedInv'
    <2> SUFFICES ASSUME NEW a \in Articles, NEW b \in Articles,
                        a # b, Url[a] = Url[b], CreatedAt[a] <= CreatedAt[b],
                        Passed(a)', Passed(b)'
                 PROVE  Cardinality(Newer(a, b)') >= ComparableLimit
      BY DEF PassedInv
    <2>1. Passed(a) /\ Passed(b)
      BY <1>0
    <2>. QED
      BY <2>1, NewerStays DEF PassedInv
  <1> USE ArticlesAssumption, OneJobAssumption DEF TypeOK, LeaseInv, UndecidedInv, row,
          local, queue, Goto, Fault, Article
  <1>1. ASSUME NEW a \in Articles, Insert(a) PROVE PassedInv'
    <2>. Kept
      BY <1>1 DEF Insert, Passed
    <2>. QED
      BY <1>0
  <1>2. ASSUME NEW j \in Jobs, SubmitJob(j) PROVE PassedInv'
    <2>. Kept
      BY <1>2 DEF SubmitJob, Queue!Submit, Passed
    <2>. QED
      BY <1>0
  <1>3. ASSUME NEW w \in Workers, NEW j \in Jobs, Begin(w, j) PROVE PassedInv'
    <2>. Kept
      BY <1>3 DEF Begin, Queue!Lease, Passed
    <2>. QED
      BY <1>0
  <1>4. ASSUME NEW w \in Workers, Load(w) PROVE PassedInv'
    <2>. Kept
      BY <1>4 DEF Load, Passed
    <2>. QED
      BY <1>0
  <1>5. ASSUME NEW w \in Workers, Skip(w) PROVE PassedInv'
    <2>. Kept
      BY <1>5 DEF Skip, Passed
    <2>. QED
      BY <1>0
  <1>6. ASSUME NEW w \in Workers, AllFailed(w) PROVE PassedInv'
    <2>. Kept
      BY <1>6 DEF AllFailed, Passed
    <2>. QED
      BY <1>0
  <1>7. ASSUME NEW w \in Workers, Compare(w) PROVE PassedInv'
    <2> DEFINE b == Article(w)
    <2>0. PICK list \in NewestComparable(b) : ReadsList(w, list)
      BY <1>7, CompareReads
    <2>1. b \in Articles
      BY <2>0 DEF ReadsList
    <2>2. \A a \in Articles \ {b} : Passed(a)' => Passed(a)
      BY <2>0 DEF ReadsList, Passed
    <2>3. CASE pc'[w] # "fetching"
      <3>. Kept
        BY <2>0, <2>2, <2>3 DEF ReadsList, Passed
      <3>. QED
        BY <1>0
    <2>4. CASE pc'[w] = "fetching"
      <3>1. Matches(Url[b], NoUrl, Title[b], list, stored) = {}
        BY <2>0, <2>4 DEF ReadsList
      <3>2. ASSUME NEW a \in Articles \ {b}, Url[a] = Url[b], Passed(a)
            PROVE  Cardinality(Newer(a, b)) >= ComparableLimit
        <4>1. processing[a] \in {"ingested", "extracted", "pending_qualification"}
          BY <3>2 DEF Passed
        <4>2. a \in Comparable(b)
          BY <4>1 DEF Comparable
        <4>3. a \notin list
          BY <3>1, <3>2 DEF Matches, SameUrl
        <4>. QED
          BY <2>1, <4>2, <4>3, MissingIsOld
      <3>. SUFFICES ASSUME NEW x \in Articles, NEW y \in Articles,
                           x # y, Url[x] = Url[y], CreatedAt[x] <= CreatedAt[y],
                           Passed(x)', Passed(y)'
                    PROVE  Cardinality(Newer(x, y)) >= ComparableLimit
        BY NewerStays DEF PassedInv
      <3>3. CASE x # b /\ y # b
        BY <2>2, <3>3 DEF PassedInv
      <3>4. CASE y = b
        BY <2>2, <3>2, <3>4
      <3>5. CASE x = b
        <4>1. Cardinality(Newer(y, x)) >= ComparableLimit
          BY <2>2, <3>2, <3>5
        <4>. QED
          BY <4>1, NewerThanOlder
      <3>. QED
        BY <3>3, <3>4, <3>5
    <2>. QED
      BY <2>3, <2>4
  <1>8. ASSUME NEW w \in Workers, Fetch(w) PROVE PassedInv'
    <2>. Kept
      BY <1>8 DEF Fetch, Passed
    <2>. QED
      BY <1>0
  <1>9. ASSUME NEW w \in Workers, GiveUp(w) PROVE PassedInv'
    <2>. Kept
      BY <1>9 DEF GiveUp, SetExtractionFailed, Passed
    <2>. QED
      BY <1>0
  <1>10. ASSUME NEW w \in Workers, Deduplicate(w) PROVE PassedInv'
    <2>. Kept
      BY <1>10, DeduplicateDecides DEF Decides, Passed
    <2>. QED
      BY <1>0
  <1>11. ASSUME NEW w \in Workers, Enrich(w) PROVE PassedInv'
    <2>. Kept
      BY <1>11 DEF Enrich, SetDuplicate, Passed
    <2>. QED
      BY <1>0
  <1>12. ASSUME NEW w \in Workers, LogRejection(w) PROVE PassedInv'
    <2>. Kept
      BY <1>12 DEF LogRejection, SetRejected, Passed
    <2>. QED
      BY <1>0
  <1>13. ASSUME NEW w \in Workers, Store(w) PROVE PassedInv'
    <2>. Kept
      BY <1>13 DEF Store, SetExtraction, Passed
    <2>. QED
      BY <1>0
  <1>14. ASSUME NEW w \in Workers, Qualify(w) PROVE PassedInv'
    <2>. Kept
      BY <1>14 DEF Qualify, SetQualified, Passed
    <2>. QED
      BY <1>0
  <1>15. ASSUME NEW w \in Workers, Finish(w) PROVE PassedInv'
    <2>. Kept
      BY <1>15 DEF Finish, SetDistinct, Passed
    <2>. QED
      BY <1>0
  <1>16. ASSUME NEW w \in Workers, StepFails(w) PROVE PassedInv'
    <2>. Kept
      BY <1>16 DEF StepFails, SetExtraction, SetQualified, SetDistinct, Passed
    <2>. QED
      BY <1>0
  <1>17. ASSUME NEW w \in Workers, Return(w) PROVE PassedInv'
    <2>. Kept
      BY <1>17 DEF Return, Forget, Queue!Succeed, Queue!Fail, Queue!Release, Passed
    <2>. QED
      BY <1>0
  <1>18. ASSUME NEW w \in Workers, ReturnFails(w) PROVE PassedInv'
    <2>. Kept
      BY <1>18 DEF ReturnFails, Forget, Queue!Abandon, Passed
    <2>. QED
      BY <1>0
  <1>19. ASSUME NEW w \in Workers, Crash(w) PROVE PassedInv'
    <2>. Kept
      BY <1>19 DEF Crash, Forget, Queue!Abandon, Passed
    <2>. QED
      BY <1>0
  <1>20. CASE UNCHANGED vars
    <2>. Kept
      BY <1>20 DEF vars, Passed
    <2>. QED
      BY <1>0
  <1>21. QED
    BY <1>1, <1>2, <1>3, <1>4, <1>5, <1>6, <1>7, <1>8, <1>9, <1>10, <1>11, <1>12,
       <1>13, <1>14, <1>15, <1>16, <1>17, <1>18, <1>19, <1>20 DEF Next, Move

\* A row with a similar title is missing from the list only if the limit is reached by others.
LEMMA CrowdedOut ==
    ASSUME TypeOK, NEW b \in Articles, NEW list \in MostSimilar(b), NEW a \in Similar(b) \ list
    PROVE  Cardinality(Alike(a, b)) >= SimilarLimit
  <1>1. list # Similar(b) /\ list \in Limited(Similar(b), SimilarLimit)
    BY DEF MostSimilar
  <1>2. Cardinality(list) = SimilarLimit
    BY <1>1 DEF Limited
  <1>3. list \subseteq Alike(a, b)
    BY SimilarRows DEF Similar, Comparable, Alike
  <1>4. IsFiniteSet(Alike(a, b))
    BY LimitsAssumption, FS_Subset DEF Alike, TypeOK
  <1>5. Cardinality(list) <= Cardinality(Alike(a, b))
    BY <1>3, <1>4, FS_Subset
  <1>6. Cardinality(Alike(a, b)) \in Nat
    BY <1>4, FS_CardinalityType
  <1>. QED
    BY <1>2, <1>5, <1>6, LimitsAssumption

\* Rows with a similar title only become more.
LEMMA AlikeStays ==
    ASSUME stored \subseteq stored', TypeOK', NEW a, NEW b, Cardinality(Alike(a, b)) >= SimilarLimit
    PROVE  Cardinality({c \in stored' \ {a, b} : CleanTitle[c] = CleanTitle[b]}) >= SimilarLimit
  <1> DEFINE more == {c \in stored' \ {a, b} : CleanTitle[c] = CleanTitle[b]}
  <1>1. Alike(a, b) \subseteq more
    BY DEF Alike
  <1>2. IsFiniteSet(more)
    BY LimitsAssumption, FS_Subset DEF TypeOK
  <1>3. IsFiniteSet(Alike(a, b)) /\ Cardinality(Alike(a, b)) <= Cardinality(more)
    BY <1>1, <1>2, FS_Subset
  <1>4. Cardinality(Alike(a, b)) \in Nat /\ Cardinality(more) \in Nat
    BY <1>2, <1>3, FS_CardinalityType
  <1>. QED
    BY <1>3, <1>4, LimitsAssumption

\* A worker that has left the stages behind the comparison knows nothing more, and one
\* that goes on in them
Onward(v) ==
    \/ /\ pc'[v] \notin {"fetching", "deduplicating", "storing", "qualifying", "finishing"}
       /\ canonicals'[v] \subseteq comparable'[v] \cap stored'
    \/ /\ job'[v] = job[v] /\ comparable'[v] = comparable[v] /\ canonicals'[v] = canonicals[v]
       /\ \/ pc'[v] = pc[v]
          \/ pc[v] = "fetching" /\ pc'[v] = "deduplicating"
          \/ pc[v] \in {"storing", "qualifying"} /\ pc'[v] \in {"qualifying", "finishing"}

\* What a comparison has excluded stays so: a failed or rejected article stays as it is,
\* and no worker reaches a stage it has not earned.
LEMMA ComparedKept ==
    ASSUME TypeOK, TypeOK', NEW v \in Workers, ComparedBy(v), Onward(v), stored \subseteq stored',
           \A a \in Articles :
               processing[a] \in {"extraction_failed", "rejected"} => processing'[a] = processing[a]
    PROVE  ComparedBy(v)'
  <1>1. CASE pc'[v] \notin {"fetching", "deduplicating", "storing", "qualifying", "finishing"}
    BY <1>1 DEF Onward, ComparedBy
  <1>2. CASE pc'[v] \in {"fetching", "deduplicating", "storing", "qualifying", "finishing"}
    <2>1. /\ Article(v)' = Article(v)
          /\ canonicals'[v] = canonicals[v]
          /\ canonicals'[v] \subseteq comparable'[v] \cap stored'
      BY <1>2 DEF Onward, ComparedBy, Article
    <2>2. ASSUME NEW a \in canonicals'[v] PROVE ~FirstSees(a, Article(v)')
      BY <1>2, <2>1, <2>2 DEF Onward, ComparedBy
    <2>3. ASSUME NEW a \in canonicals'[v], pc'[v] \in {"storing", "qualifying", "finishing"}
          PROVE  \/ processing'[a] \in {"extraction_failed", "rejected"}
                 \/ ~SecondSees(a, Article(v)')
                 \/ Cardinality(Alike(a, Article(v))') >= SimilarLimit
      <3>1. pc[v] \in {"storing", "qualifying", "finishing"} /\ a \in canonicals[v] /\ a \in Articles
        BY <2>1, <2>3 DEF Onward, TypeOK
      <3>2. CASE processing[a] \in {"extraction_failed", "rejected"}
        BY <3>1, <3>2
      <3>3. CASE ~SecondSees(a, Article(v))
        BY <2>1, <3>3
      <3>4. CASE Cardinality(Alike(a, Article(v))) >= SimilarLimit
        <4>1. Cardinality({c \in stored' \ {a, Article(v)} : CleanTitle[c] = CleanTitle[Article(v)]})
                 >= SimilarLimit
          BY <3>4, AlikeStays
        <4>2. Alike(a, Article(v))' =
                 {c \in stored' \ {a, Article(v)'} : CleanTitle[c] = CleanTitle[Article(v)']}
          BY DEF Alike
        <4>. QED
          BY <2>1, <4>1, <4>2
      <3>. QED
        BY <3>1, <3>2, <3>3, <3>4 DEF ComparedBy
    <2>. QED
      BY <2>1, <2>2, <2>3 DEF ComparedBy, FirstSees, SecondSees
  <1>. QED
    BY <1>1, <1>2

\* The comparison before the fetch excludes what the article's own URL and title tell, the
\* one after the fetch what its page tells, if the limit leaves the row in its list.
LEMMA ComparedStep ==
    TypeOK /\ LeaseInv /\ UndecidedInv /\ ComparedInv /\ [Next]_vars => ComparedInv'
  <1> SUFFICES ASSUME TypeOK, LeaseInv, UndecidedInv, ComparedInv, [Next]_vars
               PROVE ComparedInv'
    OBVIOUS
  <1> DEFINE Steady ==
               /\ stored \subseteq stored' /\ \A a \in stored' : processing'[a] # "absent"
               /\ \A a \in Articles : processing[a] \in {"extraction_failed", "rejected"} =>
                     processing'[a] = processing[a]
  <1>0. ASSUME Steady, \A v \in Workers : Onward(v) PROVE ComparedInv'
    BY <1>0, TypeStep, ComparedKept DEF ComparedInv
  <1> USE ArticlesAssumption DEF TypeOK, LeaseInv, UndecidedInv, ComparedInv, row, local, queue,
          Goto, Fault, Article
  <1>1. ASSUME NEW a \in Articles, Insert(a) PROVE ComparedInv'
    <2>1. Steady
      BY <1>1 DEF Insert
    <2>2. \A v \in Workers : Onward(v)
      BY <1>1 DEF Insert, Onward, ComparedBy
    <2>. QED
      BY <1>0, <2>1, <2>2
  <1>2. ASSUME NEW j \in Jobs, SubmitJob(j) PROVE ComparedInv'
    <2>1. Steady
      BY <1>2 DEF SubmitJob, Queue!Submit
    <2>2. \A v \in Workers : Onward(v)
      BY <1>2 DEF SubmitJob, Queue!Submit, Onward, ComparedBy
    <2>. QED
      BY <1>0, <2>1, <2>2
  <1>3. ASSUME NEW w \in Workers, NEW j \in Jobs, Begin(w, j) PROVE ComparedInv'
    <2>1. Steady
      BY <1>3 DEF Begin, Queue!Lease
    <2>2. \A v \in Workers : Onward(v)
      BY <1>3 DEF Begin, Queue!Lease, Onward, ComparedBy
    <2>. QED
      BY <1>0, <2>1, <2>2
  <1>4. ASSUME NEW w \in Workers, Load(w) PROVE ComparedInv'
    <2>1. Steady
      BY <1>4 DEF Load
    <2>2. \A v \in Workers : Onward(v)
      BY <1>4 DEF Load, Onward, ComparedBy
    <2>. QED
      BY <1>0, <2>1, <2>2
  <1>5. ASSUME NEW w \in Workers, Skip(w) PROVE ComparedInv'
    <2>1. Steady
      BY <1>5 DEF Skip
    <2>2. \A v \in Workers : Onward(v)
      BY <1>5 DEF Skip, Onward, ComparedBy
    <2>. QED
      BY <1>0, <2>1, <2>2
  <1>6. ASSUME NEW w \in Workers, AllFailed(w) PROVE ComparedInv'
    <2>1. Steady
      BY <1>6 DEF AllFailed
    <2>2. \A v \in Workers : Onward(v)
      BY <1>6 DEF AllFailed, Onward, ComparedBy
    <2>. QED
      BY <1>0, <2>1, <2>2
  <1>7. ASSUME NEW w \in Workers, Compare(w) PROVE ComparedInv'
    <2> DEFINE b == Article(w)
    <2>0. PICK list \in NewestComparable(b) : ReadsList(w, list)
      BY <1>7, CompareReads
    <2>1. Steady
      BY <2>0 DEF ReadsList
    <2>2. \A v \in Workers \ {w} : Onward(v)
      BY <2>0 DEF ReadsList, Onward
    <2>3. \A v \in Workers \ {w} : ComparedBy(v)'
      BY <2>1, <2>2, TypeStep, ComparedKept
    <2>4. /\ comparable'[w] = list /\ canonicals'[w] = list \cap stored
          /\ pc'[w] = "fetching" => Matches(Url[b], NoUrl, Title[b], list, stored) = {}
          /\ pc'[w] \in {"fetching", "enriching"}
      BY <2>0 DEF ReadsList
    <2>5. UNCHANGED <<stored, job>>
      BY <2>0 DEF ReadsList
    <2>6. pc'[w] = "fetching" => \A a \in canonicals'[w] : ~FirstSees(a, b)
      BY <2>4 DEF Matches, SameUrl, FirstSees
    <2>7. ComparedBy(w)'
      BY <2>4, <2>5, <2>6 DEF ComparedBy, FirstSees
    <2>. QED
      BY <2>1, <2>3, <2>7
  <1>8. ASSUME NEW w \in Workers, Fetch(w) PROVE ComparedInv'
    <2>1. Steady
      BY <1>8 DEF Fetch
    <2>2. \A v \in Workers : Onward(v)
      BY <1>8 DEF Fetch, Onward, ComparedBy
    <2>. QED
      BY <1>0, <2>1, <2>2
  <1>9. ASSUME NEW w \in Workers, GiveUp(w) PROVE ComparedInv'
    <2>1. Steady
      BY <1>9 DEF GiveUp, SetExtractionFailed
    <2>2. \A v \in Workers : Onward(v)
      BY <1>9 DEF GiveUp, SetExtractionFailed, Onward, ComparedBy
    <2>. QED
      BY <1>0, <2>1, <2>2
  <1>10. ASSUME NEW w \in Workers, Deduplicate(w) PROVE ComparedInv'
    <2> DEFINE b == Article(w)
    <2>1. Steady
      BY <1>10, DeduplicateDecides DEF Decides
    <2>2. \A v \in Workers \ {w} : Onward(v)
      BY <1>10, DeduplicateDecides DEF Decides, Onward
    <2>3. \A v \in Workers \ {w} : ComparedBy(v)'
      BY <2>1, <2>2, TypeStep, ComparedKept
    <2>4. UNCHANGED <<processing, stored, job, comparable, canonicals>>
      BY <1>10, DeduplicateDecides DEF Decides
    <2>5. CASE pc'[w] # "storing"
      <3>. Onward(w)
        BY <1>10, <2>4, <2>5, DeduplicateDecides DEF Decides, Onward, ComparedBy
      <3>. QED
        BY <1>0, <2>1, <2>2
    <2>6. CASE pc'[w] = "storing"
      <3>1. pc[w] = "deduplicating" /\ b \in Articles
        BY <1>10, DeduplicateDecides DEF Decides
      <3>2. ASSUME NEW a \in canonicals[w] PROVE ~FirstSees(a, b) /\ a \in Articles /\ a \in stored
        BY <3>1 DEF ComparedBy
      <3>3. ASSUME NEW a \in canonicals[w],
                   processing[a] \notin {"extraction_failed", "rejected"}, SecondSees(a, b)
            PROVE  Cardinality(Alike(a, b)) >= SimilarLimit
        <4>1. a # b /\ a \in stored /\ a \in Articles
          BY <3>2 DEF FirstSees
        <4>2. a \in Similar(b)
          BY <3>3, <4>1 DEF Similar, Comparable, ProcessingStatus, SecondSees
        <4>3. a \in canonicals[w] /\ a \in comparable[w]
          BY DEF ComparedBy
        <4>4. Decides(w)
          BY <1>10, DeduplicateDecides
        <4>5. \/ \E list \in MostSimilar(b) : SeesNone(w, list, stored)
              \/ SeesNone(w, comparable[w], canonicals[w])
          BY <2>6, <3>1, <4>4 DEF Decides
        <4>6. ~SeesNone(w, comparable[w], canonicals[w])
          BY <3>3, <4>3, SeenIsFound
        <4>7. PICK list \in MostSimilar(b) : SeesNone(w, list, stored)
          BY <4>5, <4>6
        <4>8. a \notin list
          BY <3>3, <4>1, <4>7, SeenIsFound
        <4>. QED
          BY <3>1, <4>2, <4>8, CrowdedOut
      <3>4. ComparedBy(w)
        OBVIOUS
      <3>5. ComparedBy(w)'
        BY <2>4, <3>2, <3>3, <3>4 DEF ComparedBy, FirstSees, SecondSees, Alike
      <3>. QED
        BY <2>1, <2>3, <3>5
    <2>. QED
      BY <2>5, <2>6
  <1>11. ASSUME NEW w \in Workers, Enrich(w) PROVE ComparedInv'
    <2>1. Steady
      BY <1>11 DEF Enrich, SetDuplicate
    <2>2. \A v \in Workers : Onward(v)
      BY <1>11 DEF Enrich, SetDuplicate, Onward, ComparedBy
    <2>. QED
      BY <1>0, <2>1, <2>2
  <1>12. ASSUME NEW w \in Workers, LogRejection(w) PROVE ComparedInv'
    <2>1. Steady
      BY <1>12 DEF LogRejection, SetRejected
    <2>2. \A v \in Workers : Onward(v)
      BY <1>12 DEF LogRejection, SetRejected, Onward, ComparedBy
    <2>. QED
      BY <1>0, <2>1, <2>2
  <1>13. ASSUME NEW w \in Workers, Store(w) PROVE ComparedInv'
    <2>1. Steady
      BY <1>13 DEF Store, SetExtraction
    <2>2. \A v \in Workers : Onward(v)
      BY <1>13 DEF Store, SetExtraction, Onward, ComparedBy
    <2>. QED
      BY <1>0, <2>1, <2>2
  <1>14. ASSUME NEW w \in Workers, Qualify(w) PROVE ComparedInv'
    <2>1. Steady
      BY <1>14 DEF Qualify, SetQualified
    <2>2. \A v \in Workers : Onward(v)
      BY <1>14 DEF Qualify, SetQualified, Onward, ComparedBy
    <2>. QED
      BY <1>0, <2>1, <2>2
  <1>15. ASSUME NEW w \in Workers, Finish(w) PROVE ComparedInv'
    <2>1. Steady
      BY <1>15 DEF Finish, SetDistinct
    <2>2. \A v \in Workers : Onward(v)
      BY <1>15 DEF Finish, SetDistinct, Onward, ComparedBy
    <2>. QED
      BY <1>0, <2>1, <2>2
  <1>16. ASSUME NEW w \in Workers, StepFails(w) PROVE ComparedInv'
    <2>1. Steady
      BY <1>16 DEF StepFails, SetExtraction, SetQualified, SetDistinct
    <2>2. \A v \in Workers : Onward(v)
      BY <1>16 DEF StepFails, SetExtraction, SetQualified, SetDistinct, Onward, ComparedBy
    <2>. QED
      BY <1>0, <2>1, <2>2
  <1>17. ASSUME NEW w \in Workers, Return(w) PROVE ComparedInv'
    <2>1. Steady
      BY <1>17 DEF Return, Forget, Queue!Succeed, Queue!Fail, Queue!Release
    <2>2. \A v \in Workers : Onward(v)
      BY <1>17 DEF Return, Forget, Queue!Succeed, Queue!Fail, Queue!Release, Onward, ComparedBy
    <2>. QED
      BY <1>0, <2>1, <2>2
  <1>18. ASSUME NEW w \in Workers, ReturnFails(w) PROVE ComparedInv'
    <2>1. Steady
      BY <1>18 DEF ReturnFails, Forget, Queue!Abandon
    <2>2. \A v \in Workers : Onward(v)
      BY <1>18 DEF ReturnFails, Forget, Queue!Abandon, Onward, ComparedBy
    <2>. QED
      BY <1>0, <2>1, <2>2
  <1>19. ASSUME NEW w \in Workers, Crash(w) PROVE ComparedInv'
    <2>1. Steady
      BY <1>19 DEF Crash, Forget, Queue!Abandon
    <2>2. \A v \in Workers : Onward(v)
      BY <1>19 DEF Crash, Forget, Queue!Abandon, Onward, ComparedBy
    <2>. QED
      BY <1>0, <2>1, <2>2
  <1>20. CASE UNCHANGED vars
    <2>1. Steady
      BY <1>20 DEF vars
    <2>2. \A v \in Workers : Onward(v)
      BY <1>20 DEF vars, Onward, ComparedBy
    <2>. QED
      BY <1>0, <2>1, <2>2
  <1>21. QED
    BY <1>1, <1>2, <1>3, <1>4, <1>5, <1>6, <1>7, <1>8, <1>9, <1>10, <1>11, <1>12,
       <1>13, <1>14, <1>15, <1>16, <1>17, <1>18, <1>19, <1>20 DEF Next, Move

-----------------------------------------------------------------------------
\* The invariant holds at the start: nothing is stored and nobody works.
LEMMA InitInv == Init => IInv
  <1> SUFFICES ASSUME Init PROVE IInv
    OBVIOUS
  <1> USE ArticlesAssumption, NumbersAssumption DEF Init
  <1>1. TypeOK
    BY DEF TypeOK, ProcessingStatus, Pcs, Queue!LCInit, Queue!Phases
  <1>2. LeaseInv /\ UndecidedInv
    BY DEF LeaseInv, UndecidedInv
  <1>3. PassedInv
    BY DEF PassedInv, Passed
  <1>4. ComparedInv
    BY DEF ComparedInv, ComparedBy
  <1>5. AnnouncedIsComplete /\ StatusesAgree
    BY DEF AnnouncedIsComplete, StatusesAgree
  <1>. QED
    BY <1>1, <1>2, <1>3, <1>4, <1>5 DEF IInv

\* Every step keeps the invariant.
LEMMA NextInv == IInv /\ [Next]_vars => IInv'
  <1> SUFFICES ASSUME IInv, [Next]_vars PROVE IInv'
    OBVIOUS
  <1>1. DecisionsAgree' /\ QualityAgrees'
    BY DecisionsStep, QualityStep, StatusesParts DEF IInv
  <1>2. StatusesAgree'
    BY <1>1 DEF StatusesAgree, DecisionsAgree, QualityAgrees, Accounted
  <1>. QED
    BY <1>2, TypeStep, LeaseStep, UndecidedStep, PassedStep, ComparedStep, AnnouncedStep DEF IInv

\* The inductive invariant of the content step: what each stage of a worker knows of its
\* article and of the others it could have in its lists, for any number of workers,
\* articles and faults and any limits of the lists.
THEOREM Inductive == Spec => []IInv
  BY InitInv, NextInv, PTL DEF Spec

\* The variables of the step keep their types.
THEOREM TypeCorrect == Spec => []TypeOK
  <1>1. IInv => TypeOK
    BY DEF IInv
  <1>. QED
    BY <1>1, Inductive, PTL

\* No failure, retry, second run or crash leaves an article announced for
\* qualification without its content or its quality status.
THEOREM Complete == Spec => []AnnouncedIsComplete
  <1>1. IInv => AnnouncedIsComplete
    BY DEF IInv
  <1>. QED
    BY <1>1, Inductive, PTL

\* The three statuses of an article, written by different statements, agree: duplicates are
\* filed as qualified, announced articles are distinct, and the quality of no other article
\* is qualified, but between the last two UPDATEs of a step or after a fault.
THEOREM Agreement == Spec => []StatusesAgree
  <1>1. IInv => StatusesAgree
    BY DEF IInv
  <1>. QED
    BY <1>1, Inductive, PTL

\* However the steps of their workers overlap, two articles with the same URL are not both
\* announced, unless ComparableLimit rows at least as new as the older one hide it.
THEOREM OnePerUrl == Spec => []OneAnnouncedPerUrl
  <1>1. IInv => OneAnnouncedPerUrl
    BY DEF IInv, PassedInv, Passed, OneAnnouncedPerUrl
  <1>. QED
    BY <1>1, Inductive, PTL

\* An article about to be announced is no duplicate the comparisons see of an announced one
\* that was in the list of its step, stored, unless SimilarLimit other rows hide that one
\* from the second comparison.
THEOREM LaterCaught == Spec => []LaterDuplicateIsCaught
  <1>1. IInv => LaterDuplicateIsCaught
    BY DEF IInv, ComparedInv, ComparedBy, LaterDuplicateIsCaught
  <1>. QED
    BY <1>1, Inductive, PTL

\* A step writes the status only of an article nobody has decided on.
LEMMA DecisionStep ==
    TypeOK /\ LeaseInv /\ UndecidedInv /\ [Next]_vars =>
      \A a \in Articles :
               processing[a] \in {"pending_qualification", "qualified", "extraction_failed"} =>
                  processing'[a] = processing[a] /\ duplicateOf'[a] = duplicateOf[a]
  <1> SUFFICES ASSUME TypeOK, LeaseInv, UndecidedInv, [Next]_vars, NEW a \in Articles,
                      processing[a] \in {"pending_qualification", "qualified", "extraction_failed"}
               PROVE  processing'[a] = processing[a] /\ duplicateOf'[a] = duplicateOf[a]
    OBVIOUS
  <1> USE DEF TypeOK, LeaseInv, UndecidedInv, row, local, queue, Goto, Fault, Article
  <1>1. ASSUME NEW b \in Articles, Insert(b) PROVE processing'[a] = processing[a] /\ duplicateOf'[a] = duplicateOf[a]
    BY <1>1 DEF Insert
  <1>2. ASSUME NEW j \in Jobs, SubmitJob(j) PROVE processing'[a] = processing[a] /\ duplicateOf'[a] = duplicateOf[a]
    BY <1>2 DEF SubmitJob, Queue!Submit
  <1>3. ASSUME NEW w \in Workers, NEW j \in Jobs, Begin(w, j) PROVE processing'[a] = processing[a] /\ duplicateOf'[a] = duplicateOf[a]
    BY <1>3 DEF Begin, Queue!Lease
  <1>4. ASSUME NEW w \in Workers, Load(w) PROVE processing'[a] = processing[a] /\ duplicateOf'[a] = duplicateOf[a]
    BY <1>4 DEF Load
  <1>5. ASSUME NEW w \in Workers, Skip(w) PROVE processing'[a] = processing[a] /\ duplicateOf'[a] = duplicateOf[a]
    BY <1>5 DEF Skip
  <1>6. ASSUME NEW w \in Workers, AllFailed(w) PROVE processing'[a] = processing[a] /\ duplicateOf'[a] = duplicateOf[a]
    BY <1>6 DEF AllFailed
  <1>7. ASSUME NEW w \in Workers, Compare(w) PROVE processing'[a] = processing[a] /\ duplicateOf'[a] = duplicateOf[a]
    BY <1>7, CompareReads DEF ReadsList
  <1>8. ASSUME NEW w \in Workers, Fetch(w) PROVE processing'[a] = processing[a] /\ duplicateOf'[a] = duplicateOf[a]
    BY <1>8 DEF Fetch
  <1>9. ASSUME NEW w \in Workers, GiveUp(w) PROVE processing'[a] = processing[a] /\ duplicateOf'[a] = duplicateOf[a]
    BY <1>9 DEF GiveUp, SetExtractionFailed
  <1>10. ASSUME NEW w \in Workers, Deduplicate(w) PROVE processing'[a] = processing[a] /\ duplicateOf'[a] = duplicateOf[a]
    BY <1>10, DeduplicateDecides DEF Decides
  <1>11. ASSUME NEW w \in Workers, Enrich(w) PROVE processing'[a] = processing[a] /\ duplicateOf'[a] = duplicateOf[a]
    BY <1>11 DEF Enrich, SetDuplicate
  <1>12. ASSUME NEW w \in Workers, LogRejection(w) PROVE processing'[a] = processing[a] /\ duplicateOf'[a] = duplicateOf[a]
    BY <1>12 DEF LogRejection, SetRejected
  <1>13. ASSUME NEW w \in Workers, Store(w) PROVE processing'[a] = processing[a] /\ duplicateOf'[a] = duplicateOf[a]
    BY <1>13 DEF Store, SetExtraction
  <1>14. ASSUME NEW w \in Workers, Qualify(w) PROVE processing'[a] = processing[a] /\ duplicateOf'[a] = duplicateOf[a]
    BY <1>14 DEF Qualify, SetQualified
  <1>15. ASSUME NEW w \in Workers, Finish(w) PROVE processing'[a] = processing[a] /\ duplicateOf'[a] = duplicateOf[a]
    BY <1>15 DEF Finish, SetDistinct
  <1>16. ASSUME NEW w \in Workers, StepFails(w) PROVE processing'[a] = processing[a] /\ duplicateOf'[a] = duplicateOf[a]
    BY <1>16 DEF StepFails, SetExtraction, SetQualified, SetDistinct
  <1>17. ASSUME NEW w \in Workers, Return(w) PROVE processing'[a] = processing[a] /\ duplicateOf'[a] = duplicateOf[a]
    BY <1>17 DEF Return, Forget, Queue!Succeed, Queue!Fail, Queue!Release
  <1>18. ASSUME NEW w \in Workers, ReturnFails(w) PROVE processing'[a] = processing[a] /\ duplicateOf'[a] = duplicateOf[a]
    BY <1>18 DEF ReturnFails, Forget, Queue!Abandon
  <1>19. ASSUME NEW w \in Workers, Crash(w) PROVE processing'[a] = processing[a] /\ duplicateOf'[a] = duplicateOf[a]
    BY <1>19 DEF Crash, Forget, Queue!Abandon
  <1>20. CASE UNCHANGED vars
    BY <1>20 DEF vars
  <1>. QED
    BY <1>1, <1>2, <1>3, <1>4, <1>5, <1>6, <1>7, <1>8, <1>9, <1>10, <1>11, <1>12,
       <1>13, <1>14, <1>15, <1>16, <1>17, <1>18, <1>19, <1>20 DEF Next, Move

\* Once the step has decided on an article, no later step, retry, second run or
\* crash changes the decision.
THEOREM Final == Spec => DecisionIsFinal
  <1>1. IInv /\ [Next]_vars =>
          [\A a \in Articles :
             processing[a] \in {"pending_qualification", "qualified", "extraction_failed"} =>
                processing'[a] = processing[a] /\ duplicateOf'[a] = duplicateOf[a]]_vars
    BY DecisionStep DEF IInv
  <1>. QED
    BY <1>1, Inductive, PTL DEF Spec, DecisionIsFinal
=============================================================================
