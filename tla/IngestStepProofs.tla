--------------------------- MODULE IngestStepProofs ---------------------------
(***************************************************************************)
(* Theorems of IngestStep, for any feed, jobs, workers, limit, number of   *)
(* attempts and failures.                                                  *)
(***************************************************************************)
EXTENDS IngestStep, FiniteSetTheorems, WellFoundedInduction, TLAPS

\* A step of one worker.
Act(w) ==
  \/ \E j \in Jobs : Begin(w, j)
  \/ Step(w) \/ LoadFails(w) \/ QueueFails(w) \/ SaveFails(w) \/ ReturnFails(w) \/ Crash(w)

\* A step is the feed's, the scheduler's or one worker's.
LEMMA NextSplit ==
  Next <=> \/ \E i \in Items : Publish(i)
           \/ \E j \in Jobs : SubmitJob(j)
           \/ \E w \in Workers : Act(w)
  BY DEF Next, Act

-----------------------------------------------------------------------------
(* Operators.                                                              *)

\* An article is an item with one of the URLs it resolves to.
LEMMA ArticleFields ==
  ASSUME NEW a \in Articles
  PROVE  a.item \in Items /\ a.url \in Urls /\ a.url \in Resolutions[a.item]
  BY FeedAssumption DEF Articles

\* What CheckItem adds to a batch is an article.
LEMMA ArticleOf ==
  ASSUME NEW i \in Items, NEW u \in Resolutions[i]
  PROVE  [item |-> i, url |-> u] \in Articles
  BY DEF Articles

\* A finite feed has a newest item.
LEMMA NewestExists ==
  ASSUME NEW S \in SUBSET Items, IsFiniteSet(S), S # {}
  PROVE  Newest(S) # {}
  <1> DEFINE Bad(T) == T # {} /\ IsFiniteSet(T) /\ Newest(T) = {}
             Sizes == {n \in Nat : \E T \in SUBSET Items : Bad(T) /\ Cardinality(T) = n}
  <1> SUFFICES ASSUME Newest(S) = {} PROVE FALSE
    OBVIOUS
  <1>1. Cardinality(S) \in Sizes
    BY FS_CardinalityType
  <1>2. PICK n \in Sizes : \A m \in Sizes : ~(<<m, n>> \in OpToRel(<, Nat))
    <2>1. Sizes \subseteq Nat /\ Sizes # {}
      BY <1>1
    <2>. QED
      BY <2>1, NatLessThanWellFounded, WFMin, Zenon
  <1>3. PICK T \in SUBSET Items : Bad(T) /\ Cardinality(T) = n
    OBVIOUS
  <1>4. PICK x \in T : TRUE
    BY <1>3
  <1> DEFINE R == T \ {x}
  <1>5. IsFiniteSet(R) /\ Cardinality(R) = n - 1
    BY <1>3, <1>4, FS_RemoveElement
  <1>6. x \in Items /\ Date[x] \in Nat
    BY <1>4, FeedAssumption
  <1>7. CASE R = {}
    <2>1. T = {x}
      BY <1>4, <1>7
    <2>2. x \in Newest(T)
      BY <1>6, <2>1 DEF Newest
    <2>. QED
      BY <1>3, <2>2
  <1>8. CASE R # {} /\ Newest(R) = {}
    <2>1. n - 1 \in Sizes
      <3>1. n - 1 \in Nat
        BY <1>5, FS_CardinalityType
      <3>. QED
        BY <1>5, <1>8, <3>1
    <2>2. <<n - 1, n>> \in OpToRel(<, Nat)
      BY <2>1 DEF OpToRel
    <2>. QED
      BY <1>2, <2>1, <2>2
  <1>9. CASE Newest(R) # {}
    <2>1. PICK m \in R : \A k \in R : Date[k] <= Date[m]
      BY <1>9 DEF Newest
    <2>2. \A k \in T : Date[k] \in Nat
      BY FeedAssumption
    <2>3. IF Date[x] <= Date[m] THEN m \in Newest(T) ELSE x \in Newest(T)
      BY <1>4, <1>6, <2>1, <2>2 DEF Newest
    <2>. QED
      BY <1>3, <2>3
  <1>. QED
    BY <1>7, <1>8, <1>9

\* The latest date is the date of a listed item, or 0, and no item is newer.
LEMMA LatestDateIs ==
  ASSUME NEW S \in SUBSET Items, IsFiniteSet(S)
  PROVE  /\ LatestDate(S) = 0 \/ \E k \in S : LatestDate(S) = Date[k]
         /\ \A i \in S : Date[i] <= LatestDate(S)
  <1>1. CASE S = {}
    BY <1>1 DEF LatestDate
  <1>2. CASE S # {}
    <2>1. Newest(S) # {} /\ Newest(S) \subseteq S
      BY <1>2, NewestExists DEF Newest
    <2>2. (CHOOSE i \in S : i \in Newest(S)) \in Newest(S)
      BY <2>1
    <2>. QED
      BY <1>2, <2>1, <2>2 DEF LatestDate, Newest
  <1>. QED
    BY <1>1, <1>2

-----------------------------------------------------------------------------
(* Who has what.                                                           *)

\* A worker in the middle of the handler has a job, leased to it.
LEMMA Busy ==
  ASSUME WorkerShape, NEW w \in Workers, pc[w] \notin {"idle", "gone"}
  PROVE  job[w] \in Jobs /\ phase[job[w]] = "leased" /\ holder[job[w]] = w
  BY DEF WorkerShape

\* A worker that has no job can only begin one.
LEMMA ActIdle ==
  ASSUME NEW w \in Workers, pc[w] \in {"idle", "gone"}, Act(w)
  PROVE  \E j \in Jobs : Begin(w, j)
  BY DEF Goto, Act, Step, Fetch, Refuse, FetchFails, ReadCutoff, CheckItem, InsertBatch,
         Report, QueueArticle, SaveCursor, Return, LoadFails, QueueFails, SaveFails,
         ReturnFails, Crash

\* Nothing of worker w, nor of its job, is changed.
Same(w) ==
  /\ pc'[w] = pc[w] /\ job'[w] = job[w] /\ window'[w] = window[w]
  /\ maxDate'[w] = maxDate[w] /\ cutoff'[w] = cutoff[w] /\ batch'[w] = batch[w]
  /\ job[w] \in Jobs =>
       /\ seen'[job[w]] = seen[job[w]] /\ tries'[job[w]] = tries[job[w]]
       /\ phase'[job[w]] = phase[job[w]] /\ holder'[job[w]] = holder[job[w]]

\* A worker's step leaves the other workers and their jobs alone.
LEMMA Others ==
  ASSUME TypeOK, WorkerShape, NEW v \in Workers, Act(v), NEW w \in Workers \ {v}
  PROVE  Same(w)
  <1> USE DEF TypeOK, local, queue, history, Goto, Same
  <1>0. job[w] \in Jobs => phase[job[w]] = "leased" /\ holder[job[w]] = w
    BY FeedAssumption DEF WorkerShape
  <1>1. ASSUME NEW j \in Jobs, Begin(v, j) PROVE Same(w)
    BY <1>0, <1>1 DEF Begin, Queue!Lease
  <1>2. CASE pc[v] \notin {"idle", "gone"}
    <2>0. job[v] \in Jobs /\ job[v] # job[w]
      BY <1>0, <1>2, Busy
    <2>1. CASE Fetch(v)
      BY <2>0, <2>1, <1>0 DEF Fetch
    <2>2. CASE Refuse(v)
      BY <2>0, <2>2, <1>0 DEF Refuse
    <2>3. CASE FetchFails(v)
      BY <2>0, <2>3, <1>0 DEF FetchFails
    <2>4. CASE ReadCutoff(v)
      BY <2>0, <2>4, <1>0 DEF ReadCutoff
    <2>5. CASE CheckItem(v)
      BY <2>0, <2>5, <1>0 DEF CheckItem
    <2>6. CASE InsertBatch(v)
      BY <2>0, <2>6, <1>0 DEF InsertBatch
    <2>7. CASE Report(v)
      BY <2>0, <2>7, <1>0 DEF Report
    <2>8. CASE QueueArticle(v)
      BY <2>0, <2>8, <1>0 DEF QueueArticle
    <2>9. CASE SaveCursor(v)
      BY <2>0, <2>9, <1>0 DEF SaveCursor
    <2>10. CASE Return(v)
      BY <2>0, <2>10, <1>0 DEF Return, Forget, Queue!Succeed, Queue!Fail, Queue!Release
    <2>11. CASE LoadFails(v)
      BY <2>0, <2>11, <1>0 DEF LoadFails
    <2>12. CASE QueueFails(v)
      BY <2>0, <2>12, <1>0 DEF QueueFails
    <2>13. CASE SaveFails(v)
      BY <2>0, <2>13, <1>0 DEF SaveFails
    <2>14. CASE ReturnFails(v)
      BY <2>0, <2>14, <1>0 DEF ReturnFails, Forget, Queue!Abandon
    <2>15. CASE Crash(v)
      BY <2>0, <2>15, <1>0 DEF Crash, Forget, Queue!Abandon
    <2>. QED
      BY <1>1, <2>1, <2>2, <2>3, <2>4, <2>5, <2>6, <2>7, <2>8, <2>9, <2>10, <2>11, <2>12,
         <2>13, <2>14, <2>15
      DEF Act, Step
  <1>3. CASE pc[v] \in {"idle", "gone"}
    BY <1>1, <1>3, ActIdle
  <1>. QED
    BY <1>2, <1>3

-----------------------------------------------------------------------------
(* Types.                                                                  *)

\* The ids of a worker's articles are ids.
LEMMA IdType ==
  ASSUME TypeOK, WorkerShape, NEW w \in Workers, pc[w] \notin {"idle", "gone"}, NEW a \in batch[w]
  PROVE  Id(w, a) \in Ids
  <1>1. job[w] \in Jobs /\ a \in Articles /\ tries[job[w]] \in 0 .. MaxAttempts
    BY Busy DEF TypeOK
  <1>. QED
    BY <1>1, ArticleFields DEF Id, Ids

\* Each date the handler handles is 0 or the date of a listed item.
LEMMA DateTypes ==
  ASSUME TypeOK
  PROVE  \A d : Listed(d) => d \in {Date[i] : i \in Items} \cup {0}
  BY DEF TypeOK, Listed

\* Rows are only added, each with an id.
LEMMA InsertedRows ==
  ASSUME TypeOK, WorkerShape, NEW w \in Workers, pc[w] \notin {"idle", "gone"}, InsertRows(w)
  PROVE  /\ rows' \in [Urls -> Ids \cup {NoId}]
         /\ \A u \in Urls :
               \/ rows'[u] = rows[u]
               \/ rows[u] = NoId /\ \E a \in batch[w] : rows'[u] = Id(w, a)
         /\ \A a \in batch[w] : rows'[a.url] # NoId
  <1> DEFINE W == {a.url : a \in batch[w]}
  <1>1. PICK winner \in [W -> batch[w]] :
          rows' = [u \in Urls |->
                     IF u \in W /\ rows[u] = NoId THEN Id(w, winner[u]) ELSE rows[u]]
    BY DEF InsertRows
  <1>2. \A u \in W : winner[u] \in batch[w] /\ Id(w, winner[u]) \in Ids
    BY IdType
  <1>3. \A a \in batch[w] : a.url \in Urls /\ a.url \in W
    BY ArticleFields DEF TypeOK
  <1> HIDE DEF W
  <1>4. rows' \in [Urls -> Ids \cup {NoId}]
    BY <1>1, <1>2 DEF TypeOK
  <1>5. ASSUME NEW u \in Urls
        PROVE  \/ rows'[u] = rows[u]
               \/ rows[u] = NoId /\ \E a \in batch[w] : rows'[u] = Id(w, a)
    BY <1>1, <1>2
  <1>6. ASSUME NEW a \in batch[w]
        PROVE  rows'[a.url] # NoId
    BY <1>1, <1>2, <1>3, IdsAssumption
  <1>. QED
    BY <1>4, <1>5, <1>6

\* Every step keeps every variable in its type.
LEMMA TypeStep ==
  ASSUME TypeOK, WorkerShape, AttemptLeft, DatesListed, [Next]_vars
  PROVE  TypeOK'
  <1> USE NumbersAssumption DEF TypeOK, local, data, queue, history, Goto, Fault, Pcs
  <1>1. ASSUME NEW i \in Items, Publish(i) PROVE TypeOK'
    <2>1. IsFiniteSet(feed \cup {i})
      BY FS_AddElement
    <2>. QED
      BY <1>1, <2>1 DEF Publish
  <1>2. ASSUME NEW j \in Jobs, SubmitJob(j) PROVE TypeOK'
    BY <1>2 DEF SubmitJob, Queue!Submit, Queue!Phases
  <1>3. ASSUME NEW w \in Workers, NEW j \in Jobs, Begin(w, j) PROVE TypeOK'
    BY <1>3 DEF Begin, Queue!Lease, Queue!Phases
  <1>4. CASE UNCHANGED vars
    BY <1>4 DEF vars
  <1>5. ASSUME NEW w \in Workers, pc[w] \notin {"idle", "gone"}, Act(w) PROVE TypeOK'
    <2>0. job[w] \in Jobs /\ phase[job[w]] = "leased" /\ holder[job[w]] = w
      BY <1>5, Busy
    <2>1. CASE Fetch(w)
      <3>1. PICK W \in Recent(feed) :
              /\ window' = [window EXCEPT ![w] = W]
              /\ maxDate' = [maxDate EXCEPT ![w] = LatestDate(W)]
              /\ lost' = lost \cup (feed \ W)
        BY <2>1 DEF Fetch
      <3>2. W \in SUBSET Items /\ IsFiniteSet(W)
        BY FS_Subset DEF Recent
      <3>3. LatestDate(W) \in {Date[i] : i \in Items} \cup {0}
        BY <3>2, LatestDateIs
      <3>. QED
        BY <2>0, <2>1, <3>1, <3>2, <3>3 DEF Fetch
    <2>2. CASE Refuse(w)
      BY <2>0, <2>2 DEF Refuse
    <2>3. CASE FetchFails(w)
      BY <2>0, <2>3 DEF FetchFails
    <2>4. CASE ReadCutoff(w)
      BY <2>4 DEF ReadCutoff, ParseCutoff
    <2>5. CASE CheckItem(w)
      <3>1. PICK i \in Newest(window[w]) :
              /\ window' = [window EXCEPT ![w] = @ \ {i}]
              /\ \/ UNCHANGED <<batch, faults>>
                 \/ \E u \in Resolutions[i] :
                       /\ batch' = [batch EXCEPT ![w] =
                                       IF TooOld(w, i) THEN @ ELSE @ \cup {[item |-> i, url |-> u]}]
                       /\ UNCHANGED faults \/ Fault
        BY <2>5 DEF CheckItem
      <3>2. i \in Items
        BY DEF Newest
      <3>3. batch' \in [Workers -> SUBSET Articles] /\ faults' \in 0 .. MaxFaults
        <4>1. \A u \in Resolutions[i] : [item |-> i, url |-> u] \in Articles
          BY <3>2, ArticleOf
        <4>. QED
          BY <3>1, <4>1
      <3>. QED
        BY <2>5, <3>1, <3>3 DEF CheckItem
    <2>6. CASE InsertBatch(w)
      <3>1. rows' \in [Urls -> Ids \cup {NoId}]
        BY <1>5, <2>6, InsertedRows DEF InsertBatch
      <3>2. \A a \in batch[w] : a.item \in Items
        BY ArticleFields
      <3>. QED
        BY <2>6, <3>1, <3>2 DEF InsertBatch
    <2>7. CASE Report(w)
      BY <2>0, <2>7 DEF Report
    <2>8. CASE QueueArticle(w)
      BY <1>5, <2>8, IdType DEF QueueArticle, First
    <2>9. CASE SaveCursor(w)
      BY <2>9 DEF SaveCursor, SetCursor
    <2>10. CASE Return(w)
      <3>1. tries[job[w]] + 1 \in 0 .. MaxAttempts
        BY <2>0 DEF AttemptLeft
      <3>2. phase' \in [Jobs -> Queue!Phases] /\ tries' \in [Jobs -> 0 .. MaxAttempts]
            /\ holder' \in [Jobs -> Workers \cup {NoWorker}]
        BY <2>10, <3>1 DEF Return, Queue!Succeed, Queue!Fail, Queue!Release, Queue!Phases
      <3>. QED
        BY <2>10, <3>2 DEF Return, Forget
    <2>11. CASE LoadFails(w)
      BY <2>0, <2>11 DEF LoadFails
    <2>12. CASE QueueFails(w)
      BY <1>5, <2>12, IdType DEF QueueFails, First
    <2>13. CASE SaveFails(w)
      BY <2>13 DEF SaveFails, SetCursor
    <2>14. CASE ReturnFails(w)
      BY <2>0, <2>14 DEF ReturnFails, Forget, Queue!Abandon, Queue!Phases
    <2>15. CASE Crash(w)
      BY <2>0, <2>15 DEF Crash, Forget, Queue!Abandon, Queue!Phases
    <2>. QED
      BY <1>3, <1>5, <2>1, <2>2, <2>3, <2>4, <2>5, <2>6, <2>7, <2>8, <2>9, <2>10, <2>11,
         <2>12, <2>13, <2>14, <2>15
      DEF Act, Step
  <1>6. ASSUME NEW w \in Workers, pc[w] \in {"idle", "gone"}, Act(w)
        PROVE  \E j \in Jobs : Begin(w, j)
    BY <1>6, ActIdle
  <1>. QED
    BY <1>1, <1>2, <1>3, <1>4, <1>5, <1>6, NextSplit

-----------------------------------------------------------------------------
(* Leases.                                                                 *)

\* Every step keeps the workers to their leases, and attempts left for the jobs.
LEMMA ShapeStep ==
  ASSUME TypeOK, WorkerShape, AttemptLeft, [Next]_vars
  PROVE  WorkerShape' /\ AttemptLeft'
  <1> USE NumbersAssumption DEF TypeOK, local, data, queue, history, Goto
  <1>1. ASSUME NEW i \in Items, Publish(i) PROVE WorkerShape' /\ AttemptLeft'
    BY <1>1 DEF Publish, WorkerShape, AttemptLeft
  <1>2. ASSUME NEW j \in Jobs, SubmitJob(j) PROVE WorkerShape' /\ AttemptLeft'
    BY <1>2 DEF SubmitJob, Queue!Submit, WorkerShape, AttemptLeft
  <1>3. ASSUME NEW v \in Workers, Act(v) PROVE WorkerShape' /\ AttemptLeft'
    <2>1. ASSUME NEW w \in Workers, w # v
          PROVE  IF pc'[w] \in {"idle", "gone"}
                 THEN /\ job'[w] = NoJob /\ maxDate'[w] = 0 /\ cutoff'[w] = 0
                      /\ window'[w] = {} /\ batch'[w] = {}
                 ELSE job'[w] \in Jobs /\ phase'[job'[w]] = "leased" /\ holder'[job'[w]] = w
      BY <1>3, <2>1, Others DEF Same, WorkerShape
    <2>2. ASSUME NEW j \in Jobs, Begin(v, j)
          PROVE  pc'[v] = "fetching" /\ job'[v] = j /\ phase'[j] = "leased" /\ holder'[j] = v
      BY <2>2 DEF Begin, Queue!Lease
    <2>3. CASE pc[v] \in {"idle", "gone"}
      <3>1. PICK j \in Jobs : Begin(v, j)
        BY <1>3, <2>3, ActIdle
      <3>2. AttemptLeft'
        BY <3>1 DEF Begin, Queue!Lease, AttemptLeft
      <3>. QED
        BY <2>1, <2>2, <3>1, <3>2 DEF WorkerShape
    <2>4. CASE pc[v] \notin {"idle", "gone"}
      <3>1. job[v] \in Jobs /\ phase[job[v]] = "leased" /\ holder[job[v]] = v
        BY <2>4, Busy
      <3>2. CASE Return(v) \/ ReturnFails(v) \/ Crash(v)
        <4>1. /\ pc'[v] \in {"idle", "gone"} /\ job'[v] = NoJob
              /\ maxDate'[v] = 0 /\ cutoff'[v] = 0 /\ window'[v] = {} /\ batch'[v] = {}
          BY <3>2 DEF Return, ReturnFails, Crash, Forget
        <4>2. AttemptLeft'
          <5>1. CASE Return(v)
            BY <3>1, <5>1 DEF Return, Queue!Succeed, Queue!Fail, Queue!Release, AttemptLeft
          <5>2. CASE ReturnFails(v) \/ Crash(v)
            BY <3>1, <5>2 DEF ReturnFails, Crash, Queue!Abandon, AttemptLeft
          <5>. QED
            BY <3>2, <5>1, <5>2
        <4>. QED
          BY <2>1, <4>1, <4>2 DEF WorkerShape
      <3>3. CASE ~(Return(v) \/ ReturnFails(v) \/ Crash(v))
        <4>1. /\ pc'[v] \notin {"idle", "gone"} /\ job' = job
              /\ UNCHANGED <<phase, holder, tries>>
          BY <1>3, <2>4, <3>3
          DEF Act, Step, Begin, Fetch, Refuse, FetchFails, ReadCutoff, CheckItem,
              InsertBatch, Report, QueueArticle, SaveCursor, LoadFails, QueueFails,
              SaveFails
        <4>2. AttemptLeft'
          BY <4>1 DEF AttemptLeft
        <4>. QED
          BY <2>1, <3>1, <4>1, <4>2 DEF WorkerShape
      <3>. QED
        BY <3>2, <3>3
    <2>. QED
      BY <2>3, <2>4
  <1>4. CASE UNCHANGED vars
    BY <1>4 DEF vars, WorkerShape, AttemptLeft
  <1>. QED
    BY <1>1, <1>2, <1>3, <1>4, NextSplit

-----------------------------------------------------------------------------
(* What only grows.                                                        *)

\* Listed items stay listed, lost ones lost, and a row stays as it was inserted.
LEMMA Grows ==
  ASSUME TypeOK, WorkerShape, [Next]_vars
  PROVE  /\ feed \subseteq feed' /\ lost \subseteq lost'
         /\ \A u \in Urls : rows[u] # NoId => rows'[u] = rows[u]
         /\ queued \subseteq queued'
  <1> USE DEF local, data, queue, history
  <1>1. \A u \in Urls : rows[u] # NoId => rows'[u] = rows[u]
    <2>1. ASSUME NEW w \in Workers, InsertBatch(w), InsertRows(w)
          PROVE  \A u \in Urls : rows[u] # NoId => rows'[u] = rows[u]
      <3>1. pc[w] = "checking"
        BY <2>1 DEF InsertBatch, Goto
      <3>. QED
        BY <2>1, <3>1, InsertedRows
    <2>2. UNCHANGED rows \/ \E w \in Workers : InsertBatch(w) /\ InsertRows(w)
      BY DEF Next, Step, vars, Publish, SubmitJob, Begin, Fetch, Refuse, FetchFails,
             ReadCutoff, CheckItem, InsertBatch, Report, QueueArticle, SaveCursor, Return,
             LoadFails, QueueFails, SaveFails, ReturnFails, Crash
    <2>. QED
      BY <2>1, <2>2
  <1>2. feed \subseteq feed' /\ lost \subseteq lost' /\ queued \subseteq queued'
    BY DEF Next, Step, vars, Publish, SubmitJob, Begin, Fetch, Refuse, FetchFails,
           ReadCutoff, CheckItem, InsertBatch, Report, QueueArticle, SaveCursor, Return,
           LoadFails, QueueFails, SaveFails, ReturnFails, Crash
  <1>. QED
    BY <1>1, <1>2

\* A stored item stays stored.
LEMMA StoredGrows ==
  ASSUME TypeOK, WorkerShape, [Next]_vars
  PROVE  StoredItems \subseteq StoredItems'
  BY Grows, FeedAssumption DEF TypeOK, StoredItems, Stored

\* An item that is listed late, behind a date in use, is lost.
LEMMA LateIsLost ==
  ASSUME TypeOK, WorkerShape, [Next]_vars, NEW d \in Nat, Listed(d),
         NEW i \in feed' \ lost', Date[i] < d
  PROVE  i \in feed \ lost
  <1>1. CASE i \in feed
    BY <1>1, Grows
  <1>2. CASE i \notin feed
    <2>1. feed' # feed
      BY <1>2
    <2>2. PICK k \in Items : Publish(k)
      BY <2>1
      DEF Next, Step, vars, data, history, SubmitJob, Begin, Fetch, Refuse, FetchFails,
          ReadCutoff, CheckItem, InsertBatch, Report, QueueArticle, SaveCursor, Return,
          LoadFails, QueueFails, SaveFails, ReturnFails, Crash
    <2>3. k = i /\ feed' = feed \cup {i}
      BY <1>2, <2>2 DEF Publish
    <2>4. d # 0 /\ \E k2 \in feed : Date[k2] > Date[i]
      <3>1. i \in Items /\ Date[i] \in Nat
        BY <2>2, <2>3, FeedAssumption
      <3>. QED
        BY <3>1 DEF Listed
    <2>5. i \in lost'
      BY <2>2, <2>3, <2>4 DEF Publish
    <2>. QED
      BY <2>5
  <1>. QED
    BY <1>1, <1>2

\* A date in use stays one.
LEMMA ListedStays ==
  ASSUME TypeOK, WorkerShape, [Next]_vars, NEW d, Listed(d)
  PROVE  Listed(d)'
  BY Grows DEF Listed

-----------------------------------------------------------------------------
(* Dates.                                                                  *)

\* The cursor moves only to the newest date of a feed that has been gone through.
LEMMA CursorMoves ==
  ASSUME TypeOK, [Next]_vars
  PROVE  \/ cursor' = cursor
         \/ \E w \in Workers : pc[w] = "queueing" /\ maxDate[w] # 0 /\ cursor' = maxDate[w]
  BY DEF SetCursor, Next, Step, vars, data, local, history, Publish, SubmitJob, Begin,
         Fetch, Refuse, FetchFails, ReadCutoff, CheckItem, InsertBatch, Report,
         QueueArticle, SaveCursor, Return, LoadFails, QueueFails, SaveFails, ReturnFails,
         Crash, Forget, Goto

\* A cutoff is the cursor as it was read, or nothing.
LEMMA CutoffMoves ==
  ASSUME TypeOK, [Next]_vars, NEW w \in Workers
  PROVE  cutoff'[w] \in {0, cutoff[w], cursor}
  <1>1. \/ cutoff' = cutoff
        \/ \E v \in Workers : ReadCutoff(v) \/ Forget(v)
    BY DEF Next, Step, vars, data, local, history, Publish, SubmitJob, Begin, Fetch, Refuse,
           FetchFails, ReadCutoff, CheckItem, InsertBatch, Report, QueueArticle, SaveCursor,
           Return, LoadFails, QueueFails, SaveFails, ReturnFails, Crash, Forget, Goto
  <1>2. ASSUME NEW v \in Workers, ReadCutoff(v) \/ Forget(v)
        PROVE  cutoff'[w] \in {0, cutoff[w], cursor}
    BY <1>2 DEF TypeOK, ReadCutoff, ParseCutoff, Forget
  <1>. QED
    BY <1>1, <1>2

\* Only the fetch of the worker sets its newest date, and its job has seen the feed then.
LEMMA MaxDateMoves ==
  ASSUME TypeOK, WorkerShape, [Next]_vars, NEW w \in Workers
  PROVE  \/ maxDate'[w] = 0
         \/ /\ maxDate'[w] = maxDate[w] /\ job'[w] = job[w] /\ job[w] \in Jobs
            /\ seen'[job[w]] = seen[job[w]]
         \/ /\ seen'[job'[w]] = feed /\ feed' = feed
            /\ \E k \in feed : maxDate'[w] = Date[k]
  <1> USE DEF TypeOK, local, queue, history, data
  <1>1. CASE (\E i \in Items : Publish(i)) \/ (\E j \in Jobs : SubmitJob(j)) \/ UNCHANGED vars
    BY <1>1 DEF WorkerShape, Publish, SubmitJob, vars
  <1>2. ASSUME NEW v \in Workers, v # w, Act(v)
        PROVE  maxDate'[w] = 0 \/ (Same(w) /\ job[w] \in Jobs)
    <2>1. Same(w)
      BY <1>2, Others
    <2>2. job[w] \in Jobs \/ maxDate[w] = 0
      BY DEF WorkerShape
    <2>. QED
      BY <2>1, <2>2 DEF Same
  <1>3. ASSUME NEW j \in Jobs, Begin(w, j) PROVE maxDate'[w] = 0
    BY <1>3 DEF Begin, WorkerShape
  <1>4. CASE Fetch(w)
    <2>0. job[w] \in Jobs
      BY <1>4, Busy DEF Fetch, Goto
    <2>1. PICK W \in Recent(feed) : maxDate' = [maxDate EXCEPT ![w] = LatestDate(W)]
      BY <1>4 DEF Fetch
    <2>2. W \in SUBSET feed /\ W \in SUBSET Items /\ IsFiniteSet(W)
      BY FS_Subset DEF Recent
    <2>3. LatestDate(W) = 0 \/ \E k \in feed : LatestDate(W) = Date[k]
      BY <2>2, LatestDateIs
    <2>4. seen'[job'[w]] = feed /\ feed' = feed /\ maxDate'[w] = LatestDate(W)
      BY <1>4, <2>0, <2>1 DEF Fetch
    <2>. QED
      BY <2>3, <2>4
  <1>5. CASE Return(w) \/ ReturnFails(w) \/ Crash(w)
    BY <1>5 DEF Return, ReturnFails, Crash, Forget
  <1>6. CASE \/ Refuse(w) \/ FetchFails(w) \/ ReadCutoff(w) \/ CheckItem(w) \/ InsertBatch(w) \/ Report(w)
             \/ QueueArticle(w) \/ SaveCursor(w) \/ LoadFails(w) \/ QueueFails(w) \/ SaveFails(w)
    <2>1. pc[w] \notin {"idle", "gone"} /\ UNCHANGED <<maxDate, job, seen>>
      BY <1>6
      DEF Refuse, FetchFails, ReadCutoff, CheckItem, InsertBatch, Report, QueueArticle,
          SaveCursor, LoadFails, QueueFails, SaveFails, Goto
    <2>. QED
      BY <2>1, Busy
  <1>. QED
    BY <1>1, <1>2, <1>3, <1>4, <1>5, <1>6, NextSplit DEF Act, Step, Same

\* Every step keeps the dates in use to listed items.
LEMMA DatesListedStep ==
  ASSUME TypeOK, WorkerShape, DatesListed, [Next]_vars
  PROVE  DatesListed'
  <1>1. Listed(cursor)'
    BY CursorMoves, Grows DEF DatesListed, Listed
  <1>2. ASSUME NEW w \in Workers
        PROVE  Listed(maxDate[w])' /\ Listed(cutoff[w])'
    <2>1. Listed(maxDate[w])'
      BY MaxDateMoves, Grows DEF DatesListed, Listed
    <2>2. Listed(cutoff[w])'
      BY CutoffMoves, Grows DEF DatesListed, Listed
    <2>. QED
      BY <2>1, <2>2
  <1>. QED
    BY <1>1, <1>2 DEF DatesListed

\* The feed lists items only.
LEMMA TypeStepFeed ==
  ASSUME TypeOK, [Next]_vars
  PROVE  feed' \subseteq Items
  <1>1. UNCHANGED feed \/ \E i \in Items : Publish(i)
    BY DEF Next, Step, vars, data, local, history, Publish, SubmitJob, Begin, Fetch, Refuse,
           FetchFails, ReadCutoff, CheckItem, InsertBatch, Report, QueueArticle, SaveCursor,
           Return, LoadFails, QueueFails, SaveFails, ReturnFails, Crash, Forget, Goto
  <1>. QED
    BY <1>1 DEF TypeOK, Publish

\* A listed date is a number.
LEMMA ListedNat ==
  ASSUME TypeOK, NEW d, Listed(d)
  PROVE  d \in Nat
  BY FeedAssumption DEF TypeOK, Listed

\* What is covered by a date stays covered: only a late item can appear before it.
LEMMA CoveredStays ==
  ASSUME TypeOK, WorkerShape, [Next]_vars, NEW d, Listed(d), AllBefore(d, StoredItems),
         NEW i \in feed' \ lost', 0 < Date[i], Date[i] < d
  PROVE  i \in StoredItems'
  <1>1. d \in Nat
    BY ListedNat
  <1>2. i \in feed \ lost
    BY <1>1, LateIsLost
  <1>. QED
    BY <1>2, StoredGrows DEF AllBefore

\* Every step keeps the cutoffs and the newest dates covered.
LEMMA DatesCoveredStep ==
  ASSUME TypeOK, WorkerShape, DatesListed, DatesCovered, PassedIsStored, [Next]_vars
  PROVE  DatesCovered'
  <1>0. \A i \in feed : Date[i] \in Nat
    BY FeedAssumption DEF TypeOK
  <1>1. Listed(cursor) /\ AllBefore(cursor, StoredItems)
    BY DEF DatesListed, PassedIsStored, AllBefore, StoredItems, TypeOK
  <1>2. ASSUME NEW w \in Workers, NEW i \in feed' \ lost', 0 < Date[i], Date[i] < cutoff'[w]
        PROVE  i \in StoredItems'
    <2>1. Listed(cutoff[w]) /\ AllBefore(cutoff[w], StoredItems)
      BY DEF DatesListed, DatesCovered
    <2>2. CASE cutoff'[w] = cutoff[w]
      BY <1>2, <2>1, <2>2, CoveredStays
    <2>3. CASE cutoff'[w] = cursor
      BY <1>1, <1>2, <2>3, CoveredStays
    <2>4. CASE cutoff'[w] = 0
      <3>1. Date[i] \in Nat
        BY FeedAssumption, TypeStepFeed
      <3>. QED
        BY <1>2, <2>4, <3>1
    <2>. QED
      BY <2>2, <2>3, <2>4, CutoffMoves
  <1>3. ASSUME NEW w \in Workers, maxDate'[w] # 0, NEW i \in feed' \ lost', 0 < Date[i], Date[i] < maxDate'[w]
        PROVE  i \in seen'[job'[w]]
    <2>1. CASE maxDate'[w] = maxDate[w] /\ job'[w] = job[w] /\ seen'[job[w]] = seen[job[w]]
      <3>1. Listed(maxDate[w]) /\ AllBefore(maxDate[w], seen[job[w]])
        BY <1>3, <2>1 DEF DatesListed, DatesCovered
      <3>2. maxDate[w] \in Nat
        BY <3>1, ListedNat
      <3>3. i \in feed \ lost
        BY <1>3, <2>1, <3>1, <3>2, LateIsLost
      <3>. QED
        BY <1>3, <2>1, <3>1, <3>3 DEF AllBefore
    <2>2. CASE seen'[job'[w]] = feed /\ feed' = feed
      BY <2>2
    <2>. QED
      BY <1>3, <2>1, <2>2, MaxDateMoves
  <1>. QED
    BY <1>2, <1>3 DEF DatesCovered, AllBefore

\* Every step keeps what is older than the cursor stored.
LEMMA PassedStep ==
  ASSUME TypeOK, WorkerShape, DatesListed, DatesCovered, SeenAccount, PassedIsStored, [Next]_vars
  PROVE  PassedIsStored'
  <1> SUFFICES ASSUME NEW i \in feed' \ lost', 0 < Date[i], Date[i] < cursor'
               PROVE  i \in StoredItems'
    BY DEF PassedIsStored, StoredItems
  <1>1. CASE cursor' = cursor
    <2>1. Listed(cursor) /\ AllBefore(cursor, StoredItems)
      BY DEF DatesListed, PassedIsStored, AllBefore, StoredItems, TypeOK
    <2>. QED
      BY <1>1, <2>1, CoveredStays
  <1>2. ASSUME NEW w \in Workers, pc[w] = "queueing", maxDate[w] # 0, cursor' = maxDate[w]
        PROVE  i \in StoredItems'
    <2>1. Listed(maxDate[w]) /\ AllBefore(maxDate[w], seen[job[w]])
      BY <1>2 DEF DatesListed, DatesCovered
    <2>2. seen[job[w]] \ lost \subseteq StoredItems
      BY <1>2 DEF SeenAccount, SeenBy
    <2>3. maxDate[w] \in Nat
      BY <2>1, ListedNat
    <2>4. i \in feed \ lost
      BY <1>2, <2>1, <2>3, LateIsLost
    <2>. QED
      BY <1>2, <2>1, <2>2, <2>4, StoredGrows DEF AllBefore
  <1>. QED
    BY <1>1, <1>2, CursorMoves

-----------------------------------------------------------------------------
(* Items on their way.                                                     *)

\* What a job has seen was listed.
LEMMA SeenListed ==
  ASSUME TypeOK, WorkerShape, SeenAccount, [Next]_vars
  PROVE  \A j \in Jobs : seen'[j] \subseteq feed'
  <1>1. ASSUME NEW j \in Jobs
        PROVE  seen'[j] \in {seen[j], {}, feed}
    <2>1. \/ seen' = seen
          \/ \E w \in Workers : Fetch(w) \/ \E k \in Jobs : Begin(w, k)
      BY DEF Next, Step, vars, data, local, history, Publish, SubmitJob, Begin, Fetch,
             Refuse, FetchFails, ReadCutoff, CheckItem, InsertBatch, Report, QueueArticle,
             SaveCursor, Return, LoadFails, QueueFails, SaveFails, ReturnFails, Crash,
             Forget, Goto
    <2>2. ASSUME NEW w \in Workers, Fetch(w) PROVE seen'[j] \in {seen[j], {}, feed}
      BY <2>2 DEF Fetch, TypeOK
    <2>3. ASSUME NEW w \in Workers, NEW k \in Jobs, Begin(w, k)
          PROVE  seen'[j] \in {seen[j], {}, feed}
      BY <2>3 DEF Begin, TypeOK
    <2>. QED
      BY <2>1, <2>2, <2>3
  <1>. QED
    BY <1>1, Grows DEF SeenAccount

\* CheckItem drops an item only if it is stored.
LEMMA CheckItemAccount ==
  ASSUME TypeOK, WorkerShape, DatesCovered, SeenAccount, NEW w \in Workers, CheckItem(w)
  PROVE  seen'[job'[w]] \ lost' \subseteq window'[w] \cup {a.item : a \in batch'[w]} \cup StoredItems
  <1> USE DEF TypeOK, history
  <1>1. job[w] \in Jobs /\ pc[w] = "checking"
    BY Busy DEF CheckItem
  <1>2. PICK i \in Newest(window[w]) :
          /\ window' = [window EXCEPT ![w] = @ \ {i}]
          /\ \/ Resolutions[i] = {} /\ UNCHANGED <<batch, faults>>
             \/ \E u \in Resolutions[i] :
                    LET new == [batch EXCEPT ![w] =
                                   IF TooOld(w, i) THEN @ ELSE @ \cup {[item |-> i, url |-> u]}]
                    IN  \/ rows[u] # NoId /\ UNCHANGED <<batch, faults>>
                        \/ rows[u] = NoId /\ batch' = new /\ UNCHANGED faults
                        \/ rows[u] # NoId /\ batch' = new /\ Fault
    BY DEF CheckItem
  <1>3. i \in Items
    BY DEF Newest
  <1>4. UNCHANGED <<job, seen, lost, rows>>
    BY DEF CheckItem, data
  <1>5. seen[job[w]] \ lost \subseteq window[w] \cup {a.item : a \in batch[w]} \cup StoredItems
    BY <1>1 DEF SeenAccount, SeenBy
  <1>6. batch[w] \subseteq batch'[w]
    BY <1>2
  <1>7. \/ i \in StoredItems
        \/ \E a \in batch'[w] : a.item = i
        \/ TooOld(w, i)
    <2>1. CASE Resolutions[i] = {}
      BY <1>3, <2>1 DEF StoredItems, Stored
    <2>2. ASSUME NEW u \in Resolutions[i], rows[u] # NoId PROVE i \in StoredItems
      BY <1>3, <2>2 DEF StoredItems, Stored
    <2>3. ASSUME NEW u \in Resolutions[i], ~TooOld(w, i),
                 batch' = [batch EXCEPT ![w] = @ \cup {[item |-> i, url |-> u]}]
          PROVE  \E a \in batch'[w] : a.item = i
      <3>1. [item |-> i, url |-> u] \in batch'[w]
        BY <2>3
      <3>. QED
        BY <3>1
    <2>. QED
      BY <1>2, <2>1, <2>2, <2>3
  <1>8. TooOld(w, i) /\ i \in feed \ lost => i \in StoredItems
    BY <1>3, FeedAssumption DEF TooOld, DatesCovered, AllBefore
  <1>9. seen[job[w]] \subseteq feed
    BY <1>1 DEF SeenAccount
  <1>10. ASSUME NEW k \in seen[job[w]] \ lost
         PROVE  k \in window'[w] \/ (\E a \in batch'[w] : a.item = k) \/ k \in StoredItems
    <2>1. CASE k = i
      BY <1>7, <1>8, <1>9, <2>1
    <2>2. CASE k # i
      <3>1. k \in window[w] => k \in window'[w]
        BY <1>2, <2>2
      <3>. QED
        BY <1>5, <1>6, <3>1
    <2>. QED
      BY <2>1, <2>2
  <1>. QED
    BY <1>4, <1>10

\* insert_batch stores every article of the batch, or its items count as lost.
LEMMA InsertBatchAccount ==
  ASSUME TypeOK, WorkerShape, SeenAccount, [Next]_vars, NEW w \in Workers, InsertBatch(w)
  PROVE  seen'[job'[w]] \ lost' \subseteq StoredItems'
  <1>1. job[w] \in Jobs /\ pc[w] = "checking" /\ window[w] = {}
    BY Busy DEF InsertBatch, Goto
  <1>2. UNCHANGED <<job, seen>>
    BY DEF InsertBatch, local
  <1>3. seen[job[w]] \ lost \subseteq {a.item : a \in batch[w]} \cup StoredItems
    BY <1>1 DEF SeenAccount, SeenBy
  <1>4. lost \subseteq lost' /\ StoredItems \subseteq StoredItems'
    BY Grows, StoredGrows
  <1>5. ASSUME InsertRows(w), NEW a \in batch[w] PROVE a.item \in StoredItems'
    <2>1. rows'[a.url] # NoId
      BY <1>1, <1>5, InsertedRows
    <2>2. a.item \in Items /\ a.url \in Resolutions[a.item]
      BY ArticleFields DEF TypeOK
    <2>. QED
      BY <2>1, <2>2 DEF StoredItems, Stored
  <1>6. InsertRows(w) \/ lost' = lost \cup {a.item : a \in batch[w]}
    BY DEF InsertBatch
  <1>. QED
    BY <1>2, <1>3, <1>4, <1>5, <1>6

\* Every step keeps the account of the items seen.
LEMMA SeenStep ==
  ASSUME TypeOK, WorkerShape, DatesCovered, SeenAccount, [Next]_vars
  PROVE  SeenAccount'
  <1>0. lost \subseteq lost' /\ StoredItems \subseteq StoredItems'
    BY Grows, StoredGrows
  <1>1. \A w \in Workers : SeenBy(w)
    BY DEF SeenAccount
  <1>2. ASSUME NEW w \in Workers, Same(w), job[w] \in Jobs PROVE SeenBy(w)'
    BY <1>0, <1>1, <1>2 DEF SeenBy, Same
  <1>3. ASSUME NEW w \in Workers, job[w] \notin Jobs, Same(w) PROVE SeenBy(w)'
    BY <1>3 DEF SeenBy, Same, WorkerShape
  <1>4. ASSUME NEW w \in Workers,
               (\E i \in Items : Publish(i)) \/ (\E j \in Jobs : SubmitJob(j)) \/ UNCHANGED vars
        PROVE  SeenBy(w)'
    <2>1. UNCHANGED <<pc, job, window, batch, seen>>
      BY <1>4 DEF Publish, SubmitJob, vars, local, history
    <2>. QED
      BY <1>0, <1>1, <2>1 DEF SeenBy
  <1>5. ASSUME NEW w \in Workers, NEW j \in Jobs, Begin(w, j) PROVE SeenBy(w)'
    BY <1>5 DEF Begin, SeenBy, TypeOK, WorkerShape
  <1>6. ASSUME NEW w \in Workers, pc[w] \notin {"idle", "gone"}, Act(w) PROVE SeenBy(w)'
    <2> USE DEF SeenBy, TypeOK, Goto, local, history
    <2>0. job[w] \in Jobs
      BY <1>6, Busy
    <2>1. CASE Fetch(w)
      <3>1. batch[w] = {} /\ pc'[w] = "cutting" /\ job' = job /\ batch' = batch
        BY <1>1, <2>1 DEF Fetch
      <3>2. seen'[job[w]] = feed /\ feed \ lost' \subseteq window'[w]
        BY <2>0, <2>1 DEF Fetch
      <3>. QED
        BY <3>1, <3>2
    <2>2. CASE Refuse(w)
      BY <1>1, <2>2 DEF Refuse
    <2>3. CASE FetchFails(w)
      BY <1>1, <2>3 DEF FetchFails
    <2>4. CASE ReadCutoff(w)
      BY <1>0, <1>1, <2>4 DEF ReadCutoff
    <2>5. CASE CheckItem(w)
      <3>1. pc'[w] = "checking"
        BY <2>5 DEF CheckItem
      <3>. QED
        BY <1>0, <2>5, <3>1, CheckItemAccount DEF SeenAccount
    <2>6. CASE InsertBatch(w)
      <3>1. pc'[w] = "reporting"
        BY <2>6 DEF InsertBatch
      <3>2. seen'[job'[w]] \ lost' \subseteq StoredItems'
        BY <2>6, InsertBatchAccount
      <3>. QED
        BY <3>1, <3>2
    <2>7. CASE Report(w)
      BY <1>0, <1>1, <2>7 DEF Report
    <2>8. CASE QueueArticle(w)
      <3>1. pc'[w] = "queueing" /\ UNCHANGED <<job, seen, lost>>
        BY <2>8 DEF QueueArticle
      <3>. QED
        BY <1>0, <1>1, <2>8, <3>1 DEF QueueArticle
    <2>9. CASE SaveCursor(w)
      BY <1>0, <1>1, <2>9 DEF SaveCursor
    <2>10. CASE LoadFails(w) \/ QueueFails(w) \/ SaveFails(w)
      <3>1. pc'[w] = "err"
        BY <2>10 DEF LoadFails, QueueFails, SaveFails
      <3>. QED
        BY <3>1
    <2>11. CASE Return(w) \/ ReturnFails(w) \/ Crash(w)
      <3>1. pc'[w] \in {"idle", "gone"}
        BY <2>11 DEF Return, ReturnFails, Crash
      <3>. QED
        BY <3>1
    <2>12. ~\E j \in Jobs : Begin(w, j)
      BY <1>6 DEF Begin
    <2>. QED
      BY <1>6, <2>1, <2>2, <2>3, <2>4, <2>5, <2>6, <2>7, <2>8, <2>9, <2>10, <2>11, <2>12
      DEF Act, Step
  <1>7. ASSUME NEW v \in Workers, Act(v), NEW w \in Workers PROVE SeenBy(w)'
    <2>1. CASE w # v
      BY <1>2, <1>3, <1>7, <2>1, Others
    <2>2. CASE w = v /\ pc[v] \notin {"idle", "gone"}
      BY <1>6, <1>7, <2>2
    <2>3. CASE w = v /\ pc[v] \in {"idle", "gone"}
      <3>1. \E j \in Jobs : Begin(v, j)
        BY <1>7, <2>3, ActIdle
      <3>. QED
        BY <1>5, <2>3, <3>1
    <2>. QED
      BY <2>1, <2>2, <2>3
  <1>8. \A w \in Workers : SeenBy(w)'
    BY <1>4, <1>7, NextSplit
  <1>. QED
    BY <1>8, SeenListed DEF SeenAccount

\* A job becomes done only when its worker returns, and keeps what it saw.
LEMMA DoneMoves ==
  ASSUME TypeOK, WorkerShape, [Next]_vars, NEW j \in Jobs, phase'[j] = "done",
         ~\E w \in Workers : Return(w) /\ Queue!Succeed(job[w]) /\ job[w] = j
  PROVE  phase[j] = "done" /\ seen'[j] = seen[j]
  <1> USE DEF TypeOK, queue, history, Goto
  <1>1. CASE (\E i \in Items : Publish(i)) \/ UNCHANGED vars
    BY <1>1 DEF Publish, vars
  <1>2. ASSUME NEW k \in Jobs, SubmitJob(k) PROVE phase[j] = "done" /\ seen'[j] = seen[j]
    BY <1>2 DEF SubmitJob, Queue!Submit
  <1>3. ASSUME NEW w \in Workers, NEW k \in Jobs, Begin(w, k)
        PROVE  phase[j] = "done" /\ seen'[j] = seen[j]
    BY <1>3 DEF Begin, Queue!Lease
  <1>4. ASSUME NEW w \in Workers, pc[w] \notin {"idle", "gone"}, Act(w)
        PROVE  phase[j] = "done" /\ seen'[j] = seen[j]
    <2>0. job[w] \in Jobs /\ phase[job[w]] = "leased"
      BY <1>4, Busy
    <2>1. CASE Return(w)
      BY <2>0, <2>1 DEF Return, Queue!Succeed, Queue!Fail, Queue!Release
    <2>2. CASE ReturnFails(w) \/ Crash(w)
      BY <2>0, <2>2 DEF ReturnFails, Crash, Queue!Abandon
    <2>3. CASE Fetch(w)
      BY <2>0, <2>3 DEF Fetch
    <2>4. CASE ~(Return(w) \/ ReturnFails(w) \/ Crash(w) \/ Fetch(w))
      <3>1. UNCHANGED <<phase, seen>>
        BY <1>4, <2>4
        DEF Act, Step, Begin, Refuse, FetchFails, ReadCutoff, CheckItem, InsertBatch,
            Report, QueueArticle, SaveCursor, LoadFails, QueueFails, SaveFails
      <3>. QED
        BY <3>1
    <2>. QED
      BY <2>1, <2>2, <2>3, <2>4
  <1>. QED
    BY <1>1, <1>2, <1>3, <1>4, ActIdle, NextSplit

\* A job that is done has stored what it saw.
LEMMA DoneStep ==
  ASSUME TypeOK, WorkerShape, SeenAccount, DoneIsStored, [Next]_vars
  PROVE  DoneIsStored'
  <1> SUFFICES ASSUME NEW j \in Jobs, phase'[j] = "done"
               PROVE  seen'[j] \ lost' \subseteq StoredItems'
    BY SeenListed, TypeStepFeed DEF DoneIsStored, StoredItems
  <1>0. lost \subseteq lost' /\ StoredItems \subseteq StoredItems'
    BY Grows, StoredGrows
  <1>1. ASSUME phase[j] = "done", seen'[j] = seen[j] PROVE seen[j] \ lost \subseteq StoredItems
    BY <1>1 DEF DoneIsStored, StoredItems, TypeOK
  <1>2. CASE \E w \in Workers : Return(w) /\ Queue!Succeed(job[w]) /\ job[w] = j
    <2>1. PICK w \in Workers : Return(w) /\ Queue!Succeed(job[w]) /\ job[w] = j
      BY <1>2
    <2>2. pc[w] = "ok"
      BY <2>1 DEF Return, Goto, Queue!Succeed, Queue!Fail, TypeOK
    <2>3. seen[j] \ lost \subseteq StoredItems /\ seen' = seen
      BY <2>1, <2>2 DEF SeenAccount, SeenBy, Return, history
    <2>. QED
      BY <1>0, <2>3
  <1>3. CASE ~\E w \in Workers : Return(w) /\ Queue!Succeed(job[w]) /\ job[w] = j
    <2>1. phase[j] = "done" /\ seen'[j] = seen[j]
      BY <1>3, DoneMoves
    <2>. QED
      BY <1>0, <1>1, <2>1
  <1>. QED
    BY <1>2, <1>3

-----------------------------------------------------------------------------
(* Rows and their jobs.                                                    *)

\* Worker w is about to create the job of row r.
Owes(w, r) ==
  /\ pc[w] \in {"reporting", "queueing"}
  /\ \E a \in batch[w] : Id(w, a) = r

\* Without a failure, a worker that owes a row its job goes on owing it, or creates it.
LEMMA OwedStays ==
  ASSUME TypeOK, WorkerShape, [Next]_vars, faults' = 0, NEW w \in Workers, NEW r, Owes(w, r)
  PROVE  Owes(w, r)' \/ r \in queued'
  <1> USE DEF TypeOK, Goto, local, queue, data
  <1>0. pc[w] \in {"reporting", "queueing"} /\ job[w] \in Jobs
    BY Busy DEF Owes
  <1>1. PICK a \in batch[w] : Id(w, a) = r
    BY DEF Owes
  <1>2. CASE Same(w)
    BY <1>0, <1>1, <1>2 DEF Same, Owes, Id
  <1>3. CASE (\E i \in Items : Publish(i)) \/ UNCHANGED vars
    <2>1. UNCHANGED <<pc, job, batch, tries>>
      BY <1>3 DEF Publish, vars
    <2>. QED
      BY <1>0, <1>1, <2>1 DEF Owes, Id
  <1>4. ASSUME NEW j \in Jobs, SubmitJob(j) PROVE Owes(w, r)'
    <2>1. UNCHANGED <<pc, job, batch, tries>>
      BY <1>4 DEF SubmitJob, Queue!Submit
    <2>. QED
      BY <1>0, <1>1, <2>1 DEF Owes, Id
  <1>5. CASE Report(w)
    <2>1. pc'[w] = "queueing" /\ UNCHANGED <<job, batch, tries>>
      BY <1>5 DEF Report
    <2>. QED
      BY <1>1, <2>1 DEF Owes, Id
  <1>6. CASE QueueArticle(w)
    <2>1. PICK b \in batch[w] :
            queued' = queued \cup {Id(w, b)} /\ batch' = [batch EXCEPT ![w] = @ \ {b}]
      BY <1>6 DEF QueueArticle, First
    <2>2. UNCHANGED <<pc, job, tries>>
      BY <1>6 DEF QueueArticle
    <2>. QED
      BY <1>0, <1>1, <2>1, <2>2 DEF Owes, Id
  <1>7. CASE SaveCursor(w)
    BY <1>1, <1>7 DEF SaveCursor
  <1>8. ~(QueueFails(w) \/ SaveFails(w) \/ LoadFails(w) \/ ReturnFails(w) \/ Crash(w))
    BY NumbersAssumption DEF QueueFails, SaveFails, LoadFails, ReturnFails, Crash, Fault
  <1>9. ~\E j \in Jobs : Begin(w, j)
    BY <1>0 DEF Begin
  <1>10. ~(Fetch(w) \/ Refuse(w) \/ FetchFails(w) \/ ReadCutoff(w) \/ CheckItem(w) \/ InsertBatch(w) \/ Return(w))
    BY <1>0 DEF Fetch, Refuse, FetchFails, ReadCutoff, CheckItem, InsertBatch, Return
  <1>11. Act(w) => Owes(w, r)' \/ r \in queued'
    BY <1>5, <1>6, <1>7, <1>8, <1>9, <1>10 DEF Act, Step
  <1>. QED
    BY <1>2, <1>3, <1>4, <1>11, Others, NextSplit

\* The worker that inserted a row owes it a job.
LEMMA InsertedIsOwed ==
  ASSUME TypeOK, WorkerShape, NEW w \in Workers, InsertBatch(w), InsertRows(w),
         NEW u \in Urls, rows'[u] # rows[u]
  PROVE  Owes(w, rows[u])'
  <1>1. pc[w] = "checking" /\ pc'[w] = "reporting" /\ UNCHANGED <<job, batch, tries>>
    BY DEF InsertBatch, Goto, TypeOK, local, queue
  <1>2. PICK a \in batch[w] : rows'[u] = Id(w, a)
    BY <1>1, InsertedRows
  <1>. QED
    BY <1>1, <1>2 DEF Owes, Id

\* Every step keeps every row on its way to a job.
LEMMA QueuedStep ==
  ASSUME TypeOK, WorkerShape, RowsAreQueued, [Next]_vars
  PROVE  RowsAreQueued'
  <1> SUFFICES ASSUME faults' = 0, NEW u \in Urls, rows'[u] # NoId, rows'[u] \notin queued'
               PROVE  \E w \in Workers : Owes(w, rows[u])'
    BY DEF RowsAreQueued, Owes
  <1>1. faults = 0
    <2>1. faults' = faults \/ faults' = faults + 1
      BY DEF Fault, Next, Step, vars, data, local, history, Publish, SubmitJob, Begin,
             Fetch, Refuse, FetchFails, ReadCutoff, CheckItem, InsertBatch, Report,
             QueueArticle, SaveCursor, Return, LoadFails, QueueFails, SaveFails,
             ReturnFails, Crash, Forget, Goto
    <2>. QED
      BY <2>1, NumbersAssumption DEF TypeOK
  <1>2. CASE rows'[u] = rows[u]
    <2>1. rows[u] \notin queued
      BY <1>2, Grows
    <2>2. PICK w \in Workers : Owes(w, rows[u])
      BY <1>1, <1>2, <2>1 DEF RowsAreQueued, Owes
    <2>3. Owes(w, rows[u])' \/ rows[u] \in queued'
      <3> DEFINE r == rows[u]
      <3>1. \A s : Owes(w, s) => Owes(w, s)' \/ s \in queued'
        BY OwedStays
      <3>. QED
        BY <1>2, <2>2, <3>1 DEF Owes, Id
    <2>. QED
      BY <1>2, <2>3
  <1>3. CASE rows'[u] # rows[u]
    <2>1. PICK w \in Workers : InsertBatch(w) /\ InsertRows(w)
      BY <1>3
      DEF Next, Step, vars, data, local, history, Publish, SubmitJob, Begin, Fetch, Refuse,
          FetchFails, ReadCutoff, CheckItem, InsertBatch, Report, QueueArticle, SaveCursor,
          Return, LoadFails, QueueFails, SaveFails, ReturnFails, Crash, Forget, Goto
    <2>. QED
      BY <1>3, <2>1, InsertedIsOwed
  <1>. QED
    BY <1>2, <1>3

-----------------------------------------------------------------------------
(* The theorems.                                                           *)

\* The whole inductive invariant holds.
THEOREM Inductive == Spec => []IInv
  <1>1. Init => IInv
    <2> SUFFICES ASSUME Init PROVE IInv
      OBVIOUS
    <2> USE NumbersAssumption DEF Init, Queue!LCInit
    <2>1. TypeOK
      BY FS_EmptySet DEF TypeOK, Pcs, Queue!Phases
    <2>2. WorkerShape /\ AttemptLeft
      BY DEF WorkerShape, AttemptLeft
    <2>3. DatesListed /\ DatesCovered /\ PassedIsStored
      BY DEF DatesListed, DatesCovered, Listed, AllBefore, PassedIsStored
    <2>4. SeenAccount /\ DoneIsStored
      BY DEF SeenAccount, SeenBy, DoneIsStored
    <2>5. RowsAreQueued
      BY DEF RowsAreQueued
    <2>. QED
      BY <2>1, <2>2, <2>3, <2>4, <2>5 DEF IInv
  <1>2. IInv /\ [Next]_vars => IInv'
    BY TypeStep, ShapeStep, DatesListedStep, DatesCoveredStep, PassedStep, SeenStep,
       DoneStep, QueuedStep
    DEF IInv
  <1>. QED
    BY <1>1, <1>2, PTL DEF Spec

\* Every variable keeps its type.
THEOREM TypeCorrect == Spec => []TypeOK
  <1>1. IInv => TypeOK
    BY DEF IInv
  <1>. QED
    BY <1>1, Inductive, PTL

\* Whatever two jobs of a feed, retries, crashes and lost answers do, an item older
\* than the cursor is stored, or is lost in one of three ways: cut off by the limit of a
\* fetch, listed after a newer one, or in an INSERT whose error was only logged.
THEOREM CursorIsSafe == Spec => []PassedIsStored
  <1>1. IInv => PassedIsStored
    BY DEF IInv
  <1>. QED
    BY <1>1, Inductive, PTL

\* A job that ends completed has stored what its last fetch saw, but for what is lost in
\* those ways.
THEOREM CompletedIsStored == Spec => []DoneIsStored
  <1>1. IInv => DoneIsStored
    BY DEF IInv
  <1>. QED
    BY <1>1, Inductive, PTL

\* As long as nothing fails, no row is left without its content job.
THEOREM NoRowForgotten == Spec => []RowsAreQueued
  <1>1. IInv => RowsAreQueued
    BY DEF IInv
  <1>. QED
    BY <1>1, Inductive, PTL
=============================================================================
