-------------------------- MODULE ScreeningProofs --------------------------
(* Machine-checked facts about Screening, for any tasks, items, workers,      *)
(* administrators and bounds unless a theorem says otherwise.                 *)
EXTENDS Screening, TaskQueueProofs, FiniteSetTheorems

(* Every step is a step of the queue or leaves the queue alone.               *)

LEMMA NewTasks ==
  ASSUME NEW I, EnqueueItems(I)
  PROVE  \E S \in SUBSET Tasks : \E f \in [S -> I] :
           /\ Enqueue(S) /\ serves' = [t \in Tasks |-> IF t \in S THEN f[t] ELSE serves[t]]
           /\ \A t, u \in S : f[t] = f[u] => t = u
           /\ \A i \in I : \E t \in S : f[t] = i
<1> DEFINE S == NextTasks(Cardinality(I))
<1>1. S \in SUBSET Tasks /\ \A t \in S : row[t].status = "absent"
  BY DEF NextTasks, Fresh
<1>2. PICK f \in Bijection(S, I) : serves' = [t \in Tasks |-> IF t \in S THEN f[t] ELSE serves[t]]
  BY DEF EnqueueItems
<1>3. /\ f \in [S -> I] /\ \A t, u \in S : f[t] = f[u] => t = u
      /\ \A i \in I : \E t \in S : f[t] = i
  BY <1>2 DEF Bijection, Injection, Surjection, IsInjective
<1>4. Enqueue(S)
  BY DEF EnqueueItems
<1> HIDE DEF S
<1> QED BY <1>1, <1>2, <1>3, <1>4

LEMMA QueueStep == SNext => [Next]_vars
<1>1. ASSUME NEW I, EnqueueItems(I) PROVE Next
  BY <1>1, NewTasks DEF Next
<1>2. CreateJob => Next
  BY <1>1 DEF CreateJob
<1>3. ASSUME NEW a \in Admins, OpenRetry(a) \/ CommitRetry(a) PROVE [Next]_vars
  BY <1>1, <1>3 DEF OpenRetry, LoadForRetry, CommitRetry
<1>4. ASSUME NEW w \in Workers, \/ RaiseEarly(w) \/ SetProcessing(w) \/ RaiseLate(w)
                               \/ Finish(w) \/ ProcessDies(w)
      PROVE  Next
  BY <1>4 DEF RaiseEarly, SetProcessing, RaiseLate, Finish, ProcessDies, Next, Pass
<1>5. ASSUME NEW w \in Workers, NEW r \in Results, Assess(w, r) PROVE UNCHANGED vars
  BY <1>5 DEF Assess, AssessWith
<1>6. Elsewhere => Next
  BY DEF Elsewhere, Next, Pass
<1> QED BY <1>2, <1>3, <1>4, <1>5, <1>6 DEF SNext

LEMMA QueueStutter == UNCHANGED allVars => UNCHANGED vars
  BY DEF allVars

----------------------------------------------------------------------------
(* Typing, for any number of workers and administrators.                      *)

TallyType == {Closed} \cup [open : {TRUE}, result : Results, seen : JobType, counted : JobType]
DeskType  == {Closed} \cup [open : {TRUE}, failed : SUBSET Items]

STypeInv ==
  /\ TypeInv /\ InsertedInv
  /\ item \in [Items -> ItemStatus]
  /\ job \in JobType
  /\ serves \in [Tasks -> Items \cup {"none"}]
  /\ \A t \in Tasks : serves[t] = "none" <=> row[t].status = "absent"
  /\ tally \in [Workers -> TallyType]
  /\ desk \in [Admins -> DeskType]

LEMMA ClosedIsClosed == ~Closed.open
  BY DEF Closed

LEMMA OpenTally ==
  ASSUME NEW q \in TallyType, q.open
  PROVE  q.result \in Results /\ q.seen \in JobType /\ q.counted \in JobType
<1>1. q # Closed
  BY ClosedIsClosed
<1> QED BY <1>1 DEF TallyType

LEMMA OpenDesk ==
  ASSUME NEW q \in DeskType, q.open
  PROVE  q.failed \in SUBSET Items
<1>1. q # Closed
  BY ClosedIsClosed
<1> QED BY <1>1 DEF DeskType

\* Counting the items of any kind gives a number.
LEMMA Counted ==
  ASSUME NEW S \in SUBSET Items
  PROVE  IsFiniteSet(S) /\ Cardinality(S) \in Nat
  BY ItemsAssumption, FS_Subset, FS_CardinalityType

LEMMA RecountTyping ==
  ASSUME NEW s, job \in JobType
  PROVE  Recount(s) \in JobType
<1>1. \A status : Count(s, status) \in Nat
  <2> TAKE status
  <2>1. {i \in Items : s[i] = status} \in SUBSET Items
    OBVIOUS
  <2> QED BY <2>1, Counted DEF Count
<1>2. Cardinality(Done(s)) \in Nat
  <2>1. Done(s) \in SUBSET Items
    BY DEF Done
  <2> QED BY <2>1, Counted
<1>3. Final(s) \in {"COMPLETED", "PARTIAL"}
  BY DEF Final
<1> QED BY <1>1, <1>2, <1>3 DEF Recount, RecountAs, JobType

LEMMA STypeInit == SInit => STypeInv
<1> SUFFICES ASSUME SInit PROVE STypeInv
  OBVIOUS
<1>1. Closed \in TallyType /\ Closed \in DeskType
  BY DEF TallyType, DeskType
<1>2. job \in JobType
  BY DEF SInit, JobType
<1>3. item \in [Items -> ItemStatus]
  BY DEF SInit, ItemStatus
<1>4. \A t \in Tasks : serves[t] = "none" <=> row[t].status = "absent"
  BY DEF SInit, Init
<1>5. TypeInv /\ InsertedInv
  BY TypeInit, InsertedInit DEF SInit
<1> QED BY <1>1, <1>2, <1>3, <1>4, <1>5 DEF SInit, STypeInv

\* Every step but those that insert rows.
LEMMA ServeSteps ==
  /\ \A w \in Workers :
       RaiseEarly(w) \/ SetProcessing(w) \/ RaiseLate(w) \/ Finish(w) \/ ProcessDies(w) => Serves
  /\ \A a \in Admins : OpenRetry(a) => Serves
  /\ \A w \in Workers, r \in Results : Assess(w, r) => Serves
  /\ Elsewhere \/ UNCHANGED allVars => Serves
<1>1. ASSUME NEW w \in Workers,
             RaiseEarly(w) \/ SetProcessing(w) \/ RaiseLate(w) \/ Finish(w) \/ ProcessDies(w)
      PROVE  Serves
  BY <1>1 DEF RaiseEarly, SetProcessing, RaiseLate, Finish, ProcessDies, Serves, Pass
<1>2. \A a \in Admins : OpenRetry(a) => Serves
  BY DEF OpenRetry, LoadForRetry, Serves
<1>3. \A w \in Workers, r \in Results : Assess(w, r) => Serves
  BY DEF Assess, AssessWith, Serves
<1>4. Elsewhere \/ UNCHANGED allVars => Serves
  BY QueueStutter DEF Elsewhere, Serves, Pass
<1> QED BY <1>1, <1>2, <1>3, <1>4

\* The task a handler is at, and its item.
LEMMA CurrentItem ==
  ASSUME STypeInv, NEW w \in Workers, batch[w] # <<>>
  PROVE  Current(w) \in Tasks /\ serves[Current(w)] \in Items /\ Held(w, Current(w))
<1>1. Current(w) \in Tasks /\ Held(w, Current(w))
  BY BatchTyping DEF STypeInv, TypeInv, Held, Current, TypeOK
<1>2. row[Current(w)].status # "absent"
  BY <1>1 DEF STypeInv, InsertedInv, Known
<1> QED BY <1>1, <1>2 DEF STypeInv

LEMMA InsertKeepsTypes ==
  ASSUME STypeInv, NEW I \in SUBSET Items, EnqueueItems(I)
  PROVE  /\ serves' \in [Tasks -> Items \cup {"none"}]
         /\ \A t \in Tasks : serves'[t] = "none" <=> row'[t].status = "absent"
<1>1. PICK S \in SUBSET Tasks : \E f \in [S -> I] :
        /\ Enqueue(S) /\ serves' = [t \in Tasks |-> IF t \in S THEN f[t] ELSE serves[t]]
  BY NewTasks
<1>f. PICK f \in [S -> I] : serves' = [t \in Tasks |-> IF t \in S THEN f[t] ELSE serves[t]]
  BY <1>1
<1>2. ASSUME NEW t \in S
      PROVE  serves'[t] \in Items /\ serves'[t] # "none" /\ row'[t].status = "PENDING"
  <2>1. f[t] \in Items /\ f[t] # "none"
    BY ItemsAssumption
  <2>2. row'[t] = [row[t] EXCEPT !.status = "PENDING"] /\ row[t] \in RowType
    BY <1>1 DEF Enqueue, STypeInv, TypeInv, TypeOK
  <2> QED BY <1>f, <2>1, <2>2 DEF RowType
<1>3. ASSUME NEW t \in Tasks \ S PROVE serves'[t] = serves[t] /\ row'[t] = row[t]
  BY <1>1, <1>f DEF Enqueue
<1>4. \A t \in Tasks : serves'[t] \in Items \cup {"none"}
  BY <1>2, <1>3 DEF STypeInv
<1>5. \A t \in Tasks : serves'[t] = "none" <=> row'[t].status = "absent"
  BY <1>2, <1>3 DEF STypeInv
<1> QED BY <1>f, <1>4, <1>5

\* What the commit of a result leaves in the job row.
Merged(now, seen, new) ==
  [c \in DOMAIN now |-> IF new[c] = seen[c] THEN now[c] ELSE new[c]]

LEMMA MergeTyping ==
  ASSUME NEW now \in JobType, NEW seen \in JobType, NEW new \in JobType
  PROVE  Merged(now, seen, new) \in JobType /\ (seen = now => Merged(now, seen, new) = new)
<1> DEFINE C == {"status", "processed", "verified", "review", "failed"}
           m == Merged(now, seen, new)
<1>1. DOMAIN now = C /\ DOMAIN new = C
  BY DEF JobType
<1>2. DOMAIN m = C
  BY <1>1 DEF Merged
<1>3. \A c \in C : m[c] = (IF new[c] = seen[c] THEN now[c] ELSE new[c])
  BY <1>1 DEF Merged
<1>4. m = [status |-> m["status"], processed |-> m["processed"], verified |-> m["verified"],
           review |-> m["review"], failed |-> m["failed"]]
  BY <1>1 DEF Merged
<1>5. m \in JobType
  BY <1>3, <1>4 DEF JobType
<1>6. seen = now => m = new
  BY <1>1 DEF Merged, JobType
<1> QED BY <1>5, <1>6

\* What the commit of a result does.
LEMMA FinishRows ==
  ASSUME STypeInv, NEW w \in Workers, Finish(w)
  PROVE  /\ tally[w] \in TallyType /\ tally[w].open /\ HandlerReturns(w) /\ batch[w] # <<>>
         /\ serves[Current(w)] \in Items
         /\ item' = [item EXCEPT ![serves[Current(w)]] = tally[w].result]
         /\ job' = Merged(job, tally[w].seen, tally[w].counted)
         /\ tally' = [tally EXCEPT ![w] = Closed]
         /\ UNCHANGED <<serves, desk>>
<1>1. batch[w] # <<>>
  BY DEF Finish, HandlerReturns, STypeInv, TypeInv, HandlingHasTask
<1> QED BY <1>1, CurrentItem DEF Finish, Merged, STypeInv

LEMMA STypeStep == STypeInv /\ [SNext]_allVars => STypeInv'
<1> SUFFICES ASSUME STypeInv, [SNext]_allVars PROVE STypeInv'
  OBVIOUS
<1>q. [Next]_vars /\ TypeInv' /\ InsertedInv'
  BY QueueStep, QueueStutter, TypeStep, InsertedStep DEF STypeInv
<1>t. /\ TypeInv /\ InsertedInv /\ item \in [Items -> ItemStatus] /\ job \in JobType
      /\ tally \in [Workers -> TallyType] /\ desk \in [Admins -> DeskType]
  BY DEF STypeInv
<1>c. Closed \in TallyType /\ Closed \in DeskType
  BY DEF TallyType, DeskType
\* Steps that insert no row and enqueue nothing.
<1>1. ASSUME Serves, UNCHANGED serves
      PROVE  /\ serves' \in [Tasks -> Items \cup {"none"}]
             /\ \A t \in Tasks : serves'[t] = "none" <=> row'[t].status = "absent"
  BY <1>1, RowsStay DEF STypeInv
<1>2. CASE CreateJob
  <2>1. Items \in SUBSET Items /\ EnqueueItems(Items)
    BY <1>2 DEF CreateJob
  <2>2. job' \in JobType /\ item' \in [Items -> ItemStatus]
    BY <1>2, <1>t DEF CreateJob, JobType, ItemStatus
  <2> QED BY <1>2, <1>q, <1>t, <2>1, <2>2, InsertKeepsTypes DEF CreateJob, STypeInv
<1>3. ASSUME NEW a \in Admins, OpenRetry(a) PROVE STypeInv'
  <2>1. [open |-> TRUE, failed |-> {i \in Items : item[i] = "FAILED"}] \in DeskType
    BY DEF DeskType
  <2>2. desk' \in [Admins -> DeskType]
    BY <1>3, <1>t, <2>1 DEF OpenRetry, LoadForRetry
  <2>3. Serves /\ UNCHANGED <<item, job, serves, tally>>
    BY <1>3, ServeSteps DEF OpenRetry, LoadForRetry
  <2> QED BY <1>q, <1>t, <1>1, <2>2, <2>3 DEF STypeInv
<1>4. ASSUME NEW a \in Admins, CommitRetry(a) PROVE STypeInv'
  <2>1. desk[a].failed \in SUBSET Items /\ EnqueueItems(desk[a].failed)
    BY <1>4, <1>t, OpenDesk DEF CommitRetry
  <2>2. item' \in [Items -> ItemStatus]
    BY <1>4, <1>t DEF CommitRetry, ItemStatus
  <2>3. desk' \in [Admins -> DeskType]
    BY <1>4, <1>t, <1>c DEF CommitRetry
  <2> QED BY <1>4, <1>q, <1>t, <2>1, <2>2, <2>3, InsertKeepsTypes DEF CommitRetry, STypeInv
<1>5. ASSUME NEW w \in Workers, SetProcessing(w) PROVE STypeInv'
  <2>1. Serves /\ UNCHANGED <<job, serves, tally, desk>>
    BY <1>5, ServeSteps DEF SetProcessing
  <2>2. item' \in [Items -> ItemStatus]
    BY <1>5, <1>t DEF SetProcessing, ItemStatus
  <2> QED BY <1>q, <1>t, <1>1, <2>1, <2>2 DEF STypeInv
<1>6. ASSUME NEW w \in Workers, Finish(w) PROVE STypeInv'
  <2>1. tally[w].result \in Results /\ tally[w].seen \in JobType /\ tally[w].counted \in JobType
    BY <1>6, FinishRows, OpenTally
  <2>2. item' \in [Items -> ItemStatus]
    BY <1>6, <1>t, <2>1, FinishRows DEF ItemStatus
  <2>3. job' \in JobType
    BY <1>6, <1>t, <2>1, FinishRows, MergeTyping
  <2>4. tally' \in [Workers -> TallyType]
    BY <1>6, <1>t, <1>c, FinishRows
  <2>5. Serves /\ UNCHANGED <<serves, desk>>
    BY <1>6, FinishRows, ServeSteps
  <2> QED BY <1>q, <1>t, <1>1, <2>2, <2>3, <2>4, <2>5 DEF STypeInv
<1>7. ASSUME NEW w \in Workers, ProcessDies(w) \/ RaiseLate(w) PROVE STypeInv'
  <2>1. Serves /\ UNCHANGED <<item, job, serves, desk>>
    BY <1>7, ServeSteps DEF ProcessDies, RaiseLate
  <2>2. tally' \in [Workers -> TallyType]
    BY <1>7, <1>t, <1>c DEF ProcessDies, RaiseLate
  <2> QED BY <1>q, <1>t, <1>1, <2>1, <2>2 DEF STypeInv
<1>8. ASSUME NEW w \in Workers, NEW r \in Results, Assess(w, r) PROVE STypeInv'
  <2>1. \A s : Recount(s) \in JobType
    BY <1>t, RecountTyping
  <2>2. \A s : [open |-> TRUE, result |-> r, seen |-> job, counted |-> Recount(s)] \in TallyType
    BY <1>t, <2>1 DEF TallyType
  <2>3. tally' \in [Workers -> TallyType]
    BY <1>8, <1>t, <2>2 DEF Assess, AssessWith
  <2>4. Serves /\ UNCHANGED <<item, job, serves, desk>>
    BY <1>8, ServeSteps DEF Assess, AssessWith
  <2> QED BY <1>q, <1>t, <1>1, <2>3, <2>4 DEF STypeInv
<1>9. ASSUME UNCHANGED jobVars, Serves PROVE STypeInv'
  BY <1>q, <1>t, <1>1, <1>9 DEF jobVars, STypeInv
<1>10. ASSUME NEW w \in Workers, RaiseEarly(w) PROVE STypeInv'
  BY <1>9, <1>10, ServeSteps DEF RaiseEarly
<1>11. CASE Elsewhere \/ UNCHANGED allVars
  BY <1>9, <1>11, ServeSteps DEF Elsewhere, allVars
<1> QED
  BY <1>2, <1>3, <1>4, <1>5, <1>6, <1>7, <1>8, <1>10, <1>11 DEF SNext

\* Items, job, tallies and retries keep their types, and a task exists exactly
\* when it serves an item (create_job and retry_failed_items insert both in one
\* commit), for any number of workers and administrators.
THEOREM ScreeningTypes == SSpec => []STypeOK
<1>1. STypeInv => STypeOK
  <2>1. ASSUME STypeInv, NEW w \in Workers, tally[w].open
        PROVE  tally[w].result \in Results /\ tally[w].seen \in JobType /\ tally[w].counted \in JobType
    BY <2>1, OpenTally DEF STypeInv
  <2>2. ASSUME STypeInv, NEW a \in Admins, desk[a].open PROVE desk[a].failed \subseteq Items
    BY <2>2, OpenDesk DEF STypeInv
  <2> QED BY <2>1, <2>2 DEF STypeInv, TypeInv, STypeOK
<1> QED BY <1>1, STypeInit, STypeStep, PTL DEF SSpec

----------------------------------------------------------------------------
(* One worker: the account of a job whose items all have their result, with   *)
(* crashes, failed commits, raising handlers and concurrent retries.          *)

\* The item w's handler is at.
At(w) == serves[Current(w)]

\* What a handler has computed and not yet committed is based on the job row as
\* it is; and if all other items have their result by now, it is their account.
\* (A retry may have reopened one of the others after the count: then it is not.)
Told(w) ==
  /\ pc[w] = "handling" /\ tally[w].seen = job /\ tally[w].counted.status # "none"
  /\ (\A i \in Items \ {At(w)} : item[i] \in Results) =>
       tally[w].counted = Account([item EXCEPT ![At(w)] = tally[w].result])

TallyInv == \A w \in Workers : tally[w].open => Told(w)

\* Job and items appear together; before that there is no task and no retry.
JobInv ==
  /\ job.status = "none" =>
       /\ \A t \in Tasks : row[t].status = "absent"
       /\ \A a \in Admins : ~desk[a].open
  /\ \A i \in Items : item[i] = "none" <=> job.status = "none"

AccountInv == STypeInv /\ SingleWorkerInv /\ JobInv /\ TallyInv /\ ScreenedTally

\* With nothing pending, a recount is the account.
LEMMA FullRecount ==
  ASSUME NEW s, \A i \in Items : s[i] # "PENDING"
  PROVE  Recount(s) = Account(s)
<1>1. Done(s) = Items
  BY DEF Done
<1> QED BY <1>1 DEF Recount, RecountAs, Account

\* A handler at work shows that the job exists.
LEMMA WorkingJob ==
  ASSUME STypeInv, JobInv, NEW w \in Workers, pc[w] = "handling"
  PROVE  /\ batch[w] # <<>> /\ Current(w) \in Tasks /\ At(w) \in Items
         /\ row[Current(w)].status # "absent" /\ job.status # "none"
<1>1. batch[w] # <<>>
  BY DEF STypeInv, TypeInv, HandlingHasTask
<1>2. Current(w) \in Tasks /\ At(w) \in Items /\ Held(w, Current(w))
  BY <1>1, CurrentItem DEF At
<1>3. row[Current(w)].status # "absent"
  BY <1>2 DEF STypeInv, InsertedInv, Known
<1> QED BY <1>1, <1>2, <1>3 DEF JobInv

LEMMA AccountInit == SInit => AccountInv
<1> SUFFICES ASSUME SInit PROVE AccountInv
  OBVIOUS
<1>1. JobInv
  BY ClosedIsClosed DEF SInit, Init, JobInv
<1>2. TallyInv
  BY ClosedIsClosed DEF SInit, TallyInv
<1>3. ScreenedTally
  BY ItemsAssumption DEF SInit, ScreenedTally, Results
<1> QED BY <1>1, <1>2, <1>3, STypeInit, SingleInit DEF SInit, AccountInv

LEMMA JobStep ==
  ASSUME STypeInv, JobInv, [SNext]_allVars,
         \A w \in Workers : Finish(w) => job'.status # "none"
  PROVE  JobInv'
<1>t. /\ TypeInv /\ InsertedInv /\ job \in JobType /\ desk \in [Admins -> DeskType]
      /\ item \in [Items -> ItemStatus] /\ tally \in [Workers -> TallyType]
  BY DEF STypeInv
<1>1. ASSUME Serves, job' = job, desk' = desk, item' = item PROVE JobInv'
  BY <1>1, <1>t, RowsStay DEF JobInv
\* An item at work belongs to a job.
<1>w. ASSUME NEW w \in Workers, batch[w] # <<>>
      PROVE  serves[Current(w)] \in Items /\ job.status # "none"
  <2>1. Current(w) \in Tasks /\ serves[Current(w)] \in Items /\ Held(w, Current(w))
    BY <1>w, CurrentItem
  <2> QED BY <1>t, <2>1 DEF InsertedInv, Known, JobInv
<1>2. CASE CreateJob
  BY <1>2, <1>t DEF CreateJob, JobInv, JobType
<1>3. ASSUME NEW a \in Admins, OpenRetry(a) \/ CommitRetry(a) PROVE JobInv'
  <2>1. job' = job /\ job.status # "none"
    BY <1>3 DEF OpenRetry, LoadForRetry, CommitRetry, JobInv
  <2>2. \A i \in Items : item'[i] \in {item[i], "PENDING"}
    BY <1>3 DEF OpenRetry, LoadForRetry, CommitRetry
  <2> QED BY <2>1, <2>2 DEF JobInv
<1>4. ASSUME NEW w \in Workers, RaiseEarly(w) \/ RaiseLate(w) \/ ProcessDies(w) PROVE JobInv'
  BY <1>1, <1>4, ServeSteps DEF RaiseEarly, RaiseLate, ProcessDies, jobVars
<1>5. ASSUME NEW w \in Workers, SetProcessing(w) PROVE JobInv'
  <2>1. serves[Current(w)] \in Items /\ job.status # "none" /\ job' = job
    BY <1>5, <1>w DEF SetProcessing, HandlerCommits
  <2> QED BY <1>5, <1>t, <2>1 DEF SetProcessing, JobInv
<1>6. ASSUME NEW w \in Workers, Finish(w) PROVE JobInv'
  <2>1. /\ batch[w] # <<>> /\ item' = [item EXCEPT ![serves[Current(w)]] = tally[w].result]
        /\ tally[w].result \in Results
    BY <1>6, FinishRows, OpenTally
  <2>2. job.status # "none" /\ job'.status # "none"
    BY <1>6, <1>w, <2>1
  <2> QED BY <1>t, <2>1, <2>2 DEF JobInv, Results
<1>7. ASSUME NEW w \in Workers, NEW r \in Results, Assess(w, r) PROVE JobInv'
  BY <1>1, <1>7, ServeSteps DEF Assess, AssessWith
<1>8. CASE Elsewhere \/ UNCHANGED allVars
  BY <1>1, <1>8, ServeSteps DEF Elsewhere, jobVars, allVars
<1> QED BY <1>2, <1>3, <1>4, <1>5, <1>6, <1>7, <1>8 DEF SNext

\* The commit of a result brings the job row its count, unchanged.
LEMMA FinishAccount ==
  ASSUME STypeInv, TallyInv, NEW w \in Workers, Finish(w)
  PROVE  job' = tally[w].counted /\ tally[w].counted.status # "none"
<1>1. /\ tally[w].open /\ tally[w] \in TallyType /\ job' = Merged(job, tally[w].seen, tally[w].counted)
  BY FinishRows
<1>2. tally[w].seen = job /\ job \in JobType /\ tally[w].counted \in JobType
  BY <1>1, OpenTally DEF TallyInv, Told, STypeInv
<1>3. tally[w].counted.status # "none"
  BY <1>1 DEF TallyInv, Told
<1> QED BY <1>1, <1>2, <1>3, MergeTyping

LEMMA TallyStep ==
  ASSUME AccountInv, [SNext]_allVars, OneWorker
  PROVE  TallyInv'
<1>t. /\ STypeInv /\ JobInv /\ TallyInv /\ TypeOK /\ item \in [Items -> ItemStatus]
      /\ tally \in [Workers -> TallyType]
  BY DEF AccountInv, STypeInv, TypeInv
<1> SUFFICES ASSUME NEW w \in Workers, tally'[w].open PROVE Told(w)'
  BY DEF TallyInv
<1>o. \A v \in Workers : v = w
  BY DEF OneWorker
<1>k. tally[w].open => Told(w)
  BY <1>t DEF TallyInv
\* Steps that leave what is counted, and who counts, alone.
<1>1. ASSUME UNCHANGED <<pc, batch, serves, item, job, tally>> PROVE Told(w)'
  BY <1>1, <1>k DEF Told, At, Current, Account, Final, Count
<1>2. CASE CreateJob
  <2>1. tally[w].open /\ job.status = "none"
    BY <1>2 DEF CreateJob
  <2>2. pc[w] = "handling"
    BY <1>k, <2>1 DEF Told
  <2> QED BY <1>t, <2>1, <2>2, WorkingJob
<1>3. ASSUME NEW a \in Admins, OpenRetry(a) PROVE Told(w)'
  BY <1>1, <1>3 DEF OpenRetry, LoadForRetry, vars
<1>4. ASSUME NEW a \in Admins, CommitRetry(a) PROVE Told(w)'
  <2>1. tally[w].open /\ tally' = tally /\ job' = job
    BY <1>4 DEF CommitRetry
  <2>2. /\ pc[w] = "handling" /\ tally[w].seen = job /\ tally[w].counted.status # "none"
        /\ (\A i \in Items \ {At(w)} : item[i] \in Results) =>
             tally[w].counted = Account([item EXCEPT ![At(w)] = tally[w].result])
    BY <1>k, <2>1 DEF Told
  <2>3. Current(w) \in Tasks /\ At(w) \in Items /\ row[Current(w)].status # "absent"
    BY <1>t, <2>2, WorkingJob
  <2>4. PICK S \in SUBSET Tasks : \E f \in [S -> desk[a].failed] :
          /\ Enqueue(S) /\ serves' = [t \in Tasks |-> IF t \in S THEN f[t] ELSE serves[t]]
    BY <1>4, NewTasks DEF CommitRetry
  <2>5. UNCHANGED <<pc, batch>> /\ At(w)' = At(w)
    BY <2>3, <2>4 DEF Enqueue, At, Current
  <2>6. item' = [i \in Items |-> IF i \in desk[a].failed THEN "PENDING" ELSE item[i]]
    BY <1>4 DEF CommitRetry
  <2>7. ASSUME \A i \in Items \ {At(w)} : item'[i] \in Results
        PROVE  tally[w].counted = Account([item' EXCEPT ![At(w)] = tally[w].result])
    <3>1. \A i \in Items \ {At(w)} : item'[i] = item[i]
      BY <2>6, <2>7 DEF Results
    <3>2. [item' EXCEPT ![At(w)] = tally[w].result] = [item EXCEPT ![At(w)] = tally[w].result]
      BY <1>t, <2>6, <3>1
    <3> QED BY <2>2, <2>7, <3>1, <3>2
  <2> QED BY <2>1, <2>2, <2>5, <2>7 DEF Told, Account, Final, Count
<1>5. ASSUME NEW v \in Workers, RaiseEarly(v) \/ SetProcessing(v) PROVE Told(w)'
  <2>1. pc[w] = "processing" /\ tally[w].open
    BY <1>o, <1>5 DEF RaiseEarly, SetProcessing, HandlerRaisesEarly, HandlerCommits, jobVars
  <2> QED BY <1>k, <2>1 DEF Told
<1>6. ASSUME NEW v \in Workers, Finish(v) \/ RaiseLate(v) \/ ProcessDies(v) PROVE Told(w)'
  <2>1. tally'[w] = Closed
    BY <1>t, <1>o, <1>6 DEF Finish, RaiseLate, ProcessDies
  <2> QED BY <2>1, ClosedIsClosed
<1>7. ASSUME NEW v \in Workers, NEW r \in Results, Assess(v, r) PROVE Told(w)'
  <2> DEFINE s == [item EXCEPT ![At(w)] = r]
  <2>1. /\ pc[w] = "handling" /\ UNCHANGED <<pc, batch, serves, item, job>>
        /\ tally'[w] = [open |-> TRUE, result |-> r, seen |-> job, counted |-> Recount(s)]
    BY <1>t, <1>o, <1>7 DEF Assess, AssessWith, vars, At
  <2>2. At(w) \in Items /\ job.status # "none" /\ At(w)' = At(w)
    BY <1>t, <2>1, WorkingJob DEF At, Current
  <2>3. Recount(s).status # "none"
    BY <2>2 DEF Recount, RecountAs, Final
  <2>4. ASSUME \A i \in Items \ {At(w)} : item[i] \in Results PROVE Recount(s) = Account(s)
    <3>1. \A i \in Items : s[i] # "PENDING"
      BY <1>t, <2>2, <2>4 DEF Results
    <3> HIDE DEF s
    <3> QED BY <3>1, FullRecount
  <2>5. /\ tally'[w].result = r /\ tally'[w].seen = job /\ tally'[w].counted = Recount(s)
    BY <2>1
  <2>6. [item' EXCEPT ![At(w)'] = tally'[w].result] = s
    BY <2>1, <2>2, <2>5
  <2> HIDE DEF s
  <2>7. (\A i \in Items \ {At(w)'} : item'[i] \in Results) =>
          tally'[w].counted = Account(s)
    BY <2>1, <2>2, <2>4, <2>5
  <2> QED BY <2>1, <2>3, <2>5, <2>6, <2>7 DEF Told, Account, Final, Count
<1>8. CASE Elsewhere
  <2>1. CASE \E t \in Tasks : Elapse(t)
    BY <1>1, <1>8, <2>1 DEF Elsewhere, Elapse, jobVars
  <2>2. ASSUME NEW v \in Workers,
               Claim(v) \/ StartBatch(v) \/ EndPass(v) \/ EndPassFails(v) \/ Restart(v)
        PROVE  Told(w)'
    <3>1. pc[w] # "handling" /\ tally[w].open
      BY <1>o, <1>8, <2>2 DEF Elsewhere, jobVars, Claim, StartBatch, EndPass, EndPassFails, Restart
    <3> QED BY <1>k, <3>1 DEF Told
  <2> QED BY <1>8, <2>1, <2>2 DEF Elsewhere
<1>9. CASE UNCHANGED allVars
  BY <1>1, <1>9 DEF allVars, vars, jobVars
<1> QED BY <1>2, <1>3, <1>4, <1>5, <1>6, <1>7, <1>8, <1>9 DEF SNext

LEMMA ScreenedStep ==
  ASSUME AccountInv, [SNext]_allVars, OneWorker
  PROVE  ScreenedTally'
<1>t. /\ STypeInv /\ JobInv /\ TallyInv /\ ScreenedTally /\ TypeOK
      /\ item \in [Items -> ItemStatus] /\ desk \in [Admins -> DeskType]
  BY DEF AccountInv, STypeInv, TypeInv
<1> SUFFICES ASSUME \A i \in Items : item'[i] \in Results PROVE job' = Account(item')
  BY DEF ScreenedTally, Account, Final, Count
\* A status that is no result is in none of the items.
<1>n. /\ "PENDING" \notin Results /\ "PROCESSING" \notin Results
      /\ Items # {}
  BY ItemsAssumption DEF Results
<1>1. ASSUME UNCHANGED <<item, job>> PROVE job' = Account(item')
  BY <1>1, <1>t DEF ScreenedTally
<1>2. CASE CreateJob
  BY <1>2, <1>n DEF CreateJob
<1>3. ASSUME NEW a \in Admins, OpenRetry(a) PROVE job' = Account(item')
  BY <1>1, <1>3 DEF OpenRetry, LoadForRetry
<1>4. ASSUME NEW a \in Admins, CommitRetry(a) PROVE job' = Account(item')
  <2>1. \A i \in desk[a].failed : i \notin Items
    BY <1>4, <1>n DEF CommitRetry
  <2>2. item' = item
    BY <1>4, <1>t, <2>1 DEF CommitRetry
  <2> QED BY <1>1, <1>4, <2>2 DEF CommitRetry
<1>5. ASSUME NEW w \in Workers, SetProcessing(w) PROVE job' = Account(item')
  <2>1. serves[Current(w)] \in Items
    BY <1>5, <1>t, CurrentItem DEF SetProcessing, HandlerCommits
  <2> QED BY <1>5, <1>t, <1>n, <2>1 DEF SetProcessing
<1>6. ASSUME NEW w \in Workers, Finish(w) PROVE job' = Account(item')
  <2>1. /\ tally[w].open /\ At(w) \in Items
        /\ item' = [item EXCEPT ![At(w)] = tally[w].result]
    BY <1>6, <1>t, FinishRows DEF At
  <2>2. \A i \in Items \ {At(w)} : item[i] \in Results
    BY <1>t, <2>1
  <2>3. job' = tally[w].counted
    BY <1>6, <1>t, FinishAccount
  <2> QED BY <1>t, <2>1, <2>2, <2>3 DEF TallyInv, Told
<1>7. ASSUME NEW w \in Workers, RaiseEarly(w) \/ RaiseLate(w) \/ ProcessDies(w) PROVE job' = Account(item')
  BY <1>1, <1>7 DEF RaiseEarly, RaiseLate, ProcessDies, jobVars
<1>8. ASSUME NEW w \in Workers, NEW r \in Results, Assess(w, r) PROVE job' = Account(item')
  BY <1>1, <1>8 DEF Assess, AssessWith
<1>9. CASE Elsewhere \/ UNCHANGED allVars
  BY <1>1, <1>9 DEF Elsewhere, jobVars, allVars
<1> QED BY <1>2, <1>3, <1>4, <1>5, <1>6, <1>7, <1>8, <1>9 DEF SNext

LEMMA AccountStep == OneWorker /\ AccountInv /\ [SNext]_allVars => AccountInv'
<1> SUFFICES ASSUME OneWorker, AccountInv, [SNext]_allVars PROVE AccountInv'
  OBVIOUS
<1>1. SingleWorkerInv'
  BY QueueStep, QueueStutter, SingleStep DEF AccountInv
<1>2. \A w \in Workers : Finish(w) => job'.status # "none"
  BY FinishAccount DEF AccountInv
<1>3. JobInv'
  BY <1>2, JobStep DEF AccountInv
<1> QED BY <1>1, <1>3, STypeStep, TallyStep, ScreenedStep DEF AccountInv

\* With one worker (the default: server.py starts one), the job row is the account
\* of its items whenever each has its result, whatever crashes, failed commits,
\* raised handlers and concurrent retries have happened: the recount commits
\* with the result it counted (run_bulk_item, _recount_job), and what it read
\* before that commit could only be overtaken by a retry, which unmarks an item.
THEOREM AccountIsTold ==
  ASSUME OneWorker
  PROVE  SSpec => []ScreenedTally
<1>1. AccountInv => ScreenedTally
  BY DEF AccountInv
<1> QED BY <1>1, AccountInit, AccountStep, PTL DEF SSpec

----------------------------------------------------------------------------
(* One worker: no item is left behind when the queue is at rest, with         *)
(* crashes, failed commits, raising handlers and any number of administrators.*)

\* The steps of the queue when no handler raises.
Plain ==
  \/ \E S \in SUBSET Tasks : Enqueue(S)
  \/ \E t \in Tasks : Elapse(t)
  \/ \E w \in Workers : \/ Claim(w) \/ StartBatch(w) \/ HandlerCommits(w) \/ HandlerReturns(w)
                        \/ EndPass(w) \/ EndPassFails(w) \/ Crash(w) \/ Restart(w)
  \/ UNCHANGED vars

LEMMA PlainStep ==
  ASSUME [SNext]_allVars, RaisesEarly = {}, RaisesLate = {}
  PROVE  Plain
<1>1. ASSUME NEW I, EnqueueItems(I) PROVE Plain
  BY <1>1, NewTasks DEF Plain
<1>2. CASE CreateJob
  BY <1>1, <1>2 DEF CreateJob
<1>3. ASSUME NEW a \in Admins, OpenRetry(a) \/ CommitRetry(a) PROVE Plain
  BY <1>1, <1>3 DEF OpenRetry, LoadForRetry, CommitRetry, Plain
<1>4. ASSUME NEW w \in Workers, RaiseEarly(w) \/ RaiseLate(w) PROVE FALSE
  BY <1>4 DEF RaiseEarly, HandlerRaisesEarly, RaiseLate, HandlerRaisesLate
<1>5. ASSUME NEW w \in Workers, SetProcessing(w) \/ Finish(w) \/ ProcessDies(w) PROVE Plain
  BY <1>5 DEF SetProcessing, Finish, ProcessDies, Plain
<1>6. ASSUME NEW w \in Workers, NEW r \in Results, Assess(w, r) PROVE Plain
  BY <1>6 DEF Assess, AssessWith, Plain
<1>7. CASE Elsewhere
  BY <1>7 DEF Elsewhere, Plain
<1>8. CASE UNCHANGED allVars
  BY <1>8, QueueStutter DEF Plain
<1> QED BY <1>2, <1>3, <1>4, <1>5, <1>6, <1>7, <1>8 DEF SNext

\* No task is given up, and none is put back.
Untroubled ==
  \A t \in Tasks :
    /\ row[t].status # "FAILED"
    /\ \A w \in Workers : outcomes[w][t] \in {"none", "SUCCEEDED"}

LEMMA UntroubledStep == TypeInv /\ Untroubled /\ Plain => Untroubled'
<1> SUFFICES ASSUME TypeInv, Untroubled, Plain PROVE Untroubled'
  OBVIOUS
<1>t. TypeOK
  BY DEF TypeInv
\* Rows change by a flush, and no session but that of w changes.
<1>1. ASSUME \A t \in Tasks : row'[t].status # "FAILED", UNCHANGED outcomes PROVE Untroubled'
  BY <1>1 DEF Untroubled
<1>2. ASSUME NEW w \in Workers, UNCHANGED row \/ row' = [t \in Tasks |-> Flushed(w, t)],
             NEW o, outcomes' = [outcomes EXCEPT ![w] = o],
             \A t \in Tasks : o[t] \in {"none", "SUCCEEDED"}
      PROVE  Untroubled'
  <2>1. \A t \in Tasks : row'[t].status # "FAILED"
    BY <1>2, <1>t DEF Untroubled, Flushed, TypeOK
  <2>2. \A v \in Workers : outcomes'[v] = outcomes[v] \/ outcomes'[v] = o
    BY <1>2, <1>t DEF TypeOK
  <2> QED BY <1>2, <2>1, <2>2 DEF Untroubled
<1>3. ASSUME NEW S \in SUBSET Tasks, Enqueue(S) PROVE Untroubled'
  BY <1>1, <1>3, <1>t DEF Enqueue, Untroubled, TypeOK, RowType
<1>4. ASSUME NEW t \in Tasks, Elapse(t) PROVE Untroubled'
  BY <1>1, <1>4, <1>t DEF Elapse, Untroubled, TypeOK, RowType
<1>5. ASSUME NEW w \in Workers, Claim(w) \/ StartBatch(w) \/ Restart(w) PROVE Untroubled'
  BY <1>1, <1>5 DEF Claim, StartBatch, Restart, Untroubled
<1>6. ASSUME NEW w \in Workers, HandlerCommits(w) \/ EndPass(w) \/ EndPassFails(w) \/ Crash(w)
      PROVE  Untroubled'
  <2>1. \A t \in Tasks : NoOutcomes[t] \in {"none", "SUCCEEDED"}
    BY DEF NoOutcomes
  <2> QED BY <1>2, <1>6, <2>1 DEF HandlerCommits, EndPass, Commit, EndPassFails, Crash, Rollback
<1>7. ASSUME NEW w \in Workers, HandlerReturns(w) PROVE Untroubled'
  <2>1. \A t \in Tasks : [NoOutcomes EXCEPT ![Current(w)] = "SUCCEEDED"][t] \in {"none", "SUCCEEDED"}
    BY DEF NoOutcomes
  <2> QED BY <1>2, <1>7, <2>1 DEF HandlerReturns
<1>8. CASE UNCHANGED vars
  BY <1>1, <1>8 DEF vars, Untroubled
<1> QED BY <1>3, <1>4, <1>5, <1>6, <1>7, <1>8 DEF Plain

\* A handler either returns or raises.
LEMMA RaiseIsNoReturn ==
  ASSUME TypeInv, NEW w \in Workers, HandlerRaisesLate(w)
  PROVE  ~HandlerReturns(w)
<1>1. batch[w] # <<>> /\ TypeOK
  BY DEF HandlerRaisesLate, TypeInv, HandlingHasTask
<1>2. Current(w) \in Tasks
  BY <1>1, BatchTyping DEF Current, TypeOK
<1>3. outcomes'[w][Current(w)] # "SUCCEEDED"
  BY <1>1, <1>2 DEF HandlerRaisesLate, SettleRaised, SettleRaisedAs, NoOutcomes, TypeOK
<1>4. HandlerReturns(w) => outcomes'[w][Current(w)] = "SUCCEEDED"
  BY <1>1, <1>2 DEF HandlerReturns, NoOutcomes, TypeOK
<1> QED BY <1>3, <1>4

\* A handler that returns has committed its result.
LEMMA ReturnIsFinish ==
  ASSUME TypeInv, [SNext]_allVars, NEW w \in Workers, HandlerReturns(w)
  PROVE  Finish(w)
<1>t. pc \in [Workers -> {"claiming", "processing", "handling", "down"}]
  BY DEF TypeInv, TypeOK
<1>1. pc[w] = "handling" /\ pc'[w] = "processing"
  BY <1>t DEF HandlerReturns, Advance
<1>2. pc' # pc
  BY <1>1
<1>3. ASSUME NEW I, EnqueueItems(I) PROVE FALSE
  BY <1>2, <1>3, NewTasks DEF Enqueue
<1>4. ~CreateJob /\ \A a \in Admins : ~OpenRetry(a) /\ ~CommitRetry(a)
  BY <1>2, <1>3 DEF CreateJob, OpenRetry, LoadForRetry, CommitRetry, vars
<1>5. \A v \in Workers : ~RaiseEarly(v) /\ ~SetProcessing(v) /\ ~ProcessDies(v)
  BY <1>t, <1>1
  DEF RaiseEarly, HandlerRaisesEarly, Advance, SetProcessing, HandlerCommits, ProcessDies, Crash
<1>6. \A v \in Workers, r \in Results : ~Assess(v, r)
  BY <1>2 DEF Assess, AssessWith, vars
<1>7. ~Elsewhere
  BY <1>t, <1>1
  DEF Elsewhere, Elapse, Claim, StartBatch, EndPass, EndPassFails, Restart
<1>l. \A v \in Workers : ~RaiseLate(v)
  <2>1. ~HandlerRaisesLate(w)
    BY RaiseIsNoReturn
  <2>2. \A v \in Workers \ {w} : ~HandlerRaisesLate(v)
    BY <1>t, <1>1 DEF HandlerRaisesLate, Advance
  <2> QED BY <2>1, <2>2 DEF RaiseLate
<1>8. ~UNCHANGED allVars
  BY <1>2 DEF allVars, vars
<1>9. PICK v \in Workers : Finish(v)
  BY <1>4, <1>5, <1>6, <1>7, <1>8, <1>l DEF SNext
<1>10. pc' = [pc EXCEPT ![v] = "processing"]
  BY <1>9 DEF Finish, HandlerReturns, Advance
<1>11. v = w
  BY <1>t, <1>1, <1>10
<1> QED BY <1>9, <1>11

\* An item without a result has a task that is not through.
LeftOpen ==
  job.status # "none" =>
    \A i \in Items : item[i] \notin Results => \E t \in Tasks : serves[t] = i /\ ~Succeeded(t)

\* The task a session is at has not succeeded.
LEMMA CurrentIsOpen ==
  ASSUME SingleWorkerInv, OneWorker, NEW w \in Workers, batch[w] # <<>>
  PROVE  Current(w) \in Tasks /\ ~Succeeded(Current(w))
<1>1. SessionOf(w) /\ TypeOK
  BY DEF SingleWorkerInv, SessionInv, TypeInv
<1>2. PICK t \in Tasks : t = Current(w) /\ Held(w, t)
  BY <1>1, BatchTyping DEF Held, Current, TypeOK
<1>3. row[t].status # "SUCCEEDED" /\ outcomes[w][t] = "none"
  BY <1>1, <1>2 DEF SessionOf, Open, Settled
<1> QED BY <1>2, <1>3 DEF Succeeded, OneWorker

LEMMA LeftOpenStep ==
  ASSUME AccountInv, LeftOpen, [SNext]_allVars, OneWorker
  PROVE  LeftOpen'
<1>t. /\ STypeInv /\ SingleWorkerInv /\ TypeInv /\ InsertedInv /\ TypeOK
      /\ item \in [Items -> ItemStatus] /\ tally \in [Workers -> TallyType]
  BY DEF AccountInv, STypeInv, TypeInv
<1>q. [Next]_vars
  BY QueueStep, QueueStutter
<1> SUFFICES ASSUME NEW i \in Items, job'.status # "none", item'[i] \notin Results
             PROVE  \E t \in Tasks : serves'[t] = i /\ ~Succeeded(t)'
  BY DEF LeftOpen
\* Without a commit of its result, a task that is not through stays so.
<1>1. ASSUME \A w \in Workers : ~Finish(w), UNCHANGED serves,
             \E t \in Tasks : serves[t] = i /\ ~Succeeded(t)
      PROVE  \E t \in Tasks : serves'[t] = i /\ ~Succeeded(t)'
  <2>1. PICK t \in Tasks : serves[t] = i /\ ~Succeeded(t)
    BY <1>1
  <2>2. \A w \in Workers : ~HandlerReturns(w)
    BY <1>1, <1>t, ReturnIsFinish
  <2>3. ~Succeeded(t)'
    BY <1>q, <1>t, <2>1, <2>2, SuccessSource
  <2> QED BY <1>1, <2>1, <2>3
<1>2. ASSUME \A w \in Workers : ~Finish(w), UNCHANGED <<item, job, serves>>
      PROVE  \E t \in Tasks : serves'[t] = i /\ ~Succeeded(t)'
  BY <1>1, <1>2 DEF LeftOpen
\* New tasks are not through.
<1>3. ASSUME NEW I \in SUBSET Items, EnqueueItems(I),
             i \in I \/ \E t \in Tasks : serves[t] = i /\ ~Succeeded(t) /\ row[t].status # "absent"
      PROVE  \E t \in Tasks : serves'[t] = i /\ ~Succeeded(t)'
  <2>1. PICK S \in SUBSET Tasks : \E f \in [S -> I] :
          /\ Enqueue(S) /\ serves' = [t \in Tasks |-> IF t \in S THEN f[t] ELSE serves[t]]
          /\ \A j \in I : \E t \in S : f[t] = j
    BY <1>3, NewTasks
  <2>2. PICK f \in [S -> I] :
          /\ serves' = [t \in Tasks |-> IF t \in S THEN f[t] ELSE serves[t]]
          /\ \A j \in I : \E t \in S : f[t] = j
    BY <2>1
  <2>3. ASSUME NEW t \in S PROVE ~Succeeded(t)'
    <3>1. row'[t].status = "PENDING" /\ row[t].status = "absent" /\ UNCHANGED outcomes
      BY <1>t, <2>1 DEF Enqueue, TypeOK, RowType
    <3>2. \A w \in Workers : outcomes[w][t] = "none"
      BY <1>t, <3>1 DEF InsertedInv, Known
    <3> QED BY <3>1, <3>2 DEF Succeeded
  <2>4. CASE i \in I
    <3>1. PICK t \in S : f[t] = i
      BY <2>2, <2>4
    <3>2. t \in Tasks /\ serves'[t] = i
      BY <2>2, <3>1
    <3> QED BY <2>3, <3>2
  <2>5. ASSUME NEW t \in Tasks, serves[t] = i, ~Succeeded(t), row[t].status # "absent"
        PROVE  serves'[t] = i /\ ~Succeeded(t)'
    <3>1. t \notin S
      BY <2>1, <2>5 DEF Enqueue
    <3>2. row'[t] = row[t] /\ outcomes' = outcomes
      BY <2>1, <3>1 DEF Enqueue
    <3> QED BY <2>2, <2>5, <3>1, <3>2 DEF Succeeded
  <2> QED BY <1>3, <2>4, <2>5
<1>4. CASE CreateJob
  BY <1>3, <1>4 DEF CreateJob
<1>5. ASSUME NEW a \in Admins, OpenRetry(a) PROVE \E t \in Tasks : serves'[t] = i /\ ~Succeeded(t)'
  <2>1. vars' = vars /\ UNCHANGED <<item, job, serves>>
    BY <1>5 DEF OpenRetry, LoadForRetry
  <2>2. PICK t \in Tasks : serves[t] = i /\ ~Succeeded(t)
    BY <2>1 DEF LeftOpen
  <2> QED BY <2>1, <2>2 DEF vars, Succeeded
<1>6. ASSUME NEW a \in Admins, CommitRetry(a) PROVE \E t \in Tasks : serves'[t] = i /\ ~Succeeded(t)'
  <2>1. desk[a].failed \in SUBSET Items
    BY <1>6, <1>t, OpenDesk DEF CommitRetry, STypeInv
  <2>2. i \in desk[a].failed \/ (item[i] \notin Results /\ job.status # "none")
    BY <1>6 DEF CommitRetry
  <2>3. \A t \in Tasks : serves[t] = i => row[t].status # "absent"
    BY <1>t, ItemsAssumption DEF STypeInv
  <2> QED BY <1>3, <1>6, <2>1, <2>2, <2>3 DEF CommitRetry, LeftOpen
<1>7. ASSUME NEW w \in Workers, SetProcessing(w)
      PROVE  \E t \in Tasks : serves'[t] = i /\ ~Succeeded(t)'
  <2>1. batch[w] # <<>> /\ pc[w] = "processing" /\ UNCHANGED <<job, serves>>
    BY <1>7 DEF SetProcessing, HandlerCommits
  <2>2. \A v \in Workers : ~Finish(v)
    BY <2>1 DEF OneWorker, Finish, HandlerReturns
  <2>3. CASE i = serves[Current(w)]
    BY <1>1, <1>t, <2>1, <2>2, <2>3, CurrentIsOpen
  <2>4. CASE i # serves[Current(w)]
    <3>1. item'[i] = item[i]
      BY <1>7, <1>t, <2>4 DEF SetProcessing
    <3> QED BY <1>1, <2>1, <2>2, <3>1 DEF LeftOpen
  <2> QED BY <2>3, <2>4
<1>8. ASSUME NEW w \in Workers, Finish(w)
      PROVE  \E t \in Tasks : serves'[t] = i /\ ~Succeeded(t)'
  <2>1. /\ tally[w].result \in Results /\ serves[Current(w)] \in Items /\ batch[w] # <<>>
        /\ item' = [item EXCEPT ![serves[Current(w)]] = tally[w].result]
        /\ UNCHANGED serves
    BY <1>8, <1>t, FinishRows, OpenTally
  <2>2. i # serves[Current(w)] /\ item'[i] = item[i]
    BY <1>t, <2>1
  <2>3. job.status # "none"
    BY <1>8, <1>t, WorkingJob DEF Finish, HandlerReturns, AccountInv
  <2>4. PICK t \in Tasks : serves[t] = i /\ ~Succeeded(t)
    BY <2>2, <2>3 DEF LeftOpen
  <2>5. \A v \in Workers : t # Current(v)
    BY <2>2, <2>4 DEF OneWorker
  <2>6. ~Succeeded(t)'
    BY <1>q, <1>t, <2>4, <2>5, SuccessSource
  <2> QED BY <2>1, <2>4, <2>6
<1>9. ASSUME NEW w \in Workers, RaiseEarly(w) \/ ProcessDies(w)
      PROVE  \E t \in Tasks : serves'[t] = i /\ ~Succeeded(t)'
  <2>1. UNCHANGED <<item, job, serves>>
    BY <1>9 DEF RaiseEarly, ProcessDies, jobVars
  <2>2. pc'[w] = "down" \/ pc[w] = "processing"
    BY <1>9, <1>t
    DEF RaiseEarly, HandlerRaisesEarly, ProcessDies, Crash, TypeOK
  <2>3. \A v \in Workers : ~Finish(v)
    BY <1>t, <2>2 DEF OneWorker, Finish, HandlerReturns, Advance, TypeOK
  <2> QED BY <1>2, <2>1, <2>3
<1>12. ASSUME NEW w \in Workers, RaiseLate(w)
       PROVE  \E t \in Tasks : serves'[t] = i /\ ~Succeeded(t)'
  <2>1. UNCHANGED <<item, job, serves>>
    BY <1>12 DEF RaiseLate
  <2>2. \A v \in Workers : ~HandlerReturns(v)
    BY <1>12, <1>t, RaiseIsNoReturn DEF OneWorker, RaiseLate
  <2>3. \A v \in Workers : ~Finish(v)
    BY <2>2 DEF Finish
  <2> QED BY <1>2, <2>1, <2>3
<1>10. ASSUME NEW w \in Workers, NEW r \in Results, Assess(w, r)
       PROVE  \E t \in Tasks : serves'[t] = i /\ ~Succeeded(t)'
  <2>1. vars' = vars /\ UNCHANGED <<item, job, serves>>
    BY <1>10 DEF Assess, AssessWith
  <2>2. PICK t \in Tasks : serves[t] = i /\ ~Succeeded(t)
    BY <2>1 DEF LeftOpen
  <2> QED BY <2>1, <2>2 DEF vars, Succeeded
<1>11. CASE Elsewhere \/ UNCHANGED allVars
  <2>1. UNCHANGED <<item, job, serves, tally>>
    BY <1>11 DEF Elsewhere, jobVars, allVars
  <2>2. \A v \in Workers : ~Finish(v)
    <3>1. ASSUME NEW v \in Workers, Finish(v) PROVE FALSE
      BY <1>t, <2>1, <3>1, ClosedIsClosed DEF Finish
    <3> QED BY <3>1
  <2> QED BY <1>2, <2>1, <2>2
<1> QED BY <1>4, <1>5, <1>6, <1>7, <1>8, <1>9, <1>10, <1>11, <1>12 DEF SNext

\* With one worker, a queue at rest with no task given up means that the job row
\* is the account of its items: every item has its result (no task was dropped on
\* the way to it, whatever crashed or raised), and the counters are not behind
\* them (run_bulk_item, _recount_job).
THEOREM RestIsAccounted ==
  ASSUME OneWorker
  PROVE  SSpec => []CountersAgreeAtRest
<1> DEFINE Inv == AccountInv /\ LeftOpen
<1>1. SInit => Inv
  BY AccountInit DEF SInit, LeftOpen
<1>2. Inv /\ [SNext]_allVars => Inv'
  BY AccountStep, LeftOpenStep
<1>3. Inv => CountersAgreeAtRest
  <2> SUFFICES ASSUME Inv, AtRest, job.status # "none" PROVE job = Account(item)
    BY DEF CountersAgreeAtRest
  <2>1. ASSUME NEW i \in Items, item[i] \notin Results PROVE FALSE
    <3>1. PICK t \in Tasks : serves[t] = i /\ ~Succeeded(t)
      BY <2>1 DEF LeftOpen
    <3>2. row[t].status # "absent"
      BY <3>1, ItemsAssumption DEF AccountInv, STypeInv
    <3>3. row[t].status = "SUCCEEDED"
      BY <3>2 DEF AtRest
    <3> QED BY <3>1, <3>3 DEF Succeeded
  <2> QED BY <2>1 DEF AccountInv, ScreenedTally
<1> QED BY <1>1, <1>2, <1>3, PTL DEF SSpec

----------------------------------------------------------------------------
(* One worker, one administrator, no early raise: a result stands, with       *)
(* crashes, failed commits and late raises.                                   *)

Alone == \A a, b \in Admins : a = b

\* Every task of an item with a result is through, and of an item without one at
\* most one is not; what a retry has loaded is still FAILED when it commits.
ResultsSpent == \A t \in Tasks : serves[t] # "none" /\ item[serves[t]] \in Results => Spent(t)

OneUnspent ==
  \A t, u \in Tasks :
    serves[t] = serves[u] /\ serves[t] # "none" /\ ~Spent(t) /\ ~Spent(u) => t = u

DeskFresh == \A a \in Admins : desk[a].open => \A i \in desk[a].failed : item[i] = "FAILED"

RetryInv == AccountInv /\ LeaseInv /\ ResultsSpent /\ OneUnspent /\ DeskFresh

\* The item a session is at has no result.
LEMMA CurrentUnspent ==
  ASSUME RetryInv, NEW w \in Workers, batch[w] # <<>>
  PROVE  /\ Current(w) \in Tasks /\ serves[Current(w)] \in Items /\ ~Spent(Current(w))
         /\ item[serves[Current(w)]] \notin Results
<1>1. Current(w) \in Tasks /\ serves[Current(w)] \in Items /\ Held(w, Current(w))
  BY CurrentItem DEF RetryInv, AccountInv
<1>2. PICK t \in Tasks : t = Current(w) /\ Held(w, t) /\ serves[t] \in Items
  BY <1>1
<1>3. ~Spent(t)
  BY <1>2 DEF Spent
<1>4. item[serves[t]] \notin Results
  BY <1>2, <1>3, ItemsAssumption DEF RetryInv, ResultsSpent
<1> QED BY <1>2, <1>3, <1>4

\* What any step may do to an item.
LEMMA ItemStep ==
  ASSUME RetryInv, [SNext]_allVars, NEW i \in Items
  PROVE  \/ item'[i] = item[i]
         \/ item[i] = "none"
         \/ item[i] = "FAILED" /\ item'[i] = "PENDING"
         \/ item[i] \notin Results /\ \E w \in Workers :
              /\ i = serves[Current(w)]
              /\ \/ item'[i] = "PROCESSING"
                 \/ HandlerReturns(w) /\ item'[i] \in Results
<1>t. /\ STypeInv /\ item \in [Items -> ItemStatus] /\ AccountInv
  BY DEF RetryInv, AccountInv, STypeInv
<1>1. CASE UNCHANGED item
  BY <1>1
<1>2. CASE CreateJob
  BY <1>2 DEF CreateJob, RetryInv, AccountInv, JobInv
<1>3. ASSUME NEW a \in Admins, OpenRetry(a) PROVE UNCHANGED item
  BY <1>3 DEF OpenRetry, LoadForRetry
<1>4. ASSUME NEW a \in Admins, CommitRetry(a)
      PROVE  item'[i] = item[i] \/ (item[i] = "FAILED" /\ item'[i] = "PENDING")
  BY <1>4 DEF CommitRetry, RetryInv, DeskFresh
<1>5. ASSUME NEW w \in Workers, SetProcessing(w)
      PROVE  \/ item'[i] = item[i]
             \/ item[i] \notin Results /\ i = serves[Current(w)] /\ item'[i] = "PROCESSING"
  BY <1>5, <1>t, CurrentUnspent DEF SetProcessing, HandlerCommits
<1>6. ASSUME NEW w \in Workers, Finish(w)
      PROVE  \/ item'[i] = item[i]
             \/ item[i] \notin Results /\ i = serves[Current(w)] /\ HandlerReturns(w) /\ item'[i] \in Results
  BY <1>6, <1>t, CurrentUnspent, FinishRows, OpenTally
<1>7. ASSUME NEW w \in Workers, RaiseEarly(w) \/ RaiseLate(w) \/ ProcessDies(w) PROVE UNCHANGED item
  BY <1>7 DEF RaiseEarly, RaiseLate, ProcessDies, jobVars
<1>8. ASSUME NEW w \in Workers, NEW r \in Results, Assess(w, r) PROVE UNCHANGED item
  BY <1>8 DEF Assess, AssessWith
<1>9. Elsewhere \/ UNCHANGED allVars => UNCHANGED item
  BY DEF Elsewhere, jobVars, allVars
<1> QED BY <1>1, <1>2, <1>3, <1>4, <1>5, <1>6, <1>7, <1>8, <1>9 DEF SNext

\* How any step leaves the tasks and their items: either no task gets an item,
\* or new tasks get one each and whoever else serves it is through.
LEMMA ServesStep ==
  ASSUME RetryInv, [SNext]_allVars
  PROVE  \/ UNCHANGED serves
         \/ \E S \in SUBSET Tasks :
              /\ \A t \in S : /\ row[t].status = "absent" /\ serves[t] = "none"
                              /\ serves'[t] \in Items /\ item'[serves'[t]] = "PENDING"
                              /\ \A u \in Tasks \ S : serves[u] = serves'[t] => Spent(u)
              /\ \A t, u \in S : serves'[t] = serves'[u] => t = u
              /\ \A t \in Tasks \ S : serves'[t] = serves[t]
<1>t. STypeInv /\ JobInv /\ \A t \in Tasks : serves[t] = "none" <=> row[t].status = "absent"
  BY DEF RetryInv, AccountInv, STypeInv
<1>1. ASSUME NEW I \in SUBSET Items, EnqueueItems(I), \A i \in I : item'[i] = "PENDING",
             \A i \in I, u \in Tasks : serves[u] = i => Spent(u)
      PROVE  \E S \in SUBSET Tasks :
              /\ \A t \in S : /\ row[t].status = "absent" /\ serves[t] = "none"
                              /\ serves'[t] \in Items /\ item'[serves'[t]] = "PENDING"
                              /\ \A u \in Tasks \ S : serves[u] = serves'[t] => Spent(u)
              /\ \A t, u \in S : serves'[t] = serves'[u] => t = u
              /\ \A t \in Tasks \ S : serves'[t] = serves[t]
  <2>1. PICK S \in SUBSET Tasks : \E f \in [S -> I] :
          /\ Enqueue(S) /\ serves' = [t \in Tasks |-> IF t \in S THEN f[t] ELSE serves[t]]
          /\ \A t, u \in S : f[t] = f[u] => t = u
    BY <1>1, NewTasks
  <2>2. PICK f \in [S -> I] :
          /\ serves' = [t \in Tasks |-> IF t \in S THEN f[t] ELSE serves[t]]
          /\ \A t, u \in S : f[t] = f[u] => t = u
    BY <2>1
  <2>3. \A t \in S : row[t].status = "absent" /\ serves[t] = "none" /\ serves'[t] = f[t] /\ f[t] \in I
    BY <1>t, <2>1, <2>2 DEF Enqueue
  <2>4. ASSUME NEW t \in S
        PROVE  /\ serves'[t] \in Items /\ item'[serves'[t]] = "PENDING"
               /\ \A u \in Tasks \ S : serves[u] = serves'[t] => Spent(u)
    BY <1>1, <2>3
  <2>5. \A t, u \in S : serves'[t] = serves'[u] => t = u
    BY <2>2, <2>3
  <2>6. \A t \in Tasks \ S : serves'[t] = serves[t]
    BY <2>2
  <2> QED BY <2>3, <2>4, <2>5, <2>6
<1>2. CASE CreateJob
  <2>1. \A u \in Tasks : serves[u] = "none"
    BY <1>2, <1>t DEF CreateJob, JobInv
  <2>2. \A i \in Items, u \in Tasks : serves[u] = i => Spent(u)
    BY <2>1, ItemsAssumption
  <2> QED BY <1>1, <1>2, <2>2 DEF CreateJob
<1>3. ASSUME NEW a \in Admins, OpenRetry(a) PROVE UNCHANGED serves
  BY <1>3 DEF OpenRetry, LoadForRetry
<1>4. ASSUME NEW a \in Admins, CommitRetry(a)
      PROVE  \E S \in SUBSET Tasks :
              /\ \A t \in S : /\ row[t].status = "absent" /\ serves[t] = "none"
                              /\ serves'[t] \in Items /\ item'[serves'[t]] = "PENDING"
                              /\ \A u \in Tasks \ S : serves[u] = serves'[t] => Spent(u)
              /\ \A t, u \in S : serves'[t] = serves'[u] => t = u
              /\ \A t \in Tasks \ S : serves'[t] = serves[t]
  <2>1. desk[a].failed \in SUBSET Items /\ EnqueueItems(desk[a].failed)
    BY <1>4, <1>t, OpenDesk DEF CommitRetry, STypeInv
  <2>2. \A i \in desk[a].failed : item[i] = "FAILED" /\ item'[i] = "PENDING"
    BY <1>4, <2>1 DEF CommitRetry, RetryInv, DeskFresh
  <2>3. \A i \in desk[a].failed, u \in Tasks : serves[u] = i => Spent(u)
    BY <2>1, <2>2, ItemsAssumption DEF RetryInv, ResultsSpent, Results
  <2> QED BY <1>1, <2>1, <2>2, <2>3
<1>5. ASSUME NEW w \in Workers, \/ RaiseEarly(w) \/ SetProcessing(w) \/ RaiseLate(w)
                               \/ Finish(w) \/ ProcessDies(w)
      PROVE  UNCHANGED serves
  BY <1>5 DEF RaiseEarly, SetProcessing, RaiseLate, Finish, ProcessDies, jobVars
<1>6. ASSUME NEW w \in Workers, NEW r \in Results, Assess(w, r) PROVE UNCHANGED serves
  BY <1>6 DEF Assess, AssessWith
<1>7. Elsewhere \/ UNCHANGED allVars => UNCHANGED serves
  BY DEF Elsewhere, jobVars, allVars
<1> QED BY <1>2, <1>3, <1>4, <1>5, <1>6, <1>7 DEF SNext

\* Only a retry puts a failed item back.
LEMMA NoReopening ==
  ASSUME RetryInv, [SNext]_allVars, NEW i \in Items, item[i] = "FAILED",
         \A a \in Admins : ~CommitRetry(a)
  PROVE  item'[i] = "FAILED"
<1>t. /\ STypeInv /\ item \in [Items -> ItemStatus]
  BY DEF RetryInv, AccountInv, STypeInv
<1>1. ~CreateJob
  BY DEF CreateJob, RetryInv, AccountInv, JobInv
<1>2. ASSUME NEW a \in Admins, OpenRetry(a) PROVE UNCHANGED item
  BY <1>2 DEF OpenRetry, LoadForRetry
<1>3. ASSUME NEW w \in Workers, SetProcessing(w) PROVE item'[i] = item[i]
  BY <1>3, <1>t, CurrentUnspent DEF SetProcessing, HandlerCommits, Results
<1>4. ASSUME NEW w \in Workers, Finish(w) PROVE item'[i] = item[i]
  BY <1>4, <1>t, CurrentUnspent, FinishRows DEF Results
<1>5. ASSUME NEW w \in Workers, RaiseEarly(w) \/ RaiseLate(w) \/ ProcessDies(w) PROVE UNCHANGED item
  BY <1>5 DEF RaiseEarly, RaiseLate, ProcessDies, jobVars
<1>6. ASSUME NEW w \in Workers, NEW r \in Results, Assess(w, r) PROVE UNCHANGED item
  BY <1>6 DEF Assess, AssessWith
<1>7. Elsewhere \/ UNCHANGED allVars => UNCHANGED item
  BY DEF Elsewhere, jobVars, allVars
<1> QED BY <1>1, <1>2, <1>3, <1>4, <1>5, <1>6, <1>7 DEF SNext

LEMMA RetryStep ==
  ASSUME RetryInv, [SNext]_allVars, OneWorker, Alone, RaisesEarly = {}
  PROVE  RetryInv'
<1>t. /\ STypeInv /\ SingleWorkerInv /\ AccountInv /\ \A t \in Tasks : serves[t] \in Items \cup {"none"}
      /\ item \in [Items -> ItemStatus] /\ desk \in [Admins -> DeskType]
  BY DEF RetryInv, AccountInv, STypeInv
<1>q. [Next]_vars
  BY QueueStep, QueueStutter
<1>1. AccountInv'
  BY <1>t, AccountStep
<1>2. LeaseInv'
  <2>1. \A w \in Workers : ~HandlerRaisesEarly(w)
    BY DEF HandlerRaisesEarly
  <2> QED BY <1>t, <1>q, <2>1, LeaseStep DEF RetryInv
\* What is through stays so.
<1>3. \A t \in Tasks : Spent(t) => Spent(t)'
  BY <1>t, <1>q, SpentStep
<1>4. ResultsSpent'
  <2> SUFFICES ASSUME NEW t \in Tasks, serves'[t] # "none", item'[serves'[t]] \in Results
               PROVE  Spent(t)'
    BY DEF ResultsSpent
  <2>1. serves'[t] = serves[t] /\ serves[t] \in Items
    BY <1>t, ServesStep DEF Results
  <2>2. CASE item[serves[t]] \in Results
    BY <1>3, <2>1, <2>2 DEF RetryInv, ResultsSpent
  <2>3. CASE item[serves[t]] \notin Results
    <3>1. item[serves[t]] # "none"
      <4>1. row[t].status # "absent"
        BY <1>t, <2>1, ItemsAssumption DEF STypeInv
      <4> QED BY <2>1, <4>1 DEF RetryInv, AccountInv, JobInv
    <3>2. PICK w \in Workers : serves[t] = serves[Current(w)] /\ HandlerReturns(w)
      BY <2>1, <2>3, <3>1, ItemStep DEF Results
    <3>3. PICK u \in Tasks : u = Current(w) /\ ~Spent(u) /\ Spent(u)'
      BY <1>t, <3>2, ReturnsSpends DEF RetryInv
    <3>4. Spent(t) \/ t = u
      BY <2>1, <3>2, <3>3, ItemsAssumption DEF RetryInv, OneUnspent
    <3> QED BY <1>3, <3>3, <3>4
  <2> QED BY <2>2, <2>3
<1>5. OneUnspent'
  <2> SUFFICES ASSUME NEW t \in Tasks, NEW u \in Tasks, serves'[t] = serves'[u], serves'[t] # "none",
                      ~Spent(t)', ~Spent(u)'
               PROVE  t = u
    BY DEF OneUnspent
  <2>1. ~Spent(t) /\ ~Spent(u)
    BY <1>3
  <2>2. CASE UNCHANGED serves
    BY <2>1, <2>2 DEF RetryInv, OneUnspent
  <2>3. CASE ~UNCHANGED serves
    <3>1. PICK S \in SUBSET Tasks :
              /\ \A x \in S : \A y \in Tasks \ S : serves[y] = serves'[x] => Spent(y)
              /\ \A x, y \in S : serves'[x] = serves'[y] => x = y
              /\ \A x \in Tasks \ S : serves'[x] = serves[x]
      BY <2>3, ServesStep
    <3>2. CASE t \in S /\ u \in S
      BY <3>1, <3>2
    <3>3. CASE t \in S /\ u \notin S
      BY <2>1, <3>1, <3>3
    <3>4. CASE t \notin S /\ u \in S
      BY <2>1, <3>1, <3>4
    <3>5. CASE t \notin S /\ u \notin S
      BY <2>1, <3>1, <3>5 DEF RetryInv, OneUnspent
    <3> QED BY <3>2, <3>3, <3>4, <3>5
  <2> QED BY <2>2, <2>3
<1>6. DeskFresh'
  <2> SUFFICES ASSUME NEW a \in Admins, desk'[a].open, NEW i \in desk'[a].failed
               PROVE  item'[i] = "FAILED"
    BY DEF DeskFresh
  <2>1. CASE UNCHANGED desk /\ \A b \in Admins : ~CommitRetry(b)
    <3>1. desk[a].open /\ i \in desk[a].failed /\ item[i] = "FAILED" /\ i \in Items
      BY <1>t, <2>1, OpenDesk DEF RetryInv, DeskFresh
    <3> QED BY <2>1, <3>1, NoReopening
  <2>2. ASSUME NEW b \in Admins, OpenRetry(b) PROVE item'[i] = "FAILED"
    <3>1. a = b /\ desk'[a] = [open |-> TRUE, failed |-> {j \in Items : item[j] = "FAILED"}]
      BY <1>t, <2>2 DEF Alone, OpenRetry, LoadForRetry
    <3>2. item[i] = "FAILED" /\ item' = item
      BY <2>2, <3>1 DEF OpenRetry, LoadForRetry
    <3> QED BY <3>2
  <2>3. ASSUME NEW b \in Admins, CommitRetry(b) PROVE item'[i] = "FAILED"
    <3>1. desk'[a] = Closed
      BY <1>t, <2>3 DEF Alone, CommitRetry
    <3> QED BY <3>1, ClosedIsClosed
  <2>4. UNCHANGED desk \/ \E b \in Admins : OpenRetry(b) \/ CommitRetry(b)
    BY DEF SNext, CreateJob, RaiseEarly, SetProcessing, RaiseLate, Finish, ProcessDies, Assess,
           AssessWith, Elsewhere, jobVars, allVars
  <2> QED BY <2>1, <2>2, <2>3, <2>4
<1> QED BY <1>1, <1>2, <1>4, <1>5, <1>6 DEF RetryInv

\* With one worker, one administrator and no handler that raises before its first
\* commit, the result of a screened document is never overwritten, whatever
\* crashes or raises later: each item has at most one task that can still run, a
\* lost outcome leaves its task CLAIMED and never claimed again, and only a failed
\* item gets a new one (retry_failed_items, claim).
THEOREM ResultsStand ==
  ASSUME OneWorker, Alone, RaisesEarly = {}
  PROVE  SSpec => ResultStands
<1>1. SInit => RetryInv
  <2>1. SInit => ResultsSpent /\ OneUnspent /\ DeskFresh
    BY ClosedIsClosed DEF SInit, ResultsSpent, OneUnspent, DeskFresh
  <2> QED BY <2>1, AccountInit, LeaseInit DEF SInit, RetryInv
<1>2. RetryInv /\ [SNext]_allVars => RetryInv'
  BY RetryStep
<1>3. RetryInv /\ [SNext]_allVars => [\A i \in Items : item[i] \in Screened => item'[i] = item[i]]_item
  BY ItemStep DEF Screened, Results
<1> QED BY <1>1, <1>2, <1>3, PTL DEF SSpec, ResultStands

----------------------------------------------------------------------------
(* And without a crash or a failed commit: COMPLETED is the truth, and no     *)
(* item is forgotten or queued twice.                                         *)

\* An item in PROCESSING has a handler at work on it, which will replace it.
Attended ==
  \A i \in Items : item[i] = "PROCESSING" => \E w \in Workers : pc[w] = "handling" /\ At(w) = i

\* A count that will commit COMPLETED has a result for every other item, and
\* keeps it: a retry in between finds no failed item.
WillComplete ==
  \A w \in Workers : tally[w].open /\ tally[w].counted.status = "COMPLETED" =>
    tally[w].result \in Screened /\ \A i \in Items \ {At(w)} : item[i] \in Screened

CompletionInv == RetryInv /\ Attended /\ WillComplete /\ CompletedMeansScreened

\* A retry leaves alone what a handler is at.
LEMMA RetryKeepsAt ==
  ASSUME STypeInv, JobInv, NEW a \in Admins, CommitRetry(a), NEW w \in Workers, pc[w] = "handling"
  PROVE  UNCHANGED <<pc, batch>> /\ At(w)' = At(w)
<1>1. Current(w) \in Tasks /\ row[Current(w)].status # "absent"
  BY WorkingJob
<1>2. PICK S \in SUBSET Tasks : \E f \in [S -> desk[a].failed] :
        /\ Enqueue(S) /\ serves' = [t \in Tasks |-> IF t \in S THEN f[t] ELSE serves[t]]
  BY NewTasks DEF CommitRetry
<1> QED BY <1>1, <1>2 DEF Enqueue, At, Current

\* Faults take a step, and there is none to take.
LEMMA NoFault ==
  ASSUME TypeOK, MaxFaults = 0, NEW w \in Workers
  PROVE  ~EndPassFails(w) /\ ~Crash(w)
  BY DEF EndPassFails, Crash, TypeOK

LEMMA AttendedStep ==
  ASSUME CompletionInv, [SNext]_allVars, OneWorker, MaxFaults = 0,
         RaisesEarly = {}, RaisesLate = {}
  PROVE  Attended'
<1>t. /\ STypeInv /\ JobInv /\ TypeOK /\ item \in [Items -> ItemStatus]
      /\ pc \in [Workers -> {"claiming", "processing", "handling", "down"}]
  BY DEF CompletionInv, RetryInv, AccountInv, STypeInv, TypeInv, TypeOK
<1> SUFFICES ASSUME NEW i \in Items, item'[i] = "PROCESSING"
             PROVE  \E w \in Workers : pc'[w] = "handling" /\ At(w)' = i
  BY DEF Attended
<1>a. item[i] = "PROCESSING" => \E w \in Workers : pc[w] = "handling" /\ At(w) = i
  BY DEF CompletionInv, Attended
<1>1. ASSUME UNCHANGED <<item, pc, batch, serves>>
      PROVE  \E w \in Workers : pc'[w] = "handling" /\ At(w)' = i
  BY <1>1, <1>a DEF At, Current
<1>2. ~CreateJob
  BY DEF CreateJob
<1>3. ASSUME NEW a \in Admins, OpenRetry(a)
      PROVE  \E w \in Workers : pc'[w] = "handling" /\ At(w)' = i
  BY <1>1, <1>3 DEF OpenRetry, LoadForRetry, vars
<1>4. ASSUME NEW a \in Admins, CommitRetry(a)
      PROVE  \E w \in Workers : pc'[w] = "handling" /\ At(w)' = i
  <2>1. item[i] = "PROCESSING"
    BY <1>4 DEF CommitRetry
  <2>2. PICK w \in Workers : pc[w] = "handling" /\ At(w) = i
    BY <1>a, <2>1
  <2>3. UNCHANGED pc /\ At(w)' = i
    BY <1>4, <1>t, <2>2, RetryKeepsAt
  <2> QED BY <2>2, <2>3
<1>5. ASSUME NEW w \in Workers, SetProcessing(w)
      PROVE  \E v \in Workers : pc'[v] = "handling" /\ At(v)' = i
  <2>1. item[i] # "PROCESSING"
    BY <1>5, <1>a DEF SetProcessing, HandlerCommits, OneWorker
  <2>2. i = serves[Current(w)]
    BY <1>5, <1>t, <2>1 DEF SetProcessing
  <2>3. pc'[w] = "handling" /\ At(w)' = At(w)
    BY <1>5, <1>t DEF SetProcessing, HandlerCommits, At, Current
  <2> QED BY <2>2, <2>3 DEF At
<1>6. ASSUME NEW w \in Workers, Finish(w) PROVE FALSE
  <2>1. item' = [item EXCEPT ![At(w)] = tally[w].result] /\ tally[w].result # "PROCESSING"
    BY <1>6, <1>t, FinishRows, OpenTally DEF At, Results
  <2>2. i # At(w) /\ item[i] = "PROCESSING"
    BY <1>t, <2>1
  <2> QED BY <1>a, <2>2 DEF OneWorker
<1>7. \A w \in Workers : ~RaiseEarly(w) /\ ~RaiseLate(w) /\ ~ProcessDies(w)
  BY <1>t, NoFault DEF RaiseEarly, HandlerRaisesEarly, RaiseLate, HandlerRaisesLate, ProcessDies
<1>8. ASSUME NEW w \in Workers, NEW r \in Results, Assess(w, r)
      PROVE  \E v \in Workers : pc'[v] = "handling" /\ At(v)' = i
  BY <1>1, <1>8 DEF Assess, AssessWith, vars
<1>9. CASE Elsewhere
  <2>1. ASSUME NEW t \in Tasks, Elapse(t)
        PROVE  \E v \in Workers : pc'[v] = "handling" /\ At(v)' = i
    BY <1>1, <1>9, <2>1 DEF Elsewhere, Elapse, jobVars
  <2>2. ASSUME NEW w \in Workers,
               Claim(w) \/ StartBatch(w) \/ EndPass(w) \/ EndPassFails(w) \/ Restart(w)
        PROVE  FALSE
    <3>1. pc[w] # "handling"
      BY <2>2 DEF Claim, StartBatch, EndPass, EndPassFails, Restart
    <3> QED BY <1>9, <1>a, <3>1 DEF Elsewhere, jobVars, OneWorker
  <2> QED BY <1>9, <2>1, <2>2 DEF Elsewhere
<1>10. CASE UNCHANGED allVars
  BY <1>1, <1>10 DEF allVars, vars, jobVars
<1> QED BY <1>2, <1>3, <1>4, <1>5, <1>6, <1>7, <1>8, <1>9, <1>10 DEF SNext

\* A retry that commits while nothing is failed changes no item.
LEMMA IdleRetry ==
  ASSUME RetryInv, NEW a \in Admins, CommitRetry(a), \A i \in Items : item[i] # "FAILED"
  PROVE  item' = item
<1>1. \A i \in Items : i \notin desk[a].failed
  BY DEF RetryInv, DeskFresh, CommitRetry
<1> QED BY <1>1 DEF CommitRetry, RetryInv, AccountInv, STypeInv

\* A count of no failed item means that there is none.
LEMMA NoneFailed ==
  ASSUME NEW s, Count(s, "FAILED") = 0
  PROVE  \A i \in Items : s[i] # "FAILED"
<1> DEFINE F == {i \in Items : s[i] = "FAILED"}
<1>1. IsFiniteSet(F) /\ Cardinality(F) = 0
  BY Counted DEF Count
<1>2. F = {}
  BY <1>1, FS_EmptySet
<1> QED BY <1>2

LEMMA WillCompleteStep ==
  ASSUME CompletionInv, [SNext]_allVars, OneWorker
  PROVE  WillComplete'
<1>t. /\ STypeInv /\ JobInv /\ TallyInv /\ RetryInv /\ TypeOK
      /\ item \in [Items -> ItemStatus] /\ tally \in [Workers -> TallyType]
  BY DEF CompletionInv, RetryInv, AccountInv, STypeInv, TypeInv
<1> SUFFICES ASSUME NEW w \in Workers, tally'[w].open, tally'[w].counted.status = "COMPLETED"
             PROVE  tally'[w].result \in Screened /\ \A i \in Items \ {At(w)'} : item'[i] \in Screened
  BY DEF WillComplete
<1>o. \A v \in Workers : v = w
  BY DEF OneWorker
\* A tally that was open already, with a handler at work.
<1>k. ASSUME tally' = tally
      PROVE  /\ tally[w].open /\ pc[w] = "handling" /\ tally[w].result \in Screened
             /\ \A i \in Items \ {At(w)} : item[i] \in Screened
             /\ job.status # "none" /\ item[At(w)] \notin Results
  <2>1. tally[w].open /\ pc[w] = "handling"
    BY <1>k, <1>t DEF TallyInv, Told
  <2>2. tally[w].result \in Screened /\ \A i \in Items \ {At(w)} : item[i] \in Screened
    BY <1>k, <2>1 DEF CompletionInv, WillComplete
  <2>3. job.status # "none" /\ batch[w] # <<>>
    BY <1>t, <2>1, WorkingJob
  <2> QED BY <1>t, <2>1, <2>2, <2>3, CurrentUnspent DEF At
<1>1. ASSUME UNCHANGED <<batch, serves, item, tally>>
      PROVE  tally'[w].result \in Screened /\ \A i \in Items \ {At(w)'} : item'[i] \in Screened
  BY <1>1, <1>k DEF At, Current
<1>2. ~CreateJob
  BY <1>k DEF CreateJob
<1>3. ASSUME NEW a \in Admins, OpenRetry(a)
      PROVE  tally'[w].result \in Screened /\ \A i \in Items \ {At(w)'} : item'[i] \in Screened
  BY <1>1, <1>3 DEF OpenRetry, LoadForRetry, vars
<1>4. ASSUME NEW a \in Admins, CommitRetry(a)
      PROVE  tally'[w].result \in Screened /\ \A i \in Items \ {At(w)'} : item'[i] \in Screened
  <2>1. tally' = tally
    BY <1>4 DEF CommitRetry
  <2>2. \A i \in Items : item[i] # "FAILED"
    BY <1>k, <2>1 DEF Screened, Results
  <2>3. item' = item /\ At(w)' = At(w)
    BY <1>4, <1>t, <1>k, <2>1, <2>2, IdleRetry, RetryKeepsAt
  <2> QED BY <1>k, <2>1, <2>3
<1>5. \A v \in Workers : ~RaiseEarly(v) /\ ~SetProcessing(v)
  BY <1>k, <1>o DEF RaiseEarly, SetProcessing, HandlerRaisesEarly, HandlerCommits, jobVars
<1>6. ASSUME NEW v \in Workers, Finish(v) \/ RaiseLate(v) \/ ProcessDies(v) PROVE FALSE
  <2>1. tally'[w] = Closed
    BY <1>t, <1>o, <1>6 DEF Finish, RaiseLate, ProcessDies
  <2> QED BY <2>1, ClosedIsClosed
<1>7. ASSUME NEW v \in Workers, NEW r \in Results, Assess(v, r)
      PROVE  tally'[w].result \in Screened /\ \A i \in Items \ {At(w)'} : item'[i] \in Screened
  <2> DEFINE s == [item EXCEPT ![At(w)] = r]
  <2>1. /\ pc[w] = "handling" /\ UNCHANGED <<pc, batch, serves, item, job>>
        /\ tally'[w] = [open |-> TRUE, result |-> r, seen |-> job, counted |-> Recount(s)]
    BY <1>t, <1>o, <1>7 DEF Assess, AssessWith, vars, At
  <2>2. At(w) \in Items /\ job.status # "none" /\ At(w)' = At(w) /\ batch[w] # <<>>
    BY <1>t, <2>1, WorkingJob DEF At, Current
  <2>3. job.status # "COMPLETED"
    <3>1. item[At(w)] \notin Results
      BY <1>t, <2>2, CurrentUnspent DEF At
    <3> QED BY <2>2, <3>1 DEF CompletionInv, CompletedMeansScreened, Screened, Results
  <2>r. Recount(s).status = "COMPLETED" /\ tally'[w].result = r
    BY <2>1
  <2>i. s[At(w)] = r /\ \A i \in Items \ {At(w)} : s[i] = item[i]
    BY <1>t, <2>2
  <2> HIDE DEF s
  <2>4. Done(s) = Items /\ Count(s, "FAILED") = 0
    BY <2>r, <2>3 DEF Recount, RecountAs, Final
  <2>5. \A i \in Items : s[i] # "PENDING" /\ s[i] # "FAILED"
    BY <2>4, NoneFailed DEF Done
  <2>6. r \in Screened
    BY <2>2, <2>5, <2>i DEF Results, Screened
  <2>7. ASSUME NEW i \in Items \ {At(w)} PROVE item[i] \in Screened
    <3>1. item[i] # "PENDING" /\ item[i] # "FAILED"
      BY <2>5, <2>i
    <3>2. item[i] # "PROCESSING"
      BY <1>o DEF CompletionInv, Attended
    <3>3. item[i] # "none" /\ item[i] \in ItemStatus
      BY <1>t, <2>2 DEF JobInv
    <3> QED BY <3>1, <3>2, <3>3 DEF ItemStatus, Results, Screened
  <2> QED BY <2>1, <2>2, <2>r, <2>6, <2>7
<1>8. CASE Elsewhere
  <2>1. CASE \E t \in Tasks : Elapse(t)
    BY <1>1, <1>8, <2>1 DEF Elsewhere, Elapse, jobVars
  <2>2. ASSUME NEW v \in Workers,
               Claim(v) \/ StartBatch(v) \/ EndPass(v) \/ EndPassFails(v) \/ Restart(v)
        PROVE  FALSE
    <3>1. pc[w] # "handling"
      BY <1>o, <2>2 DEF Claim, StartBatch, EndPass, EndPassFails, Restart
    <3> QED BY <1>8, <1>k, <3>1 DEF Elsewhere, jobVars
  <2> QED BY <1>8, <2>1, <2>2 DEF Elsewhere
<1>9. CASE UNCHANGED allVars
  BY <1>1, <1>9 DEF allVars, vars, jobVars
<1> QED BY <1>2, <1>3, <1>4, <1>5, <1>6, <1>7, <1>8, <1>9 DEF SNext

LEMMA CompletedStep ==
  ASSUME CompletionInv, [SNext]_allVars
  PROVE  CompletedMeansScreened'
<1>t. RetryInv /\ STypeInv /\ TallyInv /\ CompletedMeansScreened /\ item \in [Items -> ItemStatus]
  BY DEF CompletionInv, RetryInv, AccountInv, STypeInv
<1> SUFFICES ASSUME job'.status = "COMPLETED" PROVE \A i \in Items : item'[i] \in Screened
  BY DEF CompletedMeansScreened
<1>1. ASSUME UNCHANGED <<item, job>> PROVE \A i \in Items : item'[i] \in Screened
  BY <1>1, <1>t DEF CompletedMeansScreened
<1>2. ~CreateJob
  BY DEF CreateJob, CompletionInv, RetryInv, AccountInv, STypeInv, JobType
<1>3. ASSUME NEW a \in Admins, OpenRetry(a) PROVE \A i \in Items : item'[i] \in Screened
  BY <1>1, <1>3 DEF OpenRetry, LoadForRetry
<1>4. ASSUME NEW a \in Admins, CommitRetry(a) PROVE \A i \in Items : item'[i] \in Screened
  <2>1. job' = job /\ \A i \in Items : item[i] # "FAILED"
    BY <1>4, <1>t DEF CommitRetry, CompletedMeansScreened, Screened
  <2> QED BY <1>1, <1>4, <1>t, <2>1, IdleRetry
<1>5. ASSUME NEW w \in Workers, SetProcessing(w) PROVE FALSE
  <2>1. serves[Current(w)] \in Items /\ item[serves[Current(w)]] \notin Results /\ job' = job
    BY <1>5, <1>t, CurrentUnspent DEF SetProcessing, HandlerCommits
  <2> QED BY <1>t, <2>1 DEF CompletedMeansScreened, Screened, Results
<1>6. ASSUME NEW w \in Workers, Finish(w) PROVE \A i \in Items : item'[i] \in Screened
  <2>1. /\ tally[w].open /\ At(w) \in Items /\ item' = [item EXCEPT ![At(w)] = tally[w].result]
    BY <1>6, <1>t, FinishRows DEF At
  <2>2. tally[w].counted.status = "COMPLETED"
    BY <1>6, <1>t, FinishAccount
  <2> QED BY <1>t, <2>1, <2>2 DEF CompletionInv, WillComplete
<1>7. ASSUME NEW w \in Workers, RaiseEarly(w) \/ RaiseLate(w) \/ ProcessDies(w)
      PROVE  \A i \in Items : item'[i] \in Screened
  BY <1>1, <1>7 DEF RaiseEarly, RaiseLate, ProcessDies, jobVars
<1>8. ASSUME NEW w \in Workers, NEW r \in Results, Assess(w, r)
      PROVE  \A i \in Items : item'[i] \in Screened
  BY <1>1, <1>8 DEF Assess, AssessWith
<1>9. CASE Elsewhere \/ UNCHANGED allVars
  BY <1>1, <1>9 DEF Elsewhere, jobVars, allVars
<1> QED BY <1>2, <1>3, <1>4, <1>5, <1>6, <1>7, <1>8, <1>9 DEF SNext

LEMMA CompletionInit == SInit => CompletionInv
<1> SUFFICES ASSUME SInit PROVE CompletionInv
  OBVIOUS
<1>1. ResultsSpent /\ OneUnspent /\ DeskFresh
  BY ClosedIsClosed DEF SInit, ResultsSpent, OneUnspent, DeskFresh
<1>2. Attended /\ WillComplete /\ CompletedMeansScreened
  BY ClosedIsClosed DEF SInit, Attended, WillComplete, CompletedMeansScreened
<1> QED BY <1>1, <1>2, AccountInit, LeaseInit DEF SInit, RetryInv, CompletionInv

LEMMA CompletionStep ==
  ASSUME CompletionInv, [SNext]_allVars, OneWorker, Alone, MaxFaults = 0,
         RaisesEarly = {}, RaisesLate = {}
  PROVE  CompletionInv'
<1>1. RetryInv'
  BY RetryStep DEF CompletionInv
<1> QED BY <1>1, AttendedStep, WillCompleteStep, CompletedStep DEF CompletionInv

\* As long as one worker serves the queue, one administrator retries, handlers do
\* not raise and nothing crashes, a job shown COMPLETED has a result for each of
\* its documents, and none failed: what _recount_job takes for done although it
\* is PROCESSING is the item its own handler is about to settle.
THEOREM CompletedIsTrue ==
  ASSUME OneWorker, Alone, MaxFaults = 0, RaisesEarly = {}, RaisesLate = {}
  PROVE  SSpec => []CompletedMeansScreened
<1>1. CompletionInv /\ [SNext]_allVars => CompletionInv'
  BY CompletionStep
<1>2. CompletionInv => CompletedMeansScreened
  BY DEF CompletionInv
<1> QED BY <1>1, <1>2, CompletionInit, PTL DEF SSpec

\* Spent and succeeded are then the same.
LEMMA SpentIsSucceeded ==
  ASSUME RetryInv, HolderInv, Untroubled, OneWorker, NEW t \in Tasks
  PROVE  Spent(t) <=> Succeeded(t)
<1>t. SingleWorkerInv /\ SessionInv /\ LeaseInv /\ NoStrandedClaim /\ TypeOK
  BY DEF RetryInv, AccountInv, SingleWorkerInv, TypeInv, HolderInv
<1>1. ASSUME Spent(t) PROVE Succeeded(t)
  BY <1>1, <1>t DEF Spent, Succeeded, NoStrandedClaim
<1>2. ASSUME row[t].status = "SUCCEEDED", NEW w \in Workers
      PROVE  ~Held(w, t) /\ outcomes[w][t] = "none"
  BY <1>2, <1>t DEF SessionInv, SessionOf, Open, Settled
<1>3. ASSUME NEW w \in Workers, outcomes[w][t] = "SUCCEEDED"
      PROVE  row[t].status = "CLAIMED" /\ ~Held(w, t)
  BY <1>3, <1>t DEF SessionInv, SessionOf, LeaseInv
<1>4. ASSUME Succeeded(t) PROVE Spent(t)
  BY <1>2, <1>3, <1>4 DEF Spent, Succeeded, Untroubled, OneWorker
<1> QED BY <1>1, <1>4

\* Under the same conditions no item is forgotten and none is queued twice: an
\* item waiting or at work has exactly one open task, one with a result has none
\* (create_job, retry_failed_items, process_task).
THEOREM OneTaskEach ==
  ASSUME OneWorker, Alone, MaxFaults = 0, RaisesEarly = {}, RaisesLate = {}
  PROVE  SSpec => []OneTaskPerOpenItem
<1> DEFINE Inv == RetryInv /\ HolderInv /\ Untroubled /\ LeftOpen
<1>1. SInit => Inv
  <2>1. SInit => HolderInv
    BY DEF SInit, Init, HolderInv, NoStrandedClaim, NoClaims, NoOutcomes
  <2>2. SInit => Untroubled /\ LeftOpen
    BY DEF SInit, Init, Untroubled, LeftOpen, NoOutcomes
  <2> QED BY <2>1, <2>2, CompletionInit DEF CompletionInv
<1>2. Inv /\ [SNext]_allVars => Inv'
  <2> SUFFICES ASSUME Inv, [SNext]_allVars PROVE Inv'
    OBVIOUS
  <2>1. TypeInv /\ AccountInv
    BY DEF RetryInv, AccountInv, STypeInv
  <2>2. HolderInv'
    BY <2>1, QueueStep, QueueStutter, HolderStep
  <2>3. Untroubled'
    BY <2>1, PlainStep, UntroubledStep
  <2> QED BY <2>1, <2>2, <2>3, RetryStep, LeftOpenStep
<1>3. Inv => OneTaskPerOpenItem
  <2> SUFFICES ASSUME Inv, job.status # "none", NEW i \in Items
               PROVE  Cardinality(ServedBy(i) \ JustServed) = IF item[i] \in Results THEN 0 ELSE 1
    BY DEF OneTaskPerOpenItem
  <2>1. \A t \in Tasks : t \in ServedBy(i) \ JustServed <=> serves[t] = i /\ ~Succeeded(t)
    BY DEF ServedBy, JustServed, Succeeded, Settled, Untroubled
  <2>2. \A t \in Tasks : Spent(t) <=> Succeeded(t)
    BY SpentIsSucceeded
  <2>3. ServedBy(i) \ JustServed \subseteq Tasks
    BY DEF ServedBy
  <2>4. CASE item[i] \in Results
    <3>1. ServedBy(i) \ JustServed = {}
      BY <2>1, <2>2, <2>3, <2>4, ItemsAssumption DEF RetryInv, ResultsSpent
    <3> QED BY <2>4, <3>1, FS_EmptySet
  <2>5. CASE item[i] \notin Results
    <3>1. PICK t \in Tasks : serves[t] = i /\ ~Succeeded(t)
      BY <2>5 DEF LeftOpen
    <3>2. \A u \in Tasks : serves[u] = i /\ ~Succeeded(u) => u = t
      BY <2>2, <3>1, ItemsAssumption DEF RetryInv, OneUnspent
    <3>3. ServedBy(i) \ JustServed = {t}
      BY <2>1, <2>3, <3>1, <3>2
    <3> QED BY <2>5, <3>3, FS_Singleton
  <2> QED BY <2>4, <2>5
<1> QED BY <1>1, <1>2, <1>3, PTL DEF SSpec
=============================================================================
