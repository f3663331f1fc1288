----------------------------- MODULE Screening -----------------------------
(* A bulk screening job: its creation, the VERIFY_BULK_ITEM handler run by    *)
(* the queue's workers with the recount of the job, and the administrator's   *)
(* retry of failed items (api/v1/jobs.py, worker.py run_bulk_item and         *)
(* _recount_job). Jobs meet only in the queue: one job is modelled.           *)
(*                                                                            *)
(*   item[i]    committed status of item i                                    *)
(*   job        committed row of the job                                      *)
(*   serves[t]  the item in the payload of task t, "none" before it exists    *)
(*   tally[w]   what the handler of w has computed and not yet committed      *)
(*   desk[a]    failed items loaded by a retry request of a, before its commit*)
EXTENDS TaskQueue, Functions

CONSTANTS Items,       \* the documents of the upload
          Unreadable,  \* items whose handler may raise before its first commit
          Admins       \* administrators retrying concurrently

ASSUME ItemsAssumption == IsFiniteSet(Items) /\ Items # {} /\ "none" \notin Items
ASSUME UnreadableAssumption == Unreadable \subseteq Items

VARIABLES item, job, serves, tally, desk

jobVars == <<item, job, serves, tally, desk>>
allVars == <<vars, jobVars>>

----------------------------------------------------------------------------
Results    == {"VERIFIED", "REVIEW", "FAILED"}
Screened   == {"VERIFIED", "REVIEW"}
ItemStatus == {"none", "PENDING", "PROCESSING"} \cup Results
JobType    == [status : {"none", "RUNNING", "COMPLETED", "PARTIAL"},
               processed : Nat, verified : Nat, review : Nat, failed : Nat]

Closed == [open |-> FALSE]

SInit ==
  /\ Init
  /\ item = [i \in Items |-> "none"]
  /\ job = [status |-> "none", processed |-> 0, verified |-> 0, review |-> 0, failed |-> 0]
  /\ serves = [t \in Tasks |-> "none"]
  /\ tally = [w \in Workers |-> Closed]
  /\ desk = [a \in Admins |-> Closed]

----------------------------------------------------------------------------
\* The tasks that get the next n ids, and the ways to hand items I to them:
\* rows written in one flush may share a created_at.
Fresh == {t \in Tasks : row[t].status = "absent"}
NextTasks(n) == {t \in Fresh : Cardinality({u \in Fresh : u <= t}) <= n}

EnqueueItems(I) ==
  /\ Cardinality(Fresh) >= Cardinality(I)
  /\ LET S == NextTasks(Cardinality(I)) IN
       /\ Enqueue(S)
       /\ \E f \in Bijection(S, I) :
            serves' = [t \in Tasks |-> IF t \in S THEN f[t] ELSE serves[t]]

\* create_job: job, items and tasks in one commit.
CreateJob ==
  /\ job.status = "none"
  /\ job' = [job EXCEPT !.status = "RUNNING"]
  /\ item' = [i \in Items |-> "PENDING"]
  /\ EnqueueItems(Items)
  /\ UNCHANGED <<tally, desk>>

\* retry_failed_items loads the failed items, and then commits them PENDING with
\* a new task each. The job's own row is left as it is. (Tasks bounds the number
\* of retries; a retry that finds nothing changes nothing.)
LoadForRetry(a, loaded) ==
  /\ job.status # "none" /\ ~desk[a].open
  /\ loaded # {} /\ Cardinality(loaded) <= Cardinality(Fresh)
  /\ desk' = [desk EXCEPT ![a] = [open |-> TRUE, failed |-> loaded]]
  /\ UNCHANGED <<vars, item, job, serves, tally>>

OpenRetryUnverified(a) ==       \* seeded fault: items under review are retried too
  LoadForRetry(a, {i \in Items : item[i] \in {"FAILED", "REVIEW"}})

OpenRetry(a) == LoadForRetry(a, {i \in Items : item[i] = "FAILED"})

CommitRetryUnmarked(a) ==       \* seeded fault: the items stay FAILED
  /\ desk[a].open
  /\ EnqueueItems(desk[a].failed)
  /\ desk' = [desk EXCEPT ![a] = Closed]
  /\ UNCHANGED <<item, job, tally>>
CommitRetryUnqueued(a) ==       \* seeded fault: no new task is enqueued
  /\ desk[a].open
  /\ item' = [i \in Items |-> IF i \in desk[a].failed THEN "PENDING" ELSE item[i]]
  /\ desk' = [desk EXCEPT ![a] = Closed]
  /\ UNCHANGED <<vars, job, serves, tally>>

CommitRetry(a) ==
  /\ desk[a].open
  /\ EnqueueItems(desk[a].failed)
  /\ item' = [i \in Items |-> IF i \in desk[a].failed THEN "PENDING" ELSE item[i]]
  /\ desk' = [desk EXCEPT ![a] = Closed]
  /\ UNCHANGED <<job, tally>>

----------------------------------------------------------------------------
(* The handler. *)

\* materialize() of the stored file raises, or the handler's first commit: the
\* item is as it was, and the claims of the whole batch are rolled back.
RaiseEarly(w) ==
  /\ HandlerRaisesEarly(w)
  /\ serves[Current(w)] \in Unreadable
  /\ UNCHANGED jobVars

SetProcessing(w) ==
  /\ HandlerCommits(w)
  /\ item' = [item EXCEPT ![serves[Current(w)]] = "PROCESSING"]
  /\ UNCHANGED <<job, serves, tally, desk>>

Count(s, status) == Cardinality({i \in Items : s[i] = status})

\* _recount_job on the items as one session sees them: everything that is not
\* PENDING counts as done, and the status is only ever set when all are.
RecountAs(s, done, final) ==
  [status    |-> IF done = Items THEN final ELSE job.status,
   processed |-> Cardinality(done),
   verified  |-> Count(s, "VERIFIED"),
   review    |-> Count(s, "REVIEW"),
   failed    |-> Count(s, "FAILED")]

Done(s)  == Items \ {i \in Items : s[i] = "PENDING"}
Final(s) == IF Count(s, "FAILED") = 0 THEN "COMPLETED" ELSE "PARTIAL"

RecountFailedJob(s) ==          \* seeded fault: the unused JobStatus.FAILED
  RecountAs(s, Done(s), IF Count(s, "FAILED") = 0 THEN "COMPLETED" ELSE "FAILED")
RecountCompleted(s) ==          \* seeded fault: failures do not make it PARTIAL
  RecountAs(s, Done(s), "COMPLETED")
RecountUnfailed(s) ==           \* seeded fault: failed items do not count as done
  RecountAs(s, Done(s) \ {i \in Items : s[i] = "FAILED"}, Final(s))

Recount(s) == RecountAs(s, Done(s), Final(s))

\* The engine reports or raises (FAILED), and the job is recounted; nothing of it
\* is committed yet, other sessions may commit in between.
AssessWith(w, result, counted) ==
  /\ pc[w] = "handling" /\ ~tally[w].open
  /\ tally' = [tally EXCEPT ![w] =
       [open |-> TRUE, result |-> result, seen |-> job, counted |-> counted]]
  /\ UNCHANGED <<vars, item, job, serves, desk>>

AssessEarly(w, result) ==       \* seeded fault: the recount precedes the result
  AssessWith(w, result, Recount(item))

Assess(w, result) ==
  AssessWith(w, result, Recount([item EXCEPT ![serves[Current(w)]] = result]))

\* The columns of the job row that the recount changed are written.
Finish(w) ==
  /\ tally[w].open
  /\ HandlerReturns(w)
  /\ item' = [item EXCEPT ![serves[Current(w)]] = tally[w].result]
  /\ job' = [c \in DOMAIN job |->
       IF tally[w].counted[c] = tally[w].seen[c] THEN job[c] ELSE tally[w].counted[c]]
  /\ tally' = [tally EXCEPT ![w] = Closed]
  /\ UNCHANGED <<serves, desk>>

\* The recount or the last commit raises: the result is rolled back, and the item
\* stays in PROCESSING until its task is run again, or for ever.
RaiseLate(w) ==
  /\ HandlerRaisesLate(w)
  /\ tally' = [tally EXCEPT ![w] = Closed]
  /\ UNCHANGED <<item, job, serves, desk>>

ProcessDies(w) ==
  /\ Crash(w)
  /\ tally' = [tally EXCEPT ![w] = Closed]
  /\ UNCHANGED <<item, job, serves, desk>>

Elsewhere ==
  /\ \/ \E t \in Tasks : Elapse(t)
     \/ \E w \in Workers : Claim(w) \/ StartBatch(w) \/ EndPass(w) \/ EndPassFails(w) \/ Restart(w)
  /\ UNCHANGED jobVars

----------------------------------------------------------------------------
SNext ==
  \/ CreateJob
  \/ \E a \in Admins : OpenRetry(a) \/ CommitRetry(a)
  \/ \E w \in Workers : \/ RaiseEarly(w) \/ SetProcessing(w)
                       \/ RaiseLate(w) \/ Finish(w) \/ ProcessDies(w)
  \/ \E w \in Workers, r \in Results : Assess(w, r)
  \/ Elsewhere

SSpec == SInit /\ [][SNext]_allVars

SFairness ==
  /\ \A t \in Tasks : WF_allVars(Elapse(t) /\ UNCHANGED jobVars)
  /\ \A w \in Workers :
       /\ WF_allVars(\/ RaiseEarly(w) \/ SetProcessing(w) \/ RaiseLate(w) \/ Finish(w)
                     \/ \E r \in Results : Assess(w, r)
                     \/ /\ Claim(w) \/ StartBatch(w) \/ EndPass(w)
                        /\ UNCHANGED jobVars)
       /\ WF_allVars(Restart(w) /\ UNCHANGED jobVars)
  /\ \A a \in Admins : WF_allVars(CommitRetry(a))

SFairSpec == SSpec /\ SFairness

----------------------------------------------------------------------------
(* Properties. *)

\* The types of items, job, tallies and retries; a task exists with its item.
STypeOK ==
  /\ TypeOK
  /\ item \in [Items -> ItemStatus]
  /\ job \in JobType
  /\ serves \in [Tasks -> Items \cup {"none"}]
  /\ \A t \in Tasks : serves[t] = "none" <=> row[t].status = "absent"
  /\ \A w \in Workers : tally[w].open =>
       tally[w].result \in Results /\ tally[w].seen \in JobType /\ tally[w].counted \in JobType
  /\ \A a \in Admins : desk[a].open => desk[a].failed \subseteq Items

\* A job is shown COMPLETED only when each of its documents has a result, although
\* the recount takes an item in PROCESSING for done (_recount_job).
CompletedMeansScreened ==
  job.status = "COMPLETED" => \A i \in Items : item[i] \in Screened

\* The account of all items: what a recount with nothing PENDING comes to.
Account(s) ==
  [status   |-> Final(s),            processed |-> Cardinality(Items),
   verified |-> Count(s, "VERIFIED"), review    |-> Count(s, "REVIEW"),
   failed   |-> Count(s, "FAILED")]

\* Whatever crashes, files and retries do, as soon as every document has its
\* result the job row is the account of them: status and counters do not drift
\* apart (_recount_job in the commit of the last result).
ScreenedTally == (\A i \in Items : item[i] \in Results) => job = Account(item)

\* A queue at rest: every task is through, none was given up, and no pass or
\* request is under way.
AtRest ==
  /\ \A t \in Tasks : row[t].status \in {"absent", "SUCCEEDED"}
  /\ \A w \in Workers : pc[w] = "claiming" /\ batch[w] = <<>>
  /\ \A a \in Admins : ~desk[a].open

\* Once the queue is at rest the job row agrees with its items: each has its
\* result, the counters are the counts, and the status tells whether any of them
\* failed, whatever was raised, retried or lost on the way (_recount_job).
CountersAgreeAtRest == AtRest /\ job.status # "none" => job = Account(item)

\* No item is forgotten and none is queued twice: each waiting or running item
\* has exactly one open task, and an item with a result has none.
ServedBy(i) == {t \in Tasks : serves[t] = i /\ row[t].status \notin Settled}

\* The task whose handler has committed its result and whose own SUCCEEDED is
\* still in the session.
JustServed == {t \in Tasks : \E w \in Workers : outcomes[w][t] = "SUCCEEDED"}

OneTaskPerOpenItem ==
  job.status # "none" =>
    \A i \in Items :
      Cardinality(ServedBy(i) \ JustServed) = IF item[i] \in Results THEN 0 ELSE 1

\* The result of an item stands: only a failed item goes back to the queue, as
\* long as no handler raises before its first commit and takes the SUCCEEDED of
\* a neighbour back with its claim (retry_failed_items, process_task).
ResultStands ==
  [][\A i \in Items : item[i] \in Screened => item'[i] = item[i]]_item

\* The job comes to an end.
JobFinishes == job.status = "RUNNING" ~> job.status \in {"COMPLETED", "PARTIAL"}

\* A created or retried job comes to a final account of all its items: once one
\* of them waits, each gets its result and the job row tells them (run_bulk_item,
\* retry_failed_items).
RetriedItemsFinish ==
  (\E i \in Items : item[i] = "PENDING") ~>
    (\A i \in Items : item[i] \in Results) /\ job = Account(item)
=============================================================================
