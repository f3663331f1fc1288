----------------------------- MODULE TaskQueue -----------------------------
(* The queue_tasks table and the worker passes over it                        *)
(* (models/domain.py QueueTask, services/worker.py process_task/worker_loop). *)
(*                                                                            *)
(* A worker pass owns ONE database session. What the pass assigns to a task   *)
(* row is private to that session until somebody commits, and the first to    *)
(* commit is usually a HANDLER: run_single_verification and run_bulk_item     *)
(* commit the shared session for their own purposes, which publishes every    *)
(* claim and every outcome pending in it; a handler that raises makes         *)
(* process_task roll the shared session back, which forgets them all.         *)
(*                                                                            *)
(*   row[t]         the committed row of task t                               *)
(*   claims[w][t]   attempts value of an uncommitted claim of t by w, 0: none *)
(*   outcomes[w][t] uncommitted final status of t in w's session, or "none"   *)
(*   batch[w]       tasks claimed by the pass and not yet processed, in order *)
(*   pc[w]          where the pass is                                         *)
(*   faults         history: crashes and failed commits so far                *)
EXTENDS Naturals, Sequences, FiniteSets

CONSTANTS Tasks,        \* task ids, numbered in created_at order
          Workers,      \* worker loops: the embedded thread, cli run-worker
          Concurrency,  \* WORKER_CONCURRENCY, the limit of claim_batch
          MaxAttempts,  \* max_attempts, 3 in the code
          RaisesEarly,  \* tasks whose handler may raise before its first commit
          RaisesLate,   \* tasks whose handler may raise after its first commit
          MaxFaults     \* bound: crashes and failed end-of-pass commits

ASSUME TasksAssumption       == Tasks \subseteq Nat
ASSUME ConcurrencyAssumption == Concurrency \in Nat \ {0}
ASSUME AttemptsAssumption    == MaxAttempts \in Nat \ {0}
ASSUME RaisesAssumption      == RaisesEarly \subseteq Tasks /\ RaisesLate \subseteq Tasks
ASSUME FaultsAssumption      == MaxFaults \in Nat

VARIABLES row, claims, outcomes, batch, pc, faults

vars == <<row, claims, outcomes, batch, pc, faults>>

----------------------------------------------------------------------------
\* "absent": the row is not inserted yet. Only these two states are claimable.
Claimable == {"PENDING", "RETRYING"}
Settled   == {"SUCCEEDED", "FAILED"}
QueueState == {"absent", "CLAIMED"} \cup Claimable \cup Settled
Outcome   == {"none", "RETRYING"} \cup Settled

NoClaims   == [t \in Tasks |-> 0]
NoOutcomes == [t \in Tasks |-> "none"]

\* claimed_until or run_after lies in the future: claim() skips the row.
RowType == [status : QueueState, attempts : Nat, waiting : BOOLEAN]

\* The types of the queue rows and of the workers' sessions (QueueTask's columns).
TypeOK ==
  /\ row \in [Tasks -> RowType]
  /\ claims \in [Workers -> [Tasks -> Nat]]
  /\ outcomes \in [Workers -> [Tasks -> Outcome]]
  /\ batch \in [Workers -> Seq(Tasks)]
  /\ pc \in [Workers -> {"claiming", "processing", "handling", "down"}]
  /\ faults \in Nat

Init ==
  /\ row = [t \in Tasks |-> [status |-> "absent", attempts |-> 0, waiting |-> FALSE]]
  /\ claims = [w \in Workers |-> NoClaims]
  /\ outcomes = [w \in Workers |-> NoOutcomes]
  /\ batch = [w \in Workers |-> <<>>]
  /\ pc = [w \in Workers |-> "claiming"]
  /\ faults = 0

----------------------------------------------------------------------------
\* What a commit of w's session leaves in the row of t: an ORM commit writes
\* the columns the session assigned, whatever the row holds by then.
Flushed(w, t) ==
  [status   |-> IF outcomes[w][t] # "none" THEN outcomes[w][t]
                ELSE IF claims[w][t] > 0 THEN "CLAIMED" ELSE row[t].status,
   attempts |-> IF claims[w][t] > 0 THEN claims[w][t] ELSE row[t].attempts,
   waiting  |-> \/ claims[w][t] > 0
                \/ outcomes[w][t] = "RETRYING" /\ row[t].attempts > 0
                \/ row[t].waiting]

Commit(w) ==
  /\ row' = [t \in Tasks |-> Flushed(w, t)]
  /\ claims' = [claims EXCEPT ![w] = NoClaims]
  /\ outcomes' = [outcomes EXCEPT ![w] = NoOutcomes]

Rollback(w) ==
  /\ claims' = [claims EXCEPT ![w] = NoClaims]
  /\ outcomes' = [outcomes EXCEPT ![w] = NoOutcomes]
  /\ UNCHANGED row

\* claim(): the claimable rows whose lease and back-off are over, seen through
\* the session (autoflush hides the rows this pass has claimed already).
EligibleUnlessDone(w) ==        \* seeded fault: FAILED rows are claimable again
  {t \in Tasks : /\ row[t].status \notin {"absent", "CLAIMED", "SUCCEEDED"}
                 /\ ~row[t].waiting /\ claims[w][t] = 0}

Eligible(w) ==
  {t \in Tasks : row[t].status \in Claimable /\ ~row[t].waiting /\ claims[w][t] = 0}

\* process_task rolls back and then decides on the attempts the row has NOW.
SettleRaisedAs(w, t, outcome) ==
  /\ claims' = [claims EXCEPT ![w] = NoClaims]
  /\ outcomes' = [outcomes EXCEPT ![w] =
       [NoOutcomes EXCEPT ![t] = outcome]]
  /\ UNCHANGED row

SettleRaisedError(w, t) ==      \* seeded fault: a status the queue does not have
  SettleRaisedAs(w, t, IF row[t].attempts >= MaxAttempts THEN "ERROR" ELSE "RETRYING")
SettleRaisedLate(w, t) ==       \* seeded fault: > for >=
  SettleRaisedAs(w, t, IF row[t].attempts > MaxAttempts THEN "FAILED" ELSE "RETRYING")
SettleRaisedSilent(w, t) ==     \* seeded fault: the exception is only logged
  SettleRaisedAs(w, t, "none")
SettleRaisedDone(w, t) ==       \* seeded fault: a task given up is called SUCCEEDED
  SettleRaisedAs(w, t, IF row[t].attempts >= MaxAttempts THEN "SUCCEEDED" ELSE "RETRYING")

SettleRaised(w, t) ==
  SettleRaisedAs(w, t, IF row[t].attempts >= MaxAttempts THEN "FAILED" ELSE "RETRYING")

----------------------------------------------------------------------------
(* The endpoints' side: task rows appear with the commit that creates their   *)
(* verification or items, one task for a verification and a task per item for *)
(* a job. Ids follow created_at; concurrent requests may commit in another    *)
(* order.                                                                     *)
Enqueue(S) ==
  /\ S # {} /\ \A t \in S : row[t].status = "absent"
  /\ row' = [t \in Tasks |-> IF t \in S THEN [row[t] EXCEPT !.status = "PENDING"] ELSE row[t]]
  /\ UNCHANGED <<claims, outcomes, batch, pc, faults>>

\* The clock passes claimed_until and run_after of t.
Elapse(t) ==
  /\ row[t].waiting
  /\ row' = [row EXCEPT ![t].waiting = FALSE]
  /\ UNCHANGED <<claims, outcomes, batch, pc, faults>>

----------------------------------------------------------------------------
(* A worker pass.                                                             *)

\* One claim() of claim_batch: the oldest eligible row, without a commit.
Claim(w) ==
  /\ pc[w] = "claiming" /\ Len(batch[w]) < Concurrency
  /\ \E t \in Eligible(w) :
       /\ \A u \in Eligible(w) : t <= u
       /\ claims' = [claims EXCEPT ![w][t] = row[t].attempts + 1]
       /\ batch' = [batch EXCEPT ![w] = Append(@, t)]
  /\ UNCHANGED <<row, outcomes, pc, faults>>

\* claim_batch returns. An empty batch makes a pass that changes nothing.
StartBatch(w) ==
  /\ pc[w] = "claiming" /\ batch[w] # <<>>
  /\ Len(batch[w]) = Concurrency \/ Eligible(w) = {}
  /\ pc' = [pc EXCEPT ![w] = "processing"]
  /\ UNCHANGED <<row, claims, outcomes, batch, faults>>

\* The task the pass is at, while there is one.
Current(w) == Head(batch[w])

Advance(w) ==
  /\ batch' = [batch EXCEPT ![w] = Tail(@)]
  /\ pc' = [pc EXCEPT ![w] = "processing"]

\* The handler's first commit (document set to PROCESSING) publishes all that
\* is pending in the session.
HandlerCommits(w) ==
  /\ pc[w] = "processing" /\ batch[w] # <<>>
  /\ Commit(w)
  /\ pc' = [pc EXCEPT ![w] = "handling"]
  /\ UNCHANGED <<batch, faults>>

\* The handler raises before its first commit is through: materialize() of a bulk
\* item, or that commit itself.
HandlerRaisesEarly(w) ==
  /\ pc[w] = "processing" /\ batch[w] # <<>> /\ Current(w) \in RaisesEarly
  /\ SettleRaised(w, Current(w))
  /\ Advance(w)
  /\ UNCHANGED faults

\* The handler raises after its first commit; that commit stands.
HandlerRaisesLate(w) ==
  /\ pc[w] = "handling" /\ Current(w) \in RaisesLate
  /\ SettleRaised(w, Current(w))
  /\ Advance(w)
  /\ UNCHANGED faults

HandlerReturnsUnmarked(w) ==    \* seeded fault: SUCCEEDED is never assigned
  /\ pc[w] = "handling"
  /\ Commit(w)
  /\ Advance(w)
  /\ UNCHANGED faults

\* The handler commits its results and returns; SUCCEEDED stays in the session.
HandlerReturns(w) ==
  /\ pc[w] = "handling"
  /\ row' = [t \in Tasks |-> Flushed(w, t)]
  /\ claims' = [claims EXCEPT ![w] = NoClaims]
  /\ outcomes' = [outcomes EXCEPT ![w] = [NoOutcomes EXCEPT ![Current(w)] = "SUCCEEDED"]]
  /\ Advance(w)
  /\ UNCHANGED faults

\* The commit that ends the pass, and the pass whose commit fails.
EndPass(w) ==
  /\ pc[w] = "processing" /\ batch[w] = <<>>
  /\ Commit(w)
  /\ pc' = [pc EXCEPT ![w] = "claiming"]
  /\ UNCHANGED <<batch, faults>>

EndPassFails(w) ==
  /\ pc[w] = "processing" /\ batch[w] = <<>> /\ faults < MaxFaults
  /\ Rollback(w)
  /\ pc' = [pc EXCEPT ![w] = "claiming"]
  /\ faults' = faults + 1
  /\ UNCHANGED batch

----------------------------------------------------------------------------
(* The process dies and comes back: everything uncommitted is lost. (A loop   *)
(* thread that ends inside a living process, start_worker's, is started again *)
(* by nobody: the loop then comes back only with its process.)                *)
Crash(w) ==
  /\ pc[w] # "down" /\ faults < MaxFaults
  /\ Rollback(w)
  /\ batch' = [batch EXCEPT ![w] = <<>>]
  /\ pc' = [pc EXCEPT ![w] = "down"]
  /\ faults' = faults + 1

Restart(w) ==
  /\ pc[w] = "down"
  /\ pc' = [pc EXCEPT ![w] = "claiming"]
  /\ UNCHANGED <<row, claims, outcomes, batch, faults>>

----------------------------------------------------------------------------
Pass(w) == \/ Claim(w) \/ StartBatch(w)
           \/ HandlerCommits(w) \/ HandlerRaisesEarly(w)
           \/ HandlerRaisesLate(w) \/ HandlerReturns(w)
           \/ EndPass(w)

Next == \/ \E S \in SUBSET Tasks : Enqueue(S)
        \/ \E t \in Tasks : Elapse(t)
        \/ \E w \in Workers : Pass(w) \/ EndPassFails(w) \/ Crash(w) \/ Restart(w)

Spec == Init /\ [][Next]_vars

(* The loop never stops by itself and handlers terminate, clocks advance, and *)
(* the host restarts a dead process. Requests and faults are owed nothing.    *)
Fairness == /\ \A t \in Tasks : WF_vars(Elapse(t))
            /\ \A w \in Workers : WF_vars(Pass(w)) /\ WF_vars(Restart(w))

FairSpec == Spec /\ Fairness

----------------------------------------------------------------------------
(* Properties. *)

OneWorker == \A v, w \in Workers : v = w

\* t is claimed by the pass of w and its handler has not ended.
Held(w, t) == \E i \in 1..Len(batch[w]) : batch[w][i] = t

\* A task that can still be claimed has an attempt left, and one given up has
\* used them all, neither more nor less (process_task's comparison against the
\* attempts it re-reads after its rollback).
RetryBudget ==
  \A t \in Tasks :
    /\ row[t].status \in Claimable => row[t].attempts < MaxAttempts
    /\ row[t].status = "FAILED" => row[t].attempts = MaxAttempts
    /\ row[t].attempts <= MaxAttempts

\* A task outcome, once committed, is final: no later commit of a session that
\* still holds an older claim takes it back (claim, worker_loop's commit).
SettledIsFinal ==
  [][\A t \in Tasks : row[t].status \in Settled => row'[t].status = row[t].status]_row

\* A CLAIMED row is in the hands of a live pass: still in its batch, or with an
\* outcome waiting for the next commit. claim() never looks at a CLAIMED row
\* again, so one that nobody holds is lost.
NoStrandedClaim ==
  \A t \in Tasks : row[t].status = "CLAIMED" =>
    \E w \in Workers : Held(w, t) \/ outcomes[w][t] # "none"

\* Every accepted task is settled in the end.
EveryTaskSettles ==
  \A t \in Tasks : row[t].status # "absent" ~> row[t].status \in Settled

\* One unreadable file does not keep the others of its batch from settling.
BatchIsolation ==
  \A t \in Tasks \ RaisesEarly : row[t].status # "absent" ~> row[t].status \in Settled

\* A lease that ran out frees its task: it is not CLAIMED for ever.
LeaseExpires ==
  \A t \in Tasks :
    row[t].status = "CLAIMED" /\ ~row[t].waiting ~> row[t].status # "CLAIMED"
=============================================================================
