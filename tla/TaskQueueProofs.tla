-------------------------- MODULE TaskQueueProofs --------------------------
(* Machine-checked facts about TaskQueue, for any tasks, workers and bounds. *)
EXTENDS TaskQueue, SequenceTheorems, TLAPS

(* Typing. *)

\* A worker inside a handler has a current task.
HandlingHasTask == \A w \in Workers : pc[w] = "handling" => batch[w] # <<>>

TypeInv == TypeOK /\ HandlingHasTask

\* The current task of a non-empty batch is a task, and the rest is a batch.
LEMMA BatchTyping ==
  ASSUME TypeOK, NEW w \in Workers, batch[w] # <<>>
  PROVE  Current(w) \in Tasks /\ Tail(batch[w]) \in Seq(Tasks)
  BY DEF TypeOK, Current

\* What a commit leaves in a row is a row.
LEMMA FlushTyping ==
  ASSUME TypeOK, NEW w \in Workers
  PROVE  [t \in Tasks |-> Flushed(w, t)] \in [Tasks -> RowType]
<1> SUFFICES ASSUME NEW t \in Tasks PROVE Flushed(w, t) \in RowType
  OBVIOUS
<1>1. /\ row[t].status \in QueueState /\ row[t].attempts \in Nat /\ row[t].waiting \in BOOLEAN
      /\ claims[w][t] \in Nat /\ outcomes[w][t] \in Outcome
  BY DEF TypeOK, RowType
<1> QED
  BY <1>1 DEF Flushed, RowType, QueueState, Outcome, Settled, Claimable

\* Clearing a session and settling one task in it keep the sessions typed.
LEMMA SessionTyping ==
  ASSUME TypeOK, NEW w \in Workers
  PROVE  /\ [claims EXCEPT ![w] = NoClaims] \in [Workers -> [Tasks -> Nat]]
         /\ [outcomes EXCEPT ![w] = NoOutcomes] \in [Workers -> [Tasks -> Outcome]]
         /\ \A t \in Tasks, o \in Outcome :
              [outcomes EXCEPT ![w] = [NoOutcomes EXCEPT ![t] = o]]
                \in [Workers -> [Tasks -> Outcome]]
<1>1. NoClaims \in [Tasks -> Nat] /\ NoOutcomes \in [Tasks -> Outcome]
  BY DEF NoClaims, NoOutcomes, Outcome
<1> QED
  BY <1>1 DEF TypeOK

\* Typing is inductive.
LEMMA TypeInit == Init => TypeInv
<1> SUFFICES ASSUME Init PROVE TypeInv
  OBVIOUS
<1>1. NoClaims \in [Tasks -> Nat] /\ NoOutcomes \in [Tasks -> Outcome]
  BY DEF NoClaims, NoOutcomes, Outcome
<1>2. \A t \in Tasks : row[t] \in RowType
  BY DEF Init, RowType, QueueState
<1> QED
  BY <1>1, <1>2 DEF Init, TypeInv, TypeOK, HandlingHasTask, RowType, QueueState

LEMMA TypeStep == TypeInv /\ [Next]_vars => TypeInv'
<1> SUFFICES ASSUME TypeInv, [Next]_vars PROVE TypeInv'
  OBVIOUS
<1>t. TypeOK
  BY DEF TypeInv
<1>1. ASSUME NEW S \in SUBSET Tasks, Enqueue(S) PROVE TypeInv'
  <2>1. \A t \in Tasks : row'[t] \in RowType
    <3> SUFFICES ASSUME NEW t \in Tasks PROVE row'[t] \in RowType
      OBVIOUS
    <3>1. row'[t] = IF t \in S THEN [row[t] EXCEPT !.status = "PENDING"] ELSE row[t]
      BY <1>1 DEF Enqueue
    <3>2. row[t] \in RowType /\ "PENDING" \in QueueState
      BY <1>t DEF TypeOK, QueueState, Claimable
    <3> QED BY <3>1, <3>2 DEF RowType
  <2>2. row' \in [Tasks -> RowType]
    BY <1>1, <2>1 DEF Enqueue
  <2> QED BY <1>1, <1>t, <2>2 DEF TypeInv, TypeOK, HandlingHasTask, Enqueue
<1>2. ASSUME NEW t \in Tasks, Elapse(t) PROVE TypeInv'
  BY <1>2 DEF TypeInv, TypeOK, HandlingHasTask, Elapse, RowType
<1>3. ASSUME NEW w \in Workers, Claim(w) PROVE TypeInv'
  <2>1. PICK t \in Eligible(w) : /\ claims' = [claims EXCEPT ![w][t] = row[t].attempts + 1]
                                 /\ batch' = [batch EXCEPT ![w] = Append(@, t)]
    BY <1>3 DEF Claim
  <2>2. t \in Tasks /\ row[t].attempts + 1 \in Nat
    BY <2>1, <1>t DEF Eligible, TypeOK, RowType
  <2>3. claims' \in [Workers -> [Tasks -> Nat]] /\ batch' \in [Workers -> Seq(Tasks)]
    BY <1>t, <2>1, <2>2 DEF TypeOK
  <2>4. HandlingHasTask'
    BY <1>3, <1>t, <2>1, <2>2 DEF TypeInv, TypeOK, HandlingHasTask, Claim
  <2> QED BY <1>3, <1>t, <2>3, <2>4 DEF TypeInv, TypeOK, Claim
<1>4. ASSUME NEW w \in Workers, StartBatch(w) PROVE TypeInv'
  BY <1>4 DEF TypeInv, TypeOK, HandlingHasTask, StartBatch
<1>5. ASSUME NEW w \in Workers, HandlerCommits(w) PROVE TypeInv'
  <2>2. row' \in [Tasks -> RowType]
    BY <1>t, <1>5, FlushTyping DEF HandlerCommits, Commit
  <2>3. TypeOK'
    BY <1>t, <1>5, <2>2, SessionTyping DEF HandlerCommits, Commit, TypeOK
  <2>4. HandlingHasTask'
    BY <1>5 DEF HandlerCommits, TypeInv, TypeOK, HandlingHasTask
  <2> QED BY <2>3, <2>4 DEF TypeInv
<1>6. ASSUME NEW w \in Workers, SettleRaised(w, Current(w)), Advance(w), batch[w] # <<>>,
             UNCHANGED faults
      PROVE  TypeInv'
  <2>1. TypeOK'
    BY <1>t, <1>6, SessionTyping, BatchTyping
    DEF SettleRaised, SettleRaisedAs, Advance, TypeOK, Outcome, Settled
  <2>2. HandlingHasTask'
    BY <1>6 DEF Advance, TypeInv, TypeOK, HandlingHasTask
  <2> QED BY <2>1, <2>2 DEF TypeInv
<1>7. ASSUME NEW w \in Workers, HandlerRaisesEarly(w) PROVE TypeInv'
  BY <1>6, <1>7 DEF HandlerRaisesEarly
<1>8. ASSUME NEW w \in Workers, HandlerRaisesLate(w) PROVE TypeInv'
  BY <1>6, <1>8 DEF HandlerRaisesLate, TypeInv, HandlingHasTask
<1>9. ASSUME NEW w \in Workers, HandlerReturns(w) PROVE TypeInv'
  <2>1. batch[w] # <<>>
    BY <1>9 DEF HandlerReturns, TypeInv, HandlingHasTask
  <2>2. TypeOK'
    BY <1>t, <1>9, <2>1, FlushTyping, SessionTyping, BatchTyping
    DEF HandlerReturns, Advance, TypeOK, Outcome, Settled
  <2>3. HandlingHasTask'
    BY <1>9 DEF HandlerReturns, Advance, TypeInv, TypeOK, HandlingHasTask
  <2> QED BY <2>2, <2>3 DEF TypeInv
<1>10. ASSUME NEW w \in Workers, EndPass(w) PROVE TypeInv'
  BY <1>t, <1>10, FlushTyping, SessionTyping
  DEF EndPass, Commit, TypeInv, TypeOK, HandlingHasTask
<1>11. ASSUME NEW w \in Workers, EndPassFails(w) PROVE TypeInv'
  BY <1>t, <1>11, SessionTyping
  DEF EndPassFails, Rollback, TypeInv, TypeOK, HandlingHasTask
<1>12. ASSUME NEW w \in Workers, Crash(w) PROVE TypeInv'
  BY <1>t, <1>12, SessionTyping DEF Crash, Rollback, TypeInv, TypeOK, HandlingHasTask
<1>13. ASSUME NEW w \in Workers, Restart(w) PROVE TypeInv'
  BY <1>13 DEF Restart, TypeInv, TypeOK, HandlingHasTask
<1>14. CASE UNCHANGED vars
  BY <1>14 DEF vars, TypeInv, TypeOK, HandlingHasTask
<1> QED
  BY <1>1, <1>2, <1>3, <1>4, <1>5, <1>7, <1>8, <1>9, <1>10, <1>11, <1>12, <1>13, <1>14
  DEF Next, Pass

\* The variables keep their types, and a worker in a handler has its task.
THEOREM TypeCorrect == Spec => []TypeInv
  BY TypeInit, TypeStep, PTL DEF Spec

\* In particular the queue is always well typed, for any tasks, workers, bounds.
THEOREM TypeSafety == Spec => []TypeOK
<1>1. TypeInv => TypeOK
  BY DEF TypeInv
<1> QED BY <1>1, TypeCorrect, PTL

----------------------------------------------------------------------------
(* One worker: the retry budget and the finality of outcomes.                 *)

\* What holds RetryBudget and SettledIsFinal up with one worker, pass by pass:
\* an uncommitted claim or outcome belongs to a row no other step has moved.
Open(t) == row[t].status \notin Settled \cup {"absent"}

SessionOf(w) ==
  /\ pc[w] \in {"claiming", "handling", "down"} => outcomes[w] = NoOutcomes
  /\ pc[w] \in {"handling", "down"} => claims[w] = NoClaims
  /\ pc[w] = "down" => batch[w] = <<>>
  /\ pc[w] = "claiming" => \A t \in Tasks : Held(w, t) => claims[w][t] > 0
  /\ \A t \in Tasks :
       /\ claims[w][t] > 0 =>
            row[t].status \in Claimable /\ claims[w][t] = row[t].attempts + 1
       /\ outcomes[w][t] # "none" => claims[w][t] = 0 /\ ~Held(w, t) /\ Open(t)
       /\ outcomes[w][t] = "FAILED" => row[t].attempts = MaxAttempts
       /\ outcomes[w][t] = "RETRYING" => row[t].attempts < MaxAttempts
       /\ Held(w, t) => Open(t)
  /\ \A i, j \in 1..Len(batch[w]) : batch[w][i] = batch[w][j] => i = j

SessionInv == \A w \in Workers : SessionOf(w)

BudgetInv ==
  \A t \in Tasks :
    /\ row[t].status \in Claimable \cup {"absent"} => row[t].attempts < MaxAttempts
    /\ row[t].status = "FAILED" => row[t].attempts = MaxAttempts
    /\ row[t].attempts <= MaxAttempts

SingleWorkerInv == TypeInv /\ SessionInv /\ BudgetInv

\* With nothing pending in the session, a commit leaves the rows as they are.
LEMMA IdleFlush ==
  ASSUME TypeOK, NEW w \in Workers, claims[w] = NoClaims, outcomes[w] = NoOutcomes
  PROVE  [t \in Tasks |-> Flushed(w, t)] = row
<1>1. ASSUME NEW t \in Tasks PROVE Flushed(w, t) = row[t]
  <2>1. row[t] \in RowType /\ claims[w][t] = 0 /\ outcomes[w][t] = "none"
    BY <1>1 DEF TypeOK, NoClaims, NoOutcomes
  <2>2. row[t].waiting \in BOOLEAN /\ ~(claims[w][t] > 0) /\ outcomes[w][t] # "RETRYING"
    BY <2>1 DEF RowType
  <2>3. (\/ claims[w][t] > 0
         \/ outcomes[w][t] = "RETRYING" /\ row[t].attempts > 0
         \/ row[t].waiting) = row[t].waiting
    BY <2>2, Zenon
  <2>4. Flushed(w, t) = [status |-> row[t].status, attempts |-> row[t].attempts,
                         waiting |-> row[t].waiting]
    BY <2>1, <2>2, <2>3, Zenon DEF Flushed
  <2> QED BY <2>1, <2>4 DEF RowType
<1> QED BY <1>1 DEF TypeOK

\* A commit keeps the budget and never takes a settled row back.
LEMMA FlushKeepsBudget ==
  ASSUME TypeOK, SessionInv, BudgetInv, NEW w \in Workers,
         row' = [t \in Tasks |-> Flushed(w, t)]
  PROVE  /\ BudgetInv'
         /\ \A t \in Tasks : row[t].status \in Settled => row'[t].status = row[t].status
         /\ \A t \in Tasks : Open(t) /\ outcomes[w][t] \notin Settled => Open(t)'
<1> SUFFICES ASSUME NEW t \in Tasks
             PROVE  /\ row'[t].status \in Claimable \cup {"absent"} => row'[t].attempts < MaxAttempts
                    /\ row'[t].status = "FAILED" => row'[t].attempts = MaxAttempts
                    /\ row'[t].attempts <= MaxAttempts
                    /\ row[t].status \in Settled => row'[t].status = row[t].status
                    /\ Open(t) /\ outcomes[w][t] \notin Settled => Open(t)'
  BY DEF BudgetInv
<1>1. row'[t] = Flushed(w, t)
  OBVIOUS
<1>2. /\ row[t].status \in QueueState /\ row[t].attempts \in Nat
      /\ claims[w][t] \in Nat /\ outcomes[w][t] \in Outcome
  BY DEF TypeOK, RowType
<1>3. CASE outcomes[w][t] # "none"
  BY <1>1, <1>2, <1>3, AttemptsAssumption
  DEF Flushed, SessionInv, SessionOf, BudgetInv, Open, Outcome, Settled, Claimable
<1>4. CASE outcomes[w][t] = "none" /\ claims[w][t] > 0
  BY <1>1, <1>2, <1>4, AttemptsAssumption
  DEF Flushed, SessionInv, SessionOf, BudgetInv, Open, Outcome, Settled, Claimable
<1>5. CASE outcomes[w][t] = "none" /\ claims[w][t] = 0
  BY <1>1, <1>2, <1>5 DEF Flushed, BudgetInv, Open, Settled
<1> QED BY <1>2, <1>3, <1>4, <1>5

\* Dropping the current task of a batch without repetitions leaves the others,
\* and only the others, held.
LEMMA TailHeld ==
  ASSUME TypeOK, NEW w \in Workers, batch[w] # <<>>, batch'[w] = Tail(batch[w]),
         \A i, j \in 1..Len(batch[w]) : batch[w][i] = batch[w][j] => i = j
  PROVE  /\ \A t \in Tasks : Held(w, t)' => Held(w, t) /\ t # Current(w)
         /\ \A i, j \in 1..Len(batch'[w]) : batch'[w][i] = batch'[w][j] => i = j
         /\ Held(w, Current(w)) /\ Current(w) \in Tasks
<1> DEFINE s == batch[w]
<1>1. s \in Seq(Tasks) /\ s # <<>>
  BY DEF TypeOK
<1>2. /\ Len(s) \in Nat \ {0} /\ Len(Tail(s)) = Len(s) - 1 /\ Head(s) = s[1]
      /\ \A i \in 1..Len(Tail(s)) : Tail(s)[i] = s[i + 1] /\ i + 1 \in 1..Len(s)
  BY <1>1
<1>3. ASSUME NEW t \in Tasks, Held(w, t)' PROVE Held(w, t) /\ t # Current(w)
  <2>1. PICK i \in 1..Len(Tail(s)) : Tail(s)[i] = t
    BY <1>3 DEF Held
  <2>2. s[i + 1] = t /\ i + 1 \in 1..Len(s) /\ 1 \in 1..Len(s) /\ i + 1 # 1
    BY <1>2, <2>1
  <2> QED BY <1>2, <2>2 DEF Held, Current
<1>4. ASSUME NEW i \in 1..Len(Tail(s)), NEW j \in 1..Len(Tail(s)), Tail(s)[i] = Tail(s)[j]
      PROVE  i = j
  <2>1. s[i + 1] = s[j + 1] /\ i + 1 \in 1..Len(s) /\ j + 1 \in 1..Len(s)
    BY <1>2, <1>4
  <2>2. i + 1 = j + 1
    BY <2>1
  <2> QED BY <1>2, <2>2
<1>5. Held(w, Current(w)) /\ Current(w) \in Tasks
  <2>1. 1 \in 1..Len(s) /\ s[1] \in Tasks
    BY <1>1, <1>2
  <2> QED BY <1>2, <2>1 DEF Held, Current
<1> QED BY <1>3, <1>4, <1>5

\* Claiming one more task, not yet held, keeps the batch without repetitions.
LEMMA AppendHeld ==
  ASSUME TypeOK, NEW w \in Workers, NEW t \in Tasks, ~Held(w, t),
         batch'[w] = Append(batch[w], t),
         \A i, j \in 1..Len(batch[w]) : batch[w][i] = batch[w][j] => i = j
  PROVE  /\ \A u \in Tasks : Held(w, u)' => Held(w, u) \/ u = t
         /\ \A i, j \in 1..Len(batch'[w]) : batch'[w][i] = batch'[w][j] => i = j
         /\ \A i \in 1..Len(batch'[w]) :
              batch'[w][i] = t \/ \E k \in 1..Len(batch[w]) : batch'[w][i] = batch[w][k]
<1> DEFINE s == batch[w]
<1>1. s \in Seq(Tasks)
  BY DEF TypeOK
<1>2. /\ Len(s) \in Nat /\ Len(Append(s, t)) = Len(s) + 1
      /\ \A i \in 1..Len(s) : Append(s, t)[i] = s[i]
      /\ Append(s, t)[Len(s) + 1] = t
  BY <1>1
<1>3. \A i \in 1..Len(s) : s[i] # t
  BY DEF Held
<1>4. \A i \in 1..(Len(s) + 1) : i \in 1..Len(s) \/ i = Len(s) + 1
  BY <1>2
<1>5. \A i, j \in 1..(Len(s) + 1) : Append(s, t)[i] = Append(s, t)[j] => i = j
  BY <1>2, <1>3, <1>4
<1>6. \A i \in 1..(Len(s) + 1) :
         Append(s, t)[i] = t \/ \E k \in 1..Len(s) : Append(s, t)[i] = s[k]
  BY <1>2, <1>4
<1>7. \A u \in Tasks : Held(w, u)' => Held(w, u) \/ u = t
  BY <1>2, <1>6 DEF Held
<1> QED BY <1>2, <1>5, <1>6, <1>7

LEMMA SingleInit == Init => SingleWorkerInv
<1> SUFFICES ASSUME Init PROVE SingleWorkerInv
  OBVIOUS
<1>1. SessionInv
  BY DEF Init, SessionInv, SessionOf, NoClaims, NoOutcomes, Held, Open
<1>2. BudgetInv
  BY AttemptsAssumption DEF Init, BudgetInv
<1> QED BY <1>1, <1>2, TypeInit DEF SingleWorkerInv

\* The consecution of the session part, one action of w at a time. With one
\* worker no other session exists whose claims a change of row could overtake.
LEMMA SessionStep ==
  ASSUME SingleWorkerInv, [Next]_vars, OneWorker
  PROVE  SessionInv'
<1> USE DEF SingleWorkerInv, TypeInv
<1> SUFFICES ASSUME NEW w \in Workers PROVE SessionOf(w)'
  BY DEF SessionInv
<1>o. \A v \in Workers : v = w
  BY DEF OneWorker
<1>s. SessionOf(w)
  BY DEF SessionInv
<1>t. TypeOK /\ TypeOK'
  BY TypeStep
<1>1. ASSUME NEW S \in SUBSET Tasks, Enqueue(S) PROVE SessionOf(w)'
  <2>1. \A u \in Tasks : /\ row'[u].attempts = row[u].attempts
                         /\ row[u].status # "absent" => row'[u].status = row[u].status
    BY <1>1, <1>t DEF Enqueue, TypeOK, RowType
  <2>2. \A u \in Tasks : (Held(w, u)' <=> Held(w, u)) /\ (Open(u) => Open(u)')
    BY <1>1, <2>1 DEF Enqueue, Held, Open
  <2> QED
    BY <1>1, <1>s, <2>1, <2>2 DEF Enqueue, SessionOf, NoClaims, NoOutcomes, Claimable
<1>2. ASSUME NEW t \in Tasks, Elapse(t) PROVE SessionOf(w)'
  <2>1. \A u \in Tasks : row'[u].attempts = row[u].attempts /\ row'[u].status = row[u].status
    BY <1>2, <1>t DEF Elapse, TypeOK, RowType
  <2>2. \A u \in Tasks : (Held(w, u)' <=> Held(w, u)) /\ (Open(u) => Open(u)')
    BY <1>2, <2>1 DEF Elapse, Held, Open
  <2> QED
    BY <1>2, <1>s, <2>1, <2>2 DEF Elapse, SessionOf, NoClaims, NoOutcomes, Claimable
<1>3. CASE Claim(w)
  <2>1. PICK t \in Eligible(w) : /\ claims' = [claims EXCEPT ![w][t] = row[t].attempts + 1]
                                 /\ batch' = [batch EXCEPT ![w] = Append(@, t)]
    BY <1>3 DEF Claim
  <2>2. /\ t \in Tasks /\ row[t].status \in Claimable /\ claims[w][t] = 0 /\ Open(t)
        /\ row[t].attempts \in Nat /\ pc[w] = "claiming" /\ UNCHANGED <<row, outcomes, pc>>
    BY <1>3, <1>t DEF Claim, Eligible, Open, Claimable, Settled, TypeOK, RowType
  <2>3. ~Held(w, t)
    BY <1>s, <2>2 DEF SessionOf
  <2>4. batch'[w] = Append(batch[w], t)
    BY <1>t, <2>1 DEF TypeOK
  <2>5. /\ \A u \in Tasks : Held(w, u)' => Held(w, u) \/ u = t
        /\ \A i, j \in 1..Len(batch'[w]) : batch'[w][i] = batch'[w][j] => i = j
    <3>1. \A i, j \in 1..Len(batch[w]) : batch[w][i] = batch[w][j] => i = j
      BY <1>s DEF SessionOf
    <3> QED BY <1>t, <2>2, <2>3, <2>4, <3>1, AppendHeld
  <2>6. /\ claims'[w][t] = row[t].attempts + 1
        /\ \A u \in Tasks : u # t => claims'[w][u] = claims[w][u]
    BY <1>t, <2>1, <2>2 DEF TypeOK
  <2>7. outcomes[w] = NoOutcomes /\ outcomes'[w] = NoOutcomes /\ pc'[w] = "claiming"
    BY <1>s, <2>2 DEF SessionOf
  <2>8. \A u \in Tasks : Open(u) => Open(u)'
    BY <2>2 DEF Open
  <2> QED
    BY <1>s, <2>2, <2>5, <2>6, <2>7, <2>8 DEF SessionOf, NoOutcomes
<1>4. CASE StartBatch(w)
  <2>1. \A u \in Tasks : (Held(w, u)' <=> Held(w, u)) /\ (Open(u) => Open(u)')
    BY <1>4 DEF StartBatch, Held, Open
  <2>2. pc'[w] = "processing"
    BY <1>4, <1>t DEF StartBatch, TypeOK
  <2> QED BY <1>4, <1>s, <2>1, <2>2 DEF StartBatch, SessionOf
<1>5. CASE /\ Commit(w) /\ batch' = batch
           /\ pc'[w] = "handling" \/ (pc'[w] = "claiming" /\ batch[w] = <<>>)
  <2>1. /\ claims'[w] = NoClaims /\ outcomes'[w] = NoOutcomes
        /\ row' = [t \in Tasks |-> Flushed(w, t)]
    BY <1>5, <1>t DEF Commit, TypeOK
  <2>2. \A u \in Tasks : Held(w, u)' <=> Held(w, u)
    BY <1>5 DEF Held
  <2>3. \A u \in Tasks : Held(w, u) => Open(u)'
    BY <1>s, <1>t, <2>1, FlushKeepsBudget DEF SessionOf, Settled
  <2>4. batch[w] = <<>> => \A u \in Tasks : ~Held(w, u)
    BY DEF Held
  <2> QED
    BY <1>5, <1>s, <2>1, <2>2, <2>3, <2>4 DEF SessionOf, NoClaims, NoOutcomes
<1>6. CASE SettleRaised(w, Current(w)) /\ Advance(w) /\ batch[w] # <<>>
  <2> DEFINE t == Current(w)
             o == IF row[t].attempts >= MaxAttempts THEN "FAILED" ELSE "RETRYING"
  <2>1. /\ claims'[w] = NoClaims /\ outcomes'[w] = [NoOutcomes EXCEPT ![t] = o]
        /\ batch'[w] = Tail(batch[w]) /\ pc'[w] = "processing" /\ UNCHANGED row
    BY <1>6, <1>t DEF SettleRaised, SettleRaisedAs, Advance, TypeOK
  <2>2. /\ \A u \in Tasks : Held(w, u)' => Held(w, u) /\ u # t
        /\ \A i, j \in 1..Len(batch'[w]) : batch'[w][i] = batch'[w][j] => i = j
        /\ Held(w, t) /\ t \in Tasks
    BY <1>6, <1>s, <1>t, <2>1, TailHeld DEF SessionOf
  <2>3. \A u \in Tasks : Open(u) <=> Open(u)'
    BY <2>1 DEF Open
  <2>4. \A u \in Tasks : /\ claims'[w][u] = 0
                         /\ u # t => outcomes'[w][u] = "none"
                         /\ outcomes'[w][t] = o
    BY <2>1, <2>2 DEF NoClaims, NoOutcomes
  <2>5. /\ o = "FAILED" => row'[t].attempts = MaxAttempts
        /\ o = "RETRYING" => row'[t].attempts < MaxAttempts
    BY <1>t, <2>1, <2>2, AttemptsAssumption DEF TypeOK, RowType, BudgetInv
  <2> HIDE DEF o, t
  <2> QED
    BY <1>s, <2>1, <2>2, <2>3, <2>4, <2>5 DEF SessionOf
<1>7. CASE HandlerReturns(w)
  <2> DEFINE t == Current(w)
  <2>1. batch[w] # <<>> /\ claims[w] = NoClaims /\ outcomes[w] = NoOutcomes
    BY <1>7, <1>s DEF HandlerReturns, HandlingHasTask, SessionOf
  <2>2. /\ claims'[w] = NoClaims /\ outcomes'[w] = [NoOutcomes EXCEPT ![t] = "SUCCEEDED"]
        /\ batch'[w] = Tail(batch[w]) /\ pc'[w] = "processing" /\ UNCHANGED row
    BY <1>7, <1>t, <2>1, IdleFlush DEF HandlerReturns, Advance, TypeOK
  <2>3. /\ \A u \in Tasks : Held(w, u)' => Held(w, u) /\ u # t
        /\ \A i, j \in 1..Len(batch'[w]) : batch'[w][i] = batch'[w][j] => i = j
        /\ Held(w, t) /\ t \in Tasks
    BY <1>s, <1>t, <2>1, <2>2, TailHeld DEF SessionOf
  <2>4. \A u \in Tasks : Open(u) <=> Open(u)'
    BY <2>2 DEF Open
  <2>5. \A u \in Tasks : /\ claims'[w][u] = 0
                         /\ u # t => outcomes'[w][u] = "none"
                         /\ outcomes'[w][t] = "SUCCEEDED"
    BY <2>2, <2>3 DEF NoClaims, NoOutcomes
  <2> HIDE DEF t
  <2> QED BY <1>s, <2>2, <2>3, <2>4, <2>5 DEF SessionOf
<1>8. CASE Rollback(w) /\ ((pc'[w] = "claiming" /\ batch[w] = <<>> /\ UNCHANGED batch)
                             \/ (pc'[w] = "down" /\ batch'[w] = <<>>))
  <2>1. claims'[w] = NoClaims /\ outcomes'[w] = NoOutcomes /\ UNCHANGED row /\ batch'[w] = <<>>
    BY <1>8, <1>t DEF Rollback, TypeOK
  <2>2. \A u \in Tasks : ~Held(w, u)'
    BY <2>1 DEF Held
  <2> QED BY <1>8, <2>1, <2>2 DEF SessionOf, NoClaims, NoOutcomes
<1>9. CASE Restart(w)
  <2>1. pc[w] = "down" /\ pc'[w] = "claiming" /\ UNCHANGED <<row, claims, outcomes, batch>>
    BY <1>9, <1>t DEF Restart, TypeOK
  <2>2. \A u \in Tasks : ~Held(w, u)'
    BY <1>s, <2>1 DEF SessionOf, Held
  <2> QED BY <1>s, <2>1, <2>2 DEF SessionOf, NoClaims, NoOutcomes
<1>10. CASE UNCHANGED vars
  BY <1>10, <1>s DEF vars, SessionOf, Held, Open
<1>11. HandlerCommits(w) \/ EndPass(w) => SessionOf(w)'
  <2>1. pc \in [Workers -> {"claiming", "processing", "handling", "down"}]
    BY <1>t DEF TypeOK
  <2>2. HandlerCommits(w) => Commit(w) /\ batch' = batch /\ pc'[w] = "handling"
    BY <2>1 DEF HandlerCommits
  <2>3. EndPass(w) => Commit(w) /\ batch' = batch /\ pc'[w] = "claiming" /\ batch[w] = <<>>
    BY <2>1 DEF EndPass
  <2> QED BY <1>5, <2>2, <2>3
<1>12. HandlerRaisesEarly(w) \/ HandlerRaisesLate(w) => SessionOf(w)'
  BY <1>6 DEF HandlerRaisesEarly, HandlerRaisesLate, HandlingHasTask
<1>13. EndPassFails(w) \/ Crash(w) => SessionOf(w)'
  BY <1>8, <1>t DEF EndPassFails, Crash, TypeOK
<1> QED
  BY <1>o, <1>1, <1>2, <1>3, <1>4, <1>7, <1>9, <1>10, <1>11, <1>12, <1>13 DEF Next, Pass

\* The rows keep the budget, whatever the single worker does.
LEMMA BudgetStep ==
  ASSUME SingleWorkerInv, [Next]_vars
  PROVE  /\ BudgetInv'
         /\ \A t \in Tasks : row[t].status \in Settled => row'[t].status = row[t].status
<1> USE DEF SingleWorkerInv, TypeInv
<1>t. TypeOK
  OBVIOUS
<1>1. ASSUME UNCHANGED row
      PROVE  /\ BudgetInv'
             /\ \A t \in Tasks : row[t].status \in Settled => row'[t].status = row[t].status
  BY <1>1 DEF BudgetInv
<1>2. ASSUME (\E S \in SUBSET Tasks : Enqueue(S)) \/ (\E t \in Tasks : Elapse(t))
      PROVE  /\ BudgetInv'
             /\ \A u \in Tasks : row[u].status \in Settled => row'[u].status = row[u].status
  <2>1. \A u \in Tasks : /\ row'[u].attempts = row[u].attempts
                         /\ \/ row'[u].status = row[u].status
                            \/ row[u].status = "absent" /\ row'[u].status = "PENDING"
    <3>1. ASSUME NEW S \in SUBSET Tasks, Enqueue(S)
          PROVE  \A u \in Tasks : /\ row'[u].attempts = row[u].attempts
                                  /\ \/ row'[u].status = row[u].status
                                     \/ row[u].status = "absent" /\ row'[u].status = "PENDING"
      BY <1>t, <3>1 DEF Enqueue, TypeOK, RowType
    <3>2. ASSUME NEW t \in Tasks, Elapse(t)
          PROVE  \A u \in Tasks : row'[u].attempts = row[u].attempts /\ row'[u].status = row[u].status
      BY <1>t, <3>2 DEF Elapse, TypeOK, RowType
    <3> QED BY <1>2, <3>1, <3>2
  <2> QED BY <2>1 DEF BudgetInv, Claimable, Settled
<1>3. ASSUME NEW w \in Workers, HandlerCommits(w) \/ HandlerReturns(w) \/ EndPass(w)
      PROVE  /\ BudgetInv'
             /\ \A t \in Tasks : row[t].status \in Settled => row'[t].status = row[t].status
  BY <1>3, <1>t, FlushKeepsBudget DEF HandlerCommits, HandlerReturns, EndPass, Commit
<1> QED
  BY <1>1, <1>2, <1>3
  DEF Next, Pass, Claim, StartBatch, HandlerRaisesEarly, HandlerRaisesLate, SettleRaised, SettleRaisedAs,
      EndPassFails, Crash, Rollback, Restart, vars

LEMMA SingleStep == OneWorker /\ SingleWorkerInv /\ [Next]_vars => SingleWorkerInv'
  BY SessionStep, BudgetStep, TypeStep DEF SingleWorkerInv

\* With one worker loop no task is claimed beyond its attempts, none is given up
\* with attempts left, through crashes, failed commits and raising handlers.
THEOREM OneWorkerBudget ==
  ASSUME OneWorker
  PROVE  Spec => []RetryBudget
<1>1. SingleWorkerInv => RetryBudget
  BY DEF SingleWorkerInv, BudgetInv, RetryBudget
<1>2. SingleWorkerInv /\ [Next]_vars => SingleWorkerInv'
  BY SingleStep
<1> QED BY SingleInit, <1>1, <1>2, PTL DEF Spec

\* With one worker loop a committed SUCCEEDED or FAILED is never taken back.
THEOREM OneWorkerFinality ==
  ASSUME OneWorker
  PROVE  Spec => SettledIsFinal
<1>1. SingleWorkerInv /\ [Next]_vars
        => [\A t \in Tasks : row[t].status \in Settled => row'[t].status = row[t].status]_row
  BY BudgetStep
<1>2. SingleWorkerInv /\ [Next]_vars => SingleWorkerInv'
  BY SingleStep
<1> QED BY SingleInit, <1>1, <1>2, PTL DEF Spec, SettledIsFinal

----------------------------------------------------------------------------
(* Any number of workers, no fault, no early raise: no claim is lost.         *)

HolderInv ==
  /\ NoStrandedClaim
  /\ faults = 0
  /\ \A w \in Workers :
       /\ pc[w] \in {"claiming", "handling", "down"} => outcomes[w] = NoOutcomes
       /\ pc[w] = "handling" => claims[w] = NoClaims
       /\ \A t \in Tasks : claims[w][t] > 0 => Held(w, t)

\* Dropping the current task of a batch keeps the others held.
LEMMA TailKeeps ==
  ASSUME TypeOK, NEW w \in Workers, batch[w] # <<>>, batch'[w] = Tail(batch[w])
  PROVE  \A t \in Tasks : Held(w, t) => Held(w, t)' \/ t = Current(w)
<1> DEFINE s == batch[w]
<1>1. s \in Seq(Tasks) /\ s # <<>>
  BY DEF TypeOK
<1>2. /\ Len(s) \in Nat \ {0} /\ Len(Tail(s)) = Len(s) - 1 /\ Head(s) = s[1]
      /\ \A i \in 1..Len(Tail(s)) : Tail(s)[i] = s[i + 1]
  BY <1>1
<1> SUFFICES ASSUME NEW t \in Tasks, NEW i \in 1..Len(s), s[i] = t, i # 1
             PROVE  Held(w, t)'
  BY <1>2 DEF Held, Current
<1>3. i - 1 \in 1..Len(Tail(s)) /\ Tail(s)[i - 1] = s[i]
  <2>1. i - 1 \in 1..Len(Tail(s)) /\ (i - 1) + 1 = i
    BY <1>2
  <2> QED BY <1>2, <2>1
<1> QED BY <1>3 DEF Held

\* Appending to a batch keeps it held, and the new task too.
LEMMA AppendKeeps ==
  ASSUME TypeOK, NEW w \in Workers, NEW u \in Tasks, batch'[w] = Append(batch[w], u)
  PROVE  Held(w, u)' /\ \A t \in Tasks : Held(w, t) => Held(w, t)'
<1> DEFINE s == batch[w]
<1>1. s \in Seq(Tasks)
  BY DEF TypeOK
<1>2. /\ Len(s) \in Nat /\ Len(Append(s, u)) = Len(s) + 1
      /\ \A i \in 1..Len(s) : Append(s, u)[i] = s[i]
      /\ Append(s, u)[Len(s) + 1] = u
  BY <1>1
<1>3. Len(s) + 1 \in 1..(Len(s) + 1) /\ \A i \in 1..Len(s) : i \in 1..(Len(s) + 1)
  BY <1>2
<1> QED BY <1>2, <1>3 DEF Held

LEMMA HolderStep ==
  ASSUME TypeInv, HolderInv, [Next]_vars, MaxFaults = 0, RaisesEarly = {}
  PROVE  HolderInv'
<1> USE DEF TypeInv
<1>t. TypeOK /\ TypeOK'
  BY TypeStep
\* Steps that leave sessions and batches alone and claim no row.
<1>1. ASSUME \A t \in Tasks : row'[t].status = "CLAIMED" => row[t].status = "CLAIMED",
             UNCHANGED <<claims, outcomes, batch, pc, faults>>
      PROVE  HolderInv'
  BY <1>1 DEF HolderInv, NoStrandedClaim, Held
<1>2. ASSUME NEW S \in SUBSET Tasks, Enqueue(S) PROVE HolderInv'
  <2>1. \A t \in Tasks : row'[t].status = "CLAIMED" => row[t].status = "CLAIMED"
    BY <1>2, <1>t DEF Enqueue, TypeOK, RowType
  <2> QED BY <1>1, <1>2, <2>1 DEF Enqueue
<1>3. ASSUME NEW t \in Tasks, Elapse(t) PROVE HolderInv'
  <2>1. \A u \in Tasks : row'[u].status = "CLAIMED" => row[u].status = "CLAIMED"
    BY <1>3, <1>t DEF Elapse, TypeOK, RowType
  <2> QED BY <1>1, <1>3, <2>1 DEF Elapse
<1>4. ASSUME NEW w \in Workers, Pass(w) PROVE HolderInv'
  <2>h. /\ \A v \in Workers : /\ pc[v] \in {"claiming", "handling", "down"} => outcomes[v] = NoOutcomes
                              /\ pc[v] = "handling" => claims[v] = NoClaims
                              /\ \A t \in Tasks : claims[v][t] > 0 => Held(v, t)
        /\ \A t \in Tasks : row[t].status = "CLAIMED" =>
             \E v \in Workers : Held(v, t) \/ outcomes[v][t] # "none"
    BY DEF HolderInv, NoStrandedClaim
  \* Only the session and the batch of w change: it is enough to look at w.
  <2>u. /\ \A v \in Workers \ {w} : /\ claims'[v] = claims[v] /\ outcomes'[v] = outcomes[v]
                                    /\ batch'[v] = batch[v] /\ pc'[v] = pc[v]
        /\ faults' = 0
    <3>0. faults = 0
      BY DEF HolderInv
    <3>1. CASE Claim(w)
      BY <3>0, <3>1, <1>t DEF TypeOK, Claim
    <3>2. CASE StartBatch(w)
      BY <3>0, <3>2, <1>t DEF TypeOK, StartBatch
    <3>3. CASE HandlerCommits(w)
      BY <3>0, <3>3, <1>t DEF TypeOK, HandlerCommits, Commit
    <3>4. CASE HandlerRaisesEarly(w) \/ HandlerRaisesLate(w)
      BY <3>0, <3>4, <1>t DEF TypeOK, HandlerRaisesEarly, HandlerRaisesLate, SettleRaised,
                              SettleRaisedAs, Advance
    <3>5. CASE HandlerReturns(w)
      BY <3>0, <3>5, <1>t DEF TypeOK, HandlerReturns, Advance
    <3>6. CASE EndPass(w)
      BY <3>0, <3>6, <1>t DEF TypeOK, EndPass, Commit
    <3> QED BY <1>4, <3>1, <3>2, <3>3, <3>4, <3>5, <3>6 DEF Pass
  <2>1. ASSUME /\ pc'[w] \in {"claiming", "handling", "down"} => outcomes'[w] = NoOutcomes
               /\ pc'[w] = "handling" => claims'[w] = NoClaims
               /\ \A t \in Tasks : claims'[w][t] > 0 => Held(w, t)',
               \A t \in Tasks : Held(w, t) \/ outcomes[w][t] # "none" =>
                 Held(w, t)' \/ outcomes'[w][t] # "none" \/ row'[t].status # "CLAIMED",
               \A t \in Tasks : row'[t].status = "CLAIMED" /\ row[t].status # "CLAIMED" => Held(w, t)'
        PROVE  HolderInv'
    <3>1. \A v \in Workers \ {w}, t \in Tasks :
            (Held(v, t)' <=> Held(v, t)) /\ outcomes'[v][t] = outcomes[v][t]
      BY <2>u DEF Held
    <3>2. NoStrandedClaim'
      BY <2>h, <2>1, <3>1 DEF NoStrandedClaim
    <3>3. ASSUME NEW v \in Workers
          PROVE  /\ pc'[v] \in {"claiming", "handling", "down"} => outcomes'[v] = NoOutcomes
                 /\ pc'[v] = "handling" => claims'[v] = NoClaims
                 /\ \A t \in Tasks : claims'[v][t] > 0 => Held(v, t)'
      BY <2>h, <2>u, <2>1, <3>1
    <3> QED BY <2>u, <3>2, <3>3 DEF HolderInv
  <2>2. CASE Claim(w)
    <3>1. PICK t \in Eligible(w) : /\ claims' = [claims EXCEPT ![w][t] = row[t].attempts + 1]
                                   /\ batch' = [batch EXCEPT ![w] = Append(@, t)]
      BY <2>2 DEF Claim
    <3>2. /\ t \in Tasks /\ batch'[w] = Append(batch[w], t) /\ pc[w] = "claiming"
          /\ UNCHANGED <<row, outcomes, pc>>
      BY <2>2, <3>1, <1>t DEF Claim, Eligible, TypeOK
    <3>3. Held(w, t)' /\ \A u \in Tasks : Held(w, u) => Held(w, u)'
      BY <1>t, <3>2, AppendKeeps
    <3>4. \A u \in Tasks : u # t => claims'[w][u] = claims[w][u]
      BY <1>t, <3>1, <3>2 DEF TypeOK
    <3> QED BY <2>1, <2>h, <3>2, <3>3, <3>4
  <2>3. CASE StartBatch(w)
    <3>1. pc'[w] = "processing" /\ UNCHANGED <<row, claims, outcomes, batch>>
      BY <2>3, <1>t DEF StartBatch, TypeOK
    <3>2. \A t \in Tasks : Held(w, t)' <=> Held(w, t)
      BY <3>1 DEF Held
    <3> QED BY <2>1, <2>h, <3>1, <3>2
  <2>4. CASE Commit(w) /\ UNCHANGED batch
    <3>1. /\ row' = [t \in Tasks |-> Flushed(w, t)] /\ claims'[w] = NoClaims
          /\ outcomes'[w] = NoOutcomes
      BY <2>4, <1>t DEF Commit, TypeOK
    <3>2. \A t \in Tasks : Held(w, t)' <=> Held(w, t)
      BY <2>4 DEF Held
    <3>3. \A t \in Tasks : outcomes[w][t] # "none" => row'[t].status # "CLAIMED"
      <4>1. \A t \in Tasks : outcomes[w][t] \in Outcome
        BY <1>t DEF TypeOK
      <4> QED BY <3>1, <4>1 DEF Flushed, Outcome, Settled
    <3>4. \A t \in Tasks : row'[t].status = "CLAIMED" /\ row[t].status # "CLAIMED" => Held(w, t)
      <4>1. \A t \in Tasks : outcomes[w][t] \in Outcome
        BY <1>t DEF TypeOK
      <4> QED BY <2>h, <3>1, <4>1 DEF Flushed, Outcome, Settled
    <3>5. \A t \in Tasks : ~(claims'[w][t] > 0)
      BY <3>1 DEF NoClaims
    <3> QED BY <2>1, <3>1, <3>2, <3>3, <3>4, <3>5
  <2>5. ASSUME pc[w] = "handling", Advance(w), UNCHANGED row, claims'[w] = NoClaims,
               Current(w) \in Tasks => outcomes'[w][Current(w)] # "none"
        PROVE  HolderInv'
    <3>1. batch[w] # <<>> /\ outcomes[w] = NoOutcomes
      BY <2>5, <2>h DEF HandlingHasTask
    <3>2. batch'[w] = Tail(batch[w]) /\ pc'[w] = "processing"
      BY <2>5, <1>t DEF Advance, TypeOK
    <3>3. \A t \in Tasks : Held(w, t) => Held(w, t)' \/ t = Current(w)
      BY <1>t, <3>1, <3>2, TailKeeps
    <3>4. \A t \in Tasks : ~(claims'[w][t] > 0) /\ outcomes[w][t] = "none"
      BY <2>5, <3>1 DEF NoClaims, NoOutcomes
    <3> QED BY <2>1, <2>5, <3>2, <3>3, <3>4
  <2>6. CASE HandlerRaisesLate(w)
    <3>1. claims'[w] = NoClaims /\ UNCHANGED row
      BY <2>6, <1>t DEF HandlerRaisesLate, SettleRaised, SettleRaisedAs, TypeOK
    <3>2. Current(w) \in Tasks => outcomes'[w][Current(w)] \in {"FAILED", "RETRYING"}
      BY <2>6, <1>t DEF HandlerRaisesLate, SettleRaised, SettleRaisedAs, TypeOK, NoOutcomes
    <3> QED BY <2>5, <2>6, <3>1, <3>2 DEF HandlerRaisesLate
  <2>7. CASE HandlerReturns(w)
    <3>1. claims'[w] = NoClaims /\ claims[w] = NoClaims /\ outcomes[w] = NoOutcomes
      BY <2>7, <2>h, <1>t DEF HandlerReturns, TypeOK
    <3>2. UNCHANGED row
      BY <2>7, <1>t, <3>1, IdleFlush DEF HandlerReturns
    <3>3. Current(w) \in Tasks => outcomes'[w][Current(w)] = "SUCCEEDED"
      BY <2>7, <1>t DEF HandlerReturns, TypeOK, NoOutcomes
    <3> QED BY <2>5, <2>7, <3>1, <3>2, <3>3 DEF HandlerReturns
  <2> QED
    BY <1>4, <2>2, <2>3, <2>4, <2>6, <2>7
    DEF Pass, HandlerCommits, HandlerRaisesEarly, EndPass
<1>5. ASSUME NEW w \in Workers, EndPassFails(w) \/ Crash(w) PROVE HolderInv'
  BY <1>5 DEF EndPassFails, Crash, HolderInv
<1>6. ASSUME NEW w \in Workers, Restart(w) PROVE HolderInv'
  <2>1. \A v \in Workers, t \in Tasks : Held(v, t)' <=> Held(v, t)
    BY <1>6 DEF Restart, Held
  <2> QED BY <1>6, <2>1 DEF Restart, HolderInv, NoStrandedClaim
<1>7. CASE UNCHANGED vars
  BY <1>7, <1>1 DEF vars
<1> QED BY <1>2, <1>3, <1>4, <1>5, <1>6, <1>7 DEF Next

\* As long as nothing crashes, commits succeed and no handler raises before its
\* first commit, a CLAIMED row is always in the hands of a pass, for any number
\* of worker loops racing for the same rows.
THEOREM ClaimsAreHeld ==
  ASSUME MaxFaults = 0, RaisesEarly = {}
  PROVE  Spec => []NoStrandedClaim
<1> DEFINE Inv == TypeInv /\ HolderInv
<1>1. Init => Inv
  <2>1. Init => HolderInv
    BY DEF Init, HolderInv, NoStrandedClaim, NoClaims, NoOutcomes
  <2> QED BY <2>1, TypeInit
<1>2. Inv /\ [Next]_vars => Inv'
  BY TypeStep, HolderStep
<1>3. Inv => NoStrandedClaim
  BY DEF HolderInv
<1> QED BY <1>1, <1>2, <1>3, PTL DEF Spec
----------------------------------------------------------------------------
(* What the modules that give handlers a meaning need to know of the queue.   *)

\* With one worker and no early raise, the session is only ever ahead of a row
\* it has claimed: a held task is claimed, in the session or in the row, and an
\* outcome waits for the next commit of a row that is CLAIMED.
LeaseInv ==
  \A w \in Workers, t \in Tasks :
    /\ Held(w, t) => claims[w][t] > 0 \/ row[t].status = "CLAIMED"
    /\ outcomes[w][t] # "none" => row[t].status = "CLAIMED"

LEMMA LeaseInit == Init => LeaseInv
  BY DEF Init, LeaseInv, Held, NoOutcomes

\* One step of the queue, whatever the handlers mean.
LEMMA LeaseStep ==
  ASSUME SingleWorkerInv, LeaseInv, [Next]_vars, OneWorker,
         \A w \in Workers : ~HandlerRaisesEarly(w)
  PROVE  LeaseInv'
<1> USE DEF SingleWorkerInv, TypeInv
<1>t. TypeOK /\ TypeOK'
  BY TypeStep
\* Steps that leave sessions and batches alone and no row CLAIMED behind.
<1>1. ASSUME \A t \in Tasks : row[t].status = "CLAIMED" => row'[t].status = "CLAIMED",
             UNCHANGED <<claims, outcomes, batch>>
      PROVE  LeaseInv'
  BY <1>1 DEF LeaseInv, Held
<1>2. ASSUME NEW S \in SUBSET Tasks, Enqueue(S) PROVE LeaseInv'
  <2>1. \A t \in Tasks : row[t].status = "CLAIMED" => row'[t].status = "CLAIMED"
    BY <1>2, <1>t DEF Enqueue, TypeOK, RowType
  <2> QED BY <1>1, <1>2, <2>1 DEF Enqueue
<1>3. ASSUME NEW t \in Tasks, Elapse(t) PROVE LeaseInv'
  <2>1. \A u \in Tasks : row[u].status = "CLAIMED" => row'[u].status = "CLAIMED"
    BY <1>3, <1>t DEF Elapse, TypeOK, RowType
  <2> QED BY <1>1, <1>3, <2>1 DEF Elapse
<1>4. ASSUME NEW w \in Workers, Pass(w) \/ EndPassFails(w) \/ Crash(w) \/ Restart(w)
      PROVE  LeaseInv'
  <2>s. SessionOf(w)
    BY DEF SessionInv
  <2>l. \A t \in Tasks : /\ Held(w, t) => claims[w][t] > 0 \/ row[t].status = "CLAIMED"
                         /\ outcomes[w][t] # "none" => row[t].status = "CLAIMED"
    BY DEF LeaseInv
  <2> SUFFICES \A t \in Tasks :
                 /\ Held(w, t)' => claims'[w][t] > 0 \/ row'[t].status = "CLAIMED"
                 /\ outcomes'[w][t] # "none" => row'[t].status = "CLAIMED"
    BY DEF LeaseInv, OneWorker
  <2>1. CASE Claim(w)
    <3>1. PICK t \in Eligible(w) : /\ claims' = [claims EXCEPT ![w][t] = row[t].attempts + 1]
                                   /\ batch' = [batch EXCEPT ![w] = Append(@, t)]
      BY <2>1 DEF Claim
    <3>2. /\ t \in Tasks /\ claims[w][t] = 0 /\ row[t].attempts \in Nat /\ pc[w] = "claiming"
          /\ batch'[w] = Append(batch[w], t) /\ UNCHANGED <<row, outcomes>>
      BY <2>1, <3>1, <1>t DEF Claim, Eligible, TypeOK, RowType
    <3>3. ~Held(w, t)
      BY <2>s, <3>2 DEF SessionOf
    <3>4. \A u \in Tasks : Held(w, u)' => Held(w, u) \/ u = t
      BY <1>t, <2>s, <3>2, <3>3, AppendHeld DEF SessionOf
    <3>5. claims'[w][t] > 0 /\ \A u \in Tasks : u # t => claims'[w][u] = claims[w][u]
      BY <1>t, <3>1, <3>2 DEF TypeOK
    <3> QED BY <2>l, <3>2, <3>4, <3>5
  <2>2. CASE StartBatch(w) \/ Restart(w)
    <3>1. UNCHANGED <<row, claims, outcomes, batch>>
      BY <2>2 DEF StartBatch, Restart
    <3> QED BY <2>l, <3>1 DEF Held
  <2>3. CASE Commit(w) /\ UNCHANGED batch
    <3>1. /\ row' = [t \in Tasks |-> Flushed(w, t)] /\ outcomes'[w] = NoOutcomes
      BY <2>3, <1>t DEF Commit, TypeOK
    <3>2. \A t \in Tasks : outcomes'[w][t] = "none"
      BY <3>1 DEF NoOutcomes
    <3>3. \A t \in Tasks : Held(w, t) => outcomes[w][t] = "none"
      BY <2>s DEF SessionOf
    <3> QED BY <2>l, <2>3, <3>1, <3>2, <3>3 DEF Flushed, Held
  <2>4. ASSUME pc[w] = "handling", Advance(w), UNCHANGED row, claims'[w] = NoClaims,
               \A t \in Tasks : t # Current(w) => outcomes'[w][t] = "none"
        PROVE  \A t \in Tasks :
                 /\ Held(w, t)' => claims'[w][t] > 0 \/ row'[t].status = "CLAIMED"
                 /\ outcomes'[w][t] # "none" => row'[t].status = "CLAIMED"
    <3>1. batch[w] # <<>> /\ claims[w] = NoClaims /\ batch'[w] = Tail(batch[w])
      BY <2>4, <2>s, <1>t DEF HandlingHasTask, SessionOf, Advance, TypeOK
    <3>2. \A t \in Tasks : Held(w, t) => row[t].status = "CLAIMED"
      BY <2>l, <3>1 DEF NoClaims
    <3>3. Held(w, Current(w)) /\ \A t \in Tasks : Held(w, t)' => Held(w, t)
      BY <1>t, <2>s, <3>1, TailHeld DEF SessionOf
    <3> QED BY <2>4, <3>2, <3>3
  <2>5. CASE HandlerRaisesLate(w)
    <3>1. /\ claims'[w] = NoClaims /\ UNCHANGED row
          /\ \A t \in Tasks : t # Current(w) => outcomes'[w][t] = "none"
      BY <2>5, <1>t DEF HandlerRaisesLate, SettleRaised, SettleRaisedAs, TypeOK, NoOutcomes
    <3> QED BY <2>4, <2>5, <3>1 DEF HandlerRaisesLate
  <2>6. CASE HandlerReturns(w)
    <3>1. claims[w] = NoClaims /\ outcomes[w] = NoOutcomes
      BY <2>6, <2>s DEF HandlerReturns, SessionOf
    <3>2. /\ claims'[w] = NoClaims /\ UNCHANGED row
          /\ \A t \in Tasks : t # Current(w) => outcomes'[w][t] = "none"
      BY <2>6, <1>t, <3>1, IdleFlush DEF HandlerReturns, TypeOK, NoOutcomes
    <3> QED BY <2>4, <2>6, <3>2 DEF HandlerReturns
  <2>7. CASE EndPassFails(w) \/ Crash(w)
    <3>1. outcomes'[w] = NoOutcomes /\ batch'[w] = <<>>
      BY <2>7, <1>t DEF EndPassFails, Crash, Rollback, TypeOK
    <3> QED BY <3>1 DEF Held, NoOutcomes
  <2> QED
    BY <1>4, <2>1, <2>2, <2>3, <2>5, <2>6, <2>7 DEF Pass, HandlerCommits, EndPass
<1>5. CASE UNCHANGED vars
  BY <1>5, <1>1 DEF vars
<1> QED BY <1>2, <1>3, <1>4, <1>5 DEF Next

\* No handler of t will run again: its row is not claimable and no session has
\* anything but success in store for it.
Spent(t) ==
  /\ row[t].status \in {"CLAIMED", "SUCCEEDED"}
  /\ \A w \in Workers : ~Held(w, t) /\ outcomes[w][t] \in {"none", "SUCCEEDED"}

\* Spent is for good with one worker.
LEMMA SpentStep ==
  ASSUME SingleWorkerInv, [Next]_vars, OneWorker, NEW t \in Tasks, Spent(t)
  PROVE  Spent(t)'
<1> USE DEF SingleWorkerInv, TypeInv
<1>t. TypeOK
  OBVIOUS
<1>1. ASSUME row'[t].status = row[t].status, UNCHANGED <<outcomes, batch>> PROVE Spent(t)'
  BY <1>1 DEF Spent, Held
<1>2. ASSUME NEW S \in SUBSET Tasks, Enqueue(S) PROVE Spent(t)'
  BY <1>1, <1>2, <1>t DEF Enqueue, TypeOK, RowType, Spent
<1>3. ASSUME NEW u \in Tasks, Elapse(u) PROVE Spent(t)'
  BY <1>1, <1>3, <1>t DEF Elapse, TypeOK, RowType
<1>4. ASSUME NEW w \in Workers, Pass(w) \/ EndPassFails(w) \/ Crash(w) \/ Restart(w)
      PROVE  Spent(t)'
  <2>s. SessionOf(w)
    BY DEF SessionInv
  <2>h. /\ ~Held(w, t) /\ outcomes[w][t] \in {"none", "SUCCEEDED"}
        /\ row[t].status \in {"CLAIMED", "SUCCEEDED"} /\ ~(claims[w][t] > 0)
    BY <2>s DEF Spent, SessionOf, Claimable
  <2> SUFFICES /\ row'[t].status \in {"CLAIMED", "SUCCEEDED"}
               /\ ~Held(w, t)' /\ outcomes'[w][t] \in {"none", "SUCCEEDED"}
    BY DEF Spent, OneWorker
  <2>f. Flushed(w, t).status \in {"CLAIMED", "SUCCEEDED"}
    BY <2>h DEF Flushed
  <2>n. NoOutcomes[t] = "none" /\ \A o : \A u \in Tasks \ {t} : [NoOutcomes EXCEPT ![u] = o][t] = "none"
    BY DEF NoOutcomes
  <2>1. CASE Claim(w)
    <3>1. PICK u \in Eligible(w) : batch' = [batch EXCEPT ![w] = Append(@, u)]
      BY <2>1 DEF Claim
    <3>2. /\ u \in Tasks /\ u # t /\ ~Held(w, u) /\ batch'[w] = Append(batch[w], u)
          /\ UNCHANGED <<row, outcomes>>
      BY <2>1, <2>h, <2>s, <3>1, <1>t DEF Claim, Eligible, Claimable, TypeOK, SessionOf
    <3>3. ~Held(w, t)'
      BY <1>t, <2>s, <2>h, <3>2, AppendHeld DEF SessionOf
    <3> QED BY <2>h, <3>2, <3>3
  <2>2. CASE StartBatch(w) \/ Restart(w)
    BY <2>2, <2>h DEF StartBatch, Restart, Held
  <2>3. CASE Commit(w) /\ UNCHANGED batch
    BY <2>3, <2>f, <2>h, <2>n, <1>t DEF Commit, Held, TypeOK
  <2>4. ASSUME pc[w] = "handling" \/ batch[w] # <<>>, Advance(w),
               row'[t].status \in {"CLAIMED", "SUCCEEDED"},
               NEW o, outcomes' = [outcomes EXCEPT ![w] = [NoOutcomes EXCEPT ![Current(w)] = o]]
        PROVE  row'[t].status \in {"CLAIMED", "SUCCEEDED"} /\ ~Held(w, t)' /\ outcomes'[w][t] \in {"none", "SUCCEEDED"}
    <3>1. batch[w] # <<>> /\ batch'[w] = Tail(batch[w])
      BY <2>4, <1>t DEF HandlingHasTask, Advance, TypeOK
    <3>2. Current(w) \in Tasks /\ Current(w) # t /\ ~Held(w, t)'
      BY <1>t, <2>s, <2>h, <3>1, TailHeld DEF SessionOf
    <3>3. outcomes'[w][t] = "none"
      BY <2>4, <2>n, <3>2, <1>t DEF TypeOK
    <3> QED BY <2>4, <3>2, <3>3
  <2>5. CASE HandlerRaisesEarly(w) \/ HandlerRaisesLate(w)
    BY <2>4, <2>5, <2>h DEF HandlerRaisesEarly, HandlerRaisesLate, SettleRaised, SettleRaisedAs
  <2>6. CASE HandlerReturns(w)
    BY <2>4, <2>6, <2>f DEF HandlerReturns
  <2>7. CASE EndPassFails(w) \/ Crash(w)
    <3>1. outcomes'[w] = NoOutcomes /\ UNCHANGED row /\ (batch'[w] = <<>> \/ UNCHANGED batch)
      BY <2>7, <1>t DEF EndPassFails, Crash, Rollback, TypeOK
    <3> QED BY <2>h, <2>n, <3>1 DEF Held
  <2> QED
    BY <1>4, <2>1, <2>2, <2>3, <2>5, <2>6, <2>7 DEF Pass, HandlerCommits, EndPass
<1>5. CASE UNCHANGED vars
  BY <1>5, <1>1 DEF vars
<1> QED BY <1>2, <1>3, <1>4, <1>5 DEF Next

\* A handler that returns leaves its task spent, and it was not spent before.
LEMMA ReturnsSpends ==
  ASSUME SingleWorkerInv, LeaseInv, OneWorker, NEW w \in Workers, HandlerReturns(w)
  PROVE  \E t \in Tasks : t = Current(w) /\ ~Spent(t) /\ Spent(t)'
<1> USE DEF SingleWorkerInv, TypeInv
<1>t. TypeOK /\ SessionOf(w)
  BY DEF SessionInv
<1>1. batch[w] # <<>> /\ claims[w] = NoClaims /\ outcomes[w] = NoOutcomes
  BY <1>t DEF HandlerReturns, HandlingHasTask, SessionOf
<1>2. PICK t \in Tasks : t = Current(w)
  BY <1>t, <1>1, BatchTyping
<1>3. /\ batch'[w] = Tail(batch[w]) /\ outcomes'[w] = [NoOutcomes EXCEPT ![t] = "SUCCEEDED"]
      /\ UNCHANGED row
  BY <1>t, <1>1, <1>2, IdleFlush DEF HandlerReturns, Advance, TypeOK
<1>4. Held(w, t) /\ ~Held(w, t)'
  BY <1>t, <1>1, <1>2, <1>3, TailHeld DEF SessionOf
<1>5. row[t].status = "CLAIMED" /\ outcomes'[w][t] = "SUCCEEDED"
  BY <1>1, <1>3, <1>4 DEF LeaseInv, NoClaims, NoOutcomes
<1> QED BY <1>2, <1>3, <1>4, <1>5 DEF Spent, OneWorker

\* A handler that sets out is at a task that is not spent.
LEMMA CommitsUnspent ==
  ASSUME TypeOK, NEW w \in Workers, HandlerCommits(w)
  PROVE  Current(w) \in Tasks /\ ~Spent(Current(w))
<1>1. batch[w] # <<>> /\ batch[w] \in Seq(Tasks)
  BY DEF TypeOK, HandlerCommits
<1>2. 1 \in 1..Len(batch[w]) /\ batch[w][1] = Current(w) /\ Current(w) \in Tasks
  BY <1>1 DEF Current
<1> QED BY <1>2 DEF Spent, Held

\* Success, in a session or committed, has one source, for any number of workers.
Succeeded(t) == row[t].status = "SUCCEEDED" \/ \E w \in Workers : outcomes[w][t] = "SUCCEEDED"

LEMMA SuccessSource ==
  ASSUME TypeInv, [Next]_vars, NEW t \in Tasks, Succeeded(t)'
  PROVE  Succeeded(t) \/ \E w \in Workers : HandlerReturns(w) /\ t = Current(w)
<1>t. TypeOK
  BY DEF TypeInv
<1>1. ASSUME NEW S \in SUBSET Tasks, Enqueue(S) PROVE Succeeded(t)
  BY <1>1, <1>t DEF Enqueue, TypeOK, RowType, Succeeded
<1>2. ASSUME NEW u \in Tasks, Elapse(u) PROVE Succeeded(t)
  BY <1>2, <1>t DEF Elapse, TypeOK, RowType, Succeeded
<1>3. ASSUME NEW w \in Workers, Pass(w) \/ EndPassFails(w) \/ Crash(w) \/ Restart(w)
      PROVE  Succeeded(t) \/ (HandlerReturns(w) /\ t = Current(w))
  \* Rows change by a flush of w, and no session but that of w changes.
  <2>1. ASSUME row'[t].status \in {row[t].status, Flushed(w, t).status},
               NEW o, outcomes' = [outcomes EXCEPT ![w] = o],
               o[t] = "SUCCEEDED" => outcomes[w][t] = "SUCCEEDED"
        PROVE  Succeeded(t)
    BY <2>1, <1>t DEF Succeeded, Flushed, TypeOK
  <2>n. NoOutcomes[t] = "none" /\ \A u, o : [NoOutcomes EXCEPT ![u] = o][t] \in {"none", o}
    BY DEF NoOutcomes
  <2>2. CASE Claim(w) \/ StartBatch(w) \/ Restart(w)
    BY <2>2 DEF Claim, StartBatch, Restart, Succeeded
  <2>3. CASE Commit(w)
    BY <2>1, <2>3, <2>n DEF Commit
  <2>4. CASE HandlerRaisesEarly(w) \/ HandlerRaisesLate(w)
    BY <2>1, <2>4, <2>n DEF HandlerRaisesEarly, HandlerRaisesLate, SettleRaised, SettleRaisedAs
  <2>5. CASE HandlerReturns(w) /\ t # Current(w)
    <3>1. [NoOutcomes EXCEPT ![Current(w)] = "SUCCEEDED"][t] = "none"
      BY <2>5 DEF NoOutcomes
    <3> QED BY <2>1, <2>5, <3>1 DEF HandlerReturns
  <2>6. CASE EndPassFails(w) \/ Crash(w)
    BY <2>1, <2>6, <2>n DEF EndPassFails, Crash, Rollback
  <2> QED
    BY <1>3, <2>2, <2>3, <2>4, <2>5, <2>6 DEF Pass, HandlerCommits, EndPass
<1>4. CASE UNCHANGED vars
  BY <1>4 DEF vars, Succeeded
<1> QED BY <1>1, <1>2, <1>3, <1>4 DEF Next

\* What a session knows of is inserted, for any number of workers.
Known(w, t) == claims[w][t] > 0 \/ outcomes[w][t] # "none" \/ Held(w, t)

InsertedInv == \A w \in Workers, t \in Tasks : Known(w, t) => row[t].status # "absent"

LEMMA InsertedInit == Init => InsertedInv
  BY DEF Init, InsertedInv, Known, Held, NoClaims, NoOutcomes

\* Batches only grow by eligible tasks.
LEMMA HeldSource ==
  ASSUME TypeOK, NEW w \in Workers, NEW t \in Tasks, Held(w, t)'
  PROVE  /\ batch'[w] = Tail(batch[w]) /\ batch[w] # <<>> => Held(w, t)
         /\ \A u \in Tasks : batch'[w] = Append(batch[w], u) => Held(w, t) \/ t = u
<1> DEFINE s == batch[w]
<1>1. s \in Seq(Tasks)
  BY DEF TypeOK
<1>2. ASSUME batch'[w] = Tail(s), s # <<>> PROVE Held(w, t)
  <2>1. PICK i \in 1..Len(Tail(s)) : Tail(s)[i] = t
    BY <1>2 DEF Held
  <2>2. i + 1 \in 1..Len(s) /\ s[i + 1] = t
    BY <1>1, <1>2, <2>1
  <2> QED BY <2>2 DEF Held
<1>3. ASSUME NEW u \in Tasks, batch'[w] = Append(s, u) PROVE Held(w, t) \/ t = u
  <2>1. PICK i \in 1..Len(Append(s, u)) : Append(s, u)[i] = t
    BY <1>3 DEF Held
  <2>2. i \in 1..Len(s) \/ i = Len(s) + 1
    BY <1>1, <2>1
  <2>3. (i \in 1..Len(s) => s[i] = t) /\ (i = Len(s) + 1 => u = t)
    BY <1>1, <2>1
  <2> QED BY <2>2, <2>3 DEF Held
<1> QED BY <1>2, <1>3

\* Every step but the insertion of rows.
Serves ==
  \/ \E t \in Tasks : Elapse(t)
  \/ \E w \in Workers : Pass(w) \/ EndPassFails(w) \/ Crash(w) \/ Restart(w)
  \/ UNCHANGED vars

\* The workers neither insert rows nor remove them.
LEMMA RowsStay ==
  ASSUME TypeInv, InsertedInv, Serves, NEW t \in Tasks
  PROVE  row'[t].status = "absent" <=> row[t].status = "absent"
<1>t. TypeOK
  BY DEF TypeInv
<1>1. ASSUME NEW u \in Tasks, Elapse(u) PROVE row'[t].status = row[t].status
  BY <1>1, <1>t DEF Elapse, TypeOK, RowType
<1>2. ASSUME NEW w \in Workers, row' = [u \in Tasks |-> Flushed(w, u)]
      PROVE  row'[t].status = "absent" <=> row[t].status = "absent"
  <2>1. outcomes[w][t] \in Outcome /\ (Known(w, t) => row[t].status # "absent")
    BY <1>t DEF TypeOK, InsertedInv
  <2> QED
    BY <1>2, <2>1 DEF Flushed, Known, Outcome, Settled
<1>3. ASSUME NEW w \in Workers, Pass(w) \/ EndPassFails(w) \/ Crash(w) \/ Restart(w)
      PROVE  UNCHANGED row \/ row' = [u \in Tasks |-> Flushed(w, u)]
  BY <1>3
  DEF Pass, Claim, StartBatch, HandlerCommits, Commit, HandlerRaisesEarly, HandlerRaisesLate,
      SettleRaised, SettleRaisedAs, HandlerReturns, EndPass, EndPassFails, Crash, Rollback, Restart
<1> QED BY <1>1, <1>2, <1>3 DEF Serves, vars

LEMMA InsertedStep == TypeInv /\ InsertedInv /\ [Next]_vars => InsertedInv'
<1> SUFFICES ASSUME TypeInv, InsertedInv, [Next]_vars,
                    NEW w \in Workers, NEW t \in Tasks, Known(w, t)'
             PROVE  row'[t].status # "absent"
  BY DEF InsertedInv
<1>t. TypeOK
  BY DEF TypeInv
<1>1. ASSUME row[t].status # "absent", ~Serves PROVE row'[t].status # "absent"
  BY <1>1, <1>t DEF Serves, Next, Enqueue, TypeOK, RowType
<1>2. ASSUME row[t].status # "absent" PROVE row'[t].status # "absent"
  BY <1>1, <1>2, RowsStay
<1>3. ASSUME Known(w, t) PROVE row'[t].status # "absent"
  BY <1>2, <1>3 DEF InsertedInv
<1>4. ASSUME UNCHANGED <<claims, outcomes, batch>> PROVE Known(w, t)
  BY <1>4 DEF Known, Held
<1>5. ASSUME NEW S \in SUBSET Tasks, Enqueue(S) PROVE Known(w, t)
  BY <1>4, <1>5 DEF Enqueue
<1>6. ASSUME NEW u \in Tasks, Elapse(u) PROVE Known(w, t)
  BY <1>4, <1>6 DEF Elapse
<1>7. ASSUME NEW v \in Workers, Pass(v) \/ EndPassFails(v) \/ Crash(v) \/ Restart(v)
      PROVE  Known(w, t) \/ row[t].status # "absent"
  <2>n. ~(NoClaims[t] > 0) /\ NoOutcomes[t] = "none"
    BY DEF NoClaims, NoOutcomes
  <2>1. CASE v # w
    <3>1. claims'[w] = claims[w] /\ outcomes'[w] = outcomes[w] /\ batch'[w] = batch[w]
      BY <1>7, <1>t, <2>1
      DEF Pass, Claim, StartBatch, HandlerCommits, Commit, HandlerRaisesEarly, HandlerRaisesLate,
          SettleRaised, SettleRaisedAs, HandlerReturns, Advance, EndPass, EndPassFails, Crash,
          Rollback, Restart, TypeOK
    <3> QED BY <3>1 DEF Known, Held
  <2>2. CASE Claim(w)
    <3>1. PICK u \in Eligible(w) : /\ claims' = [claims EXCEPT ![w][u] = row[u].attempts + 1]
                                   /\ batch' = [batch EXCEPT ![w] = Append(@, u)]
      BY <2>2 DEF Claim
    <3>2. /\ u \in Tasks /\ batch'[w] = Append(batch[w], u) /\ row[u].status # "absent"
          /\ u # t => claims'[w][t] = claims[w][t]
          /\ outcomes' = outcomes
      BY <1>t, <2>2, <3>1 DEF Claim, Eligible, Claimable, TypeOK
    <3> QED BY <1>t, <3>2, HeldSource DEF Known
  <2>3. CASE StartBatch(w) \/ Restart(w)
    BY <1>4, <2>3 DEF StartBatch, Restart
  <2>4. CASE claims'[w] = NoClaims /\ outcomes'[w] = NoOutcomes
             /\ (batch'[w] = batch[w] \/ batch'[w] = <<>>)
    BY <2>4, <2>n DEF Known, Held
  <2>5. CASE HandlerCommits(w) \/ EndPass(w) \/ EndPassFails(w) \/ Crash(w)
    BY <1>t, <2>4, <2>5 DEF HandlerCommits, EndPass, Commit, EndPassFails, Crash, Rollback, TypeOK
  <2>6. ASSUME batch[w] # <<>>, batch'[w] = Tail(batch[w]), claims'[w] = NoClaims,
               NEW o, outcomes'[w] = [NoOutcomes EXCEPT ![Current(w)] = o]
        PROVE  Known(w, t)
    <3>1. Held(w, Current(w)) /\ Current(w) \in Tasks
      BY <1>t, <2>6, BatchTyping DEF Held, Current, TypeOK
    <3>2. CASE t = Current(w)
      BY <3>1, <3>2 DEF Known
    <3>3. CASE t # Current(w)
      <4>1. outcomes'[w][t] = "none"
        BY <2>6, <3>3 DEF NoOutcomes
      <4>2. Held(w, t)
        BY <1>t, <2>6, <2>n, <4>1, HeldSource DEF Known
      <4> QED BY <4>2 DEF Known
    <3> QED BY <3>2, <3>3
  <2>7. CASE HandlerRaisesEarly(w) \/ HandlerRaisesLate(w)
    <3>1. batch[w] # <<>> /\ batch'[w] = Tail(batch[w]) /\ claims'[w] = NoClaims
      BY <1>t, <2>7 DEF HandlerRaisesEarly, HandlerRaisesLate, SettleRaised, SettleRaisedAs, Advance,
                        TypeInv, HandlingHasTask, TypeOK
    <3>2. \E o : outcomes'[w] = [NoOutcomes EXCEPT ![Current(w)] = o]
      BY <1>t, <2>7 DEF HandlerRaisesEarly, HandlerRaisesLate, SettleRaised, SettleRaisedAs, TypeOK
    <3> QED BY <2>6, <3>1, <3>2
  <2>8. CASE HandlerReturns(w)
    <3>1. /\ batch[w] # <<>> /\ batch'[w] = Tail(batch[w]) /\ claims'[w] = NoClaims
          /\ outcomes'[w] = [NoOutcomes EXCEPT ![Current(w)] = "SUCCEEDED"]
      BY <1>t, <2>8 DEF HandlerReturns, Advance, TypeInv, HandlingHasTask, TypeOK
    <3> QED BY <2>6, <3>1
  <2> QED
    BY <1>7, <2>1, <2>2, <2>3, <2>5, <2>7, <2>8 DEF Pass
<1>8. CASE UNCHANGED vars
  BY <1>3, <1>4, <1>8 DEF vars
<1> QED BY <1>2, <1>3, <1>5, <1>6, <1>7, <1>8 DEF Next

\* With one worker the session's own invariant says so.
LEMMA SessionInserted == SingleWorkerInv => InsertedInv
  BY DEF SingleWorkerInv, SessionInv, SessionOf, InsertedInv, Known, Open, Claimable

\* A task in the hands of a worker has its row.
LEMMA HeldIsInserted ==
  ASSUME SingleWorkerInv, NEW w \in Workers, batch[w] # <<>>
  PROVE  Current(w) \in Tasks /\ row[Current(w)].status \notin Settled \cup {"absent"}
<1>1. TypeOK /\ SessionOf(w)
  BY DEF SingleWorkerInv, TypeInv, SessionInv
<1>2. Current(w) \in Tasks /\ Held(w, Current(w))
  BY <1>1, BatchTyping DEF Held, Current, TypeOK
<1> QED BY <1>1, <1>2 DEF SessionOf, Open
=============================================================================
