------------------------ MODULE VerificationsProofs ------------------------
(* Machine-checked facts about Verifications, for any tasks, workers,         *)
(* operators, comments and bounds unless a theorem says otherwise.            *)
EXTENDS Verifications, TaskQueueProofs

LEMMA DocumentIsTask == Documents \subseteq Tasks
  BY DEF Documents

(* Every step is a step of the queue or leaves the queue alone.               *)

LEMMA QueueStep == VNext => [Next]_vars
<1>1. ASSUME NEW t \in Documents, Submit(t) PROVE Next
  <2>1. {t} \in SUBSET Tasks /\ Enqueue({t})
    BY <1>1, DocumentIsTask DEF Submit
  <2> QED BY <2>1 DEF Next
<1>2. ASSUME NEW w \in Workers, SetProcessing(w) \/ WriteReport(w) \/ RaiseEarly(w) PROVE Next
  BY <1>2 DEF SetProcessing, WriteReport, RaiseEarly, Next, Pass
<1>3. Elsewhere => Next
  <2>1. SUBSET Bulk \subseteq SUBSET Tasks
    BY BulkAssumption
  <2> QED BY <2>1 DEF Elsewhere, BulkCommits, Next, Pass
<1>4. ASSUME NEW o \in Operators, CommitDecision(o) PROVE UNCHANGED vars
  BY <1>4 DEF CommitDecision, DecideRow
<1>5. ASSUME NEW o \in Operators, NEW t \in Documents, NEW d \in Decisions,
             NEW c \in {""} \cup Comments, OpenDecision(o, t, d, c)
      PROVE  UNCHANGED vars
  BY <1>5 DEF OpenDecision, TakeRequest
<1> QED BY <1>1, <1>2, <1>3, <1>4, <1>5 DEF VNext

LEMMA QueueStutter == UNCHANGED allVars => UNCHANGED vars
  BY DEF allVars

\* Histories only grow.
LEMMA HistoryGrows ==
  ASSUME [VNext]_allVars
  PROVE  raised \subseteq raised' /\ again \subseteq again'
  BY DEF VNext, Submit, SetProcessing, WriteReport, RaiseEarly, Elsewhere, CommitDecision, DecideRow,
         OpenDecision, TakeRequest, verVars, allVars

----------------------------------------------------------------------------
(* Typing, for any number of workers and operators.                           *)

TrailType == Seq({"SUBMITTED", "PROCESSED"} \cup Decisions)
DeskType  == {NoDesk} \cup [open : {TRUE}, on : Documents, seen : VerType, decision : Decisions,
                            comment : {""} \cup Comments]

VTypeInv ==
  /\ TypeInv
  /\ ver \in [Documents -> VerType]
  /\ trail \in [Documents -> TrailType]
  /\ desk \in [Operators -> DeskType]
  /\ raised \subseteq RaisesEarly /\ again \subseteq Documents

\* What the commit of a decision leaves in a row.
Decide(v, q) ==
  [v EXCEPT !.decision = Written(v.decision, q.seen.decision, q.decision),
            !.comment  = Written(v.comment, q.seen.comment, q.comment),
            !.status   = Written(v.status, q.seen.status, q.decision)]

\* A request that is open is a request.
LEMMA OpenDesk ==
  ASSUME NEW q \in DeskType, q.open
  PROVE  /\ q.on \in Documents /\ q.seen \in VerType /\ q.decision \in Decisions
         /\ q.comment \in {""} \cup Comments
<1>1. ~NoDesk.open
  BY DEF NoDesk
<1>2. q # NoDesk
  BY <1>1
<1> HIDE DEF NoDesk
<1> QED BY <1>2 DEF DeskType

LEMMA DecideTyping ==
  ASSUME NEW v \in VerType, NEW q \in DeskType, q.open
  PROVE  /\ Decide(v, q) \in VerType /\ Decide(v, q).score = v.score
         /\ Decide(v, q).status \in {v.status} \cup Decisions
         /\ q.on \in Documents /\ q.seen \in VerType /\ q.decision \in Decisions
<1>1. /\ q.on \in Documents /\ q.seen \in VerType /\ q.decision \in Decisions
      /\ q.comment \in {""} \cup Comments
  BY OpenDesk
<1>2. Decisions \subseteq Status
  BY DEF Status
<1> QED BY <1>1, <1>2 DEF Decide, Written, VerType

LEMMA DeskStep ==
  ASSUME VTypeInv, NEW o \in Operators, CommitDecision(o)
  PROVE  /\ desk[o] \in DeskType /\ desk[o].open
         /\ ver' = [ver EXCEPT ![desk[o].on] = Decide(ver[desk[o].on], desk[o])]
         /\ trail' = [trail EXCEPT ![desk[o].on] = Append(@, desk[o].decision)]
         /\ desk' = [desk EXCEPT ![o] = NoDesk]
         /\ UNCHANGED vars /\ UNCHANGED <<raised, again>>
  BY DEF VTypeInv, CommitDecision, DecideRow, Decide

LEMMA VTypeInit == VInit => VTypeInv
<1> SUFFICES ASSUME VInit PROVE VTypeInv
  OBVIOUS
<1>1. NoVer \in VerType /\ NoDesk \in DeskType /\ <<>> \in TrailType
  BY DEF NoVer, VerType, Status, Scores, DeskType, TrailType
<1> QED BY <1>1, TypeInit DEF VInit, VTypeInv

LEMMA AppendTyping ==
  ASSUME NEW s \in TrailType, NEW e \in {"SUBMITTED", "PROCESSED"} \cup Decisions
  PROVE  Append(s, e) \in TrailType
  BY DEF TrailType

LEMMA VTypeStep == VTypeInv /\ [VNext]_allVars => VTypeInv'
<1> SUFFICES ASSUME VTypeInv, [VNext]_allVars PROVE VTypeInv'
  OBVIOUS
<1>t. TypeInv /\ TypeInv' /\ ver \in [Documents -> VerType] /\ trail \in [Documents -> TrailType]
      /\ desk \in [Operators -> DeskType] /\ raised \subseteq RaisesEarly /\ again \subseteq Documents
  BY QueueStep, QueueStutter, TypeStep DEF VTypeInv
<1>1. ASSUME NEW t \in Documents, Submit(t) PROVE VTypeInv'
  <2>1. [ver[t] EXCEPT !.status = "SUBMITTED"] \in VerType
    BY <1>t DEF VerType, Status
  <2>2. ver' \in [Documents -> VerType]
    BY <1>1, <1>t, <2>1 DEF Submit
  <2>3. trail' \in [Documents -> TrailType]
    BY <1>1, <1>t, AppendTyping DEF Submit
  <2> QED BY <1>1, <1>t, <2>2, <2>3 DEF Submit, VTypeInv
<1>2. ASSUME NEW w \in Workers, SetProcessing(w) PROVE VTypeInv'
  <2>1. Current(w) \in Documents
    BY <1>2 DEF SetProcessing
  <2>2. [ver[Current(w)] EXCEPT !.status = "PROCESSING"] \in VerType
    BY <1>t, <2>1 DEF VerType, Status
  <2>3. ver' \in [Documents -> VerType]
    BY <1>2, <1>t, <2>1, <2>2 DEF SetProcessing
  <2>4. again' \subseteq Documents
    BY <1>2, <1>t, <2>1 DEF SetProcessing
  <2> QED BY <1>2, <1>t, <2>3, <2>4 DEF SetProcessing, VTypeInv
<1>3. ASSUME NEW w \in Workers, WriteReport(w) PROVE VTypeInv'
  <2>1. Current(w) \in Documents
    BY <1>3 DEF WriteReport
  <2>2. PICK r \in EngineReports :
          ver' = [ver EXCEPT ![Current(w)].status = r.status, ![Current(w)].score = r.score]
    BY <1>3 DEF WriteReport
  <2>3. r.status \in Status /\ r.score \in Scores
    BY DEF EngineReports, Status, Decisions, Scores
  <2>4. [[ver[Current(w)] EXCEPT !.status = r.status] EXCEPT !.score = r.score] \in VerType
    BY <1>t, <2>1, <2>3 DEF VerType
  <2>5. ver' \in [Documents -> VerType]
    BY <1>t, <2>1, <2>2, <2>4
  <2>6. trail' \in [Documents -> TrailType]
    <3>1. Append(trail[Current(w)], "PROCESSED") \in TrailType
      BY <1>t, <2>1, AppendTyping
    <3>3. trail[Current(w)] \in TrailType
      BY <1>t, <2>1
    <3>2. trail'[Current(w)] \in TrailType /\ trail' = [trail EXCEPT ![Current(w)] = trail'[Current(w)]]
      BY <1>3, <1>t, <2>1, <3>1 DEF WriteReport
    <3> QED BY <1>t, <3>2
  <2> QED BY <1>3, <1>t, <2>5, <2>6 DEF WriteReport, VTypeInv
<1>8. ASSUME NEW w \in Workers, RaiseEarly(w) PROVE VTypeInv'
  BY <1>8, <1>t DEF RaiseEarly, HandlerRaisesEarly, VTypeInv
<1>4. CASE Elsewhere
  BY <1>4, <1>t DEF Elsewhere, verVars, VTypeInv
<1>5. ASSUME NEW o \in Operators, CommitDecision(o) PROVE VTypeInv'
  <2> DEFINE t == desk[o].on
  <2>0. desk[o] \in DeskType /\ desk[o].open
    BY <1>5, DeskStep
  <2>1. /\ Decide(ver[t], desk[o]) \in VerType /\ desk[o].decision \in Decisions /\ t \in Documents
    <3>1. t \in Documents /\ desk[o].decision \in Decisions
      BY <2>0, OpenDesk
    <3>2. ver[t] \in VerType
      BY <1>t, <3>1
    <3> QED BY <2>0, <3>1, <3>2, DecideTyping
  <2>2. ver' \in [Documents -> VerType]
    BY <1>5, <1>t, <2>1, DeskStep
  <2>3. trail' \in [Documents -> TrailType]
    <3>1. trail' = [trail EXCEPT ![t] = Append(trail[t], desk[o].decision)]
      BY <1>5, DeskStep
    <3>2. Append(trail[t], desk[o].decision) \in TrailType
      BY <1>t, <2>1, AppendTyping
    <3> QED BY <1>t, <3>1, <3>2
  <2>4. NoDesk \in DeskType
    BY DEF DeskType
  <2> QED BY <1>5, <1>t, <2>2, <2>3, <2>4, DeskStep DEF VTypeInv
<1>6. ASSUME NEW o \in Operators, NEW t \in Documents, NEW d \in Decisions,
             NEW c \in {""} \cup Comments, OpenDecision(o, t, d, c)
      PROVE  VTypeInv'
  <2>1. [open |-> TRUE, on |-> t, seen |-> ver[t], decision |-> d, comment |-> c] \in DeskType
    BY <1>t DEF DeskType
  <2> QED BY <1>6, <1>t, <2>1 DEF OpenDecision, TakeRequest, VTypeInv
<1>7. CASE UNCHANGED allVars
  BY <1>7, <1>t DEF allVars, verVars, VTypeInv
<1> QED BY <1>1, <1>2, <1>3, <1>4, <1>5, <1>6, <1>7, <1>8 DEF VNext

\* No status outside VerificationStatus is ever stored, and queue, rows, audit
\* trails and decision requests keep their types (Verification, QueueTask), for
\* any number of workers and operators.
THEOREM VerificationTypes == VSpec => []VTypeOK
<1>1. VTypeInv => VTypeOK
  <2>1. ASSUME VTypeInv, NEW o \in Operators, desk[o].open
        PROVE  /\ desk[o].on \in Documents /\ desk[o].seen \in VerType
               /\ desk[o].decision \in Decisions /\ desk[o].comment \in {""} \cup Comments
    BY <2>1, OpenDesk DEF VTypeInv
  <2> QED BY <2>1 DEF VTypeInv, TypeInv, VTypeOK, TrailType
<1> QED BY <1>1, VTypeInit, VTypeStep, PTL DEF VSpec
----------------------------------------------------------------------------
(* Success, for any number of workers and operators.                          *)

\* What SUCCEEDED rests on: the session that will commit it has seen the result.
SuccessInv == VTypeInv /\ \A t \in Documents : Succeeded(t) => Reported(t)

\* A handler of a verification that returns has written its report.
LEMMA ReturnsReport ==
  ASSUME TypeInv, [VNext]_allVars, NEW w \in Workers, HandlerReturns(w), Current(w) \in Documents
  PROVE  WriteReport(w)
<1>t. TypeOK
  BY DEF TypeInv
<1>1. /\ pc[w] = "handling" /\ pc'[w] = "processing"
      /\ Current(w) \in Tasks /\ outcomes'[w][Current(w)] = "SUCCEEDED"
  BY <1>t, BatchTyping DEF HandlerReturns, Advance, TypeInv, HandlingHasTask, TypeOK, NoOutcomes
<1>2. \A t \in Tasks : ~Submit(t) /\ ~Elapse(t)
  BY <1>1 DEF Submit, Enqueue, Elapse
<1>3. \A v \in Workers : ~SetProcessing(v) /\ ~RaiseEarly(v) /\ ~HandlerCommits(v)
  BY <1>t, <1>1
  DEF SetProcessing, HandlerCommits, RaiseEarly, HandlerRaisesEarly, Advance, TypeOK
<1>4. \A v \in Workers \ {w} : ~HandlerReturns(v)
  BY <1>t, <1>1 DEF HandlerReturns, Advance, TypeOK
<1>5. ~HandlerRaisesLate(w)
  BY <1>t, <1>1 DEF HandlerRaisesLate, SettleRaised, SettleRaisedAs, NoOutcomes, TypeOK
<1>6. \A v \in Workers \ {w} : ~HandlerRaisesLate(v)
  BY <1>t, <1>1 DEF HandlerRaisesLate, Advance, TypeOK
<1>7. \A v \in Workers : ~(\/ Claim(v) \/ StartBatch(v) \/ EndPass(v) \/ EndPassFails(v)
                           \/ Crash(v) \/ Restart(v))
  BY <1>t, <1>1 DEF Claim, StartBatch, EndPass, EndPassFails, Crash, Restart, TypeOK
<1>8. ~Elsewhere
  <2>1. \A v \in Workers : ~BulkCommits(v)
    BY <1>3, <1>4 DEF BulkCommits, Documents
  <2>2. \A S : ~Enqueue(S)
    BY <1>1 DEF Enqueue
  <2> QED BY <1>2, <1>5, <1>6, <1>7, <2>1, <2>2 DEF Elsewhere
<1>9. ~UNCHANGED pc
  BY <1>1
<1>10. \A t \in Documents : ~Submit(t)
  BY <1>2, DocumentIsTask
<1>11. \A v \in Workers \ {w} : ~WriteReport(v)
  BY <1>4 DEF WriteReport
<1> QED
  BY <1>3, <1>8, <1>9, <1>10, <1>11, QueueStutter
  DEF VNext, CommitDecision, DecideRow, OpenDecision, TakeRequest, allVars, vars

\* What a report does to the rows.
LEMMA ReportRow ==
  ASSUME VTypeInv, NEW w \in Workers, WriteReport(w)
  PROVE  \E t \in Documents :
           /\ t = Current(w)
           /\ ver'[t].status \in {"REVIEW", "VERIFIED"} /\ ver'[t].score \in {"low", "high"}
           /\ ver'[t].decision = ver[t].decision /\ ver'[t].comment = ver[t].comment
           /\ \A u \in Documents \ {t} : ver'[u] = ver[u]
<1>1. PICK t \in Documents : t = Current(w)
  BY DEF WriteReport
<1>2. PICK r \in EngineReports :
        ver' = [ver EXCEPT ![t].status = r.status, ![t].score = r.score]
  BY <1>1 DEF WriteReport
<1>3. ver' = [[ver EXCEPT ![t] = [ver[t] EXCEPT !.status = r.status]]
                   EXCEPT ![t] = [[ver[t] EXCEPT !.status = r.status] EXCEPT !.score = r.score]]
  BY <1>2 DEF VTypeInv
<1>4. /\ ver'[t].status = r.status /\ ver'[t].score = r.score
      /\ ver'[t].decision = ver[t].decision /\ ver'[t].comment = ver[t].comment
  BY <1>3 DEF VTypeInv, VerType
<1>r. r.status \in {"REVIEW", "VERIFIED"} /\ r.score \in {"low", "high"}
  BY DEF EngineReports
<1>5. \A u \in Documents \ {t} : ver'[u] = ver[u]
  BY <1>3 DEF VTypeInv
<1> QED BY <1>1, <1>4, <1>5, <1>r

\* A decision leaves every score alone.
LEMMA DecideScore ==
  ASSUME VTypeInv, NEW o \in Operators, CommitDecision(o), NEW t \in Documents
  PROVE  ver'[t].score = ver[t].score
<1>1. ver' = [ver EXCEPT ![desk[o].on] = Decide(ver[desk[o].on], desk[o])]
  BY DeskStep
<1>2. desk[o] \in DeskType /\ desk[o].open /\ ver \in [Documents -> VerType]
  BY DeskStep DEF VTypeInv
<1>3. desk[o].on \in Documents /\ ver[desk[o].on] \in VerType
  BY <1>2, OpenDesk
<1>4. Decide(ver[desk[o].on], desk[o]).score = ver[desk[o].on].score
  BY <1>2, <1>3, DecideTyping
<1> QED BY <1>1, <1>2, <1>3, <1>4

\* Scores come with reports.
LEMMA ScoreStep ==
  ASSUME VTypeInv, [VNext]_allVars, NEW t \in Documents
  PROVE  ver'[t].score = ver[t].score \/ \E w \in Workers : WriteReport(w) /\ t = Current(w)
<1>t. ver \in [Documents -> VerType]
  BY DEF VTypeInv
<1>1. ASSUME NEW w \in Workers, WriteReport(w), t # Current(w) PROVE ver'[t].score = ver[t].score
  BY <1>1, ReportRow
<1>2. ASSUME NEW u \in Documents, Submit(u) PROVE ver'[t].score = ver[t].score
  BY <1>2, <1>t DEF Submit, VerType
<1>3. ASSUME NEW w \in Workers, SetProcessing(w) PROVE ver'[t].score = ver[t].score
  BY <1>3, <1>t DEF SetProcessing, VerType
<1>4. ASSUME NEW o \in Operators, CommitDecision(o) PROVE ver'[t].score = ver[t].score
  BY <1>4, DecideScore
<1>5. Elsewhere \/ UNCHANGED allVars \/ (\E w \in Workers : RaiseEarly(w)) => UNCHANGED ver
  BY DEF Elsewhere, RaiseEarly, verVars, allVars
<1>6. ASSUME NEW o \in Operators, NEW u \in Documents, NEW d \in Decisions,
             NEW c \in {""} \cup Comments, OpenDecision(o, u, d, c)
      PROVE  UNCHANGED ver
  BY <1>6 DEF OpenDecision, TakeRequest
<1> QED BY <1>1, <1>2, <1>3, <1>4, <1>5, <1>6 DEF VNext

\* A result is never taken back, and each report brings one.
LEMMA ReportStays ==
  ASSUME VTypeInv, [VNext]_allVars, NEW t \in Documents
  PROVE  /\ Reported(t) => Reported(t)'
         /\ \A w \in Workers : WriteReport(w) /\ t = Current(w) => Reported(t)'
<1>1. ASSUME NEW w \in Workers, WriteReport(w), t = Current(w) PROVE Reported(t)'
  BY <1>1, ReportRow DEF Reported
<1> QED BY <1>1, ScoreStep DEF Reported

\* A task is marked SUCCEEDED only when its document carries a result
\* (process_task after run_single_verification), through crashes, failed commits
\* and decisions, and for any number of workers and operators.
THEOREM SuccessIsReported == VSpec => []SucceededMeansReported
<1>1. VInit => SuccessInv
  BY VTypeInit, DocumentIsTask DEF SuccessInv, Succeeded, VInit, Init, NoOutcomes
<1>2. SuccessInv /\ [VNext]_allVars => SuccessInv'
  <2> SUFFICES ASSUME SuccessInv, [VNext]_allVars PROVE SuccessInv'
    OBVIOUS
  <2>1. TypeInv /\ [Next]_vars /\ VTypeInv
    BY QueueStep, QueueStutter DEF SuccessInv, VTypeInv
  <2>2. ASSUME NEW t \in Documents, Succeeded(t)' PROVE Reported(t)'
    <3>1. CASE Succeeded(t)
      BY <2>1, <3>1, ReportStays DEF SuccessInv
    <3>2. CASE \E w \in Workers : HandlerReturns(w) /\ t = Current(w)
      BY <2>1, <3>2, ReturnsReport, ReportStays
    <3> QED BY <2>1, <2>2, <3>1, <3>2, SuccessSource, DocumentIsTask
  <2> QED BY <2>1, <2>2, VTypeStep DEF SuccessInv
<1>3. SuccessInv => SucceededMeansReported
  BY DEF SuccessInv, SucceededMeansReported, Succeeded, Reported
<1> QED BY <1>1, <1>2, <1>3, PTL DEF VSpec

----------------------------------------------------------------------------
(* One worker: rows, reports and repeated runs.                               *)

\* A row and its task are inserted together; a document that is not reported on
\* is not decided; one that is has a report on display unless it is worked on again.
RowOf(t) ==
  /\ row[t].status = "absent" <=> ver[t].status = "none"
  /\ Reported(t) => /\ ver[t].status # "none"
                    /\ t \notin again => ver[t].status \in {"REVIEW"} \cup Decisions
  /\ ~Reported(t) => /\ ver[t].status \in {"none", "SUBMITTED", "PROCESSING"}
                     /\ ver[t].decision = "none" /\ t \notin again

\* A handler at a document that has its report is at work on it again.
BusyInv ==
  \A w \in Workers :
    pc[w] = "handling" /\ Current(w) \in Documents \ again => ~Reported(Current(w))

\* Decision requests concern documents that are reported on.
RowInv ==
  /\ \A t \in Documents : RowOf(t)
  /\ BusyInv
  /\ \A o \in Operators : desk[o].open => Reported(desk[o].on)

OnceInv == VTypeInv /\ SingleWorkerInv /\ RowInv

LEMMA OnceInit == VInit => OnceInv
<1>1. VInit => RowInv
  <2>1. ~NoDesk.open
    BY DEF NoDesk
  <2>2. VInit => \A o \in Operators : ~desk[o].open
    BY <2>1 DEF VInit
  <2>3. ASSUME VInit, NEW t \in Documents PROVE RowOf(t)
    <3>1. ver[t].status = "none" /\ ver[t].score = "none" /\ ver[t].decision = "none"
      BY <2>3 DEF VInit, NoVer
    <3>2. row[t].status = "absent" /\ again = {}
      BY <2>3, DocumentIsTask DEF VInit, Init
    <3> QED BY <3>1, <3>2 DEF RowOf, Reported
  <2>4. VInit => BusyInv
    BY DEF VInit, Init, BusyInv
  <2> QED BY <2>2, <2>3, <2>4 DEF RowInv
<1> QED BY <1>1, VTypeInit, SingleInit DEF OnceInv, VInit

LEMMA BusyStep ==
  ASSUME VTypeInv, BusyInv, [VNext]_allVars, OneWorker
  PROVE  BusyInv'
<1>t. TypeOK /\ again \subseteq again' /\ ver \in [Documents -> VerType]
  BY HistoryGrows DEF VTypeInv, TypeInv
<1> SUFFICES ASSUME NEW w \in Workers, pc'[w] = "handling",
                    NEW u \in Documents \ again', u = Head(batch'[w])
             PROVE  ver'[u].score = "none"
  BY DEF BusyInv, Current, Reported
<1>o. \A v \in Workers : v = w
  BY DEF OneWorker
<1>1. ASSUME ver'[u].score = ver[u].score, UNCHANGED <<pc, batch>> PROVE ver'[u].score = "none"
  BY <1>1, <1>t DEF BusyInv, Current, Reported
<1>2. ASSUME NEW t \in Documents, Submit(t) PROVE ver'[u].score = "none"
  <2>1. ver'[u].score = ver[u].score
    BY <1>2, <1>t DEF Submit, VerType
  <2> QED BY <1>1, <1>2, <2>1 DEF Submit, Enqueue
<1>3. CASE SetProcessing(w)
  <2>1. u = Current(w)
    BY <1>3 DEF SetProcessing, HandlerCommits, Current
  <2>2. ~Reported(u)
    BY <1>3, <2>1 DEF SetProcessing
  <2>3. ver'[u].score = ver[u].score
    BY <1>3, <1>t, <2>1 DEF SetProcessing, VerType
  <2> QED BY <2>2, <2>3 DEF Reported
<1>4. ~WriteReport(w) /\ ~RaiseEarly(w)
  BY <1>t DEF WriteReport, HandlerReturns, RaiseEarly, HandlerRaisesEarly, Advance, TypeOK
<1>5. CASE Elsewhere
  <2>1. ~(HandlerReturns(w) \/ HandlerRaisesLate(w) \/ Claim(w) \/ StartBatch(w) \/ EndPass(w)
          \/ EndPassFails(w) \/ Crash(w) \/ Restart(w))
      \/ UNCHANGED <<pc, batch>>
    BY <1>t DEF HandlerReturns, HandlerRaisesLate, Claim, StartBatch, EndPass, EndPassFails, Crash,
                Restart, Advance, TypeOK
  <2>2. ~(HandlerCommits(w) /\ Current(w) \in Bulk)
    BY DEF HandlerCommits, Documents, Current
  <2>3. UNCHANGED <<pc, batch>>
    BY <1>5, <1>o, <2>1, <2>2 DEF Elsewhere, BulkCommits, Enqueue, Elapse
  <2> QED BY <1>1, <1>5, <2>3 DEF Elsewhere, verVars
<1>6. ASSUME NEW o \in Operators, CommitDecision(o) PROVE ver'[u].score = "none"
  <2>1. ver'[u].score = ver[u].score
    BY <1>6, DecideScore
  <2> QED BY <1>1, <1>6, <2>1 DEF CommitDecision, DecideRow, vars
<1>7. ASSUME NEW o \in Operators, NEW t \in Documents, NEW d \in Decisions,
             NEW c \in {""} \cup Comments, OpenDecision(o, t, d, c)
      PROVE  UNCHANGED <<ver, pc, batch>>
  BY <1>7 DEF OpenDecision, TakeRequest, vars
<1>8. UNCHANGED allVars => UNCHANGED <<ver, pc, batch>>
  BY DEF allVars, vars, verVars
<1> QED BY <1>o, <1>1, <1>2, <1>3, <1>4, <1>5, <1>6, <1>7, <1>8 DEF VNext

LEMMA RowStep ==
  ASSUME OnceInv, [VNext]_allVars, OneWorker
  PROVE  RowInv'
<1>t. /\ VTypeInv /\ VTypeInv' /\ SingleWorkerInv /\ [Next]_vars
      /\ ver \in [Documents -> VerType] /\ desk \in [Operators -> DeskType]
      /\ TypeInv /\ InsertedInv /\ BusyInv
  BY VTypeStep, QueueStep, QueueStutter, SessionInserted DEF OnceInv, RowInv, VTypeInv
<1>r. \A t \in Documents : RowOf(t)
  BY DEF OnceInv, RowInv
\* Documents whose row the step leaves alone.
<1>1. ASSUME NEW t \in Documents, Serves, ver'[t] = ver[t], t \in again' => t \in again
      PROVE  RowOf(t)'
  <2>1. row'[t].status = "absent" <=> row[t].status = "absent"
    BY <1>1, <1>t, RowsStay, DocumentIsTask
  <2>2. again \subseteq again'
    BY HistoryGrows
  <2> QED BY <1>1, <1>r, <2>1, <2>2 DEF RowOf, Reported
<1>2. ASSUME NEW t \in Documents, Submit(t) PROVE \A u \in Documents : RowOf(u)'
  <2>1. /\ row[t].status = "absent" /\ row'[t].status = "PENDING" /\ UNCHANGED again
        /\ \A u \in Documents \ {t} : row'[u] = row[u]
    BY <1>2, <1>t, DocumentIsTask DEF Submit, Enqueue, SingleWorkerInv, TypeInv, TypeOK, RowType
  <2>2. /\ ver'[t].status = "SUBMITTED" /\ ver'[t].score = ver[t].score
        /\ ver'[t].decision = ver[t].decision
        /\ \A u \in Documents \ {t} : ver'[u] = ver[u]
    BY <1>2, <1>t DEF Submit, VerType
  <2>3. ~Reported(t)
    BY <1>r, <2>1 DEF RowOf
  <2>4. RowOf(t)'
    BY <1>r, <2>1, <2>2, <2>3 DEF RowOf, Reported
  <2>5. ASSUME NEW u \in Documents \ {t} PROVE RowOf(u)'
    BY <1>r, <2>1, <2>2, <2>5 DEF RowOf, Reported
  <2> QED BY <2>4, <2>5
<1>3. ASSUME NEW w \in Workers, SetProcessing(w) PROVE \A u \in Documents : RowOf(u)'
  <2>1. PICK t \in Documents : t = Current(w)
    BY <1>3 DEF SetProcessing
  <2>2. /\ ver'[t].status = "PROCESSING" /\ ver'[t].score = ver[t].score
        /\ ver'[t].decision = ver[t].decision
        /\ \A u \in Documents \ {t} : ver'[u] = ver[u]
        /\ again' = IF Reported(t) THEN again \cup {t} ELSE again
    BY <1>3, <1>t, <2>1 DEF SetProcessing, VerType
  <2>3. row[t].status # "absent" /\ Serves
    BY <1>3, <1>t, <2>1, HeldIsInserted DEF SetProcessing, HandlerCommits, Serves, Pass
  <2>4. row'[t].status # "absent"
    BY <1>t, <2>3, RowsStay, DocumentIsTask
  <2>5. RowOf(t)'
    BY <1>r, <2>1, <2>2, <2>4 DEF RowOf, Reported
  <2>6. ASSUME NEW u \in Documents \ {t} PROVE RowOf(u)'
    <3>1. ver'[u] = ver[u] /\ (u \in again' => u \in again)
      BY <2>2
    <3> QED BY <1>1, <2>3, <3>1
  <2> QED BY <2>5, <2>6
<1>4. ASSUME NEW w \in Workers, WriteReport(w) PROVE \A u \in Documents : RowOf(u)'
  <2>0. HandlerReturns(w) /\ Serves /\ UNCHANGED again
    BY <1>4 DEF WriteReport, Serves, Pass
  <2>1. PICK t \in Documents : /\ t = Current(w) /\ ver'[t].status \in {"REVIEW", "VERIFIED"}
                               /\ ver'[t].score \in {"low", "high"}
                               /\ \A u \in Documents \ {t} : ver'[u] = ver[u]
    BY <1>4, <1>t, ReportRow
  <2>2. row'[t].status # "absent"
    <3>1. row[t].status # "absent"
      BY <1>t, <2>0, <2>1, HeldIsInserted DEF HandlerReturns, TypeInv, HandlingHasTask
    <3> QED BY <1>t, <2>0, <3>1, RowsStay, DocumentIsTask
  <2>3. RowOf(t)'
    BY <2>1, <2>2 DEF RowOf, Reported, Decisions
  <2> QED BY <1>1, <2>0, <2>1, <2>3
<1>5. ASSUME NEW o \in Operators, CommitDecision(o) PROVE \A u \in Documents : RowOf(u)'
  <2> DEFINE d == Decide(ver[desk[o].on], desk[o])
  <2>0. /\ desk[o] \in DeskType /\ desk[o].open /\ UNCHANGED vars /\ UNCHANGED again
        /\ ver' = [ver EXCEPT ![desk[o].on] = d]
    BY <1>5, <1>t, DeskStep
  <2>1. PICK t \in Documents : t = desk[o].on /\ Reported(t)
    BY <1>t, <2>0, OpenDesk DEF OnceInv, RowInv
  <2>2. ver'[t] = d /\ \A u \in Documents \ {t} : ver'[u] = ver[u]
    BY <1>t, <2>0, <2>1
  <2>3. d.score = ver[t].score /\ d.status \in {ver[t].status} \cup Decisions
    <3>1. ver[t] \in VerType
      BY <1>t
    <3> QED BY <2>0, <2>1, <3>1, DecideTyping
  <2>4. Serves /\ row'[t] = row[t]
    BY <2>0 DEF Serves, vars
  <2>5. RowOf(t)'
    <3> HIDE DEF d
    <3>1. /\ t \notin again => ver'[t].status \in {"REVIEW"} \cup Decisions
          /\ ver'[t].status # "none"
      BY <1>r, <2>1, <2>2, <2>3 DEF RowOf, Decisions
    <3>2. row'[t].status # "absent"
      BY <1>r, <2>1, <2>4 DEF RowOf
    <3> QED BY <2>0, <2>1, <2>2, <2>3, <3>1, <3>2 DEF RowOf, Reported
  <2> QED BY <1>1, <2>0, <2>2, <2>4, <2>5
<1>6. ASSUME NEW o \in Operators, NEW t \in Documents, NEW d \in Decisions,
             NEW c \in {""} \cup Comments, OpenDecision(o, t, d, c)
      PROVE  \A u \in Documents : RowOf(u)'
  BY <1>1, <1>6 DEF OpenDecision, TakeRequest, Serves
\* The insertion of bulk items.
<1>7. ASSUME NEW S \in SUBSET Bulk, Enqueue(S), UNCHANGED verVars PROVE \A u \in Documents : RowOf(u)'
  <2>1. \A u \in Documents : row'[u] = row[u]
    BY <1>7, <1>t, DocumentIsTask DEF Enqueue, Documents, TypeInv, TypeOK
  <2> QED BY <1>7, <1>r, <2>1 DEF verVars, RowOf, Reported
<1>8. ASSUME Elsewhere \/ UNCHANGED allVars \/ (\E w \in Workers : RaiseEarly(w))
      PROVE  \A u \in Documents : RowOf(u)'
  <2>1. UNCHANGED <<ver, again>>
    BY <1>8 DEF Elsewhere, RaiseEarly, verVars, allVars
  <2>2. Serves \/ \E S \in SUBSET Bulk : Enqueue(S) /\ UNCHANGED verVars
    BY <1>8, QueueStutter DEF Elsewhere, BulkCommits, RaiseEarly, Serves, Pass
  <2> QED BY <1>1, <1>7, <2>1, <2>2
<1>9. ASSUME NEW o \in Operators, desk'[o].open PROVE Reported(desk[o].on)'
  <2>1. CASE desk'[o] = desk[o]
    <3>1. desk[o].on \in Documents /\ Reported(desk[o].on)
      BY <1>t, <1>9, <2>1, OpenDesk DEF OnceInv, RowInv
    <3> QED BY <1>t, <2>1, <3>1, ReportStays
  <2>2. ASSUME NEW p \in Operators, CommitDecision(p) PROVE desk'[o] = desk[o]
    <3>1. desk'[p] = NoDesk /\ (o # p => desk'[o] = desk[o])
      BY <1>t, <2>2, DeskStep
    <3>2. ~NoDesk.open
      BY DEF NoDesk
    <3> QED BY <1>9, <3>1, <3>2
  <2>3. ASSUME NEW p \in Operators, NEW t \in Documents, NEW d \in Decisions,
               NEW c \in {""} \cup Comments, OpenDecision(p, t, d, c), o = p
        PROVE  Reported(desk[o].on)'
    <3>1. desk'[o].on = t /\ UNCHANGED ver /\ ver[t].status \in {"REVIEW", "VERIFIED"}
      BY <1>t, <2>3 DEF OpenDecision, TakeRequest, Reviewable
    <3> QED BY <1>r, <3>1 DEF RowOf, Reported
  <2>4. ASSUME NEW p \in Operators, NEW t \in Documents, NEW d \in Decisions,
               NEW c \in {""} \cup Comments, OpenDecision(p, t, d, c), o # p
        PROVE  desk'[o] = desk[o]
    BY <1>t, <2>4 DEF OpenDecision, TakeRequest
  <2> QED
    BY <2>1, <2>2, <2>3, <2>4
    DEF VNext, Submit, SetProcessing, WriteReport, RaiseEarly, Elsewhere, verVars, allVars
<1>10. BusyInv'
  BY <1>t, BusyStep
<1> QED BY <1>2, <1>3, <1>4, <1>5, <1>6, <1>8, <1>9, <1>10 DEF VNext, RowInv

LEMMA OnceStep == OneWorker /\ OnceInv /\ [VNext]_allVars => OnceInv'
<1> SUFFICES ASSUME OneWorker, OnceInv, [VNext]_allVars PROVE OnceInv'
  OBVIOUS
<1>1. VTypeInv' /\ [Next]_vars
  BY VTypeStep, QueueStep, QueueStutter DEF OnceInv
<1>2. SingleWorkerInv'
  BY <1>1, SingleStep DEF OnceInv
<1> QED BY <1>1, <1>2, RowStep DEF OnceInv

----------------------------------------------------------------------------
(* One worker: what has to be lost before a document is worked on again.      *)

\* One loss: a handler that raised before t and is not in the batch any more.
\* Two losses: another one after it, or a crash or a failed commit.
OneLoss(w, t) == \E p \in raised \ {t} : ~Held(w, p)
Twice(t) == \E p \in raised \ {t} : faults > 0 \/ raised \ {t, p} # {}

\* The claim of a task that is worked on got lost; its success is not committed.
Unclaimed(w, t) ==
  /\ Held(w, t) /\ pc[w] \in {"processing", "handling"}
  /\ ~(claims[w][t] > 0) /\ row[t].status \in Claimable
Done(w, t) == outcomes[w][t] = "SUCCEEDED"

LossOf(w, t) ==
  /\ Unclaimed(w, t) => OneLoss(w, t)
  /\ Reported(t) => Twice(t) \/ Spent(t) \/ (Done(w, t) /\ OneLoss(w, t))

LossInv ==
  /\ OnceInv
  /\ \A w \in Workers, t \in Documents : LossOf(w, t)
  /\ \A t \in again : Twice(t)

\* A handler that returns from a row that is CLAIMED leaves its task spent.
LEMMA ReturnsSpent ==
  ASSUME SingleWorkerInv, OneWorker, NEW w \in Workers, HandlerReturns(w)
  PROVE  \E t \in Tasks : /\ t = Current(w) /\ Held(w, t) /\ claims[w] = NoClaims
                          /\ Done(w, t)' /\ (row[t].status \notin Claimable => Spent(t)')
<1> USE DEF SingleWorkerInv, TypeInv
<1>t. TypeOK /\ SessionOf(w)
  BY DEF SessionInv
<1>1. batch[w] # <<>> /\ claims[w] = NoClaims /\ outcomes[w] = NoOutcomes
  BY <1>t DEF HandlerReturns, HandlingHasTask, SessionOf
<1>2. PICK t \in Tasks : t = Current(w) /\ row[t].status \in Claimable \cup {"CLAIMED"}
  BY <1>t, <1>1, HeldIsInserted DEF TypeOK, RowType, QueueState
<1>3. /\ batch'[w] = Tail(batch[w]) /\ outcomes'[w] = [NoOutcomes EXCEPT ![t] = "SUCCEEDED"]
      /\ UNCHANGED row
  BY <1>t, <1>1, <1>2, IdleFlush DEF HandlerReturns, Advance, TypeOK
<1>4. Held(w, t) /\ ~Held(w, t)'
  BY <1>t, <1>1, <1>2, <1>3, TailHeld DEF SessionOf
<1>5. outcomes'[w][t] = "SUCCEEDED"
  BY <1>3 DEF NoOutcomes
<1> QED BY <1>1, <1>2, <1>3, <1>4, <1>5 DEF Spent, Done, OneWorker

\* Which steps lose a claim, which ones a success, and which ones neither.
LEMMA QueueLosses ==
  ASSUME SingleWorkerInv, OneWorker, [Next]_vars, NEW w \in Workers, NEW t \in Tasks
  PROVE  /\ Unclaimed(w, t)' => Unclaimed(w, t) \/ (HandlerRaisesEarly(w) /\ t # Current(w))
         /\ Done(w, t) => \/ Done(w, t)' \/ Spent(t)' \/ faults' > 0
                          \/ HandlerRaisesEarly(w) /\ ~Held(w, t)
         /\ faults > 0 => faults' > 0
         /\ pc[w] # "claiming" => \A p \in Tasks : Held(w, p)' => Held(w, p)
<1> USE DEF SingleWorkerInv, TypeInv
<1>t. TypeOK /\ SessionOf(w) /\ faults \in Nat
  BY DEF SessionInv, TypeOK
<1>d. Done(w, t) => ~Held(w, t) /\ pc[w] = "processing"
  BY <1>t DEF Done, SessionOf, NoOutcomes, TypeOK
<1> DEFINE Goal == /\ Unclaimed(w, t)' => Unclaimed(w, t) \/ (HandlerRaisesEarly(w) /\ t # Current(w))
                   /\ Done(w, t) => \/ Done(w, t)' \/ Spent(t)' \/ faults' > 0
                                    \/ HandlerRaisesEarly(w) /\ ~Held(w, t)
                   /\ faults > 0 => faults' > 0
                   /\ pc[w] # "claiming" => \A p \in Tasks : Held(w, p)' => Held(w, p)
<1>1. ASSUME UNCHANGED <<claims, outcomes, batch, pc, faults>>,
             Held(w, t) => row'[t].status = row[t].status
      PROVE  Goal
  BY <1>1 DEF Unclaimed, Done, Held
<1>2. ASSUME NEW S \in SUBSET Tasks, Enqueue(S) PROVE Goal
  BY <1>1, <1>2, <1>t DEF Enqueue, SessionOf, Open, TypeOK
<1>3. ASSUME NEW u \in Tasks, Elapse(u) PROVE Goal
  BY <1>1, <1>3, <1>t DEF Elapse, TypeOK, RowType
<1>4. CASE Claim(w)
  <2>1. UNCHANGED <<row, outcomes, pc, faults>> /\ pc[w] = "claiming"
    BY <1>4 DEF Claim
  <2>2. ~Unclaimed(w, t)' /\ ~Done(w, t)
    BY <1>d, <2>1 DEF Unclaimed
  <2> QED BY <2>1, <2>2
<1>5. CASE StartBatch(w)
  BY <1>5, <1>d, <1>t DEF StartBatch, Unclaimed, Held, SessionOf
<1>6. CASE HandlerCommits(w)
  <2>1. /\ row'[t] = Flushed(w, t) /\ UNCHANGED <<batch, faults>> /\ outcomes'[w] = NoOutcomes
        /\ pc[w] = "processing"
    BY <1>6, <1>t DEF HandlerCommits, Commit, TypeOK
  <2>2. Unclaimed(w, t)' => Unclaimed(w, t)
    BY <2>1, <1>t DEF Unclaimed, Held, Flushed, SessionOf, Claimable
  <2>3. Done(w, t) => Spent(t)'
    BY <2>1, <1>d DEF Done, Spent, Held, Flushed, NoOutcomes, OneWorker
  <2> QED BY <2>1, <2>2, <2>3 DEF Held
<1>7. CASE EndPass(w)
  <2>1. /\ row'[t] = Flushed(w, t) /\ UNCHANGED <<batch, faults>> /\ outcomes'[w] = NoOutcomes
        /\ pc'[w] = "claiming"
    BY <1>7, <1>t DEF EndPass, Commit, TypeOK
  <2>2. ~Unclaimed(w, t)'
    BY <2>1 DEF Unclaimed
  <2>3. Done(w, t) => Spent(t)'
    BY <2>1, <1>d DEF Done, Spent, Held, Flushed, NoOutcomes, OneWorker
  <2> QED BY <2>1, <2>2, <2>3 DEF Held
<1>8. ASSUME batch[w] # <<>>, batch'[w] = Tail(batch[w]), UNCHANGED faults
      PROVE  /\ \A p \in Tasks : Held(w, p)' => Held(w, p) /\ p # Current(w)
             /\ faults > 0 => faults' > 0
  BY <1>8, <1>t, TailHeld DEF SessionOf
<1>9. CASE HandlerRaisesEarly(w)
  <2>1. batch[w] # <<>> /\ batch'[w] = Tail(batch[w]) /\ UNCHANGED faults
    BY <1>9, <1>t DEF HandlerRaisesEarly, Advance, TypeOK
  <2> QED BY <1>8, <1>9, <1>d, <2>1 DEF Unclaimed
<1>10. CASE HandlerRaisesLate(w) \/ HandlerReturns(w)
  <2>1. /\ batch[w] # <<>> /\ batch'[w] = Tail(batch[w]) /\ UNCHANGED faults
        /\ pc[w] = "handling" /\ claims[w] = NoClaims /\ outcomes[w] = NoOutcomes
    BY <1>10, <1>t DEF HandlerRaisesLate, HandlerReturns, Advance, HandlingHasTask, SessionOf, TypeOK
  <2>2. UNCHANGED row
    BY <1>10, <1>t, <2>1, IdleFlush DEF HandlerRaisesLate, HandlerReturns, SettleRaised, SettleRaisedAs
  <2> QED BY <1>8, <1>d, <2>1, <2>2 DEF Unclaimed, NoClaims
<1>11. CASE EndPassFails(w) \/ Crash(w)
  <2>1. /\ faults' = faults + 1 /\ pc'[w] \in {"claiming", "down"}
        /\ UNCHANGED batch \/ batch'[w] = <<>>
    BY <1>11, <1>t DEF EndPassFails, Crash, TypeOK
  <2>2. faults' > 0
    BY <1>t, <2>1
  <2> QED BY <2>1, <2>2 DEF Unclaimed, Held
<1>12. CASE Restart(w)
  <2>1. pc'[w] = "claiming" /\ UNCHANGED <<outcomes, batch, faults>>
    BY <1>12, <1>t DEF Restart, TypeOK
  <2> QED BY <2>1 DEF Unclaimed, Done, Held
<1>13. CASE UNCHANGED vars
  BY <1>1, <1>13 DEF vars
<1>14. ASSUME NEW v \in Workers, Pass(v) \/ EndPassFails(v) \/ Crash(v) \/ Restart(v) PROVE Goal
  <2>1. v = w
    BY DEF OneWorker
  <2> QED BY <1>14, <2>1, <1>4, <1>5, <1>6, <1>7, <1>9, <1>10, <1>11, <1>12 DEF Pass
<1> QED BY <1>14, <1>2, <1>3, <1>13 DEF Next

\* A handler that raises before its first commit is recorded.
LEMMA EarlyRaises ==
  ASSUME TypeInv, OneWorker, [VNext]_allVars, NEW w \in Workers, HandlerRaisesEarly(w)
  PROVE  RaiseEarly(w)
<1>t. TypeOK
  BY DEF TypeInv
<1>0. pc[w] = "processing" /\ batch[w] # <<>> /\ batch'[w] = Tail(batch[w]) /\ pc'[w] = "processing"
  BY <1>t DEF HandlerRaisesEarly, Advance, TypeOK
<1>o. \A v \in Workers : v = w
  BY DEF OneWorker
<1>1. batch'[w] # batch[w]
  BY <1>0, <1>t DEF TypeOK
<1>2. \A t, S : ~Submit(t) /\ ~Elapse(t) /\ ~Enqueue(S)
  BY <1>1 DEF Submit, Enqueue, Elapse
<1>3. ~HandlerCommits(w) /\ ~HandlerReturns(w)
  BY <1>0, <1>1 DEF HandlerCommits, HandlerReturns
<1>4. ~SetProcessing(w) /\ ~WriteReport(w) /\ ~BulkCommits(w)
  BY <1>3 DEF SetProcessing, WriteReport, BulkCommits
<1>5. ~Elsewhere
  BY <1>0, <1>o, <1>1, <1>2, <1>4, <1>t
  DEF Elsewhere, Claim, StartBatch, HandlerRaisesLate, EndPass, EndPassFails, Crash, Restart, TypeOK
<1>6. ~UNCHANGED vars
  BY <1>1 DEF vars
<1> QED
  BY <1>o, <1>2, <1>4, <1>5, <1>6, QueueStutter DEF VNext, CommitDecision, DecideRow, OpenDecision, TakeRequest

LEMMA LossInit == VInit => LossInv
<1> SUFFICES ASSUME VInit PROVE LossInv
  OBVIOUS
<1>1. again = {} /\ \A t \in Documents : ~Reported(t)
  BY DEF VInit, NoVer, Reported
<1>2. \A w \in Workers, t \in Documents : ~Held(w, t)
  BY DEF VInit, Init, Held
<1> QED BY <1>1, <1>2, OnceInit DEF LossInv, LossOf, Unclaimed

LEMMA LossStep ==
  ASSUME LossInv, [VNext]_allVars, OneWorker
  PROVE  LossInv'
<1>t. /\ OnceInv /\ OnceInv' /\ VTypeInv /\ SingleWorkerInv /\ TypeInv /\ TypeOK /\ [Next]_vars
      /\ raised \subseteq raised' /\ raised \subseteq Tasks
  BY OnceStep, QueueStep, QueueStutter, HistoryGrows, RaisesAssumption
  DEF LossInv, OnceInv, VTypeInv, TypeInv
<1>q. ASSUME NEW w \in Workers, NEW t \in Documents
      PROVE  /\ Unclaimed(w, t)' => Unclaimed(w, t) \/ (HandlerRaisesEarly(w) /\ t # Current(w))
             /\ Done(w, t) => \/ Done(w, t)' \/ Spent(t)' \/ faults' > 0
                              \/ HandlerRaisesEarly(w) /\ ~Held(w, t)
             /\ faults > 0 => faults' > 0
             /\ pc[w] # "claiming" => \A p \in Tasks : Held(w, p)' => Held(w, p)
  BY <1>q, <1>t, QueueLosses, DocumentIsTask
<1>s. \A w \in Workers : SessionOf(w)
  BY <1>t DEF SingleWorkerInv, SessionInv
\* A loss stays one while the pass claims nothing new.
<1>l. ASSUME NEW w \in Workers, NEW t \in Documents, pc[w] # "claiming", OneLoss(w, t)
      PROVE  OneLoss(w, t)'
  <2>1. PICK p \in raised \ {t} : ~Held(w, p)
    BY <1>l DEF OneLoss
  <2>2. p \in raised' \ {t} /\ ~Held(w, p)'
    BY <1>t, <1>q, <1>l, <2>1
  <2> QED BY <2>2 DEF OneLoss
<1>w. ASSUME NEW t \in Documents, Twice(t) PROVE Twice(t)'
  <2>1. faults > 0 => faults' > 0
    BY <1>q, <1>t
    DEF Next, Enqueue, Elapse, vars
  <2> QED BY <1>w, <1>t, <2>1 DEF Twice
\* An early raise of p is a loss for the others of its batch.
<1>e. ASSUME NEW w \in Workers, HandlerRaisesEarly(w)
      PROVE  \E p \in raised' : p = Current(w) /\ Held(w, p) /\ ~Held(w, p)'
  <2>1. Current(w) \in raised'
    BY <1>t, <1>e, EarlyRaises DEF RaiseEarly
  <2>2. batch[w] # <<>> /\ batch'[w] = Tail(batch[w])
    BY <1>e, <1>t DEF HandlerRaisesEarly, Advance, TypeOK
  <2>3. /\ \A t \in Tasks : Held(w, t)' => Held(w, t) /\ t # Current(w)
        /\ Held(w, Current(w)) /\ Current(w) \in Tasks
    BY <1>t, <1>s, <2>2, TailHeld DEF SessionOf
  <2> QED BY <2>1, <2>3
<1>1. ASSUME NEW w \in Workers, NEW t \in Documents, Unclaimed(w, t)' PROVE OneLoss(w, t)'
  <2>1. CASE Unclaimed(w, t)
    BY <1>l, <2>1 DEF LossInv, LossOf, Unclaimed
  <2>2. CASE HandlerRaisesEarly(w) /\ t # Current(w)
    BY <1>e, <2>2 DEF OneLoss
  <2> QED BY <1>1, <1>q, <2>1, <2>2
<1>2. ASSUME NEW w \in Workers, NEW t \in Documents, Reported(t)'
      PROVE  Twice(t)' \/ Spent(t)' \/ (Done(w, t)' /\ OneLoss(w, t)')
  <2>1. CASE Twice(t)
    BY <1>w, <2>1
  <2>2. CASE Spent(t)
    BY <1>t, <2>2, SpentStep, DocumentIsTask
  <2>3. CASE Done(w, t) /\ OneLoss(w, t)
    <3>1. pc[w] # "claiming"
      BY <1>s, <2>3, DocumentIsTask DEF Done, SessionOf, NoOutcomes
    <3>2. PICK p \in raised \ {t} : ~Held(w, p)
      BY <2>3 DEF OneLoss
    <3>3. CASE faults' > 0
      BY <1>t, <3>2, <3>3 DEF Twice
    <3>4. CASE HandlerRaisesEarly(w) /\ ~Held(w, t)
      <4>1. PICK u \in raised' : Held(w, u)
        BY <1>e, <3>4
      <4>2. u # t /\ u # p
        BY <3>2, <3>4, <4>1
      <4>3. p \in raised' \ {t} /\ raised' \ {t, p} # {}
        BY <1>t, <3>2, <4>1, <4>2
      <4> QED BY <4>3 DEF Twice
    <3> QED BY <1>l, <1>q, <2>3, <3>1, <3>3, <3>4
  <2>4. CASE ~Reported(t)
    <3>1. ver'[t].score # ver[t].score
      BY <1>2, <2>4 DEF Reported
    <3>2. PICK v \in Workers : WriteReport(v) /\ t = Current(v)
      BY <1>t, <3>1, ScoreStep
    <3>3. HandlerReturns(w) /\ t = Current(w) /\ pc[w] = "handling"
      BY <3>2 DEF WriteReport, HandlerReturns, OneWorker
    <3>4. /\ Held(w, t) /\ claims[w] = NoClaims /\ Done(w, t)'
          /\ row[t].status \notin Claimable => Spent(t)'
      BY <1>t, <3>3, ReturnsSpent
    <3>5. row[t].status \in Claimable => Unclaimed(w, t)
      BY <3>3, <3>4, DocumentIsTask DEF Unclaimed, NoClaims
    <3> QED BY <1>l, <3>3, <3>4, <3>5 DEF LossInv, LossOf
  <2> QED BY <2>1, <2>2, <2>3, <2>4 DEF LossInv, LossOf
<1>3. ASSUME NEW t \in again' PROVE Twice(t)'
  <2>0. t \in Documents
    BY <1>t DEF OnceInv, VTypeInv
  <2>1. CASE t \in again
    <3>1. Twice(t)
      BY <2>1 DEF LossInv
    <3> QED BY <1>w, <2>0, <3>1
  <2>2. CASE t \notin again
    <3>1. PICK w \in Workers : SetProcessing(w) /\ t = Current(w) /\ Reported(t)
      BY <2>2
      DEF VNext, Submit, SetProcessing, WriteReport, RaiseEarly, Elsewhere, CommitDecision, DecideRow,
          OpenDecision, TakeRequest, verVars, allVars
    <3>2. ~Spent(t)
      BY <1>t, <3>1, CommitsUnspent DEF SetProcessing
    <3>3. ~Done(w, t)
      <4>1. batch[w] # <<>>
        BY <3>1 DEF SetProcessing, HandlerCommits
      <4>2. Held(w, t)
        BY <1>t, <3>1, <4>1 DEF Held, Current, TypeOK
      <4> QED BY <1>s, <2>0, <4>2, DocumentIsTask DEF Done, SessionOf
    <3> QED BY <1>w, <2>0, <3>1, <3>2, <3>3 DEF LossInv, LossOf
  <2> QED BY <2>1, <2>2
<1> QED BY <1>t, <1>1, <1>2, <1>3 DEF LossInv, LossOf

\* With one worker loop, whatever fails, raises and crashes, a document is worked
\* on again only after its task has lost both its claim and its SUCCEEDED, each to
\* a cause of its own (process_task's rollback of the session a batch shares).
THEOREM RepeatsAreExplained ==
  ASSUME OneWorker
  PROVE  VSpec => []RepeatsTakeTwoLosses
<1>1. LossInv /\ [VNext]_allVars => LossInv'
  BY LossStep
<1>2. LossInv => RepeatsTakeTwoLosses
  BY DEF LossInv, Twice, RepeatsTakeTwoLosses
<1> QED BY <1>1, <1>2, LossInit, PTL DEF VSpec

\* Where no handler raises before its first commit, as in a queue of readable files
\* whose first commits succeed, no document is worked on again: what is promised of
\* the others below holds of all.
THEOREM NothingRepeats ==
  ASSUME OneWorker, RaisesEarly = {}
  PROVE  VSpec => [](again = {})
<1>1. LossInv /\ [VNext]_allVars => LossInv'
  BY LossStep
<1>2. LossInv => again = {}
  <2>1. LossInv => raised = {}
    BY DEF LossInv, OnceInv, VTypeInv
  <2> QED BY <2>1 DEF LossInv, Twice
<1> QED BY <1>1, <1>2, LossInit, PTL DEF VSpec

----------------------------------------------------------------------------
(* One worker and one operator: decisions.                                    *)

OneOperator == \A o, p \in Operators : o = p

\* A request was checked against the row that its commit will meet, unless the
\* document is worked on again meanwhile.
DeskInv ==
  \A o \in Operators : desk[o].open /\ desk[o].on \notin again =>
    /\ ver[desk[o].on] = desk[o].seen /\ desk[o].seen.status \in {"REVIEW", "VERIFIED"}
    /\ desk[o].decision = "REJECTED" \/ desk[o].seen.score # "high" => desk[o].comment # ""

\* The three properties of one document.
RightOf(t) ==
  /\ Decided(t) => ver[t].status = ver[t].decision
  /\ Decided(t) /\ (ver[t].decision = "REJECTED" \/ ver[t].score # "high") => ver[t].comment # ""
  /\ t \notin External =>
       /\ ver[t].status = "none" => LastEvent(t) = "none"
       /\ ver[t].status \in {"SUBMITTED", "PROCESSING"} => LastEvent(t) = "SUBMITTED"
       /\ ver[t].status \in {"REVIEW"} \cup Decisions =>
            LastEvent(t) = IF Decided(t) THEN ver[t].status ELSE "PROCESSED"

DecisionInv == OnceInv /\ DeskInv /\ \A t \in Documents \ again : RightOf(t)

LEMMA RightMeans ==
  (\A t \in Documents \ again : RightOf(t)) <=> DecisionStands /\ OverrideIsExplained /\ TrailTellsState
  BY DEF RightOf, DecisionStands, OverrideIsExplained, TrailTellsState

\* The entry just written is the last one.
LEMMA LastAppended ==
  ASSUME NEW s \in TrailType, NEW e \in {"SUBMITTED", "PROCESSED"} \cup Decisions
  PROVE  Append(s, e) # <<>> /\ Append(s, e)[Len(Append(s, e))] = e
  BY DEF TrailType

\* Workers keep away from documents that are reported on and not worked on again.
LEMMA ReportedUntouched ==
  ASSUME OnceInv, [VNext]_allVars, NEW t \in Documents \ again', Reported(t)
  PROVE  /\ ~Submit(t)
         /\ \A w \in Workers : SetProcessing(w) \/ WriteReport(w) => Current(w) # t
<1>1. RowOf(t) /\ BusyInv /\ again \subseteq again'
  BY HistoryGrows DEF OnceInv, RowInv
<1>2. ~Submit(t)
  BY <1>1 DEF Submit, Enqueue, RowOf
<1>3. \A w \in Workers : SetProcessing(w) => Current(w) # t
  BY DEF SetProcessing
<1>4. \A w \in Workers : WriteReport(w) => Current(w) # t
  BY <1>1 DEF WriteReport, HandlerReturns, BusyInv
<1> QED BY <1>2, <1>3, <1>4

LEMMA DecisionInit == VInit => DecisionInv
<1> SUFFICES ASSUME VInit PROVE DecisionInv
  OBVIOUS
<1>1. DeskInv
  <2>1. ~NoDesk.open
    BY DEF NoDesk
  <2> QED BY <2>1 DEF VInit, DeskInv
<1>2. ASSUME NEW t \in Documents PROVE RightOf(t)
  <2>1. ver[t].status = "none" /\ ~Decided(t)
    BY DEF VInit, NoVer, Decided
  <2>2. LastEvent(t) = "none"
    BY DEF VInit, LastEvent
  <2> QED BY <2>1, <2>2 DEF RightOf, Decisions
<1> QED BY <1>1, <1>2, OnceInit DEF DecisionInv

\* With one operator a request commits on the row it was checked against.
LEMMA DeskKeeps ==
  ASSUME OnceInv, DeskInv, [VNext]_allVars, OneWorker, OneOperator
  PROVE  DeskInv'
<1>t. VTypeInv /\ ver \in [Documents -> VerType] /\ desk \in [Operators -> DeskType]
  BY DEF OnceInv, VTypeInv
<1>h. again \subseteq again'
  BY HistoryGrows
<1> SUFFICES ASSUME NEW o \in Operators, desk'[o].open, desk'[o].on \notin again'
             PROVE  /\ ver'[desk'[o].on] = desk'[o].seen
                    /\ desk'[o].seen.status \in {"REVIEW", "VERIFIED"}
                    /\ desk'[o].decision = "REJECTED" \/ desk'[o].seen.score # "high"
                         => desk'[o].comment # ""
  BY DEF DeskInv
<1>o. \A p \in Operators : p = o
  BY DEF OneOperator
<1>1. ASSUME desk' = desk, desk[o].open => ver'[desk[o].on] = ver[desk[o].on]
      PROVE  /\ ver'[desk'[o].on] = desk'[o].seen
             /\ desk'[o].seen.status \in {"REVIEW", "VERIFIED"}
             /\ desk'[o].decision = "REJECTED" \/ desk'[o].seen.score # "high"
                  => desk'[o].comment # ""
  BY <1>1, <1>h DEF DeskInv
<1>2. desk[o].open => desk[o].on \in Documents /\ Reported(desk[o].on)
  BY <1>t, OpenDesk DEF OnceInv, RowInv
<1>3. ASSUME NEW t \in Documents, Submit(t) 
      PROVE  desk' = desk /\ (desk[o].open => ver'[desk[o].on] = ver[desk[o].on])
  BY <1>t, <1>2, <1>3, ReportedUntouched DEF Submit
<1>4. ASSUME NEW w \in Workers, SetProcessing(w) 
      PROVE  desk' = desk /\ (desk[o].open => ver'[desk[o].on] = ver[desk[o].on])
  BY <1>t, <1>2, <1>4, ReportedUntouched DEF SetProcessing
<1>5. ASSUME NEW w \in Workers, WriteReport(w) 
      PROVE  desk' = desk /\ (desk[o].open => ver'[desk[o].on] = ver[desk[o].on])
  <2>1. desk' = desk
    BY <1>5 DEF WriteReport
  <2>2. \A u \in Documents : u # Current(w) => ver'[u] = ver[u]
    BY <1>t, <1>5, ReportRow
  <2> QED BY <1>2, <1>5, <2>1, <2>2, ReportedUntouched
<1>6. CASE Elsewhere \/ UNCHANGED allVars \/ (\E w \in Workers : RaiseEarly(w))
  BY <1>1, <1>6 DEF Elsewhere, RaiseEarly, verVars, allVars
<1>7. \A p \in Operators : ~CommitDecision(p)
  <2>1. ~NoDesk.open
    BY DEF NoDesk
  <2> QED BY <1>o, <1>t, <2>1, DeskStep
<1>8. ASSUME NEW t \in Documents, NEW d \in Decisions,
             NEW c \in {""} \cup Comments, OpenDecision(o, t, d, c)
      PROVE  /\ ver'[desk'[o].on] = desk'[o].seen
             /\ desk'[o].seen.status \in {"REVIEW", "VERIFIED"}
             /\ desk'[o].decision = "REJECTED" \/ desk'[o].seen.score # "high"
                  => desk'[o].comment # ""
  <2> DEFINE q == [open |-> TRUE, on |-> t, seen |-> ver[t], decision |-> d, comment |-> c]
  <2>1. /\ desk'[o] = q /\ UNCHANGED ver /\ Reviewable(t) /\ Explained(t, d, c)
    BY <1>t, <1>8 DEF OpenDecision, TakeRequest
  <2>q. q.on = t /\ q.seen = ver[t] /\ q.decision = d /\ q.comment = c
    OBVIOUS
  <2> HIDE DEF q
  <2>2. /\ desk'[o].on = t /\ desk'[o].seen = ver[t] /\ desk'[o].decision = d
        /\ desk'[o].comment = c
    BY <2>1, <2>q
  <2> QED BY <2>1, <2>2 DEF Reviewable, Explained
<1> QED BY <1>o, <1>1, <1>3, <1>4, <1>5, <1>6, <1>7, <1>8 DEF VNext

\* A commit on the row that was read stores the decision and its comment.
LEMMA FreshDecide ==
  ASSUME NEW v \in VerType, NEW q \in DeskType, q.open, q.seen = v
  PROVE  /\ Decide(v, q).status = q.decision /\ Decide(v, q).decision = q.decision
         /\ Decide(v, q).comment = q.comment
  BY DEF Decide, Written, VerType

LEMMA RightStep ==
  ASSUME DecisionInv, [VNext]_allVars, OneWorker, OneOperator, NEW t \in Documents \ again'
  PROVE  RightOf(t)'
<1>t. /\ VTypeInv /\ ver \in [Documents -> VerType] /\ desk \in [Operators -> DeskType]
      /\ trail \in [Documents -> TrailType]
  BY DEF DecisionInv, OnceInv, VTypeInv
<1>r. OnceInv /\ DeskInv /\ RowOf(t) /\ RightOf(t) /\ t \notin again
  BY HistoryGrows DEF DecisionInv, OnceInv, RowInv
<1>1. ASSUME ver'[t] = ver[t], trail'[t] = trail[t] PROVE RightOf(t)'
  BY <1>1, <1>r DEF RightOf, LastEvent, Decided
<1>2. ASSUME Submit(t) PROVE RightOf(t)'
  <2>1. ~Reported(t)
    BY <1>2, <1>r DEF Submit, Enqueue, RowOf
  <2>2. ver'[t].status = "SUBMITTED" /\ ver'[t].decision = "none"
    BY <1>2, <1>r, <1>t, <2>1 DEF Submit, VerType, RowOf
  <2>3. t \notin External => LastEvent(t)' = "SUBMITTED"
    BY <1>2, <1>t, LastAppended DEF Submit, LastEvent
  <2> QED BY <2>2, <2>3 DEF RightOf, Decided, Decisions
<1>3. ASSUME NEW w \in Workers, SetProcessing(w), t = Current(w) PROVE RightOf(t)'
  <2>1. ~Reported(t) /\ ver[t].status # "none"
    BY <1>3, <1>r, ReportedUntouched, HeldIsInserted
    DEF SetProcessing, HandlerCommits, RowOf, OnceInv
  <2>2. ver'[t].status = "PROCESSING" /\ ver'[t].decision = "none" /\ trail'[t] = trail[t]
    BY <1>3, <1>r, <1>t, <2>1 DEF SetProcessing, VerType, RowOf
  <2>3. t \notin External => LastEvent(t)' = "SUBMITTED"
    BY <1>r, <2>1, <2>2 DEF RowOf, RightOf, LastEvent
  <2> QED BY <2>2, <2>3 DEF RightOf, Decided, Decisions
<1>4. ASSUME NEW w \in Workers, WriteReport(w), t = Current(w) PROVE RightOf(t)'
  <2>1. ~Reported(t)
    BY <1>4, <1>r, ReportedUntouched
  <2>2. ver'[t].status \in {"REVIEW", "VERIFIED"} /\ ver'[t].decision = "none"
    BY <1>4, <1>r, <1>t, <2>1, ReportRow DEF RowOf
  <2>3. LastEvent(t)' = "PROCESSED"
    <3>1. trail'[t] = Append(trail[t], "PROCESSED") /\ trail[t] \in TrailType
      BY <1>4, <1>r, <1>t DEF WriteReport
    <3> QED BY <3>1, LastAppended DEF LastEvent
  <2> QED BY <2>2, <2>3 DEF RightOf, Decided, Decisions
<1>5. ASSUME NEW o \in Operators, CommitDecision(o), t = desk[o].on PROVE RightOf(t)'
  <2>0. PICK q \in DeskType : q = desk[o]
    BY <1>t
  <2>1. /\ q.open /\ ver'[t] = Decide(ver[t], q)
        /\ trail'[t] = Append(trail[t], q.decision)
    BY <1>5, <1>t, <2>0, DeskStep
  <2>2. /\ q.decision \in Decisions /\ ver[t] = q.seen /\ ver[t] \in VerType
        /\ (q.decision = "REJECTED" \/ ver[t].score # "high" => q.comment # "")
    BY <1>5, <1>r, <1>t, <2>0, <2>1, OpenDesk DEF DeskInv
  <2>3. /\ ver'[t].status = q.decision /\ ver'[t].decision = q.decision
        /\ ver'[t].comment = q.comment /\ ver'[t].score = ver[t].score
    <3>1. /\ Decide(ver[t], q).status = q.decision /\ Decide(ver[t], q).decision = q.decision
          /\ Decide(ver[t], q).comment = q.comment
      BY <2>1, <2>2, FreshDecide
    <3>2. Decide(ver[t], q).score = ver[t].score
      BY <2>1, <2>2, DecideTyping
    <3> QED BY <2>1, <3>1, <3>2
  <2>4. LastEvent(t)' = q.decision
    <3>1. trail[t] \in TrailType /\ q.decision \in {"SUBMITTED", "PROCESSED"} \cup Decisions
      BY <1>t, <2>2
    <3> QED BY <2>1, <3>1, LastAppended DEF LastEvent
  <2> QED BY <2>2, <2>3, <2>4 DEF RightOf, Decided, Decisions
\* Everything else leaves the document and its trail alone.
<1>6. ASSUME NEW u \in Documents \ {t}, Submit(u) PROVE ver'[t] = ver[t] /\ trail'[t] = trail[t]
  BY <1>6, <1>t DEF Submit
<1>7. ASSUME NEW w \in Workers, SetProcessing(w) \/ WriteReport(w), t # Current(w)
      PROVE  ver'[t] = ver[t] /\ trail'[t] = trail[t]
  BY <1>7, <1>t, ReportRow DEF SetProcessing, WriteReport
<1>8. ASSUME NEW o \in Operators, CommitDecision(o), t # desk[o].on
      PROVE  ver'[t] = ver[t] /\ trail'[t] = trail[t]
  BY <1>8, <1>t, DeskStep
<1>9. Elsewhere \/ UNCHANGED allVars \/ (\E w \in Workers : RaiseEarly(w)) => UNCHANGED <<ver, trail>>
  BY DEF Elsewhere, RaiseEarly, verVars, allVars
<1>10. ASSUME NEW o \in Operators, NEW u \in Documents, NEW d \in Decisions,
              NEW c \in {""} \cup Comments, OpenDecision(o, u, d, c)
       PROVE  UNCHANGED <<ver, trail>>
  BY <1>10 DEF OpenDecision, TakeRequest
<1> QED
  BY <1>1, <1>2, <1>3, <1>4, <1>5, <1>6, <1>7, <1>8, <1>9, <1>10 DEF VNext

LEMMA DecisionStep ==
  OneWorker /\ OneOperator /\ DecisionInv /\ [VNext]_allVars => DecisionInv'
<1> SUFFICES ASSUME OneWorker, OneOperator, DecisionInv, [VNext]_allVars PROVE DecisionInv'
  OBVIOUS
<1>1. OnceInv'
  BY OnceStep DEF DecisionInv
<1>2. DeskInv'
  BY DeskKeeps DEF DecisionInv
<1> QED BY <1>1, <1>2, RightStep DEF DecisionInv

LEMMA DecisionAlways == ASSUME OneWorker, OneOperator PROVE VSpec => []DecisionInv
<1>1. DecisionInv /\ [VNext]_allVars => DecisionInv'
  BY DecisionStep
<1> QED BY <1>1, DecisionInit, PTL DEF VSpec

\* With one worker loop and one operator the status shown for a decided document
\* is the decision, through crashes, failed commits, retries and reversals, as long
\* as the document is not worked on again (decide_verification,
\* run_single_verification). With two operators it is not: the run ver_operators.
THEOREM DecisionHolds ==
  ASSUME OneWorker, OneOperator
  PROVE  VSpec => []DecisionStands
<1>1. DecisionInv => DecisionStands
  BY RightMeans DEF DecisionInv
<1> QED BY <1>1, DecisionAlways, PTL

\* Under the same assumptions a rejection, and an approval of a low score,
\* carries its comment as long as it stands and the document is not worked on
\* again (decide_verification).
THEOREM OverridesExplained ==
  ASSUME OneWorker, OneOperator
  PROVE  VSpec => []OverrideIsExplained
<1>1. DecisionInv => OverrideIsExplained
  BY RightMeans DEF DecisionInv
<1> QED BY <1>1, DecisionAlways, PTL

\* Under the same assumptions the audit trail of a document that is not worked on
\* again ends with the event that gave its row the state it has (AuditLog rows of
\* verifications.py, worker.py).
THEOREM TrailIsTold ==
  ASSUME OneWorker, OneOperator
  PROVE  VSpec => []TrailTellsState
<1>1. DecisionInv => TrailTellsState
  BY RightMeans DEF DecisionInv
<1> QED BY <1>1, DecisionAlways, PTL

----------------------------------------------------------------------------
(* Verifications implements ReviewWorkflow.                                   *)

stages == [t \in Documents |-> Stage(t)]

\* Where a row and its history put a document.
StageAs(v, repeated) ==
  IF repeated THEN "repeated"
  ELSE IF v.status = "none" THEN "none"
  ELSE IF v.status \in {"SUBMITTED", "PROCESSING"} THEN "waiting"
  ELSE IF v.decision = "none" THEN "reported" ELSE v.status

LEMMA StagesAs ==
  /\ stages = [t \in Documents |-> StageAs(ver[t], t \in again)]
  /\ stages' = [t \in Documents |-> StageAs(ver'[t], t \in again')]
  BY DEF stages, Stage, StageAs

\* A step that moves one document moves one stage.
LEMMA StageMoves ==
  ASSUME NEW t \in Documents,
         \A u \in Documents \ {t} : ver'[u] = ver[u] /\ (u \in again' <=> u \in again)
  PROVE  /\ stages' = [stages EXCEPT ![t] = StageAs(ver'[t], t \in again')]
         /\ stages[t] = StageAs(ver[t], t \in again)
         /\ StageAs(ver'[t], t \in again') = StageAs(ver[t], t \in again) => stages' = stages
<1>1. ASSUME NEW u \in Documents \ {t}
      PROVE  StageAs(ver'[u], u \in again') = StageAs(ver[u], u \in again)
  BY DEF StageAs
<1> QED BY <1>1, StagesAs

LEMMA WorkflowStep ==
  ASSUME DecisionInv, [VNext]_allVars, OneWorker, OneOperator
  PROVE  [Workflow!Next]_stages
<1>t. /\ VTypeInv /\ ver \in [Documents -> VerType] /\ desk \in [Operators -> DeskType]
      /\ OnceInv /\ DeskInv /\ SingleWorkerInv /\ TypeInv /\ TypeOK
  BY DEF DecisionInv, OnceInv, VTypeInv, TypeInv
<1>r. \A t \in Documents : RowOf(t)
  BY <1>t DEF OnceInv, RowInv
<1>w. \A t \in Documents : RowOf(t) /\ (t \notin again => RightOf(t))
  BY <1>r DEF DecisionInv
<1>1. ASSUME NEW t \in Documents, Submit(t) PROVE Workflow!Submit(t)
  <2>1. ver[t].status = "none" /\ t \notin again /\ UNCHANGED again
    BY <1>1, <1>r DEF Submit, Enqueue, RowOf
  <2>2. ver'[t].status = "SUBMITTED" /\ \A u \in Documents \ {t} : ver'[u] = ver[u]
    BY <1>1, <1>t DEF Submit, VerType
  <2>3. StageAs(ver[t], t \in again) = "none" /\ StageAs(ver'[t], t \in again') = "waiting"
    BY <2>1, <2>2 DEF StageAs
  <2> QED BY <2>1, <2>2, <2>3, StageMoves DEF Workflow!Submit, stages
<1>2. ASSUME NEW w \in Workers, SetProcessing(w)
      PROVE  stages' = stages \/ \E t \in Documents : Workflow!Repeat(t)
  <2>1. PICK t \in Documents : t = Current(w) /\ row[t].status # "absent"
    BY <1>2, <1>t, HeldIsInserted DEF SetProcessing, HandlerCommits
  <2>2. /\ ver'[t].status = "PROCESSING" /\ \A u \in Documents \ {t} : ver'[u] = ver[u]
        /\ again' = IF Reported(t) THEN again \cup {t} ELSE again
    BY <1>2, <1>t, <2>1 DEF SetProcessing, VerType
  <2>3. \A u \in Documents \ {t} : ver'[u] = ver[u] /\ (u \in again' <=> u \in again)
    BY <2>2
  <2>4. CASE t \in again
    <3>1. StageAs(ver'[t], t \in again') = StageAs(ver[t], t \in again)
      BY <2>2, <2>4 DEF StageAs
    <3> QED BY <2>3, <3>1, StageMoves
  <2>5. CASE t \notin again /\ ~Reported(t)
    <3>1. ver[t].status \in {"SUBMITTED", "PROCESSING"}
      BY <1>r, <2>1, <2>5 DEF RowOf
    <3>2. StageAs(ver'[t], t \in again') = StageAs(ver[t], t \in again)
      BY <2>2, <2>5, <3>1 DEF StageAs
    <3> QED BY <2>3, <3>2, StageMoves
  <2>6. CASE t \notin again /\ Reported(t)
    <3>1. /\ ver[t].status \in {"REVIEW"} \cup Decisions /\ RightOf(t)
          /\ ver[t].decision \in {"none"} \cup Decisions
      BY <1>w, <1>t, <2>6 DEF RowOf, VerType
    <3>2. StageAs(ver[t], t \in again) \in {"reported", "VERIFIED", "REJECTED"}
      BY <2>6, <3>1 DEF StageAs, RightOf, Decided, Decisions
    <3>3. StageAs(ver'[t], t \in again') = "repeated"
      BY <2>2, <2>6 DEF StageAs
    <3>4. stages[t] \in {"reported", "VERIFIED", "REJECTED"} /\ stages' = [stages EXCEPT ![t] = "repeated"]
      BY <2>3, <3>2, <3>3, StageMoves
    <3> QED BY <3>4 DEF Workflow!Repeat, stages
  <2> QED BY <2>4, <2>5, <2>6
<1>3. ASSUME NEW w \in Workers, WriteReport(w)
      PROVE  stages' = stages \/ \E t \in Documents : Workflow!Report(t)
  <2>1. PICK t \in Documents : /\ t = Current(w) /\ ver'[t].status \in {"REVIEW", "VERIFIED"}
                               /\ ver'[t].decision = ver[t].decision
                               /\ \A u \in Documents \ {t} : ver'[u] = ver[u]
    BY <1>3, <1>t, ReportRow
  <2>2. row[t].status # "absent" /\ UNCHANGED again
    BY <1>3, <1>t, <2>1, HeldIsInserted
    DEF WriteReport, HandlerReturns, TypeInv, HandlingHasTask
  <2>3. CASE t \in again
    <3>1. StageAs(ver'[t], t \in again') = StageAs(ver[t], t \in again)
      BY <2>2, <2>3 DEF StageAs
    <3> QED BY <2>1, <2>2, <3>1, StageMoves
  <2>4. CASE t \notin again
    <3>1. ~Reported(t)
      BY <1>3, <1>t, <2>1, <2>2, <2>4, ReportedUntouched
    <3>2. ver[t].status \in {"SUBMITTED", "PROCESSING"} /\ ver[t].decision = "none"
      BY <1>r, <2>2, <3>1 DEF RowOf
    <3>3. StageAs(ver[t], t \in again) = "waiting" /\ StageAs(ver'[t], t \in again') = "reported"
      BY <2>1, <2>2, <2>4, <3>2 DEF StageAs
    <3> QED BY <2>1, <2>2, <3>3, StageMoves DEF Workflow!Report, stages
  <2> QED BY <2>3, <2>4
<1>4. ASSUME NEW o \in Operators, CommitDecision(o)
      PROVE  stages' = stages \/ \E t \in Documents : Workflow!Decide(t)
  <2>0. PICK q \in DeskType : q = desk[o]
    BY <1>t
  <2>1. /\ q.open /\ q.on \in Documents /\ q.decision \in Decisions /\ UNCHANGED again
        /\ ver' = [ver EXCEPT ![q.on] = Decide(ver[q.on], q)]
    BY <1>4, <1>t, <2>0, DeskStep, OpenDesk
  <2>2. PICK t \in Documents : t = q.on
    BY <2>1
  <2>3. /\ ver'[t] = Decide(ver[t], q)
        /\ \A u \in Documents \ {t} : ver'[u] = ver[u] /\ (u \in again' <=> u \in again)
    BY <1>t, <2>1, <2>2
  <2>4. CASE t \in again
    <3>1. StageAs(ver'[t], t \in again') = StageAs(ver[t], t \in again)
      BY <2>1, <2>4 DEF StageAs
    <3> QED BY <2>3, <3>1, StageMoves
  <2>5. CASE t \notin again
    <3>1. /\ ver[t] = q.seen /\ ver[t] \in VerType /\ ver[t].status \in {"REVIEW", "VERIFIED"}
          /\ RightOf(t)
      BY <1>t, <1>w, <2>0, <2>1, <2>2, <2>5 DEF DeskInv
    <3>2. ver'[t].status = q.decision /\ ver'[t].decision = q.decision
      BY <2>1, <2>3, <3>1, FreshDecide
    <3>3. StageAs(ver'[t], t \in again') = q.decision
      BY <2>1, <2>5, <3>2 DEF StageAs, Decisions
    <3>4. StageAs(ver[t], t \in again) \in {"reported", "VERIFIED"}
      BY <2>5, <3>1 DEF StageAs, RightOf, Decided, VerType, Decisions
    <3>5. stages[t] \in {"reported", "VERIFIED"} /\ stages' = [stages EXCEPT ![t] = q.decision]
      BY <2>3, <3>3, <3>4, StageMoves
    <3> QED BY <2>1, <3>5 DEF Workflow!Decide, stages, Decisions
  <2> QED BY <2>4, <2>5
<1>5. Elsewhere \/ UNCHANGED allVars \/ (\E w \in Workers : RaiseEarly(w)) => UNCHANGED stages
  <2>1. UNCHANGED <<ver, again>> => UNCHANGED stages
    BY StagesAs
  <2> QED BY <2>1 DEF Elsewhere, RaiseEarly, verVars, allVars
<1>6. ASSUME NEW o \in Operators, NEW u \in Documents, NEW d \in Decisions,
             NEW c \in {""} \cup Comments, OpenDecision(o, u, d, c)
      PROVE  UNCHANGED stages
  <2>1. UNCHANGED <<ver, again>>
    BY <1>6 DEF OpenDecision, TakeRequest
  <2> QED BY <2>1, StagesAs
<1> QED BY <1>1, <1>2, <1>3, <1>4, <1>5, <1>6 DEF VNext, Workflow!Next

\* With one worker loop and one operator, whatever crashes, failed commits and
\* retries do, submitters and auditors see a document wait, be reported on once,
\* and then be moved by operators only, a rejection being the end of it, until the
\* losses of RepeatsTakeTwoLosses have it worked on again: every step of handlers,
\* sessions and requests is a step of ReviewWorkflow or none.
THEOREM WorkflowImplemented ==
  ASSUME OneWorker, OneOperator
  PROVE  VSpec => ImplementsWorkflow
<1>1. VInit => Workflow!Init
  <2> SUFFICES ASSUME VInit, NEW t \in Documents PROVE Stage(t) = "none"
    BY DEF Workflow!Init
  <2> QED BY DEF VInit, NoVer, Stage
<1>2. DecisionInv /\ [VNext]_allVars => [Workflow!Next]_stages
  BY WorkflowStep
<1> QED BY <1>1, <1>2, DecisionAlways, PTL DEF VSpec, ImplementsWorkflow, Workflow!Spec, stages
=============================================================================
