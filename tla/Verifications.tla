--------------------------- MODULE Verifications ---------------------------
(* Single-document verification: the submit endpoints, the VERIFY_DOCUMENT    *)
(* handler run by the queue's workers, and the operator's decision endpoint   *)
(* (api/v1/verifications.py, api/v1/external.py, worker.py                    *)
(* run_single_verification). One task is enqueued per verification, so both   *)
(* carry the same id. The queue also holds the tasks of bulk items, whose     *)
(* claims and outcomes share the session of the batch with those of the       *)
(* verifications; of their handler only its commits and raises matter here.   *)
(*                                                                            *)
(*   ver[t]    the committed verifications row                                *)
(*   trail[t]  the audit rows about it, oldest first                          *)
(*   desk[o]   the decision request of operator o between the load of the row *)
(*             and its commit: the ORM instance remembers the loaded values   *)
(*             and writes only the columns that differ from them              *)
(*   raised    history: tasks whose handler has raised before its first commit*)
(*   again     history: documents worked on although they had been reported on*)
EXTENDS TaskQueue, Scoring

CONSTANTS Bulk,         \* tasks of bulk items, the rest are verifications
          Operators,    \* admins and operators deciding concurrently
          External,     \* submissions that come through the API-key endpoint
          Comments,     \* non-empty comment texts
          MaxTrail      \* bound: audit rows about one verification

Documents == Tasks \ Bulk

ASSUME BulkAssumption     == Bulk \subseteq Tasks
ASSUME ExternalAssumption == External \subseteq Documents
ASSUME CommentsAssumption == "" \notin Comments
ASSUME TrailAssumption    == MaxTrail \in Nat

VARIABLES ver, trail, desk, raised, again

verVars == <<ver, trail, desk, raised, again>>
allVars == <<vars, verVars>>

----------------------------------------------------------------------------
\* "low" is a score below the 80 of decide_verification, "high" one from 80 on.
Scores    == {"none", "low", "high"}
Decisions == {"VERIFIED", "REJECTED"}
Status    == {"none", "SUBMITTED", "PROCESSING", "REVIEW"} \cup Decisions
VerType   == [status : Status, score : Scores,
              decision : {"none"} \cup Decisions, comment : {""} \cup Comments]

NoVer  == [status |-> "none", score |-> "none", decision |-> "none", comment |-> ""]
NoDesk == [open |-> FALSE]

VInit ==
  /\ Init
  /\ ver = [t \in Documents |-> NoVer]
  /\ trail = [t \in Documents |-> <<>>]
  /\ desk = [o \in Operators |-> NoDesk]
  /\ raised = {}
  /\ again = {}

----------------------------------------------------------------------------
(* Submission: the row, its task and its audit row in one commit; the         *)
(* API-key endpoint writes no audit row.                                      *)
Submit(t) ==
  /\ Enqueue({t})
  /\ ver' = [ver EXCEPT ![t].status = "SUBMITTED"]
  /\ trail' = [trail EXCEPT ![t] = IF t \in External THEN @ ELSE Append(@, "SUBMITTED")]
  /\ UNCHANGED <<desk, raised, again>>

Reported(t) == ver[t].score # "none"

(* The handler. Its document was loaded a moment before each commit, so both  *)
(* commits overwrite whatever the row holds by then.                          *)
SetProcessing(w) ==
  /\ HandlerCommits(w)
  /\ LET t == Current(w) IN
       /\ t \in Documents
       /\ ver' = [ver EXCEPT ![t].status = "PROCESSING"]
       /\ again' = IF Reported(t) THEN again \cup {t} ELSE again
  /\ UNCHANGED <<trail, desk, raised>>

\* The trail of a document worked on again is not followed beyond MaxTrail.
WriteReport(w) ==
  /\ HandlerReturns(w)
  /\ LET t == Current(w) IN
       /\ t \in Documents
       /\ \E r \in EngineReports :
            ver' = [ver EXCEPT ![t].status = r.status, ![t].score = r.score]
       /\ trail' = [trail EXCEPT ![t] =
            IF t \in again /\ Len(@) >= MaxTrail THEN @ ELSE Append(@, "PROCESSED")]
  /\ UNCHANGED <<desk, raised, again>>

\* A bulk item's file that cannot be materialized, or the failure of a handler's
\* own first commit: the claims and outcomes of the whole batch are rolled back.
RaiseEarly(w) ==
  /\ HandlerRaisesEarly(w)
  /\ raised' = raised \cup {Current(w)}
  /\ UNCHANGED <<ver, trail, desk, again>>

BulkCommits(w) == (HandlerCommits(w) \/ HandlerReturns(w)) /\ Current(w) \in Bulk

\* The rest of the pass does not touch verifications.
Elsewhere ==
  /\ \/ \E S \in SUBSET Bulk : Enqueue(S)
     \/ \E t \in Tasks : Elapse(t)
     \/ \E w \in Workers : \/ Claim(w) \/ StartBatch(w) \/ BulkCommits(w) \/ HandlerRaisesLate(w)
                           \/ EndPass(w) \/ EndPassFails(w) \/ Crash(w) \/ Restart(w)
  /\ UNCHANGED verVars

(* The decision. Guards are evaluated on the loaded row.                      *)
TakeRequest(o, t, d, c) ==
  /\ ~desk[o].open /\ Len(trail[t]) < MaxTrail
  /\ desk' = [desk EXCEPT ![o] = [open |-> TRUE, on |-> t, seen |-> ver[t],
                                  decision |-> d, comment |-> c]]
  /\ UNCHANGED <<vars, ver, trail, raised, again>>

Reviewable(t) == ver[t].status \in {"REVIEW", "VERIFIED"}
Explained(t, d, c) == (d = "REJECTED" \/ ver[t].score # "high") => c # ""

OpenDecisionAnytime(o, t, d, c) ==   \* seeded fault: no INVALID_STATE guard
  TakeRequest(o, t, d, c) /\ Explained(t, d, c) /\ ver[t].status # "none"
OpenDecisionReverse(o, t, d, c) ==   \* seeded fault: rejections can be reversed
  TakeRequest(o, t, d, c) /\ Explained(t, d, c) /\ ver[t].status \in {"REVIEW"} \cup Decisions
OpenDecisionMute(o, t, d, c) ==      \* seeded fault: a comment only for rejections
  TakeRequest(o, t, d, c) /\ Reviewable(t) /\ (d = "REJECTED" => c # "")

OpenDecision(o, t, d, c) ==
  TakeRequest(o, t, d, c) /\ Reviewable(t) /\ Explained(t, d, c)

\* The value a column has after the commit of an instance loaded with `seen`.
Written(now, seen, new) == IF new = seen THEN now ELSE new

DecideRow(o) ==
  /\ desk[o].open
  /\ LET q == desk[o]  t == q.on  now == ver[t] IN
       ver' = [ver EXCEPT ![t] =
            [now EXCEPT !.decision = Written(now.decision, q.seen.decision, q.decision),
                        !.comment  = Written(now.comment, q.seen.comment, q.comment),
                        !.status   = Written(now.status, q.seen.status, q.decision)]]
  /\ desk' = [desk EXCEPT ![o] = NoDesk]
  /\ UNCHANGED <<vars, raised, again>>

CommitDecisionUnaudited(o) ==        \* seeded fault: no audit row
  DecideRow(o) /\ UNCHANGED trail

CommitDecision(o) ==
  /\ DecideRow(o)
  /\ trail' = [trail EXCEPT ![desk[o].on] = Append(@, desk[o].decision)]

----------------------------------------------------------------------------
VNext ==
  \/ \E t \in Documents : Submit(t)
  \/ \E w \in Workers : SetProcessing(w) \/ WriteReport(w) \/ RaiseEarly(w)
  \/ Elsewhere
  \/ \E o \in Operators : CommitDecision(o)
  \/ \E o \in Operators, t \in Documents, d \in Decisions, c \in {""} \cup Comments :
       OpenDecision(o, t, d, c)

VSpec == VInit /\ [][VNext]_allVars

\* Workers run and clocks advance as in TaskQueue; operators owe no decision,
\* but a request that was started commits.
VFairness ==
  /\ \A t \in Tasks : WF_allVars(Elapse(t) /\ UNCHANGED verVars)
  /\ \A w \in Workers :
       /\ WF_allVars(\/ SetProcessing(w) \/ WriteReport(w) \/ RaiseEarly(w)
                     \/ /\ \/ Claim(w) \/ StartBatch(w) \/ BulkCommits(w)
                           \/ HandlerRaisesLate(w) \/ EndPass(w)
                        /\ UNCHANGED verVars)
       /\ WF_allVars(Restart(w) /\ UNCHANGED verVars)
  /\ \A o \in Operators : WF_allVars(CommitDecision(o))

VFairSpec == VSpec /\ VFairness

----------------------------------------------------------------------------
(* Properties. *)

\* The types of the verification rows, audit trails, decision requests and
\* histories: no status outside VerificationStatus is ever stored.
VTypeOK ==
  /\ TypeOK
  /\ ver \in [Documents -> VerType]
  /\ \A t \in Documents : trail[t] \in Seq({"SUBMITTED", "PROCESSED"} \cup Decisions)
  /\ \A o \in Operators : desk[o].open =>
       /\ desk[o].on \in Documents /\ desk[o].seen \in VerType
       /\ desk[o].decision \in Decisions /\ desk[o].comment \in {""} \cup Comments
  /\ raised \subseteq RaisesEarly /\ again \subseteq Documents

\* A document is worked on once more after its report only when its task lost its
\* claim AND its SUCCEEDED, and each loss has a cause of its own: the claim, a
\* handler of the batch that raised before its first commit; the SUCCEEDED, a
\* second such handler, a crash or a failed commit (process_task's rollback of
\* the session the batch shares, worker_loop's commit).
RepeatsTakeTwoLosses ==
  \A t \in again : \E p \in raised \ {t} : faults > 0 \/ raised \ {t, p} # {}

Decided(t) == ver[t].decision # "none"

\* The human operator owns the final decision: the status shown for a decided
\* document is the decision, and no later step of a worker or of another operator
\* makes it anything else, unless the document is worked on again
\* (decide_verification, run_single_verification).
DecisionStands ==
  \A t \in Documents \ again : Decided(t) => ver[t].status = ver[t].decision

\* A rejection, and an approval of a score below 80, carries a comment, as long as
\* the decision is on the row and the document is not worked on again: "a comment
\* is mandatory for a rejection or for overriding a low-score result" (the refusal
\* of decide_verification, which checks it on the row it loaded).
OverrideIsExplained ==
  \A t \in Documents \ again :
    Decided(t) /\ (ver[t].decision = "REJECTED" \/ ver[t].score # "high") => ver[t].comment # ""

\* The audit trail tells the state of the row: the last entry about a document is
\* its last event, and no event that changed what readers see is missing. (The
\* start of work leaves no entry, so it tells nothing of one worked on again.)
LastEvent(t) == IF trail[t] = <<>> THEN "none" ELSE trail[t][Len(trail[t])]

TrailTellsState ==
  \A t \in Documents \ (External \cup again) :
    /\ ver[t].status = "none" => LastEvent(t) = "none"
    /\ ver[t].status \in {"SUBMITTED", "PROCESSING"} => LastEvent(t) = "SUBMITTED"
    /\ ver[t].status \in {"REVIEW"} \cup Decisions =>
         LastEvent(t) = IF Decided(t) THEN ver[t].status ELSE "PROCESSED"

\* A task is marked SUCCEEDED only when its document carries a result.
SucceededMeansReported ==
  \A t \in Documents : row[t].status = "SUCCEEDED" => Reported(t)

\* A crash after the claims were committed left the task to nobody.
Abandoned(t) ==
  row[t].status = "CLAIMED" /\ \A w \in Workers : ~Held(w, t) /\ outcomes[w][t] = "none"

\* Handlers go on raising before their first commit, and what is claimed with
\* them is retried without being charged.
RaisesForEver == []<><<\E w \in Workers : RaiseEarly(w)>>_allVars

\* Every submission is reported on in the end, whatever commits fail and handlers
\* raise late, unless its task used up its attempts, a crash stranded it, or early
\* raises never end (worker_loop, process_task).
EverySubmissionReported ==
  \/ RaisesForEver
  \/ \A t \in Documents : ver[t].status = "SUBMITTED" ~>
       ver[t].status \in {"REVIEW"} \cup Decisions \/ row[t].status = "FAILED" \/ Abandoned(t)

\* Verifications implements the review workflow: queue, sessions and retries
\* are invisible, a report comes once, and what ends that is a repeated run.
Stage(t) ==
  IF t \in again THEN "repeated"
  ELSE IF ver[t].status = "none" THEN "none"
  ELSE IF ver[t].status \in {"SUBMITTED", "PROCESSING"} THEN "waiting"
  ELSE IF ver[t].decision = "none" THEN "reported" ELSE ver[t].status

Workflow == INSTANCE ReviewWorkflow WITH stage <- [t \in Documents |-> Stage(t)]

ImplementsWorkflow == Workflow!Spec
=============================================================================
