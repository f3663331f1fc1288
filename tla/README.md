# Verifo: TLA+ verification development

Verifo verifies documents for an issuing organization. A Flask application accepts
uploads, stores them, and writes task rows; a worker loop polls those rows, runs a
scoring engine and writes results; operators decide. This directory holds TLA+ modules
for that system, the TLC configurations that check them on small instances, and TLAPS
proofs for arbitrary ones. Paths below are relative to the repository root, which the
modules refer to as `src/`.

## 1. Inventory

| Component | State | Operations | Interacts with |
|---|---|---|---|
| Task queue and worker loop (`backend/app/models/domain.py`, `backend/app/services/worker.py`) | `queue_tasks` rows: status, attempts, `claimed_until`, `run_after`; one database session per pass | enqueue, claim, claim_batch, process_task, end-of-pass commit | enqueued by the endpoints; runs the two handlers in its own session |
| Single verification (`api/v1/verifications.py`, `api/v1/external.py`, `run_single_verification`) | `verifications` rows: status, score, decision, comment | submit (user, API key), process, decide | queue, storage, engine, audit log |
| Bulk screening (`api/v1/jobs.py`, `run_bulk_item`, `_recount_job`) | `screening_jobs` and `screening_items` rows | create job, process item, recount, retry failed items | queue, storage, engine |
| Engine and scoring (`services/verification/`) | none | extract, merge, compare, look up, analyse, score, classify, cap | called by the handlers |
| Audit log (`services/audit.py`) | append-only `audit_logs` rows | record, flush | written inside the callers' transactions |
| Reference library (`api/v1/references.py`, `services/references.py`) | `reference_documents` rows, `ref_code` | upload, archive, allocate code | read by submit, by the handlers and by the database lookup |
| Storage (`services/storage.py`, `services/security.py`) | files per organization, temporary plaintext | save, read back, clean up, sign and redeem download tokens | endpoints and handlers |
| Accounts (`api/v1/auth.py`, `users.py`, `admin.py`, `org.py`, `documenttypes.py`, `superadmin.py`, `auth/`, `models/user.py`, `organization.py`, `platform.py`) | users, memberships, organizations, document types, platform settings, claims in bearer tokens | register, demo login, log in, switch organization, bootstrap, invite, suspend, promote, configure | guards every endpoint; writes audit rows |
| API keys (`models/apikey.py`, `api/v1/apikeys.py`, `external.py`) | `api_keys` rows | generate, verify, revoke, expire | guard the external endpoints |
| AI providers (`services/ai/`) | none | resolve, analyze | called by one stage of the engine |
| Demo and seed data (`seed_demo.py`, `app/seed_demo.py`, `services/demo.py`) | none of their own | seed at start, seed by hand, render samples | write accounts, references, a submission and a key |
| Configuration, middleware, pages and browser code, migrations | static | – | – |

Components meet in the database. There are three kinds of concurrent actors: worker
loops (an embedded thread, and optionally `flask run-worker` processes), request handlers
of one or several users, and the clock (leases, back-off, token expiry). What is hard:

* the worker's batch shares one session, whatever the kinds of its tasks are, so a handler's
  commit publishes the claims and outcomes of other tasks and its exception discards them;
* claims are neither locked nor committed at once, and a `CLAIMED` row is never looked at
  again whatever its lease says;
* two requests may create, change or delete the same account, organization or key at once,
  with nothing but unique constraints between them, and tokens go on granting what their
  rows no longer say;
* request handlers check a loaded row and write it later, and the ORM writes only the
  columns that differ from what was loaded;
* results are committed before the task row says so, and a crash may fall in between;
* the recount of a job reads items that other sessions are about to change.

What makes each component correct:

* queue: an exact retry budget; outcomes are final; no claim is lost; every task settles;
* verification: the operator's decision stands; overrides are explained; the trail tells
  the row's state; a document is worked on after its report only where two independent
  losses meet; every submission is reported on;
* screening: status and counters agree with the items; a completed job has no unscreened
  item; each open item has one task; results stand; the job ends;
* engine: a verified document is corroborated by its reference and by the library, a
  contradiction never verifies; references: an upload gets a code that none of the
  references it counted has; storage: a stored name denotes a complete file of one row,
  nothing is left behind without a failure, and only documents are stored;
* accounts: the audit trail can be replayed to the rows, and where one decision undoes
  another it shows a gap; an organization is founded with its administrator or not at all;
  stored settings come from one request; whoever acts on an outdated claim is on record; the seeders add what is missing and
  nothing twice; a revoked key lets nobody in.

The list of hazards, each at its source line with the properties that would expose it,
is `hazards` in `PROJECT.json`.

## 2. Modules

| Module | Models | Notes |
|---|---|---|
| `TaskQueue` | queue rows and worker passes | core; parameterised by tasks, workers, batch limit, attempts, and which handlers may raise early or late |
| `TaskQueueProofs` | – | the TLAPS theorems about `TaskQueue` |
| `ReviewWorkflow` | what a submitter is promised about one document | abstract specification |
| `Scoring` | total, classification, cap, and what the handlers see of a report | operators shared by `Engine` and `Verifications` |
| `Providers` | which AI provider is asked with which key, and what comes back | operators of `Engine` |
| `Engine` | one run of the engine over a document | EXTENDS `Scoring` and `Providers` |
| `EngineProofs` | – | the TLAPS theorems about `Engine` |
| `Verifications` | submit, handler, decision, audit trail | EXTENDS `TaskQueue` and `Scoring`; refines `ReviewWorkflow` |
| `VerificationsProofs` | – | the TLAPS theorems about `Verifications`, the refinement included |
| `Screening` | create job, bulk handler, recount, retry | EXTENDS `TaskQueue` |
| `ScreeningProofs` | – | the TLAPS theorems about `Screening` |
| `Library` | references, stored files, and the requests and handlers between them | on its own: it shares no variable with the queue |
| `LibraryProofs` | – | the TLAPS theorems about `Library` |
| `Database` | sessions of SQLAlchemy over rows with unique keys | external: reads, units of work, commits and their conflicts |
| `Accounts` | accounts, organizations, settings, keys, tokens and the seeders | EXTENDS `Database` |
| `AccountsProofs` | – | the TLAPS theorems about the settings and keys of `Accounts` |
| `AdministrationProofs` | – | those about its types, organizations, claims, audit trail and seeders |
| `MCTaskQueue`, `MCVerifications`, `MCScreening`, `MCEngine`, `MCLibrary`, `MCAccounts` | constant sets for TLC | one per specification |

### Queue state and actions

`row[t]` is the committed row. `claims[w][t]` and `outcomes[w][t]` are what the session of
worker `w` has assigned and nobody has committed: a pending claim remembers the attempts
value it will write, a pending outcome the status. `Flushed(w, t)` is the row a commit of
that session leaves behind. The two timestamps are abstracted to one flag `waiting`
("`claim()` would skip this row"), set when a commit publishes a claim or a back-off and
cleared by `Elapse`. `batch[w]` is the rest of the list `claim_batch` returned, `pc[w]`
the place in the pass.

| Action | Code |
|---|---|
| `Enqueue(S)` | `QueueTask.enqueue` and the endpoint's commit |
| `Claim`, `StartBatch` | one `claim()`; `claim_batch` returning |
| `HandlerCommits` | the first commit of a handler, which flushes the whole session |
| `HandlerRaisesEarly` | `process_task`'s except branch: `materialize` of a bulk item (`worker.py:130`) raised, or the handler's first commit itself (lines 78, 143) |
| `HandlerRaisesLate` | the same branch after that commit: the work, the recount or the last commit raised |
| `HandlerReturns` | the handler's last commit, and `SUCCEEDED` assigned in the session |
| `EndPass`, `EndPassFails` | `worker_loop`'s commit, and its rollback |
| `Crash`, `Restart` | the process dies (or the loop thread does: an exception of `claim_batch` leaves the loop) and the process is started again |
| `Elapse` | the clock |

Writes are deferred to the commit in the model; in PostgreSQL a flushed row is locked
until then. The lock delays the second writer, it does not make it look again, so the
outcomes are the same; the model also contains orders the lock would forbid. Unknown task
kinds and handlers whose row is missing do not occur, because a task is committed with its
row and rows are never deleted. An exception inside `claim_batch` is a `Crash`. Nothing starts
the thread of the embedded loop again inside a living process (`worker.py:271-281` starts
it once), so its `Restart` is that of the process.

### Verifications

`ver[t]` has the columns the workflow depends on; scores are reduced to below 80 and from
80 on, the constant in `decide_verification`. `EngineReports` are the combinations of
verdict and score the engine can hand over, the capped contradiction included: the cap
uses the organization's `verified_min`, so a capped score may be 80 or more. `trail[t]` is
the sequence of audit rows. A decision is two actions, the load with its guards
(`OpenDecision`) and the commit (`CommitDecision`), which writes only columns whose new
value differs from the loaded one (`Written`).

`claim()` does not look at the kind of a task, so the queue also holds tasks of bulk items
(`Bulk`). They share batch and session with the verifications: their commits
(`BulkCommits`) publish, and their early raises (`RaiseEarly`, which a verification's own
first commit may cause as well) roll back, what is pending of their neighbours. A
verification whose claim was rolled back runs uncharged, with its row still claimable; if
its `SUCCEEDED` is then lost too, the next pass runs it again over a row that is reported
on and perhaps decided. Two histories follow this: `raised`, the tasks whose handler raised
early, and `again`, the documents worked on after their report. `RepeatsTakeTwoLosses`
says when it can happen, the other properties say what holds of documents it did not happen
to, and `ReviewWorkflow` has a stage of its own, `repeated`, for those it did.

### Screening

One job: jobs meet only in the queue. `serves[t]` is the payload of a task. `Assess` is
the engine's result and the recount as the session sees it, `Finish` the commit, so that
other sessions can commit between the two. `_recount_job` is `Recount`, with everything
that is not `PENDING` counted as done, as in the code. A retry is a load and a commit as
well. Before its first commit a handler may raise for the items in `Unreadable`
(`RaiseEarly`: the file, or the commit at `worker.py:143`), and the item is as it was. After
it `_recount_job` and the last commit (lines 165-166), which are outside the handler's own
`try`, may raise (`RaiseLate`): the result is rolled back, the task is retried or given up,
and until it is run again the item stays `PROCESSING`.

### Scoring and Engine

The engine is a pipeline and `Engine` follows its stages: `Read`, `Provide` (the AI
provider), `Supplement` (fields from the browser), `Compare` (the claimed reference),
`Lookup` (the active references) and `Conclude` (integrity, total, verdict, cap). What the
analyzers can see is enumerated: a document has any of its fields, at the confidence the
text layer or the scan gives a labelled value or a pattern (`LayerLevels`, `ScanLevels`);
which of the two is read depends on the length of either. A label with nothing but spaces
after it gives a field without a value, which counts as a key field and keeps a later
answer of lower confidence out (`ReadDocs`, `Merged`). Providers and browsers add
fields of any confidence in `Confidences`. Values are equal or not after normalization,
and `Blanks` are those of which normalization leaves nothing; values that differ may be
similar to any degree; the library is any set of records up to `MaxRecords`; the file has
any structure. `Providers` follows `resolve_from_config`: the candidates in order, each
with the Gemini key where there is one; an unregistered name makes the task raise before
the run begins (`Unresolved`), and a call that raises adds nothing. The arithmetic is exact, in tenths
of a point, with both results where a half is rounded. `Scoring` ends with
`EngineReports`, the reports that `Verifications` lets the handler receive: `ReportFits`
is the other half of that interface.

### Library

`store[p]` is the file of a path (`part` until the rename), `refs` the committed
references, `rows[p]` the number of verifications and screening items naming `p`, and
`req[r]` a request or handler in progress, with what it has read and stored so far.
`save` is `SaveBegins` and `SaveEnds`; reading back is `BeginHandle` or `ReadBack`, and
`Analyzed`; an upload counts the references and takes its code in `BeginUpload` and commits
it in `CommitUpload`, and any number of them overlap. `BeginSeed` is `_ensure_reference` of
`app/seed_demo.py`: a reference found by its title, or made with the fixed code
`REF-<KIND>-0001` and no count. A row of `refs` remembers which of the two made it and how
many references its upload had counted (`by`, `seen`). `Fail` ends a request with a full
disk or a database error, `Crash` ends them all.

A file has a name, first bytes and a size, and `Admitted` is the check of each endpoint: a
job checks no size, and skips a member of an archive where it refuses a single file. The
stored name is not the client's: `sanitize_basename` keeps 120 characters of what follows
the last separator (`storage.py:83-84`, `security.py:51-55`), so the extension a file was
admitted by may be lost. `kind[p]` is therefore the extension of the stored name,
what the first bytes say, and whether the name was `mangled`; of a mangled name any
extension may be left. A path has a fresh uuid, so paths are numbered in the order of use.
The model is of one organization: codes and paths never cross organizations.

### Accounts

`db[r]` is the committed row `r`, or `NoRow`. Rows are named by their unique keys (e-mail,
slug, account and organization, code), so a unique constraint is a row that exists.
`sessions[s]` is the unit of work open in a slot and `trail` the committed audit rows. A
request is two steps. The first reads what is committed, refuses or prepares everything
the handler adds, changes and audits (`Register` ... `SeedDemo`, one action per endpoint
and seeder); the second is `Commit` or `Refuse`, and other requests may commit in between.
Three rules of the ORM and the database are in `Database`: an UPDATE names only columns
that differ from what was loaded (`Changed`), an INSERT of a key that exists is refused,
and an UPDATE that matches no row raises (`Conflict`); either discards the whole unit.

`claims` holds every claim an unexpired token may carry. `SignIns` adds what login,
switching and the platform bootstrap would now issue; nothing is removed, since
a token outlives any of these changes by up to twelve hours. Guards look at `claims` where
`roles_required` does, never at rows. `Configure` reduces a configuration to the parts an
organization has made its own; `UpdateSettings` names one setting, over a row of two. The
fixtures of the seeders have no unique key, so each gets one of the identities in `Copy`.

`Told(r, c, n)` is what the first n audit rows say of a column, `Known` that one of them,
or the creation of the row, put a value there, and `Unbroken` that every audit row about a
column found what the one before it had left. `Serial` names the operations that an instance keeps
from overlapping each other; the theorems say which of them need it.

Left out: passwords, names, login times, list endpoints, and `PUT /org`, which stores
nothing but a display name (a `verification_config` in it is coerced to a string by
`Schema.coerce`, and merging it raises).

## 3. Runs

On two cores every run finishes within two minutes and a half. Deadlock is not checked in any of them: with
no request pending and no task left the system rests.

| Run | Instance | What it shows |
|---|---|---|
| `queue_faults` | 1 worker, 3 tasks, batches of 2, 3 attempts, 2 faults, one early raiser | `TypeOK`, `RetryBudget`, `SettledIsFinal` |
| `queue_two_workers` | 2 workers, 2 tasks, 2 attempts, no faults | `NoStrandedClaim`; `EveryTaskSettles` under fairness, even though both may run a task |
| `queue_lease` (violated) | 1 worker, 1 fault | `LeaseExpires`: a crash leaves a claimed task `CLAIMED` for ever |
| `queue_poison` (violated) | 1 worker, one early raiser | `BatchIsolation`: the neighbour's outcome is rolled back |
| `ver_safety` | 1 worker, 1 operator; a bulk task, a document and a bulk task in one batch, where both bulk handlers and the document's own may raise (early, late); 1 fault, 1 attempt, up to 4 audit rows | `RepeatsTakeTwoLosses`; of documents not worked on again `DecisionStands`, `OverrideIsExplained`, `TrailTellsState`; `SucceededMeansReported`, `ImplementsWorkflow`; under fairness `EverySubmissionReported`, unless the task was given up or stranded by the fault, or early raises never end |
| `ver_operators` (violated) | 2 operators, 1 document | `DecisionStands`: row decided `VERIFIED` with status `REJECTED` |
| `scr_safety` | 1 worker, 2 items, 5 tasks (3 retries) | `CompletedMeansScreened`, `CountersAgreeAtRest`, `OneTaskPerOpenItem`, `ResultStands`, `JobFinishes`, `RetriedItemsFinish` |
| `scr_degraded` | 1 worker, 3 items, one unreadable, 4 tasks (1 retry), the first of which may also raise late, 1 fault | `ScreenedTally`: whatever was lost, a job whose items all have results is their account; `CountersAgreeAtRest`: a queue at rest with no task given up has left no item out |
| `scr_workers` (violated) | 2 workers, 2 items | `CountersAgreeAtRest`: neither recount sees the other's result |
| `engine_reports` | 2 fields, 3 values (one blank), the 4 levels of the extractors and 2 of others, 4 lengths of text, 2 records, 4 configured thresholds, every deployment of providers | `VerifiedIsCorroborated`, `ReportFits` |
| `library_files` | 2 requests of any kind at a time, uploads and the seeder overlapping, 3 files, 2 references, 1 loss | `RowsHaveFiles`, `FilesHaveOneRow`, `NothingOrphaned`, `NewCodesAreNew`, `StoredAreDocuments` |
| `accounts` | any 3 requests, 2 open at a time; 2 accounts, 3 organizations, 1 key, 3 identities per fixture; empty or seeded tables; decisions about members and accounts, and the seeders, one at a time; decisions about organizations and all else overlap | `TrailTellsRows`, `OrganizationHistory`, `OrganizationsAreFounded`, `SettingsAreAudited`, `StaleClaimsAreOnRecord`, `SeedAddsOnly`, `RevokedKeysAreDead` |

Every run of a module also checks the types of its state (`TypeOK`, `VTypeOK`, `STypeOK`,
`ETypeOK`, `LTypeOK`, `ATypeOK`), once per module.

Why these bounds are enough: two tasks make a batch in which one commit publishes and one
rollback discards something of another task, and a third lies outside the batch, or on its
other side: with one poisoned neighbour before a document and one after it, both its claim
and its `SUCCEEDED` can be lost. Two attempts reach a retry and a give-up (three are used
where it is cheap; in `ver_safety` one does, as a task whose claim was rolled back is
retried without being charged, and a charged one that raises is given up); the second fault falls into the recovery from the first; two workers, or
two operators, give every race the code has, since each race is between two sessions on one
row; five tasks for two items allow a retry of both and another one; two fields separate a
confirmed field from a blank one, which the rounding and the weights of
`VerifiedIsCorroborated` need; three files and two references allow a job of two next to an
upload, or two overlapping uploads and the seeder, and one loss falls between any two of
their steps; two open units of work give every race between accounts, each being between two
requests on one row, and the third request shows what the two left behind; seeded tables
stand for the longer histories that administration needs before it can act. In `accounts`
the operations of `Serial` do not overlap each other (they do overlap the others), because
`TrailTellsRows` and `SeedAddsOnly` are false of overlapping ones (section 4); the other
properties are proved without that restriction (section 5).

Each passing property is paired in `PROJECT.json` with a seeded fault of the code (an
operator next to the original in the module, marked as such) under which TLC finds it
violated.

Fairness. `worker_loop` never ends by itself and every handler terminates, so a pass that
can move eventually does (`WF` of the pass as a whole: which of its alternatives is taken
is not promised). Clocks advance (`WF` of `Elapse`). The host restarts a dead process.
Nothing is assumed of users, except that a request that was started commits.

## 4. What disagrees with the documentation

The violated runs are disagreements between the code and what its documents and
docstrings say; each is described, with the quotation, under `findings` in `PROJECT.json`.
Variants of the same causes that have no run of their own follow.

Queue and verifications. The batch [bulk item, document, bulk item], which the default
`WORKER_CONCURRENCY` of 4 (`config/base.py:66`) allows, with both files unreadable: the first
raise takes back the document's claim, so it is worked on uncharged; its report is
committed; the second raise takes back its `SUCCEEDED`. Its row is claimable again, and the
next pass repeats the report over whatever an operator decided meanwhile: the row shows a
decision and another status, or a score the decision was never made for. One worker, one
operator and no fault suffice (`DecisionStands` without `\ again`). With two workers the
second run of a task does the same (`DecisionStands` with two workers). A
poisoned item takes back its own claim as well: unless a neighbour's commit published that
before, it is retried without being charged, and for ever (`RaisesForEver`).

Screening. A file that can never be materialized keeps its item `PENDING` and its job
`RUNNING` (`JobFinishes` with a non-empty `Unreadable`), which the retry endpoint cannot
repair because the item is not `FAILED`. A raise of the recount or of the last commit, or a
crash, leaves an item `PROCESSING`, whose task may then be `FAILED` or `CLAIMED` for ever;
the next recount takes the item for done and may mark the job `COMPLETED`
(`CompletedMeansScreened` with a fault or a late raise and three items). Two administrators
who retry at once enqueue an item twice and open again what a worker has finished
(`OneTaskPerOpenItem`, `ResultStands` with two administrators). The first commit of
`run_bulk_item` is outside the `try` that removes the decrypted copy of its file
(`worker.py:130-143`): if it fails, the copy stays.

Library. Two uploads that overlap get the same code, and so does an upload that comes to
the number of one of the seeder's fixed codes, even with nothing in parallel:
`app/seed_demo.py:79-85` looks for a title, not for a code. A document whose name is longer
than 120 characters is accepted by one extension and stored with another, or with none, so
a reader that goes by the stored name does not find a type it knows.

Accounts. With `Serial = {}`, two decisions about a member or an account at once make the
trail contradict the row (`TrailTellsRows`: the later one equals the value it loaded, so
it is audited and not written), and can leave an account both suspended and superadmin,
which each of the two endpoints refuses. Two decisions about an organization may undo each
other on the threaded server (`server.py:138`), as both configurations were merged into
the same old one; their audit rows record what was there before, and the gap shows it
(`OrganizationHistory`). Those about members and accounts record nothing of the kind.

Smaller ones seen while reading. `docs/ARCHITECTURE.md:90` lets the status flow of a
document end in `ERROR` where it cannot be verified, a status the code does not have: when
its task is given up the document stays `PROCESSING`. `docs/ARCHITECTURE.md:80` and
`scoring.py:5-7` say that weights and thresholds are the organization's, but `_engine()`
builds every scorer from the defaults: the organization's `verified_min` only sets the cap
after a contradiction, which may thus be above the threshold that is used, or, for a
`verified_min` below 1, negative. With a `verified_min` above 80 a contradicted document
may thus have a score from 80 on and be approved without a comment. The docstring of
`verifications.py:5-6` asks for a comment "when overriding a high-score verdict"; the code
and its refusal (lines 163-167) ask for one when the score is below 80, and
`OverrideIsExplained` states the latter. The lookup counts a field of punctuation only as
confirmed by every record that lacks it (`VerifiedIsCorroborated` shows that it cannot
verify a document by itself). `resolve_from_config` gives the Gemini key to whatever
provider is tried, so a deployment with both keys that names `groq` gets no answer.
`set_user_status` reads the old status after assigning the new one, so its audit rows say
that nothing changed. A suspended account keeps acting on its tokens, and `switch-org`
renews them. An invitation may carry any role code, `SUPERADMIN` included, and
`roles_required` looks at the role alone. `app/seed_demo.py` reads
`_ensure_reference(...).id` (lines 139 and 143) before the new reference is flushed, so
that its first submission names none, although its task does name the submission (lines
108-111 flush first); the audit row of `upload_reference` has no `entity_id` for the same
reason. Demo login and `app/seed_demo.py` look for a membership among the active ones, so
a suspended one makes them insert a duplicate and fail. `save_platform_settings` resets
what a request does not name. `VERIFO_WORKER_MAX_RETRIES` is documented and never used,
and the API-key submission writes no audit row. A job refused at one of its files leaves
the files before it, which `Library` counts as a loss.

## 5. Proofs

Everything here is checked by `tlapm` to the last leaf, for every set of tasks, documents,
items, files, requests and accounts, and every bound. The assumptions on constants are the
named `ASSUME`s of the modules; what a theorem assumes beyond them is in the tables, and is
where the property stops being true: the violated runs and the variants of section 4 are
what happens without it.

### Queue

| Theorem | Assumptions | Argument |
|---|---|---|
| `TypeSafety`: `Spec => []TypeOK` | none | `TypeInv` adds that a worker in a handler has a current task, without which `Head` and `Tail` of its batch are not typed |
| `OneWorkerBudget`: `Spec => []RetryBudget` | one worker loop | `SingleWorkerInv`, below |
| `OneWorkerFinality`: `Spec => SettledIsFinal` | one worker loop | the same invariant: a commit never finds a pending claim or outcome for a settled row (`FlushKeepsBudget`) |
| `ClaimsAreHeld`: `Spec => []NoStrandedClaim` | any number of workers, no fault, no early raise | `HolderInv`: a pending claim is in the batch of its pass, and a pass in a handler has nothing pending |

`RetryBudget` is not inductive: a step of a pass depends on what its session holds.
`SingleWorkerInv` therefore says, of the session, that a pending claim belongs to a
claimable row and is one above its attempts; that a pending outcome belongs to an open row
that is neither claimed nor held, with `FAILED` only at the limit and `RETRYING` below
it; that a batch has no repetitions and only open rows; and that nothing is pending where
the code has just committed.

`Verifications` and `Screening` extend the queue with rows of their own and more ways to
insert tasks. The lemmas about a pass (`LeaseStep`, `SpentStep`, `ReturnsSpends`,
`SuccessSource`, `Serves` ...) are stated for such an extended step, so the invariants of
the queue carry over and are cited, not proved again.

### Verifications

| Theorem | Assumptions | Argument |
|---|---|---|
| `VerificationTypes`: `VSpec => []VTypeOK` | none | with the types of the queue |
| `SuccessIsReported`: `VSpec => []SucceededMeansReported` | none: any workers, operators, raises, faults | `SuccessInv`: a pending or committed `SUCCEEDED` is of a document whose result was committed before it |
| `RepeatsAreExplained`: `VSpec => []RepeatsTakeTwoLosses` | one worker loop | `LossInv`, below |
| `NothingRepeats`: `VSpec => [](again = {})` | one worker loop, no early raise | from `LossInv`: without early raises no claim is lost, so what follows holds of every document |
| `DecisionHolds`: `VSpec => []DecisionStands` | one worker loop, one operator; any batches, raises and faults | `DecisionInv`, below |
| `OverridesExplained`: `VSpec => []OverrideIsExplained` | the same | `DecisionInv` |
| `TrailIsTold`: `VSpec => []TrailTellsState` | the same | `DecisionInv` |
| `WorkflowImplemented`: `VSpec => ImplementsWorkflow` | the same | initial states map to initial states, and each step of handlers, sessions and requests to a step of `ReviewWorkflow` or to none |

A document can be worked on again only while its row is claimable although it is reported
on. `LossInv` follows the two losses this takes: a document in work whose row is still
claimable has lost its claim to a handler of the same batch that is through with its raise
(`OneLoss`), and one that is reported on has a spent task, or a pending `SUCCEEDED` and at
most that one loss, or both (`Twice`): the `SUCCEEDED` was taken back by a second handler, a
crash or a failed commit. This needs the order of a pass: a handler that raised is no longer
in the batch, so it cannot be the cause of both.

A decision is checked against a loaded row and committed later, and writes only the columns
that differ from it. `DecisionInv` therefore says, of each open request about a document not
worked on again, that what it loaded is still what is stored and that its checks still hold
of it (`DeskInv`); of each such row, the three properties together, since which audit row
comes next depends on the other two (`RightOf`); and that a handler at a document that is
reported on is one that works on it again (`OnceInv`). Two operators break the first part;
two workers make repeated runs that no loss explains, which is why they are assumed.

### Screening

| Theorem | Assumptions | Argument |
|---|---|---|
| `ScreeningTypes`: `SSpec => []STypeOK` | none | `STypeInv` |
| `AccountIsTold`: `SSpec => []ScreenedTally` | one worker loop; any faults, early and late raises and administrators | `AccountInv` |
| `RestIsAccounted`: `SSpec => []CountersAgreeAtRest` | the same | `AccountInv`, and `LeftOpen`: an item without a result has a task that did not succeed |
| `ResultsStand`: `SSpec => ResultStands` | one worker loop, one administrator, no early raise; any faults and late raises | `RetryInv` |
| `CompletedIsTrue`: `SSpec => []CompletedMeansScreened` | one worker loop, one administrator, no fault and no raise | `CompletionInv` |
| `OneTaskEach`: `SSpec => []OneTaskPerOpenItem` | the same | `RetryInv`, `LeftOpen`, `Untroubled` and the queue's `HolderInv` |

`AccountInv` follows the tally of a handler from `_recount_job` to its commit: what a
recount has read of the other items can become outdated only by a retry, which opens an item
(`TallyInv`, `Told`), and the last result to be committed is committed with a recount that
knows all the others. `RetryInv` says which tasks can still run: a task is spent when it
succeeded, or is left `CLAIMED` with nobody to claim it again (`LeaseInv`), an item that has a
result has only spent tasks (`ResultsSpent`), no item has two unspent ones (`OneUnspent`), and what
an administrator has loaded as failed is failed still (`DeskFresh`). Two administrators break
`DeskFresh`; an early raise breaks `ResultsSpent`, since it takes back the outcome of
other tasks, which then run again over their results. `CompletionInv` adds that each open
item is attended by a task, and that `PROCESSING`, which `_recount_job` takes for done, is
the state of at most the item its handler is about to settle: a crash or a late raise breaks
exactly this.

The tally was first stated more strongly: that a job shown `COMPLETED` always counts every
item. The proof of that failed, and it is false on an instance of four items and six tasks:
items a retry loaded as failed were re-run to `VERIFIED` on behalf of another retry, the job
became `COMPLETED`, and the first retry then opened them again; the recounts that follow
leave the status and lower the count. `ScreenedTally` and `CountersAgreeAtRest` say what
the code keeps, and the case is listed as a hazard.

### Engine and library

| Theorem | Assumptions | Argument |
|---|---|---|
| `RunIsTyped`: `ESpec => []ETypeOK` | none | `EngineInv`: the types of each stage, and the parts below |
| `NothingVerifiesAlone`: `ESpec => []VerifiedIsCorroborated` | none | `Evidenced` and `InOrder` keep what `Compare` and `Lookup` found in step with the document; `ConcludeHolds` is the arithmetic |
| `ReportsAreExpected`: `ESpec => []ReportFits` | none | from the cases of `ConcludeHolds` |
| `NoMissingFiles`: `LSpec => []RowsHaveFiles` | none | `LibraryInv`: `Progress` says that a request writes a part and has saved complete files, `Complete` that whatever is named is complete |
| `FilesAreApart`: `LSpec => []FilesHaveOneRow` | none | `Owned`: a file belongs to one request, or to one row, or to one reference |
| `OnlyDocuments`: `LSpec => []StoredAreDocuments` | none | a kind is set when a file appears, by a request whose endpoint admitted it, with whatever sanitizing left of the name |
| `LibraryTypes`: `LSpec => []LTypeOK` | none | `Room`: references and those that uploads and seeders are about to add have their places together, so an upload that counted long ago still finds one |
| `NothingLeftBehind`: `LSpec => []NothingOrphaned` | none | `Kept`, which needs `Shape`: what a request in each step has stored |
| `NewCodesStayNew`: `LSpec => []NewCodesAreNew` | none: any number of overlapping uploads and seeders | `Numbered`: the number of a reference is at most its place, however long its upload took, and that of an upload is one more than it counted |

The argument of `NothingVerifiesAlone` is about weights (25, 25, 30, 20), a threshold of
800 tenths and rounding. With n fields, the shares of the lookup and of the comparison are
rounded parts of 1000; `DisjointShares` shows that fields which only one of the two
confirms share 1001 at most, and `OutOfReach` that the total then stays below the
threshold, the extraction part being 900 at most and the integrity whatever it is. Typing
uses `RoundedError` and `TotalBounds`, and `OrgMinsAssumption`, that a configured
threshold is between 0 and 1000.

### Accounts

| Theorem | Assumptions | Argument |
|---|---|---|
| `SettingsStayAudited`: `Spec => []SettingsAreAudited` | none on `Serial` | `AccountsInv`: every open unit is `Sound`, that is, it carries the audit row of the settings it would write |
| `NoUseAfterRevocation`: `Spec => RevokedKeysAreDead` | none on `Serial` | the same: a request of the external endpoints updates every key it relies on, so its commit conflicts when the key is gone |
| `AccountTypes`: `Spec => []ATypeOK` | none on `Serial` | `StandingInv`, below |
| `OrganizationsFounded`: `Spec => []OrganizationsAreFounded` | none on `Serial` | `StandingInv` |
| `StaleClaimsRecorded`: `Spec => []StaleClaimsAreOnRecord` | none on `Serial` | `StandingInv` |
| `HistoryIsHonest`: `Spec => []OrganizationHistory` | none on `Serial` | `HistoryInv`, below |
| `TrailReplays`: `Spec => []TrailTellsRows` | `Administrative \subseteq Serial`: decisions about members and accounts do not overlap each other | `TrailInv`, below |
| `SeedersOnlyAdd`: `Spec => SeedAddsOnly` | `Seeders \subseteq Serial`: runs of the seeders do not overlap each other | `SeedingInv` |

None of these properties is inductive: a commit publishes what another request read and
assigned long before. The invariants therefore say of every open unit of work what its
commit will need. `Sound` links the settings in a unit to its audit row; a setting the ORM
does not write because it equals the loaded one needs no row of its own, as the stored one
has one.

`StandingInv` says of a unit that it writes whole rows and known columns and puts a
membership only where its organization is or comes with it (`Typed`), that a new
organization comes with its audit row and whatever that row says (`Founding`), and that
a role it changes, a superadmin flag it takes and a row it suspends are named in its audit
row (`Marked`); and of the rows, that only keys ever disappear (`Permanent`) and that what
is suspended was suspended on record (`SuspendedInv`), which is what keeps these
true while other units commit. It holds for requests that overlap in any way, because a
conflict discards a whole unit.

`HistoryInv` says of an open unit that what its audit row remembers of an organization was
known when it was read (`Recalls`), and that it writes what its row says, or does not write
it because it equals what the same row remembers (`Historical`). A commit then either finds
what it remembers, and the last audit row tells what is stored; or it does not, and its own
row is the gap (`HistoryOf`). Appending to a trail keeps both (`HistoryGrows`).

`TrailInv` is about the rows that are audited without what was there before. It adds to
`StandingInv` that what the audit row of an open unit says is what the unit writes, or
equals what is stored already (`Truthful`), and that no unit writes a column of the trail
without a row about it (`Audited`). The last alternative of `Truthful` is where overlap would
hurt: it speaks of a column as it was when the request read it, so it survives
only if no other decision about a member or an account commits in between. Sign-ups,
decisions about organizations, settings, keys, document types
and the seeders may. The trail is of any length: the last row about a column is the
greatest of a finite set of positions, which `Largest` finds by the well-foundedness of the
naturals, and appending a row changes what is told of its own columns only (`ToldBefore`,
`ToldLast`). `SeedingInv` says that a unit adds a fixture only where there is none, which
other requests cannot make false, as nobody but the seeders adds one.

The unit each request opens is shown once to be of the right form (`Fit`), request by
request, in the lemmas from `RegisterOpens` to `SeedDemoOpens`; the four invariants are
preserved by one lemma per kind of step.

Only model-checked: liveness (`EveryTaskSettles`, `EverySubmissionReported`, `JobFinishes`,
`RetriedItemsFinish`), which is out of the prover's reach. Every other property of a
passing run is a theorem.

## 6. Plan

1. Done: every component of the inventory that keeps state, and a proof of every safety
   property that a run checks.
2. Next proofs: weaker assumptions where the code allows them, such as which decisions about
   members and accounts may overlap when they are about different rows; that an administrator
   always remains able to sign in to a founded organization, or the case where none does.
3. Runs of the violated variants in section 4 that have none: overlapping decisions about an
   account, a repeated report over a decided document, documents whose task was given up.

## 7. Not modelled

Configuration, middleware and error envelopes (no state), request parsing and the limits
on archives (pure functions of bytes), the encryption of stored files and the unused
archive extractor, the signature of download tokens (stateless), pages and browser code
(they call the endpoints), the contents of demo documents, migrations and deployment
files, and the test suite. AI vendors are external: they may answer anything. Of
`audit_logs`, the rows about jobs and references are left out, and so are the columns that
no property is about.
