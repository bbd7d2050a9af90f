# Enterprise Automation Hub: a TLA+ development

Enterprise Automation Hub is a multi-tenant approval system: employees file
requests, a request goes through the stages of a workflow definition, approvers
and administrators decide the stages, and background jobs escalate, remind and
send e-mail. Its backend (`src/app`) has **no database transactions**: every
service operation is a sequence of separately committed repository statements,
held together by optimistic locking (`version` columns), by row policies, and by
a list of compensations kept in memory. Deferred work lives half in a `jobs`
table and half in Redis; leadership, rate limits and cached reports live in Redis
or in the memory of one process. This is where the code can be wrong in ways a
unit test hardly reaches, and it is what these modules are about.

| modules | what they model |
|---|---|
| `WorkflowRules` | status tables, ownership rules, sequencing of stages |
| `Statements` | one repository statement and the four ways it is answered |
| `ApprovalSaga` | one request and its stages, changed by concurrent service calls |
| `ApprovalSagaProofs` | its proofs: types, the decision protocol, the outcome, notifications, the chain of stages and where the request points |
| `JobQueue` | jobs table, Redis queue, workers, stuck-job reaper, administrator's retry |
| `WorkflowDefinitions` | versions of a definition, their activation, requests pinned to them |
| `SchedulerLeadership` | leader election, job locks and the runner on several instances |
| `Accounts`, `Tenancy` | profiles, Supabase accounts, companies and the token verifier; invitation, user and company calls over them |
| `Access`, `RowPolicies` | permissions and authorization rules; row level security and the client a repository runs on |
| `ServiceCalls` | what concurrent calls about one request share |
| `Attachments`, `Comments`, `Notices`, `RequestMaterial` | three services on that base, and their composition |
| `SlidingWindow`, `RateLimiting` | what a rate limiter promises; the two backends, which implement it |
| `Endpoints`, `ApiErrors`, `Gateway` | the 118 routes; exceptions and their statuses; a request from its arrival to its answer |
| `ReportQueries`, `Figures`, `Search`, `Reports` | what reports read, what they compute, the global search; all of it while the tables change, behind the cache |
| `JobQueueProofs`, `TenancyProofs`, `RequestMaterialProofs`, `GatewayProofs`, `RateLimitingProofs`, `ReportsProofs` | the proofs about these modules |
| `DefinitionsAndLeadershipProofs` | those about `WorkflowDefinitions` and `SchedulerLeadership` |
| `MC*.tla`, `MC*.cfg` | small instances for TLC |
| `PROJECT.json` | components, runs, mutants, map to the source, findings, hazards, theorems |

```
tlc -workers 2 -config MCApprovalSaga_faults.cfg MCApprovalSaga
tlapm ApprovalSagaProofs.tla
```

## 1. Inventory

State, operations, interactions, what is hard, and what makes each part correct.
Paths are relative to `src/app`.

**Workflow engine** (`workflow/`). Stateless: transition tables
(`state_machine.py`), planning of the next stage (`stage_generator.py`), of
creation, approval, rejection and escalation (`engine.py`), resolution of
definitions and assignees. It is called on snapshots that may be stale when the
plan is carried out. Correct: no stage is planned out of sequence, terminal
statuses have no way out.

**Approval and request services** (`services/approval_service.py`,
`services/request_service.py`). `approve_stage`, `reject_stage`,
`escalate_stage`, `create_request`, `update_request`, `withdraw_request`, over
rows of `requests`, `workflow_stages`, `audit_logs`. A decision is up to four
writes with three compensations, followed by notifications. Hard: concurrent
decisions, decisions against escalations, edits and withdrawals, failures between
any two writes, a compensation that fails, a replay answered while the first call
is running. Correct: one decision counts, it stays, the request agrees with its
stages, a failed creation leaves nothing.

**TransactionContext** (`services/workflow_definition_service.py:63`). A list of
compensations, run in reverse on an exception, each failure logged and skipped.
Lost with the process. Correct: what is undone is exactly what this call did.

**Repositories** (`database/repositories/`). `update_with_optimistic_lock` matches
`id` and `version`; `_execute` retries transport errors; some repositories run on
the caller's own client, under the row policies, and the others on the service
role. Hard: the answer to an applied write is lost and the retry sees a conflict
with itself; one service mixes both clients.

**Job system and reaper** (`jobs/`, `scheduler/stuck_job_reaper_job.py`).
`JobService.enqueue` inserts a row and then pushes a Redis entry; workers pop,
load, mark running, run a handler, record the outcome; the reaper re-queues or
dead-letters rows that are too old, against workers that may be alive. Hard: no
statement covers both stores; a worker dies on any exception outside a handler;
several entries may lead to one job. Correct: an accepted job is settled, an
attempt that was taken over is not recorded as the job's success, attempts stay
within their limit.

**Escalation and reminder jobs** (`scheduler/escalation_job.py`,
`reminder_job.py`). Discover overdue pending stages and act on them later.

**Scheduler and leader election** (`scheduler/`). A key with a lifetime in Redis, a
flag in memory, a `threading.Lock` and a Redis lock per job. Hard: a paused leader
believes it leads after its key has expired; `stop()` runs against the loop thread;
a late release meets the next holder's lock. Correct: two leaders and two runs only
in the windows the lifetimes imply, and a leader again after every disturbance.

**Workflow definition service** (`services/workflow_definition_service.py`,
`workflow/version_manager.py`). Drafts, versions, activation in two statements.
Hard: two activations, an edit against an activation, requests that are pinned to a
version while it is replaced, statements on a client that may not reach the row. Correct: a
version in force at every time and no edit of it.

**Invitation, user and company services** (`services/`), **authentication**
(`auth/`). Acceptance creates an account in Supabase, waits for the profile its
trigger makes, and updates profile and invitation in separate calls; erasure bans
the account and anonymizes the profile; the verifier caches what it found out about
a token. Correct: an invitation is used once, with the last token; who was locked
out, with the account or with the company, stays out once the cached answer has aged.

**Attachment, comment and notification services** (`services/`, `notifications/`).
Rows and stored objects changed by separate calls, threads of comments, preferences
read and written back, mail from a thread pool. Correct: a listed row has its file, a
replaced file is gone, only parties write, a preference is not lost.

**Rate limiters** (`utils/rate_limiter.py`, `utils/redis_rate_limiter.py`,
`api/rate_limiting.py`). A deque per key under a lock, or a sorted set changed by a
script, with a clock that is read before the lock is taken or on another machine.
Correct: a sliding window, and a `Retry-After` that can be relied on.

**HTTP API** (`api/`). 118 routes with guards written in dependencies, routers,
services or policies; contextvars that carry the caller's client; caches of claims
and clients. Hard: interleaved requests, a role changed while its claims are cached.
Correct: a statement runs for whom it was asked, and nobody is served beyond the
role.

**Reports, dashboard, search** (`analytics/`, `services/analytics_service.py`,
`dashboard_service.py`, `search_service.py`, `utils/cache.py`,
`utils/redis_cache.py`). Page by page reads that are no snapshot, reports that call
reports, an answer shared by key, locks per key. Correct: an undisturbed answer says
what the tables say, same-key calls compute once and do not wait for ever, a search
shows what its caller may see.

**Feature flags, AI insights, configuration, observability, migrations, frontend.**
Enumerations, constraints and policies are used by the models; the rest is wiring,
single-row administration or a client.

How they interact: routers and job handlers call services; services call the engine
for a plan and repositories for statements; the scheduler's leader runs escalation,
reminder and reaper jobs; escalations go through the job queue, so an
`escalate_stage` call starts an arbitrary time after its stage was discovered;
notifications are written by services on behalf of the caller and read by their
recipients; reports read what all of these write.

The hazards are in `PROJECT.json`, each at its line, with the properties that would
catch it going wrong.

## 2. How the modules correspond to the code

In every module a process is a call, thread, worker or task; `pc` names the
statement it executes next; each statement is one action, as each is committed on
its own in the code. Comments headed *Mutant* mark definitions that no module uses:
each is a plausible wrong form of its neighbour.

### Statements

A statement is answered in one of four ways (`Reply`): `ok`; `refused` (no row
matches, the key is taken, a constraint is in the way); `error` (nothing was
written); `lost` (the write is in the database and the call is told otherwise:
`_execute` retried a write whose answer was lost and its second attempt matched
nothing). `Dies` ends a process at any statement.

### WorkflowRules, ApprovalSaga

`WorkflowRules` holds `REQUEST_STATUS_TRANSITIONS`, `STAGE_STATUS_TRANSITIONS` and
the operators over them, the ownership rules of `auth/rbac.py` and the sequencing
rules of `workflow/stage_generator.py`. `ApprovalSaga` is one request and a set
`Calls` of service calls.

| variable | code |
|---|---|
| `request` | the `requests` row: status, current stage, version, `completed_at` set, deleted |
| `stage[o]` | the `workflow_stages` row of order `o`: id, version, status, `decided_by`, assignment |
| `audit[c]`, `notices` | `audit_logs` rows of a call, notifications |
| `op`, `seen`, `seenReq` | the call's arguments and the rows it has read |
| `undo` | compensations registered in the call's `TransactionContext` |
| `left` | bookkeeping: effects of an unsuccessful call that were not undone |
| `budget` | bounds on what the environment does wrong |

| call | actions |
|---|---|
| `create_request` | `CreateRequest`, `CreateStage`, `SetCurrentStage`, `RecordEvent`, `Notify`; on failure `DeleteCreated` |
| `approve_stage` | `ReadStage`, `DecideStage`, `ReadRequest`, `PlanNextStage`, [`CreateStage`,] `SetCurrentStage`, `RecordEvent`, `Notify`; on failure `RestoreRequest`, `DeleteIfUnchanged`, `RevertToPending` |
| `reject_stage` | the same without planning and creation |
| `escalate_stage` | `DiscoverStage`, `EscalateRead`, `EscalateStage`, `RecordEvent`; on failure `RestoreAssignment` |
| `update_request`, `withdraw_request` | `ReadOwnRequest`, `UpdateFields` or `SoftDelete`, `RecordEvent` for a withdrawal |

Abstractions: a call creates at most one stage, so the creating call serves as the
row's id, and `decided_by` names the deciding call. The client's `expected_version`
is a version it has once observed, or none. What the assignment resolver returns for
each order is a constant. A second request inserted by a retried insert is not in the
model. The orders are `1 .. NumStages`, which `models/workflow.py:120` enforces.
Titles, comments and metadata are left out; an edit moves the version.

### JobQueue

| variable | code |
|---|---|
| `row[j]` | the `jobs` row: status, attempts, version, whether `scheduled_for` is set, `locked_by`, whether `created_at` / `started_at` lie before the reaper's cutoff |
| `ready[j]`, `delayed` | entries for `j` in the Redis lists (a count), jobs in the delayed sorted sets |
| `pushing` | API calls between their insert and their Redis push |
| `worker[w]` | where `_process_one` is, with the version and attempts it has read |
| `reaper` | rows found stuck, and the push that follows a recovery |

`CreateJob` and `Push` are `JobService.enqueue`; `RetryDeadLetter` and `Push` the
administrator's retry; `PromoteDue` is `promote_due`; `Dequeue`, `LoadJob`,
`MarkRunning`, `RunHandler`, `MarkSucceeded`, `MarkFailed`, `PushDelayed` the steps
of `worker.py`; `Die` and `Restart` the end of the process and the container's
restart policy; `ListStuck`, `Recover`, `RecoverPush` the reaper; `GrowOld` and
`Overrun` time, as far as the reaper's queries can tell. The order among ready
entries is left open. Without Redis, `SynchronousJobDispatcher` runs a handler in the
caller and keeps no job; it is not part of the module. One reaper at a time; two
would meet at the version pins like a reaper and a worker do. The history variable
`dropped[j]` is the version of the row whose last lead was lost (`DropIf`, `Leads`); only a
fault on the very actor that would have led to the job counts.

### WorkflowDefinitions

`defs[d]` is a row of `workflow_definitions`, whose document is the number of edits
made to it; `pins` the requests with the definition and document they were created
under; `op`, `seen` the arguments of a call and what it has read; `bound` whether the
calls run on clients of their callers, under the policies, or on the service role.
`DeleteInactive` and `ReadPinned` ask the policies; no migration grants a DELETE on the
table, so on a client of its own a deletion matches nothing.

| call | actions |
|---|---|
| `create_definition` | `ListVersions`, `InsertDefinition` |
| `update_draft`, `delete_draft` | `ReadDraft`, `UpdateInactive` or `DeleteInactive` |
| `activate_version` | `ReadCandidate`, `ValidateActivation`, `FindActive`, `DeactivatePrevious`, `ActivateDefinition`, `RecordActivation`; a failure after the deactivation is not compensated |
| `create_request` (its part) | `ResolveDefinition`, `InsertRequest` |
| approval of a stage (its part) | `ReadPinned` |

The database contributes the unique keys (version; one active row per type) and the
foreign key from a request to its definition.

### SchedulerLeadership

`leaderKey` and `jobKey` are Redis keys with their owner and the time they have left;
`flag` is `_is_leader`, `loop` where the election thread is in `_tick`, `life` and
`joined` what `stop()` has done, `mutex` the job's `threading.Lock`, `run` where each
thread is in the runner of `_make_runner`, `age` and `since` time. `Election`, `Stop`,
`Runner` (`EnterRunner`, `TakeMutex`, `TakeJobLock`, `FinishJob`, `ReleaseJobLock`,
`ReleaseMutex`), `Die`, `End` and `Pass` (one renewal interval) are the actions. A
command to Redis may fail, or be executed without an answer. `disable_job` sets a flag
the runner never reads, and has no action.

### Accounts, Tenancy

`profiles`, `companies`: rows; `auth`: the Supabase account; `cache` and `reading`: the
verifier's cached answer and the two reads it makes otherwise; `outFor`: how long
the profile, and how long the company, has not let the user in. `inv` holds the invitations of one address, `mailed` the
tokens that reached it.

| call | actions |
|---|---|
| create, resend, revoke | `CheckPending`, `InsertInvitation`; `ReadInvitation`, `ChangeInvitation`; `RecordAudit`, `SendInvitation` |
| accept | `ReadByToken`, `CreateAccount`, `ConfirmProfile`, `MarkAccepted` |
| user: activate, deactivate, erase | `ReadUser`, for the administrators of either company, `UpdateProfile`, `BanAccount`, `EraseProfile` |
| company: suspend, reactivate, delete, restore | `ChooseCompany`, `ChangeCompany` |
| verification of a token | `ReadProfile`, `ReadCompany`; `Pass` ages the cache, `Expire` an invitation |

A tick of `Pass` is long against a verification: none is under way when it happens.

### Access, RowPolicies and the services on a request

`Access` has the permission sets and the `can_` and `authorize_` rules under the names
the code gives them. `RowPolicies` has the policies of the tables that some repository
reaches on the caller's own client, as the last migration leaves them, and `_client`,
which decides whose client a repository runs on. `ServiceCalls` has the people around
one request (requester, approver, administrator, an administrator of another company,
the scheduler), whether clients can be bound, and which calls ended before another
began (`prior`).

`Attachments`: `att` (rows), `files` (objects in the bucket), `unclear` (insertions
that were applied and not acknowledged). Upload and replace are `BeginUpload` or
`BeginReplace`, `StoreFile`, `InsertRow`, on failure `CleanUp`, then
`AuditAttachment`, and for a replacement the removal of the old version:
`RemoveFile`, `HideRow`. A file is what the validators of `utils/file_utils.py` see of
it. `Comments`: `BeginComment`, `WriteComment`, `BeginHide`, `HideComment`,
`AuditComment`. `Notices`: `BeginNotify`, `WriteNotice`, `Mail` (the pool, with its
attempts), `CloseOutbox`, `MarkNotice`, `MarkAllRead`, `BeginPreference`,
`UpsertPreference`. `RequestMaterial` composes the three; as none reads what another
writes, the calls of one behaviour belong to one service.

### SlidingWindow, RateLimiting

`SlidingWindow` is the promise: a bucket admits only if it admitted fewer than `Limit`
calls in the last `Window - Slack` ticks, refuses only if it admitted `Limit` in the
last `Window + Slack`. `RateLimiting` is the code: `ReadClock` (outside the lock, on
the instance's own clock) and `Check` (evict, compare, record, or answer
`Retry-After`), for the deque of `RateLimiter` and for the script of
`RedisRateLimiter` with its key expiry, `Restart`, `Tick`. It implements the promise
with `Slack <- MaxSkew + MaxDelay`; the property `KeepsTheWindow` is that refinement.

### Endpoints, ApiErrors, Gateway

`Endpoints` lists every route with verb, guard, area, narrow limiter and the table its
statement is on. `ApiErrors` is the way from a cause to a status, through
`_translate_and_raise`, the services' translations and the handlers. `Gateway` takes a
request through `Authenticate`, `Limit`, `Bind`, `Narrow`, `Check`, `Execute`,
`Respond`, while `ChangeRole`, `ClaimsExpire` and `ClientExpires` happen. Each is a
point between two awaits; `Bind` runs on the event loop and is atomic.

### ReportQueries, Figures, Search, Reports

`ReportQueries` translates the queries and the pages; `Figures` the arithmetic of
`metrics.py`, `aggregations.py` and the two engines, with exact fractions;
`Search` the nine kinds of the global search, their scoping and ranking. A call is made by
a caller with user, role, company and `bound`, whether a client of the own could be built;
without one, comments, attachments and definitions are read on the service role. `Reports`
runs them: a call is a frame with a list of reads still to do (`Plan`), which looks into
the cache (`Look`, `LookFails`), waits for its key (`Lock`), reads a page (`Fetch`),
calls another report (`Enter`), stores and returns (`Finish`), or raises (`Refused`,
`Fail`). Search and dashboard summary read in parallel. In between, requests are
created, decided, escalated and withdrawn, a definition is activated, an hour passes.
A change of the database marks the frames it disturbs, so that a property can speak of
undisturbed ones.

## 3. What the runs check

| run | distinct states | properties | shows |
|---|---|---|---|
| `saga_faults` | 677,059 | `TypeOK`, `DecisionDurable`, `OutcomeDurable`, `DecisionOwned`, `AtMostOnePending`, `QuiescentConsistent`, `NoticesTrue` | a reported decision and a reported outcome survive whatever else happens; a decision is taken back by its own call only; two stages never wait at once; compensations restore the request completely; no notification announces what is not so |
| `jobs` | 229,793 | `DeadLetteredIsExhausted`, `ForgottenHasACause`, `SucceededByHolder`, `SettledUnlessForgotten` | attempts are counted truly by workers and reaper together; a job that nobody pursues and no reaper will find has lost, by a fault, the very lead to the row it has now, or ran once more than its attempts allow; only the holder records success; every other job is settled in the end |
| `definitions` | 92,531 | `GapHasAnAuthor`, `ActiveUntouched` | activations against activations, edits, deletions and requests, on either client: no active version is edited or deleted, whenever the check was made; without an active version there is one activation to blame, which is between its two statements, or failed or died there |
| `scheduling` | 859,236 | `OneLeaderUnlessLate`, `StopHandsOver`, `JobOverlapOnlyWhenLate`, `AlwaysALeaderAgain` | two leaders or two runs of a job only when one has gone a whole lifetime without renewal; an orderly stop hands over; a leader again and again |
| `tenancy` | 1,026,874 | `AcceptedHasOwnProfile`, `AcceptedWithLastToken`, `RevokedAccountOnlyByOverlap`, `RevocationTakesEffect`, `ErasedIsBanned` | acceptance against resending, revocation and other acceptances; who has lost the account or the company is out once the cached answer has aged, whichever company's administrators act |
| `material` | 654,154 | `ListedHasFile`, `ReplacedIsGone`, `OrphanOnlyByFault`, `OnlyPartiesWrite`, `RepliesBeforeRemoval`, `PatchSurvives` | rows and files stay together but for named failures; whichever client a service runs on, only parties write; a reply precedes the removal it answers; a preference is overwritten only by a call that overlaps |
| `limits` | 770,487 | `KeepsTheWindow`, `RetryHelps` | both backends implement the abstract sliding window; who waits as told, and half a second more for the rounding, is admitted unless another call took the place |
| `gateway` | 717,082 | `QuotaHolds`, `OwnClientOnly`, `StaleRoleStopsAtPolicies`, `EntitledOnly` | interleaved requests never share a client; a role that was taken away ends at the row policies; no route is served without its role; both limiters hold together |
| `reports` | 275,070 | `AnswersExact`, `NoStampede`, `EveryAskAnswered`, `SearchWithinSight` | undisturbed reports and summaries equal a direct count of the tables in every figure that is not drawn from the audit log; calls with one key compute once; nested reports never wait for each other for ever; a search stays within what its caller may see, but for two things an administrator finds (below) |

Every property of a passing run has a mutant in `PROJECT.json`: a version pin that
always matches, a delete by id only, compensations in the wrong order, a flag that is
not cleared, a lock released by name, an unchecked policy, a page too few. With it in
place TLC finds the property violated.

### Disagreements

Three runs end in a violation. Each states what a document or comment says and the
code does not do, quoted in `PROJECT.json` under "findings":

| run | property | what TLC shows |
|---|---|---|
| `saga_create` | `FailedCreateLeavesNothing` | the compensation of `create_request` is pinned to version 1, which `set_current_stage` has left: it conflicts, and the request of a failed call stays |
| `definitions_pinned` | `PinnedDefinitionReadable` | `approve_stage` reads the pinned definition on the caller's client (`bootstrap.py:511`), and the policy shows inactive versions to administrators only: after an activation, an approver cannot decide the older requests |
| `reports_decisions` | `DecisionsCounted` | audit entries of decisions are stored without a company, and the workload summary reads the entries of one company: it counts none |

Others are stated as properties at the end of their modules, under "What the
documentation says and the code does not keep"; no run lists them, and TLC refutes
each on the instance its module has above:

- `EscalatesOnlyPending` (`ApprovalSaga`): `escalate_stage` never looks at the status
  (`approval_service.py:285`; its docstring says "still-pending stage").
- `ReplayTruthful`: a replay is answered from the first write of a call that may roll
  it back (`approval_service.py:430`; "a decision that already fully committed").
- `CompletedMeansApproved`: the next stage can be decided before `set_current_stage` of
  the call that created it, which then conflicts and takes its own approval back
  (`approval_service.py:743`; `docs/workflow_engine.md:580`).
- `FailedDecisionLeavesPending`: the answer of a decision is lost, its retry conflicts,
  nothing was registered (`base_repository.py:489`;
  `docs/approval_recovery_strategy.md:71`).
- `EventuallySettled` (`JobQueue`): a worker dies between `mark_failed_will_retry` and
  `push_delayed`, and the reaper does not look for retrying rows
  (`job_repository.py:437`; `docs/deployment.md:599`).
- `DeadLetterIsTerminal`: an entry left over for a dead-lettered job starts it again
  (`worker.py:149`; `models/enums.py:172`).
- `SomeVersionActive` (`WorkflowDefinitions`): an activation is two statements without a
  transaction. A draft edited while it is being activated makes the second conflict, and
  when all calls have ended no version is active, though nothing failed
  (`workflow_repository.py:445`; `docs/workflow_engine.md:553`: "a state the system
  deliberately makes unreachable"; `:593`). `GapHasAnAuthor` holds and says who is to blame.
- `PinnedDocumentUnchanged`: a superseded version is inactive again, so it can be edited
  while requests are pinned to it (`version_manager.py:68`; `docs/workflow_engine.md:565`:
  "physically different, immutable rows").
- `DraftsCanBeDeleted`: on the administrator's client `delete_draft` removes nothing and
  answers not found, as `workflow_definitions` has neither a DELETE grant nor a policy for it
  (`0003_row_level_security.py:98`; `workflow_definition_service.py:374`).
- `RejectedOnNextRequest` (`Tenancy`): cached claims admit a deactivated user, or one of a
  suspended company, until they expire (`supabase_verifier.py:144`; `user_service.py:122`,
  `company_service.py:272`: "rejected on their very next request").
  `RevocationTakesEffect` is what holds.
- `PreferenceHonoured` (`RequestMaterial`): the recipient's preference is read on the
  client of whoever caused the notice, where the policy `user_id = auth.uid()` hides it
  (`bootstrap.py:519`, `notification_service.py:657`).
- `SearchWithinCompany` (`Reports`): an administrator's search of audit entries is restricted
  by neither request nor company, also on a client of the own, as `AuditRepository` runs on
  the service role, and finds those of other companies (`search_service.py:644`,
  `audit_repository.py:324`; `search_service.py:14`: "never grants a caller visibility into a
  request they could not already reach"; `docs/tenant_isolation.md:107`, `_scoped_query` "used
  by every company-wide listing/search entry point").
- `SameForEveryCaller`: SLA figures read definitions on the caller's client
  and are cached under a key without the caller (`utils/cache.py`: "every caller wanted
  the identical result").

Met while modelling and visible in the modules: pages fetched by offset while rows move
between them (`analytics_engine.py`, `_fetch_all`), which is why `AnswersExact` speaks of
undisturbed reads; where the caller's client cannot be built (`dependencies.py:343`), an
administrator's search of comments and attachments crosses companies like that of audit
entries; `revoke_invitation` says that it "has nothing else to clean up"
(`invitation_service.py:654`), while an acceptance that had read the invitation before may
leave an account, the overlap that `RevokedAccountOnlyByOverlap` admits; administrators who
are not parties pass `authorize_view` and are refused by `comments_insert` and
`attachments_insert`, answered 500; the client cache exceeds its "hard cap" (`database/client.py:48`) by one.

### Bounds, and why they are enough

- *Calls.* Two calls are a call and the one that overtakes it; the third begins or
  observes what the two leave, or creates what they work on. Each may be of any kind, by
  any caller. `saga_faults`, `definitions`, `tenancy`, `material` have three; `limits` has
  four over two instances, so that a limit of two is passed on both sides of a window.
- *Stages, versions, people.* Two stages distinguish a first from a final one; a request
  type starts with an active version and a draft; an approver, an administrator, a
  requester and a stranger make every outcome of the rules occur.
- *Faults.* `saga_faults` and `definitions`: one error, one lost answer and one crash in
  the same behaviour, so that a compensation fails and a process disappears. `jobs`: two
  faults. `scheduling`, `tenancy`, `material`, `reports`: one. `gateway`: one change of
  role, one client that cannot be built, one lapse of a cache entry.
- *Jobs.* One job, two workers, two attempts, one retry by an administrator: a retry, an
  exhaustion and two overlapping runs.
- *Time.* Lifetimes and windows are a few ticks: a leader's key two renewals, a job's one;
  a window of five ticks with `Retry-After` in units of two, so that rounding shows, clocks
  one tick apart and a delay of one.
- *Routes.* In `gateway` one task may be asked any route by any of five callers, beside an
  administrator's question to the assistant: a write, behind a limiter that also guards reads,
  so that with limits of one each of two limiters refuses while the other would admit. Of routes that differ in their name only one is taken.
- *Reports.* Every report, summary and search, for each role and over three scopes, alone;
  and pairs that meet in the cache, also by nesting or with callers of different roles.
  Most with a client of the caller's; searches and a report that read on that client also without. Pages and batches of two rows, over
  tables of three or four, so that lists span pages and a row can move between them. Both
  cache backends.
- *Symmetry* is used on calls where a run checks safety only.
- *Deadlock* is checked except in `jobs` (a forgotten job leaves every actor polling) and
  `reports` (a load ends when its calls are answered).

### Fairness

`ApprovalSaga`, `WorkflowDefinitions`, `Tenancy`, `RequestMaterial`, `RateLimiting` and
`Gateway` have safety properties only and assume none: a call may stop anywhere.

- `JobQueue`: weak fairness of each worker (processes run, handlers return, a dead one is
  restarted), of the promoter and the reaper (both recur on a schedule), of a started push
  and of time. Faults, deaths, retries and new jobs are not fair.
- `SchedulerLeadership`: weak fairness of the election thread, which loops for as long as
  its process lives, of the replacement of a stopped instance, and of time, by which Redis
  expires keys. Runners are not fair.
- `Reports`: each thread that can take a step of its call does so. The formula is written
  with `CanProceed`, which says when `Proceed` is enabled. A thread waiting for a key is not
  helped by it: that the key is released has to follow. The instance locks of `TTLCache` are
  taken by key in nesting order, and that no cycle arises is what `EveryAskAnswered` shows.

## 4. What is proved

Every safety property the passing runs check, but for `AnswersExact`, is a theorem, for every value of the
constants that the named assumptions admit: any number of calls, workers, instances or tasks, any number of
faults, and any number of stages, attempts, lifetimes and limits where a module has them. The
assumptions give the constants their types and keep sentinels such as `None` apart from the
rest; besides there is at least one stage (`StageAssumption`), an attempt
(`JobAssumption`) and a unit of lifetime (`SchedulerAssumption`, `AccountAssumption`), and
the tasks of a process are finite in number (`GatewayAssumption`), as they have to be counted.
For `Reports` the assumptions are about data: profiles and tables are finite and a profile has one
of the roles (`ProfilesAssumption`, `TablesAssumption`); a request, its requester and its stages
are of one company, as `create_request` and `_decide_stage` write them (also
`ArrivalsAssumption`); and whoever calls has a profile, without which the token is not accepted
(`LoadsAssumption`).

Each proof has the same form. The property is not inductive, so an invariant is stated that
says why no step of anybody can break it; it holds initially, every action keeps it, and it
implies the property. Before it was proved each invariant was checked by TLC on the instance
of its run; that of the scheduler also with two faults and two runs of the job (1,279,536
states), those of the saga also on several million states of an instance with four calls.

| module | theorem | property |
|---|---|---|
| `ApprovalSagaProofs` | `TypeCorrect`, `DecisionProtocol` | `TypeOK`, `DecisionInv` |
| | `DecisionDurability`, `DecisionOwnership` | `DecisionDurable`, `DecisionOwned` |
| | `OutcomeDurability` | `OutcomeDurable` |
| | `NoticesAreTrue` | `NoticesTrue` |
| | `OneStageAtATime` | `AtMostOnePending` |
| | `QuiescentConsistency` | `QuiescentConsistent` |
| `JobQueueProofs` | `JobTypeCorrect`, `OnlyExhaustedJobsAreDeadLettered` | `TypeOK`, `DeadLetteredIsExhausted` |
| | `NoJobIsForgottenWithoutCause`, `SuccessIsTheHolders` | `ForgottenHasACause`, `SucceededByHolder` |
| `DefinitionsAndLeadershipProofs` | `GapsHaveAuthors`, `ActiveVersionIsFixed` | `GapHasAnAuthor`, `ActiveUntouched` |
| | `SchedulerInvariant`, `LeadershipIsExclusive` | `SchedulerInv`, `OneLeaderUnlessLate` |
| | `StoppingHandsOver`, `JobRunsAlone` | `StopHandsOver`, `JobOverlapOnlyWhenLate` |
| `TenancyProofs` | `TenancyInvariant`, `AcceptanceDelivers` | `TenancyInv`, `AcceptedHasOwnProfile` |
| | `LastTokenAccepts`, `RevokedMeansNoAccount` | `AcceptedWithLastToken`, `RevokedAccountOnlyByOverlap` |
| | `RevocationIsPrompt`, `ErasureBansFirst` | `RevocationTakesEffect`, `ErasedIsBanned` |
| `RequestMaterialProofs` | `MaterialInvariant`, `ListedAttachmentsHaveFiles` | `MaterialInv`, `ListedHasFile` |
| | `ReplacementRemoves`, `NoOrphanWithoutFault` | `ReplacedIsGone`, `OrphanOnlyByFault` |
| | `WritersAreParties`, `NoReplyToARemovedComment` | `OnlyPartiesWrite`, `RepliesBeforeRemoval` |
| | `PreferenceSurvives` | `PatchSurvives` |
| `GatewayProofs` | `GatewayInvariant`, `QuotaIsKept` | `GatewayInv`, `QuotaHolds` |
| | `StatementsUseOwnClient`, `OnlyTheEntitledAreServed` | `OwnClientOnly`, `EntitledOnly` |
| | `PoliciesSeeTheRoleOfNow` | `StaleRoleStopsAtPolicies` |
| `RateLimitingProofs` | `BothKeepTheWindow`, `RetryAfterHelps` | `KeepsTheWindow`, `RetryHelps` |
| `ReportsProofs` | `ComputedOnce`, `SearchStaysWithinSight` | `NoStampede`, `SearchWithinSight` |

### The approval saga

**The decision protocol.** That a committed decision stays is not inductive: one has to
know why no other statement can match its row. `DecisionInv` says it:

- `RowIdsFresh`: ids are never reused, so a call that holds the id of a deleted row does
  not meet another row under it;
- `RowsWellFormed`: a pending row is undecided, a decided one has left version 1, which is
  why `delete_if_unchanged` cannot remove it;
- `CallsWellFormed`: what a call's position says about its arguments;
- `DecisionPinned`: a decision about to be written names a version at which the row, if it
  still has that version, is pending. Versions only grow, so a row that was decided since
  has another version. This also covers a client's `expected_version`, which may be older
  than the row that was read;
- `DecisionStands`: from its write until its own rollback, or for good, the row carries the
  decision.

The proof goes by what an action does to the stage table: nothing (`QuietStep`), or one row
under a version pin (`RowStep`), with a lemma per action that changes a row. `TypeOK` is not
inductive alone: that `create_stage` writes an existing order follows from `CallsWellFormed`.

**The outcome.** `OutcomeInv` adds that nothing happens before creation; that a call on its
way to `set_current_stage` holds a snapshot of the request which is out of date or right, and
has validated a transition out of its status (`SnapshotsPinned`); and that a terminal outcome
in force is the request's status and the only one (`OutcomeStands`). The pinned update can
then only match if the status is not terminal, and a rollback only if it restores the update
of its own call.

**Authors.** `AuthorInv` relates rows to the calls that wrote them: which compensations a call
has registered at each statement (`Registers`); that a row was created by a call that adds its
order and has the verdict of the call that decided it (`RowHasAuthors`); that a stage stays
while its creator goes on, and for good once it has committed (`CreatedStays`). A stage with a
decision has left version 1, so its creator's rollback no longer matches. A notification comes
from a call that is done, so with `OutcomeInv` it is true.

**The chain.** `ChainInv` holds while no failed call has left anything behind: before a stage
that exists all are approved, and every stage and decision that is there belongs to a call that
has not given it up. A rollback deletes the next stage before it reverts its decision, and that
order of compensations is what keeps the chain closed at every moment.

**The pointer.** `PointerInv` says, under the same condition, that the request is where the call
put it that is furthest along the chain among those whose `set_current_stage` is in force; that
what the last of them would restore is where the request would be without it; and that a call
which comes to `set_current_stage` after one further along finds its snapshot out of date. When
all calls have ended, those in force are the committed ones, and the last stage that exists tells
which of them came furthest: that is `QuiescentConsistent`.

### The other modules

**Jobs.** `HolderPinned` relates a worker in a handler to its row: the row has at least the
version the worker has read, and if it has just that one, it is running and locked by this
worker; every other write raises the version, so an overtaken worker matches nothing. `NoneLost`
says that a job in a state the reaper does not look for (`Overlooked`) is pursued by an entry, a push,
the reaper or a worker that will act on the row as it is (`WillAct`), or that the last of these was
lost while the row had its present version. A write to the row needs somebody who acts on it, and
leaves somebody who pursues the new version; so faults of the past, and faults of those who are not
the last, excuse nothing.

**Definitions.** `Linked` says what a call between two statements knows: its definition is in the
table, and the row it read as a draft was inactive at the version it pins, so an edit matches no row
that has been activated since. `DefinitionInv` carries `GapHasAnAuthor` itself: only the second
statement of an activation ends the blame of the first, and the delete of a draft, checked before
an activation, is held off by the filter on inactive rows. That there are never two active
versions, and that a pinned version is not deleted, are constraints of the database
(`ActiveKeyFree`, `ReferenceThere`, `Deletable`), which the model takes over as guards; no
property claims them.

**Leadership.** `LeaseHeld`: an instance that acts as a leader, or is about to, and has renewed in
time owns the key, and the key outlives what is left of that time. Two such instances would both
own it. `KeyAccounted` counts the faults that a key in wrong hands has cost, which
`StopHandsOver` speaks of; `MutexHeld` and `JobLockHeld` are the same argument for the two locks
of a job.

**Tenancy.** `Relies` says what each statement of a call may rely on whatever others did since it
read; `RowSound` and `ProfileSound` what that leaves in an invitation and in a profile;
`VerifierInv` what a verification between its two reads may believe. The administrators of either
company act, so between the two reads a suspended company may be reactivated and a profile in it
deactivated, and the verifier then combines a profile of before with a company of after. No single
time of exclusion would survive that; but each row has its own (`outFor`): the profile let the user
in when it was read and the company when it was read, no more than a verification ago, and so a
cached answer with `n` ticks to live was right about each at most `Ttl - n` ticks ago.

**Attachments, comments, preferences.** Three invariants over disjoint statements, so that a step of
one service cannot touch what the others rely on. `AttInv` follows a file from its upload to its
row; `ComInv` records that a comment was there when its answer was begun; `PrefInv` that a call
writes back what it read unless another one interfered.

**The gateway.** `TaskInv` says what a task may rely on between two awaits: that the bound client is
its caller's, and that a task past the check was granted its route. `HitsPay` is the account behind
`QuotaHolds`: the statements executed for a user, plus the tasks under way that a limiter has
admitted, are at most what it has counted. That every route of the administration, the figures and
the platform lies behind a fitting guard is a lemma about the table of routes (`EndpointGuards`).

**The rate limiters.** `BothKeepTheWindow` is a refinement: the initial states of `RateLimiting` are
initial states of `SlidingWindow`, a `Check` is an `Admit` or a `Refuse` of its bucket, a `Restart`
a `Forget`, and every other step a `Tick` or nothing. `WindowInv` relates what a backend keeps to
the admissions of the promise, which it does not keep:

- `Told`: an entry was written for an admission and its time is at most `MaxSkew` ahead of it and
  at most `MaxDelay` behind;
- `Counted`: an admission without an entry is out of the window, so that pruning by the clock of a
  late or a slow call forgets nobody too early;
- `InOrder`: the deque has its entries in the order of the admissions, although their times need not
  be; with it, one young entry at the left end shows that none behind it is stale by more than the
  slack, which is why `popleft` may stop there;
- `KeyLives`: the key in Redis outlives the window of every admission.

Entries and admissions of different calls are different, so the guards of the promise follow by
comparing cardinalities (`RoomInWindow`, `FullInWindow`). For `RetryHelps` the invariant `ToldInv`
says that a bucket never holds more than `Limit` entries, and that one which is full since its last
refusal still has the entry as its first from which `Retry-After` was computed; if a call is refused
again nothing was dropped, so that entry is still in the window. The lemma `Rounded` is the
arithmetic of `round()`, half to even, for every length of a second.

**The cache of reports.** `LockInv` says that under `TTLCache` the key of every computation is
locked and no two computations, of different calls or one inside another, have the same key. An
action changes the innermost call of one thread, so the computations of the others stay, and those
of the thread itself grow only in `Lock`, which found the key free and, looking again, no live
value.

**Search.** The ids a caller may see are read in one statement and the rows they restrict in
others, later. `StepInv` says what each read still to be done may rely on: its ids are in sight,
which grows with every request that becomes visible while the search runs and loses none; or it is
not restricted by ids, and then the read restricts itself, by the caller's company, role or user id
(`CallerFacts`). Two reads of an administrator do not: that of audit entries, and, without a client
of the caller's, those of comments and attachments; the theorem excepts them by name.
`FoundInv` says the same of what has been found. `Sound` is what makes the two agree: a stage in an
approver's queue leads to a request of the same company, so that the request is one `get_request`
would let the approver see. The proof has a lemma for each kind of search and for each way of
becoming restricted. That pages and sorted lists hold rows of the set they were made of
(`SortedByType`) is proved once, by well-founded induction over the cardinality of the set.

### Model-checked only

- `SettledUnlessForgotten`, `AlwaysALeaderAgain`, `EveryAskAnswered` rest on fairness, which the
  prover does not handle, as it does not handle `ENABLED`.
- `AnswersExact` compares what paging, folding and sorting compute with a count of the tables; for
  every table that is an induction over data. It leaves out the figures that the engines draw from
  the audit log, which `DecisionsCounted` shows to be wrong: the decisions in user metrics and in the
  workload summary, the approval and rejection series of the trends, the escalations in approval
  metrics. No module declares a `RECURSIVE` operator.

## 5. What is not modelled, and why

- Feature flags: rows that nothing else in the modelled services reads.
- Saved filters and the search history: rows of one user, read by that user.
- AI insights: text of an external service about reports that are modelled; not stored.
- Creation of companies and their licences, which no other operation reads.
- Wording of titles, snippets, mails and log lines; schemas and envelopes of answers.
- Delays of retries and back-off; only their outcomes are modelled.
- Validation of settings, metrics, tracing, wiring beyond the choice of clients, the
  frontend.
- Stored blobs in Redis that cannot be decoded are misses; the query of a search is taken to
  be valid.
