# TLA+ models of ai_auto_platform

This directory specifies and verifies the part of the platform that has state
worth reasoning about: resumable uploads into object storage from the button
in the page to the row in the database, the artifacts they publish, the
workers that clean up after both, the quota that limits them, and the
projects, organizations and browser sessions around them. The models follow
the Python code under `src/apps/api/src/platform_api` and the upload
controller of the web console; paths below are relative to that directory
unless they start with `src/`. `PROJECT.json` maps every definition to the
lines it models and lists every hazard at its line.

## 1. The system

### Components, their state and how they interact

| Component | State it keeps | Operations | Talks to |
|---|---|---|---|
| Upload sessions API (`api/upload_sessions.py`) | `upload_sessions`, `upload_parts` rows | create, get, sign, register part, list parts, complete, cancel | PostgreSQL in one or two transactions per request; the storage adapter between or inside them |
| Artifacts API (`api/artifacts.py`) | `artifacts` rows | list, get, download, delete with If-Match | PostgreSQL; presigned URLs |
| Artifact maintenance (`modules/artifact/maintenance.py`) | the same rows, `cleanup_*` columns | expire sessions and abort their uploads, delete artifacts, find missing objects, remove orphans | PostgreSQL and the storage adapter, alternately, one row at a time |
| Maintenance runner (`modules/artifact/maintenance_runner.py`) | an advisory lock, a heartbeat file | run one pass under a lock and a timeout, for ever | maintenance |
| Storage adapter, S3 gateway (`modules/artifact/storage.py`, `s3_gateway.py`) | attempts and threads of each call; the bucket | multipart start, sign, complete, abort; head, read, delete, list | S3 over HTTP in threads, with timeouts and retries |
| Idempotency, audit, outbox (`common/reliability.py`) | `idempotency_records`, `audit_events`, `outbox_events` | begin and complete a command, record an event | the transaction of the caller |
| Projects API (`api/projects.py`) | `projects`, `project_members` | create, update, archive, restore, delete, members | PostgreSQL, version column |
| Organizations API (`api/organizations.py`, `organization_access.py`) | `organizations`, members, invites | invites, roles, removal | PostgreSQL, row locks on the organization and on an invite |
| Identity (`auth/dependencies.py`, `verifier.py`) | `users` | verify a token, upsert its user | Keycloak keys, PostgreSQL |
| BFF sessions (`auth/bff.py`, `api/auth.py`) | logins and browser sessions in Redis, a cookie | login, callback, refresh, logout | Keycloak, Redis |
| Web console (`src/apps/web/src/upload.ts`) | the upload in the page | start, pause, resume, cancel | the API, presigned URLs |
| Agent, workflow worker, deployment | none | print a configuration; placeholders | - |

The hard part is that one business fact lives in three places: a database
row, an object (or an open multipart upload) in a store that has no
transactions, and a request that sits between the two. Any request may be
overtaken by another one, by maintenance, by a deadline, by a lost answer of
the store or by a crash, between any two of its statements. The code's means
against that are few: `SELECT ... FOR UPDATE` in sign and complete, a version
column on every session, artifact and project, one row lock on the
organization, and maintenance that repairs later. The same question returns
one floor up (a browser session in Redis that two requests read and write) and
one floor down (a call whose caller has given up while its thread goes on).

### What is hard, and what should hold

- **Upload sessions**: reservations must be returned on every path; an
  artifact must have the verdict of the bytes that are in the store; a
  cancellation and a completion must not both win; the outbox must say what
  happened. Interleaving, lost answers, calls that go on after their timeout.
- **Maintenance and artifacts**: no object may be removed that something still
  needs; DELETED must mean gone; a requested deletion must be carried out.
  Stale reads, deletions that arrive late, passes that die in the middle,
  batches.
- **Admission**: the quota must hold under concurrent creation; a key must
  create one session. Lock order, retries, rollbacks.
- **Organizations**: an owner always remains; whoever changes a member may do
  so when it commits; an invite makes one member, and none after it was
  revoked or replaced.
- **Projects**: a version check loses no update although nothing is locked;
  every change is announced with the version it made.
- **Maintenance runner and storage calls**: passes exclude each other as long
  as connections last; a hanging store does not keep the lock, and passes are
  completed again once a thread has come back; a call that succeeds was
  carried out, and sends a bounded number of requests.
- **BFF sessions**: a login makes one session; a token that is taken as it is
  lives, or has been over for a bounded time; a session that was logged out
  goes away.
- **Web console**: what the page shows in the end is so; whoever resumes gets
  the file uploaded; completion names only parts the server has.

## 2. Modules

| Module | What it is |
|---|---|
| `UploadSession` | one session: every handler, session maintenance, the multipart uploads of the store, faults and crashes |
| `UploadContract` | the abstract session: a reservation, an outcome and a verdict |
| `ArtifactMaintenance` | artifacts, their deletion and the worker's other phases, over several object keys |
| `UploadAdmission` | `create_upload_session`: project status, idempotency, quota |
| `StorageAdapter` | a call to the store: attempts, timeouts, threads, addresses |
| `StorageCall` | the abstract call: what callers may assume of it |
| `MaintenanceRunner` | the workers' loop on top of `StorageAdapter`: lock, pass, timeout, heartbeat |
| `ProjectLifecycle` | one project and its members |
| `ProjectRegister` | the abstract project: a register replaced by comparing versions |
| `OrganizationMembership` | members, roles and invites of one organization |
| `BrowserSession` | the sessions of one browser in Redis, against Keycloak and time |
| `WebUpload` | the upload controller of the page and what the server makes of it |
| `UploadSessionProofs`, `UploadAdmissionProofs`, `ArtifactMaintenanceProofs`, `MaintenanceRunnerProofs`, `ProjectLifecycleProofs`, `OrganizationMembershipProofs`, `BrowserSessionProofs`, `WebUploadProofs` | theorems about the module of the same name |
| `MCUploadSession`, `MCUploadAdmission`, `MCProjectLifecycle`, `MCOrganizationMembership` | instances whose constants a `.cfg` cannot write; the other modules are checked as they are |

How they fit together:

- `UploadSession`, `ArtifactMaintenance` and `UploadAdmission` are cut along
  the rows they share. `UploadSession` is one session in depth.
  `ArtifactMaintenance` is several keys, and knows of a session only the
  outcomes that `UploadContract` allows (`Publish`, `Close`, with the same
  freedom to publish an expired session). `UploadAdmission` is many sessions
  of an organization, each only active or not. That `UploadSession` implements
  the contract (`Implementation`), and that each session of
  `ArtifactMaintenance` keeps it too (`SessionsKeepContract`), are both proved,
  and are what makes those two views fair ones.
- `MaintenanceRunner` EXTENDS `StorageAdapter`: the caller whose call hangs is
  the worker that has the lock. That the adapter implements `StorageCall`
  is what makes the fault steps of the upload modules fair: an error answer
  tells nothing about what the store did, and what it does may come later.
- `ProjectLifecycle` implements `ProjectRegister`; `UploadAdmission` sees of a
  project its status.
- `WebUpload` sees of the server the statuses and parts of sessions.

### UploadSession

State and code:

| Variable | In the code |
|---|---|
| `row` | the committed row of `upload_sessions` (`status`, `storage_upload_id`, `reserved_bytes`, `version`) |
| `parts` | rows of `upload_parts` |
| `artifact` | `artifacts.status` of the row that names the session |
| `outbox` | committed `outbox_events` of the session, as a set |
| `lock` | the holder of the row's `FOR UPDATE` lock |
| `remote`, `object`, `late` | multipart uploads by identifier, the assembled object, calls whose caller gave up and that may still be applied |
| `pc`, `mem`, `local` | per process: the next statement, its copy of the row, its last result |
| `ttlPassed`, `backoff` | `expires_at <= now`, `cleanup_next_attempt_at > now` |
| `answer` | the last answer, for properties about answers |
| `faults` | remaining budget of faults and crashes |

One action is one stretch of code between two points at which another process
can act: a transaction's locked read, a call of the store, a commit. So
`complete_upload_session` is `CompleteLock` (first transaction, checkpoint
COMPLETING), `CompleteRelock`, `CompleteRemote` (or `CompleteRemoteFault` with
its recovery by `head`), `CompleteVerify`, `CompleteCommit`. `Update` is the
versioned UPDATE of SQLAlchemy: it fails with StaleDataError unless the copy
has the row's version, and the flush and the commit are one step because the
flush takes the row lock. The expiry that a handler finds on its way
(`_expire_if_needed`) is part of its action, together with the commit or the
silence that the code gives it. `MaintenancePoints` are the steps of
`_expire_sessions` and `_record_upload_failure`.

Abstractions:

- READ COMMITTED; statements that only read another row are not cut off.
- Each request has a user of its own. Requests of one user are serialised by
  the upsert of the user until their first commit, so they do a subset of this.
- A request that fails its authorisation does not start.
- An ETag, an identifier and a content are model values; an object matches the
  declared SHA-256 or does not. Sizes are kept where they decide
  (`PartListMatches`).
- A fault of the store is an error answer after which the call was applied,
  not applied, or is applied later (`late`). Faults and crashes share
  `MaxFaults`.
- The worker is one process: that is what its advisory lock is for, as
  `MaintenanceRunner` shows of workers that keep their connections.
- The idempotency key of a cancel (`begin_idempotent_command`,
  `upload_sessions.py:834-846`) is a new one. With a key that was used, the
  request waits for the one that uses it and is then replayed or refused, or,
  if that one was rolled back, does what it would have done with its copy
  anyway.

### ArtifactMaintenance

`session`, `artifact` and `objects` are functions and sets over object keys:
a key names a session, its artifact and its object. A key whose session is
"none" and whose object exists is an orphan, as a restored backup leaves it.
`older` is the order of `updated_at`, from which the batches are taken; the
order among equals and of listings is left open where the code leaves it
open. `point`, `work`, `current` and `copy` are the local variables of
`run_once`: one action per transaction and per call of the store.
`reading` and `seen` are the row a delete request has loaded and the ETag its
client sent. `PassFails` is whatever ends a pass early: the timeout, a crash,
a failing listing, a stale row in the first phase. DELETING rows are written
by nobody but the worker, so its second read and its commit are one step.

One pass is made at a time. `MaintenanceRunner` allows two when a connection
was lost, and what two passes do to each other's rows is not modelled:
`_record_artifact_failure` (`maintenance.py:288-297`) does not look at the
status and would then write the back-off of a row the other pass has deleted.
`outbox` is a set, so the events of two DELETEs of one DELETING row, which
are equal but for their trace, are one: `EventsAgree` says which events there
are, not how many.

### UploadAdmission

A request is one transaction: `Ask`, `Authorize` (user upsert, project read,
size), `Identify` (`begin_idempotent_command`), `LockOrganization`,
`ReadQuota`, `Commit`. The row locks follow from how far each request is:
the user's from the first statement, the organization's from
`_lock_organization`, the inserted key's from `begin_idempotent_command`, all
to the end. `Refuse` rolls everything back, as `get_session` does on an
exception; `Abandon` is a lost process or connection. Clients ask again at
will, so a lost answer is an answer nobody looked at. `Archive`, `Restore`,
`Delete` are the commits of the project handlers. `Release` is any outcome of
`UploadContract`. Keys without header or of a wrong length never get this far
and leave nothing.

### StorageAdapter and MaintenanceRunner

`call` is the call of each caller: where it is, its attempt, the thread it is
`on`, whether it is a page of a `listing`, and, as history, whether the store
`carried` it out and how many `requests` it has sent. `thread` is the executor
of each caller's process: a thread is free, `busy` with an address, or `hung`,
and works for the current call (`ours`) or for one nobody waits for. `Enter`
gives a queued attempt a thread; `Exchange` is one HTTP exchange with one
address, its answer, and what `_open` and `_execute` make of it (the next
address, an error, the end); `Timeout` is `asyncio.wait_for`: the attempt is
given up, its thread goes on. A listing is outside `_run`
(`storage.py:378-404`): it has one attempt and no `wait_for`, so only its
thread or the pass ends it, and it waits for a thread as long as none is free.
`SocketTimeout` is the end of an operation on a socket: before the answer
`_open` goes on to the next address, while the body is read the attempt is
over. A caller stands for a process with one call at a time; the other calls
of an API process look to it like threads that hang.

On top of it, `runner` is where each worker's loop is, `left` the calls its
pass may still make, `lock` whose connection holds the advisory lock, `lost`
whose connection broke after it took the lock (the server frees the lock, the
worker learns of it at its unlock). `Start` is an iteration that gets the
lock; one that does not is skipped and changes nothing. `CallStorage` is a
call for a single object, whose failure the pass counts; `List` is a page of
`_delete_orphans`, without which no pass ends and whose failure ends it
(`PassFails`). `PassTimesOut` is `asyncio.timeout` around the pass
(`maintenance_runner.py:68-78`), the only thing that ends a listing without a
thread. `PassEnds`, `Unlock`, `LoseConnection`, `Restart` and `HeartbeatAges`
are what their names say. What a pass does between its calls is the business
of `UploadSession` and `ArtifactMaintenance`.

### ProjectLifecycle

`project` is the row (content, soft deletion, version), `history` the content
of every version so far, `members` the rows of `project_members`,
`statusEvents` and `memberEvent` the outbox, `record` the idempotency record
of each user's creation, `seen` what each client was last told, `copy` the row
its request has loaded. Nothing is locked: `CreateStart`, `ChangeStart` and
`MemberStart` are everything up to the flush (authorisation, If-Match), the
commits are an UPDATE for the version that was read, or nothing if no column
changed, and `Answer` reads the row again after the commit. A violated unique
constraint is the answer of `IntegrityError`. One user has one request at a
time, since the upsert of the user serialises them.

### OrganizationMembership

`members` and `invites` are the committed rows, `issued` and `spent` number
the tokens and record which of them made a member, `copy` is the invite a
request has loaded. Changing a role and removing a member lock the row of the
organization before they read; accepting locks the row of the invite; inviting
and revoking read without a lock, and their UPDATE writes the columns that
differ from their copy, whatever the row has become. Row locks are, as in
`UploadAdmission`, a function of how far each request is.

### BrowserSession

`logins` and `sessions` are the keys in Redis, `grants` the sessions whose
refresh token Keycloak honours, `cookie` the browser's. A request reads its
session, talks to Keycloak (`refreshing`, `exchanging`, `revoking`) and writes
what it got. `token` is a grant on its way: Keycloak's answer, then the
verification of the access token (`Verify`) and, for a login, of the id token
(`VerifyId`), each of which runs in a thread that first fetches a key and
then compares the end of the token with the clock; then `expires_at` is
computed (`Stamp`) and the session written.

Time is counted in ticks and passes between any two steps, however long a
request waits: `age` is how old a token is, `late` the age it had when
`expires_at` was computed, `claimed` what `expires_at` says is left, `ttl`
what Redis gives the key. The code counts the full lifetime from that
computation and not from the grant, so a session claims `late` more than its
token has; nothing in the code bounds `late` but the end of the tokens, which
the verification has looked at. `StaleAtMost` says what follows: a session
whose verification was over within the margin is taken as it is only while
its token lives; any other may be taken with a token that is over, but for
less than the longest lifetime less the margin. Keycloak and the platform
share a clock here.

### WebUpload

The fields of the controller (`phase`, `session`, `registered`, `artifact`,
the abort signal) and up to two running `task`s: start, resume and cancel are
asynchronous functions that nothing ties together, so each click is a task
that runs from one awaited call to the next. `Serve` is the server's side of
a call, `Answer` the stretch of the controller after it, `Fault` a failing
call (carried out or not). `server` is what the sessions look like from
outside; `late` marks a session that has expired, whatever became of it
afterwards: a completion that was between its transactions may publish it
still, while the cancellation that found it expired has answered that all is
well. `register` is refused by the model only when the session is not open; that
it is also refused when the part is there with another ETag or is being
inserted by another request (`upload_sessions.py:562-575`), and that a
completion which fails its verification is committed and then answered with
409 (`upload_sessions.py:809-812`), are cases of `Fault`.

## 3. Runs

Passing runs:

| Run | Instance | Shows |
|---|---|---|
| `session_safety` | 2 requests of any kind, worker, 2 identifiers, 2 parts with 2 ETags, 1 fault; about 265 000 states | `IInv`, `ReservationMatchesStatus`, `ArtifactMatchesObject`, `AbortedLeavesNothingOpen`, `OutboxAgrees`, `OutcomeIsFinal`; `ContractHolds` (refinement) |
| `session_liveness` | the same with 1 part and 1 ETag; about 195 000 states | `ReservationReleased`, `KnownMultipartReclaimed` |
| `artifacts` | 2 keys, 2 clients, batch of 1, 1 fault; about 393 000 states | `IInv`, `GoneMeansGone`, `EventsAgree`, `RemovalsAreJustified`, `LifecycleMovesForward`, and `DeletionConverges` under fairness |
| `admission` | 2 requests, 2 users, 5 calls over 3 keys, room for 2 sessions and 2 bytes; about 141 000 states | `IInv`, `QuotaRespected`, `OneSessionPerKey`, `AnswerMatchesCall`, and `EveryRequestEnds` under fairness |
| `worker` | 2 workers, 2 threads each, 2 attempts, 2 addresses, 1 call besides the first page, 2 faults; about 323 000 states | `IInv` (with `PassesExclude`, `HeldByIteration`), `LockComesBack`, `HeartbeatReturns`; `CallHolds` (refinement) |
| `projects` | an administrator and a plain member, 3 codes of which one is taken, versions up to 3; about 470 000 states | `IInv`, `EventsAgree`, `NoLostUpdate`; `RegisterHolds` (refinement) |
| `membership` | 2 requests of 3 users, two of whom share an address, 2 tokens; about 334 000 states | `IInv`, `OwnerRemains`, `AuthorityAtCommit`, `JoinedByInvite` |
| `browser_session` | 2 requests, 1 login, 2 sessions, tokens that live 3 ticks, a margin of 1, sessions of 3; about 272 000 states | `IInv`, `LoginOnce`, `StaleAtMost`, and `LogoutFades` under fairness |
| `web_upload` | 1 file in 2 parts, 2 tasks, 2 sessions, 2 attempts, 2 clicks on pause or cancel, 1 fault; about 423 000 states | `IInv` (with `AnswersHold`, `OnlyMaker`, `OneSession`), `TruthfulPhase`, `ManifestKnown`, and `ResumeCompletes` under fairness |

Runs that end in a counterexample, each a statement of a document that the
code does not keep (the quotations are in `PROJECT.json`, "findings"):

| Run | What happens |
|---|---|
| `expired_is_final` | Maintenance or a get expires a session between the two transactions of complete; the second looks for COMPLETED only, and publishes. ADR-0006 and M2-01 call EXPIRED terminal. |
| `logout_is_final` | A request waits for Keycloak with an old session; a logout deletes the session and is answered with 204; the request saves the session again (`auth/bff.py:257`). M1-02 says the session is deleted. `LogoutFades` shows how long it lasts. |
| `cancel_stops_upload` | cancel finds no session yet and shows CANCELLED; the start that was waiting for `createUploadSession` goes on and completes. M2-08 says a cancellation stops the upload. |

### Bounds, and why they are enough

- *Two requests and the worker.* The handlers share one row, one upload and one
  object, and each conflict in the code is between two copies of the row, or
  between a copy and a late call: the worker is the third party. The proofs
  are for any number. The same holds of two members who demote each other, two
  clients of a project and two requests of a browser.
- *Identifiers*: one more than faults, so a lost start can always be retried.
- *Two parts of the full size*: none, one or too many are registered.
- *Two ETags*: two registrations of a part can differ.
- *Two keys and a batch of one*: one row more than a batch holds.
- *One or two faults*: one is a lost answer or a crash. The second (`worker`)
  lets a connection be lost while a call hangs.
- *Two workers, two threads, two attempts, two addresses*: a hung thread
  leaves one to go on with, then none; an attempt may be the last or not, and
  so may an address. The code's values are three attempts and the threads of
  the default executor. *One call besides the first page* (`MaxCalls`) comes
  before it, or after it as a deletion or a second page.
- *Three users, two on one address; two tokens*: one invite has two takers, and
  a second token replaces the first. *Versions up to 3*: a change, a change of
  what was changed, and whoever saw only the first.
- *Ticks*: a lifetime longer than the margin by two, so a token can be
  verified within the margin or after it, and is fresh, then to be refreshed,
  then over. Ages are counted up to `Horizon`, past which no session is fresh.
- *One login and two sessions*: both requests can return from the login, and a
  login that makes a second session is seen. A second login shares nothing
  with the first but the cookie.
- *Two clicks, one fault, two attempts for a PUT* (three in the code): pause
  and cancel in either order around a failing call.
- *Versions, copies and events* are unbounded in the modules and finite
  because sessions and artifacts make finitely many transitions; `MaxVersion`
  and `MaxTokens` bound projects and invites by name. Requests repeat for
  ever.
- *Admission*: three keys and room for two, so the last place is contested;
  sizes such that each limit refuses where the other would not.

Symmetry is used for requests and identifiers in one safety run only. Deadlock
is checked in every run but `web_upload` (and the counterexample of the same
module), where a page whose upload has ended and whose clicks are spent really
stops.

### Fairness

- `UploadSession`: weak fairness of each handler (`Continue`), since a running
  coroutine goes on and a lock holder ends; of the worker, since `run_forever`
  (`maintenance_runner.py:100-122`) goes on after any failure; of the two
  clocks. Starting a request is never fair: clients may leave.
- `ArtifactMaintenance`: the worker, the clocks (protection window, back-off),
  and handlers about to publish.
- `UploadAdmission`: strong fairness of a request's steps. It is weak fairness
  for all but the two waits for a row lock, where PostgreSQL's queue of
  waiters keeps a request from being passed over for ever.
- `MaintenanceRunner`: weak fairness only: of the loop, of the unlock, of the
  next step of a pass that waits for nothing, of the timers of the adapter and
  of the pass, and of a thread that does not hang. A pass is not assumed to be
  completed, and nothing is asked of hung threads or of the store: that is
  what the timeouts are for. `LockComesBack` needs no more. `HeartbeatReturns`
  has a premise of its own, `SomeThreadReturns`: it is not so that all threads
  of a worker hang for good. Without it TLC finds the heartbeat gone: both
  threads hang, each pass waits for a thread to list the bucket until its
  timeout, and no pass is ever completed. The code grounds the premise in the
  timeout that every connection is given (`s3_gateway.py:181-205`), which
  bounds each operation on a socket.
- `BrowserSession`: only time. A request may hang for ever wherever it is.
- `WebUpload`: a call is answered or fails, and the user presses resume
  again. Without the second, a paused upload may stay paused.

Nothing is assumed about faults except that they are finitely many.

## 4. Proofs

TLAPS checks the theorems of eight modules, for every value of the constants.
The assumptions are the `ASSUME`s of the modules: `None` is none of the values
it stands beside, sizes, limits and lifetimes are natural numbers, the worker
is no request. None of the safety
properties below is inductive alone; each module names its inductive invariant
`IInv`, TLC checks it in the module's run, and one lemma per action proves
that it is kept.

**UploadSession.** `IInv` adds what keeps the handlers apart:

- `CopiesAreVersioned`: a copy is never newer than the row, and a copy with
  the row's version *is* the row. It makes every versioned UPDATE a step from
  the current row.
- `LockHeld`: a request holds the row lock at exactly the points between its
  locked read and its commit, and its copy is then current; so sign and
  complete, which hold it across a call of the store, are alone.
- `Progress`: what each process has seen at each of its points.
- `OneKnownUpload`: rows, copies and late calls know at most one upload, and
  it is no longer open once the object exists. That is why neither a retry
  nor a late completion replaces the object under an artifact, although any
  number of unknown uploads may lie around.

From it: `TypeCorrectness`, `ReservationSafety`, `ArtifactSafety`,
`AbortSafety`, `OutboxSafety`, `OutcomeFinality`, `FirstRegistrationStands`,
and `Implementation`: `Spec` implies `Contract!Spec` under the mapping of
`Outcome`, `row.reserved_bytes` and `artifact`.

**UploadAdmission.** `IInv` says that requests in a transaction have different
users and at most one has the organization (`RowsHeldApart`), that a key found
new stays new to the end of the transaction (`NewKeysStayNew`, because other
users have other keys), and that a request let in has room for its session
and for its bytes until it commits (`RoomForAdmitted`, because only the holder
of the organization's lock adds a session, and everybody else only takes bytes
away). The quota is on a sum. `Reserved` is the set of the pairs of an active
session and one of its bytes, so that its cardinality is the sum the code
computes, and the theorems on finite sets do what an induction over the
sessions would: `FewerBytes` for a session that is released, `FirstBytes` and
`MoreBytes` for one that is added. From it: `QuotaSafety` (both limits, the
number of sessions and the bytes), `IdempotentCreation`, `RecordsSafety` and
`AnswerSafety`.

**ArtifactMaintenance.** A session is published exactly when its artifact
exists, and what is about to be published is in the store (`PublishedOnce`); a
deletion still to come removes what may be removed (`LateIsJustified`); a row
that a client has read is the row if it has its version (`ClientsInPlace`);
what the pass handles is still what it was selected for, since only the worker
writes DELETING rows and no key gets a session after the fact (`PassInPlace`).
From it: `GoneSafety`, `EventsTell`, `NoWayBack`, `NothingNeededIsRemoved`;
`DeletesOnlyTheSeen`, because a deletion that has read its row still holds the
ETag it compared (`ClientsInPlace`); and `SessionsKeepContract`: with the
mapping `Upload(k)`, in which the verdict of a published artifact is not
distinguished, `Spec` implies `UploadContract` for the session of each key.

**MaintenanceRunner.** `PassesExclude` is the mutual exclusion: of the workers
in a pass, all but the holder have lost a connection. `HeldByIteration`,
`CallsInPass` and `CallsAreSound` are what it needs of the lock and of the
calls, listings included: one that has failed belongs to the pass it ends. `RequestsBounded` counts: the requests a call has sent and those its
threads have `Ahead`, each from the address it has come to, are together no
more than what its attempts allow, so a thread nobody waits for spends what
was granted to the attempt that started it. From it: `OnePass`, and
`Implementation`: `Spec` implies `CallHolds`, the promise of `StorageCall`.

**ProjectLifecycle.** The row is the last entry of `history`, and everything
seen or loaded is an entry of it (`VersionsAreHistory`, `CopiesAreHistory`);
the UPDATE for the version that was read then replaces what was seen. From it:
`EventsTell`, `NoUpdateIsLost`, `DeletionIsFinal`, and `Implementation`:
`Spec` implies `Register!Spec`.

**OrganizationMembership.** What a request has decided under a row lock stays
true until it commits (`LocksHeldApart`, `DecisionsStand`, `CopiesStand`);
tokens belong to one address, and an invite whose token is spent is accepted
(`TokensNumbered`); `RequestsInPlace` and `FoundedFirst` are bookkeeping. From
it: `LastOwnerStays`, `CommitsAreAuthorized`, `TokensMakeOneMember`.

**BrowserSession.** What is claimed for a token and its age are together no
more than its lifetime and the age `late` at which the claim was made, and at
that age the token, or the id token that came with it, was alive
(`ClaimsBounded`); with `RequestsInPlace` this is inductive, time included,
without any bound on how long a token is on its way. From it:
`StaleTokensEnd`, which is `StaleAtMost`, and, with the invariant `SingleUse`
of logins, `OneSession`.

**WebUpload.** `AnswersHold` says that what a task was answered is still so
when it reads the answer, however late: parts are only added, COMPLETED and
ABORTED are final, an expiry is remembered. With `TypeOK` it is inductive for
any number of files, and gives `TypeCorrectness` and `CompletionShown`: what
is shown as completed is completed. That a completion names only parts of its
session, and that a cancellation is shown only of a session that ends, need
more: that before `createUploadSession` returns one task is under way at most
(`OnlyMaker`), and that afterwards every task is about the session of the page
and `registered` holds parts of it (`OneSession`). Those hold as long as no
file is chosen while a click on an earlier one is under way
(`OneFileAtATime`), which the page does not enforce (section 5). Under that
premise: `OneFile` (`IInv`), `ManifestSafety`, `PhaseSafety`. `FirstFile`
proves the premise for the first file, so that both properties hold of one
file without any.

**Only model-checked**: what is temporal under fairness (`ReservationReleased`,
`KnownMultipartReclaimed`, `DeletionConverges`, `EveryRequestEnds`,
`LockComesBack`, `HeartbeatReturns`, `LogoutFades`, `ResumeCompletes`), since
the installed provers handle neither ENABLED nor fairness. Every invariant and
every action property of a run is proved, those of `WebUpload` for one file or
under the premise above.

## 5. Observations

Definitions that modules keep although no run names them. They were checked
while the models were written and state what TLC finds to be so, or not so:

| Definition | What TLC finds |
|---|---|
| `NoPartAfterTerminal` (`UploadSession`) | violated: register reads UPLOADING, the session is cancelled, register inserts its part; M2-04 says a terminal session refuses parts |
| `CancelIsIdempotent` (`UploadSession`) | violated: the second of two cancels finds no upload to abort and answers STORAGE_UNAVAILABLE; maintenance treats the same error as success |
| `EveryMultipartReclaimed` (`UploadSession`) | violated: the store starts an upload, the identifier is not committed, nothing lists uploads; design 06 promises cleanup |
| `MissingObjectFound` (`ArtifactMaintenance`) | violated: reconciliation looks at the first batch by `updated_at` and never changes it, so it never gets beyond it |
| `CompletionConverges` (`ArtifactMaintenance`) | violated: the object was assembled, the answer lost, the session expired; the orphan scan skips keys that have a session |
| `NoWriteAfterArchive` (`UploadAdmission`) | violated: a project is archived after a creation was authorised and before it commits; ADR-0005 lets the state at the commit decide |
| `ManifestKnown`, `TruthfulPhase` (`WebUpload`) with two files | violated: the first file is cancelled while it is hashed or its session is created, a second is chosen, and the old task goes on with the fields of the new one; or a late answer to the cancel of the first session is shown for the second. Both hold under `OneFileAtATime` |
| `DeletionHonoursIfMatch` (`ArtifactMaintenance`), `PartNeverRewritten` (`UploadSession`), `RecordsNameSessions` (`UploadAdmission`), `DeletedIsFinal` (`ProjectLifecycle`) | hold, and are proved |

Also met while reading, without a property:

- *Uploads.* sign, register and complete commit an expiry without an event
  (`upload_sessions.py:473`); sign and complete call the store with the row
  locked, which ADR-0006 asks not to do (`upload_sessions.py:480`); a deletion
  that read DELETING announces itself with whatever `refresh` reads, DELETED
  included (`artifacts.py:269`); referenced objects use up the batch of the
  orphan scan (`maintenance.py:236`); the event of a removed orphan is a
  transaction of its own and is lost with it (`maintenance.py:265`).
- *Projects.* ADR-0005 forbids changes to an archived project's metadata and
  members; the handlers do not look at the status. Restoring an ACTIVE project
  writes nothing and announces the next version all the same. The body that
  answers a creation is version 1, its ETag is read after the commit and may
  be newer: the one exception in `NoLostUpdate`. Two removals of a member can
  both be answered with 204, with two events.
- *Organizations.* A revocation and an acceptance of one invite can both
  succeed; of two invitations sent at once the first answer's token may
  already be replaced.
- *Browser sessions.* A session can count as fresh (`bff.py:238`) although its
  token is over: `expires_at` is the full lifetime from the end of the
  verification (`bff.py:133`, `254`), which waits for Keycloak, a thread and a
  key without a bound of its own. TLC has the trace for the unconditional
  claim: the verification of an id token takes longer than the margin, and the
  access token ends while the session still claims more than the margin. The
  API verifies the token on each request and answers 401 until the session is
  refreshed (`auth/dependencies.py:117`). Any failure of Keycloak during a
  refresh deletes the session. A logout whose refresh fails is answered with 401 and leaves the
  cookie. The answer of a late logout removes the cookie of a newer login.
- *Web console.* A PUT that starts with a signal already aborted is not
  aborted; a double click on resume starts two loops; with a second file,
  tasks of the first still write the fields of the controller (table above),
  so `web_upload` is about one file (`MaxStarts = 1`). COMPLETED is also shown for an artifact
  that failed verification.
- *Worker and calls.* After a lost answer `_open` sends the same request to
  the next address. A completion sent again after a lost answer is told
  NOT_FOUND; `complete` in `UploadSession` recovers from that by `head`.
  `ssl.SSLError` is an `OSError`, so a bad certificate is retried. A pass whose
  every call but the listing failed still touches the heartbeat; a worker on
  standby does not touch it, so with two workers the heartbeat of the model is
  that of the two together.

The hazards in `PROJECT.json` without a property are among these: the part
inserted after a cancellation, the creation committed after an archiving, the
expiries without an event, the lost event of an orphan, and the object of an
expired completion. What one would state of them is not so. Others are covered
in part, and their notes say which part: a batch that fails with one stale
row, a second cancel that fails, an invite that is accepted and revoked, a
token that is over and still taken.

## 6. Not modelled

Row level security (a filter inside the database), token verification and
cryptography, request validation and formats, metrics, logs and the alert
counters of the worker, audit rows (they are written with the outbox events
and read by nobody), the list endpoints and downloads (they only read), the
idempotency records of `create_organization`, of a cancellation and of an
artifact's deletion (the same mechanism is modelled in `UploadAdmission` and
`ProjectLifecycle`), two passes of maintenance on the same rows after a lost
connection, clocks that differ,
hashing and the views of the console, the SQLite variant used by tests, the
agent and the workflow worker (no state yet), deployment files.

## 7. Plan

The order in which the modules were built is the order of the table in
section 2: uploads first, then what cleans up after them, then who may do
it. What is left:

1. The idempotency records that are left out, once `create_organization`,
   cancel and delete share one module with `begin_idempotent_command`.
2. Composition: several sessions of `UploadSession` under one pass with a
   batch, which so far meet only through `UploadContract`.
