# A TLA+ model of wrappr

wrappr turns the voice memo a tradesman records after a job into a report for
the customer.  This directory holds a formal model of its back end
(`src/api`): TLA+ modules, the TLC configurations that check them on small
instances, and theorems that the TLA+ proof system (TLAPS) checks for every
value of the constants.

Contents: 1 the system · 2 the modules · 3 the runs · 4 the proofs ·
5 disagreements between code and comments · 6 what is left out · 7 the plan.

## 1. The system

Two Go processes, an HTTP API (`cmd/server`) and a worker (`cmd/worker`), share
a PostgreSQL database, a bucket of files in Cloudflare R2 and a queue of tasks
that the library asynq keeps in Redis.  The API writes a job's row and files
and enqueues a task; the worker takes the task, transcribes the audio, has a
language model extract the report and fills the row.  The processes never talk
to each other directly.

| component | state | operations | what makes it correct |
|---|---|---|---|
| job submission, `jobs/handler.go` | the keys it has uploaded, the request's context | upload audio and photos, insert the row, enqueue, on failure null the row's keys and delete the files | 202 means that row, files and task exist; an error leaves no files; no row refers to a missing file |
| worker, `worker/worker.go`, `worker/tasks/process_job.go` | one attempt per task: transcript, extraction | load, mark, download, transcribe, store, extract, complete, insert child rows; the error handler of the last attempt | statuses follow the pipeline, reports list nothing twice, each job ends completed or failed |
| transcription, `worker/tasks/process_job.go` | one call: a goroutine, a pipe, a request | copy the audio from R2 into the form, send it while it is written, read the answer | only a whole memo is transcribed; nothing is left behind, however the call ends |
| extraction, `worker/tasks/extract.go` | one call: answer, deadline | ask Groq, on 429 Gemini; normalize tags, category, sentiment, urgency, hours | what is stored fits the columns and says what the model said; both calls end by one deadline |
| worker process, `cmd/worker/main.go`, `worker/worker.go` | main, the goroutine of `srv.Run`, the tasks in hand | load the configuration, serve, stop at a signal | no task is taken without the keys for it; a stop ends the process and loses no task |
| configuration, `config/config.go` | none | `Load`, `ParseRedisURL` | a bad value is refused at the start |
| login, `auth/magic_link.go`, `auth/verify.go` | `auth_tokens` | issue a link in a detached goroutine; exchange it for a session in a transaction | one session per link; a failure does not consume it; 401 only for a link of no use |
| registration, `auth/register.go` | `companies`, `users`, `invitations` | found a company with owner and token in one transaction; reissue a token | company, owner and token appear together; 201 means that an account exists |
| team invitations, `auth/invite.go`, `auth/accept_invite.go` | `invitations`, `users` | check and insert; accept in a transaction | every account is founded or invited, once; refusals are true |
| rate limiter, `middleware/ratelimit.go` | map from addresses to token buckets | get, Allow, the cleanup loop | a client cannot notice that idle buckets are forgotten; the map forgets |
| JWT middleware, `middleware/jwt.go` | none; the sessions are with the clients | `JWT`, `RequireOwner` | only an owner's session invites, and into its company only |
| migrations, mailer, web front end | none that changes while the program runs, or not in the program | | see section 6 |

Interaction.  Handlers run concurrently in one process and meet only in
PostgreSQL (row locks, unique indexes, transactions), in the connection pool
and in the limiter's mutexes.  API and worker meet in the jobs row, in R2 and
in the queue.  asynq leases a task to one attempt at a time; it reschedules a
failed one while retries remain, archives it after that or on `SkipRetry`,
and recovers the task of a worker that disappeared.  Two goroutines (mails)
and the cleanup loop run detached; a transcription has a goroutine that
outlives the call if the request ends early.  A signal to stop the worker
reaches `worker.Start` and, independently, asynq.

What is hard here: the submission is five kinds of remote call with no
transaction around them, each of which may fail, or succeed and report an
error; the client may hang up in between, which cancels the calls that clean
up as well; tasks are delivered at least once, so two attempts may write to one
row; and the login and invitation handlers rely on how PostgreSQL serializes
updates of one row and inserts of one key.  `PROJECT.json` lists the hazards at
their lines.

## 2. The modules

    JobStore        rows, R2 objects and queue, with the remote calls on them
      JobSubmit     CreateHandler, one request per job, client and process faults
      JobWorker     ProcessTask, error handler, asynq's leases and retries
        JobPipeline        both together; properties      -> JobLifecycle, TaskQueue (abstract)
          MCJobPipeline
          JobPipelineProofs        types, what holds whatever fails, the queue
            JobStorageProofs       rows and files
              JobDeliveryProofs    tasks and statuses, the life of a job
    Transcription   transcribeAudio: goroutine, pipe, transport, caller
    Extraction      extractJobData, and what is stored of the answer
      ReportAttempt   both in sequence, in one attempt of ProcessTask
        MCReportAttempt, ReportAttemptProofs
    Configuration   config.Load and ParseRedisURL
      WorkerProcess   cmd/worker/main.go and worker.Start over it
        MCWorkerProcess, WorkerProcessProofs
    LoginTokens     magic_link.go and verify.go           -> OneTimeToken (abstract)
      MCLoginTokens, LoginTokensProofs
    RateLimiter     ratelimit.go                          -> TokenBucket (abstract)
      RateWindow    with a record of admitted requests;  MCRateWindow
      RateLimiterProofs
    AccountStore    companies, users, invitations
      Registration  register.go
      Invitations   invite.go, accept_invite.go and jwt.go
        Accounts           both together; properties      -> OneTimeToken (abstract)
          MCAccounts, AccountsProofs

`map` in `PROJECT.json` gives the source lines of every definition.  Operators
introduced by a comment "Mutant of X" are X with a plausible mistake in it; no
specification uses them.  Putting one in the place of X makes the property
that `PROJECT.json` names with it fail, which shows that the property looks at
that code.

**Job pipeline.**  One member of `Jobs` is one POST /v1/jobs, its row, its R2
prefix and its task (the task is named by the job's id).  A remote call is one
step with one of four outcomes: `ok`; `err`, no effect; `lost`, the effect and
an error; `cut`, the same because the client hung up.  `FailingCalls` and
`LostReplies` say which services may fail how, `Faults` which of disconnect,
API crash, worker crash, lease loss and shutdown may happen.  `pc` is the place
of the handler, `uploaded` is `uploadedKeys`, `cancelled` the request's
context: once it is set, every call that carries it fails without being tried,
in the cleanup too.  `Enqueue` carries none.  `at` is the place of an attempt;
an attempt that is no longer `leased` learns nothing more, but the call it is
in may still land.  `TimeOut` is asynq's limit of 30 minutes for a task without
a deadline: the attempt is settled, and its handler still runs.  A photo is its
number, an extraction a set of lines, a transcript one of NULL, empty,
placeholder and text.

**Login.**  A token stands for its hash (`hashToken` is injective for all that
the code relies on).  `used` and `expires` are the committed columns; a
transaction that has updated the row is in `Locking`, and `UseAuthToken` of
another waits for it and then looks at the row afresh, as READ COMMITTED does.
`began` is NOW() of the transaction.  A connection of the pool is held from
`Begin` to the end of the transaction.  `server` follows main's last lines: a
draining server takes no request (`srv.Shutdown`), one that is closing has
closed the pool, where whoever needs a connection fails and main waits for the
connections that are in use; `Exit` ends whatever is left, and another process
takes over.

**Accounts.**  A company is named by the registration that founds it, an
invitation by the request whose token it carries.  A registration's rows
become visible at its commit; until then its slug is locked (`HoldsSlug`) and
another insert of it waits.  `AcceptInvitation` waits for the row of the
invitation, `CreateUser` for a transaction that has inserted the same
(company, e-mail).  After the first failed `CreateCompany` the transaction is
aborted, so `RetryCompany` can only fail.  `sessions` are the claims of the
JWTs that accepting and logging in (`Login`) have issued; a request to invite
comes with any of them or without a good one, and `IsOwner` is what the
middleware makes of it.

**Rate limiter.**  `get` and `Allow` are two steps, between which the map may
forget the bucket.  A bucket counts in units of the clock instead of fractions
of a request; a unit of time adds 1, a request costs `Period`.  The cleanup
loop sweeps in the unit of time in which its ticker fires.

**Transcription.**  One call of `transcribeAudio`.  `writer` is the goroutine,
which offers one part of the form after another (the head, `Chunks` pieces of
audio, the tail) and blocks until somebody reads the pipe; `conn` and `reply`
are the transport and Groq, who may refuse before the form is complete; `call`
is the caller.  The client's timeout may strike at any moment of `Do` and of
`ReadAll`.  The transport closes the pipe's read end after the exchange, which
may be after `Do` has returned.

**Extraction.**  `waiting` is the time before the transcript is there.  A
string is a record of a word and a spelling, which `strings.ToLower` and
`TrimSpace` undo.  Hours are in hundredths, so that the rounding to tenths by
`FormatFloat` is visible, and may be negative, as nothing in the code or the
schema forbids it.  `FormatFloat` rounds the float64 next to the estimate, and a
tie of that to even: 0.25 and 2.55 are stored as 0.2 and 2.5, 0.75 as 0.8.  The
model leaves open which way the middle between two tenths goes (`Tenths` is the
set of both).  `Store` gives the lists that are handed to the inserts of
materials, recommendations and tags; that such an insert may fail, and is then
only logged, is in `JobWorker`.

**Worker process.**  `main` and `run` are two goroutines, each of which hears
the signal (`signalled`, `heard`) and calls `Shutdown`; `server` is asynq's
state, by which the second of them finds it already done and returns at once.
An attempt is a call to R2 or a provider (`call`), then a query that holds a
connection (`query`), and after its last failure `markJobFailed` (`mark`).  What
asynq gives up at the end of its own grace period is `lingering`.  An
environment is complete, or has one variable that is not as it should be.

Abstract specifications: `JobLifecycle`, a job is opened once and decided once,
and 202 or 500 is in keeping with what becomes of it; `TaskQueue`, a task is
put in at most once, held by at most one attempt at a time, and given up before
its retries are used up only by the attempt that holds it; `OneTimeToken`,
issued, spent, at most one session; `TokenBucket`, one bucket per address for
ever.  In JobPipeline an attempt holds its task, in the sense of TaskQueue,
while it is `leased`.

## 3. The runs

| run | instance | properties | faults allowed |
|---|---|---|---|
| `worker_faults` | 1 job, 2 workers, 1 retry | TypeOK, TaskHasRow, TranscriptUsable, ImplementsTaskQueue, **EveryTaskSettles** | database, queue, download and provider fail; database and queue lose replies; API crash, worker crash, lease loss, time-out |
| `storage_faults` | 1 job with 0 to 2 photos, 1 worker | AcceptedIsDurable, NoDanglingKeys | everything but the database; all six faults |
| `flaky_calls` | 1 job with 0 to 2 photos, 2 workers, 3 retries | TaskHasAudio, NoDuplicateChildren | every call; replies of all but the queue; disconnect, API crash |
| `lifecycle` | 2 jobs, 1 worker, 1 retry | ArchivedIsFailed, FailedRequestLeavesNoObject, StatusFollowsPipeline, ImplementsLifecycle, **AcceptedIsResolved** | upload, download, queue, provider; API crash |
| `skipped_retries` | 1 job, 1 worker | ArchivedIsFailed, violated | a lost reply of the queue |
| `one_time_login` | 1 link, 3 requests, 2 connections | OneSessionPerToken, ConsumedAfterLookup, UnauthorizedIsFinal, ImplementsOneTimeToken, **EveryVerifyIsAnswered**, **StopEnds** | every call, crash, shutdown, expiry |
| `eviction` | 1 address, 2 requests, 3 buckets | EntriesAreRecent, AdmittedInWindow, ImplementsTokenBucket | |
| `founding` | 3 registrations, 2 addresses, 2 names | EveryCompanyHasOwner, CreatedMeansAccount, **EveryRegistrationIsDecided** | every call, crash |
| `inviting` | 1 company, 2 invitations, 2 acceptances, logins | EveryAccountHasOneOrigin, ConflictIsReal, UnauthorizedIsFinal, OnlyOwnersInvite, ImplementsOneTimeToken, **EveryAcceptanceIsDecided** | every call, expiry |
| `slug_collision` | 2 registrations | SlugCollisionIsRetried, violated | |
| `reports` | audio in 2 pieces, answers of up to 3 tags | WholeAudioTranscribed, TagsAsNamed, RowIsAdmissible, **AttemptEnds** | R2, the network and both providers fail or stall at any point |
| `worker_process` | 40 environments, 2 tasks, 1 retry, 2 signals | AttemptsAreEquipped, **ProcessEnds**, **EveryTaskEnds** | a bad variable, Redis at the start, any attempt |

Liveness properties are in bold.  The type invariants of all modules are
theorems; the runs check that of the job pipeline, whose statuses are those of
an enumeration in the database.  All runs
check for deadlock; a state in which every request and task is over has a
stuttering step (`Quiescent`, `AfterAttempt`, `AtRest`).

**Why the environments differ.**  Some properties hold whatever fails
(TaskHasRow, AcceptedIsDurable, TranscriptUsable); others the code gives only
as long as a certain service works, and the run's faults are the largest set we
found for which they hold, or one that still makes the hazard happen:

- NoDanglingKeys needs the database: if `NullJobURLsAndFail` fails, the files
  are deleted all the same and the row keeps their keys (the error is only
  logged).
- TaskHasAudio needs the reply of `Enqueue`: if that is lost, the files of a
  queued task are deleted.
- NoDuplicateChildren needs workers that neither die nor lose their lease after
  `UpdateJobPipeline`: a second delivery inserts again.
- FailedRequestLeavesNoObject needs a client that stays connected, deletes that
  work, and uploads that do not succeed and report an error.
- ArchivedIsFailed, StatusFollowsPipeline and JobLifecycle need the database
  (`markJobFailed` is best effort), the reply of `Enqueue`, and workers that do
  not die in the last attempt (asynq's recoverer does not call the error
  handler).
- EveryTaskSettles is checked without shutdowns: asynq puts a task back at a
  shutdown without counting a retry, so a worker that is restarted for ever
  during the task would never finish it.  EveryTaskEnds allows shutdowns, but
  finitely many (`MaxStops`).
- `inviting` has no crash, which would make it too large for its liveness
  property.  To the other requests an acceptance that dies is one that fails at
  the same place, since PostgreSQL rolls it back; and the theorems about the
  safety properties of this run allow crashes.

**Bounds.**  One job suffices for properties of one row, because handlers and
attempts of different jobs share only workers; `lifecycle` has two jobs on one
worker for that.  Two workers are needed for an attempt that outlives its
lease, one retry for the difference between a last and another attempt;
`flaky_calls` has the code's three.  Two photos make "some uploaded, one
failed, one left" happen.  Child rows saturate at two, which is enough to see a
duplicate.  Three requests over two connections let one hold a lock, one wait
for it with the last connection and one wait for a connection; two acceptances
with two invitations allow both kinds of wait and a wait for one while holding
the other, and let a technician who has accepted try to invite. Two pieces of
audio give `io.Copy` a read before, between and after them.  Two tasks and one
slot (or two) let one wait, one run and one be put back; two signals, a second
process that is stopped as well.  The limiter is scaled down: Period 2, Burst
2, IdleTimeout 4, CleanupInterval 2, Slack 1 and a clock to 8 allow a bucket to
be emptied, forgotten at two sweeps and filled again, and Burst * Period +
Slack = IdleTimeout + 1 is the tightest case of the assumption below.  Three
tags with room for two allow an overflow, a duplicate and a foreign tag, and
the hours include 2.54, 2.55 and 2.56, 0.25 below zero, one that is rounded to
zero, and both sides of 999.95 and of -999.95.  What the small instances
leave open for the safety properties listed in section 4, the proofs close.

**Symmetry** is used for workers (`flaky_calls`) and for requests and buckets
(`eviction`), in runs without liveness properties only.

**Fairness.**  A handler that has started, be it a registration, an acceptance
or an exchange of a link, goes on: net/http does not stop it, and PostgreSQL
serves a transaction that waits for a lock or the pool once that is free.  An
attempt goes on because the HTTP client (90 s) and `llmCtx` (30 s) have
timeouts, and whatever has none, such as R2's client, ends with asynq's 30
minutes for a task.  `ReportAttempt` derives the first part instead of assuming
it: only the timeouts, the closing of bodies and the goroutine's own steps are
fair there, nothing that R2, Groq or Gemini do.  asynq delivers a waiting task
while a worker is idle and recovers an active one whose lease is gone.  A
shutdown goes on because `srv.Shutdown` and asynq's grace period have limits,
and a supervisor starts a worker that was stopped again.  Each is weak fairness
of one handler, attempt, task or process.  No fairness is assumed of clients,
of signals, of expiry, of failures, or of a call being successful: a task may
fail at every attempt.  Nor is it of the mailer, whose `http.Client` has no
timeout (`mailer.go:35`): a registration is decided, and may still wait for its
mail.

**What they show.**  A job that was answered with 202 is stored, queued and, as
long as the database and the worker processes stay up, brought to an outcome.
Failures between the calls leave at worst orphaned files or a row that is
never processed, not a task without a row.  Magic links and invitations are
exchanged at most once under every interleaving, and no failure wastes a link
before the commit.  Evicting idle limiters never changes how many requests
get through: at most Burst + d / Period in any d units of time.  Groq never
gets a part of a memo for the whole, and an attempt returns with everything it
opened although any of the services may stall.  No registration and no
acceptance waits for ever for what another one has locked.  Whatever becomes of
a worker, an attempt that has lost its task cannot settle it.  A worker that is
stopped ends, but not always in the way its comment says (section 5).

## 4. The proofs

TLAPS proves, for all values of the constants:

| theorem | statement |
|---|---|
| `JobPipelineProofs!TypeCorrect`, `AcceptedDurable`, `TaskRow`, `TranscriptReadable` | Spec => []TypeOK, []AcceptedIsDurable, []TaskHasRow, []TranscriptUsable |
| `JobPipelineProofs!QueueRefinement` | Spec => ImplementsTaskQueue |
| `JobStorageProofs!KeysResolve`, `TaskAudio`, `FailedRequestClean` | Spec => []NoDanglingKeys, []TaskHasAudio, []FailedRequestLeavesNoObject |
| `JobDeliveryProofs!NoDuplicates`, `GivenUpIsFailed` | Spec => []NoDuplicateChildren, []ArchivedIsFailed |
| `JobDeliveryProofs!StatusMoves`, `Refinement` | Spec => StatusFollowsPipeline, ImplementsLifecycle |
| `LoginTokensProofs!TypeCorrect`, `OneSession`, `LookupFirst`, `UnauthorizedFinal` | Spec => []TypeOK, []OneSessionPerToken, []ConsumedAfterLookup, []UnauthorizedIsFinal |
| `LoginTokensProofs!Refinement` | Spec => ImplementsOneTimeToken |
| `AccountsProofs!TypeCorrect`, `CompanyHasOwner`, `CreatedHasAccount`, `OneOrigin` | Spec => []TypeOK, []EveryCompanyHasOwner, []CreatedMeansAccount, []EveryAccountHasOneOrigin |
| `AccountsProofs!ConflictReal`, `UnauthorizedFinal`, `OwnersInvite` | Spec => []ConflictIsReal, []UnauthorizedIsFinal, []OnlyOwnersInvite |
| `AccountsProofs!Refinement` | Spec => ImplementsOneTimeToken |
| `ReportAttemptProofs!WholeAudio` | TranscriptionSpec => []WholeAudioTranscribed |
| `ReportAttemptProofs!AttemptImplementsTranscription` | Spec => TranscriptionSpec |
| `ReportAttemptProofs!TypeCorrect`, `AttemptHearsAll` | Spec => []TypeOK, []WholeAudioTranscribed |
| `ReportAttemptProofs!RowFits`, `TagsAreTheFirstNamed` | Spec => []RowIsAdmissible, []TagsAsNamed |
| `RateLimiterProofs!TypeCorrect`, `MapForgets` | Spec => []TypeOK, []EntriesAreRecent |
| `RateLimiterProofs!Refinement` | Spec => ImplementsTokenBucket |
| `RateLimiterProofs!WindowIsLimited` | WindowSpec => []AdmittedInWindow |
| `WorkerProcessProofs!TypeCorrect`, `Fit` | Spec => []TypeOK, []AttemptsAreEquipped |

They assume what the modules assume of their constants.  `StoreAssumption` and
`WorkerAssumption` say that numbers are numbers and that the kinds of child rows
are disjoint; `LoginAssumption`, `ChunksAssumption`, `RateAssumption`,
`AccountAssumption` (nobody's row or token is the placeholder `None`) and
`ExtractionAssumption` (NULL is not a number, and the hours are whole
hundredths) are of the same kind, and so is `ProcessAssumption`: the queue is
finite, and WORKER_CONCURRENCY holds a number or something that `strconv.Atoi`
does not read as one.  `IdleLongEnough`, Burst * Period + Slack <= IdleTimeout +
1, is the one module assumption with content: a bucket that is idle long enough
to be forgotten is full.  In `main.go` that is 3 * 12 s, and the few
milliseconds between get and Allow, against 600 s.

Seven theorems about the pipeline also assume something of the faults, because
what they say is false otherwise (section 3, "Why the environments differ").
`NeverFails(s)`: calls of service s neither fail nor lose their reply;
`NeverLies(s)`: they may fail, but an error means that they had no effect;
`WorkersStayUp`: no worker crash, lost lease, time-out or shutdown.  All faults
not named are allowed, in any combination; the runs are instances, most of them
with fewer faults.

| theorem | assumes |
|---|---|
| `KeysResolve` | NeverFails("db") |
| `TaskAudio` | NeverLies("redis") |
| `FailedRequestClean` | no disconnect, NeverLies("put"), deletes do not fail (their reply may be lost) |
| `NoDuplicates` | WorkersStayUp |
| `StatusMoves` | WorkersStayUp, NeverLies("db"), NeverLies("redis") |
| `GivenUpIsFailed` | WorkersStayUp, NeverLies("redis"), the database executes what it is told (its reply may be lost) |
| `JobDeliveryProofs!Refinement` | WorkersStayUp, no disconnect, NeverFails("db"), NeverLies("redis") |

*Job pipeline.*  TypeOK is not inductive: the worker writes into the row and
task of `job[w]`, which must be a job and not `NoJob`.  The proofs add
`BusyOnTask`: a busy worker has a job, and its task was enqueued.
For AcceptedIsDurable each place of the handler gets what it has achieved by
then: the objects of the tracked keys are in R2, at `insert` all keys are
tracked, at `enqueue` the row is there and complete, at `accept` the task is
queued; and after the answer nobody deletes or nulls, because cleanup runs only
at `unqueue` and `refuse`.  TaskHasRow follows from the same facts.
TranscriptUsable needs `TextInv`, what an attempt has heard and has stored by
each of its places, and `TranscriptsStay`: whoever writes to the row, an attempt
that has lost its lease too, writes a text that can be shown, so that an
attempt may rely on what it has stored although it holds no lock on it.

*The queue.*  That the pipeline implements TaskQueue needs no assumption on the
faults: workers may die, lose leases and run into the time-out at any call.
`LeaseInv` says that who holds a lease is busy with a task that is active, that
no two attempts hold one task, and that there is no task before the handler's
`Enqueue`.  The proof first reduces the worker's many steps to what they do to
the queue (`QueueStep`: nothing, take a task, let go of one, recover one that
nobody holds) and then maps these: `Enqueue` to `Submit`, `Dequeue` to
`Deliver`, the end of a held attempt to `Complete`, `Retry`, `Archive` or
`HandBack`, a lost lease to `Lose`, the recoverer to `Retry` or `Archive`, and
whatever an attempt does that holds nothing to a stutter.

*Files.*  Each theorem adds one invariant per job to the above.  `KeysInv`: who
is at `refuse`, where files are deleted, has no row, or has nulled its keys, or
has lost its client, and then no delete is carried out.  `AudioInv`: who deletes
was told that there is no task.  `CleanInv`: what is in R2 is what the handler
has tracked.  The worker's steps leave all of this alone (`OnlySubmissionsStore`),
and so do the requests of other jobs (`OthersFiles`).

*Deliveries.*  `DeliveryInv` says that workers that stay up work on each task
one at a time: the task of a busy worker is active and leased to it, two busy
workers have different jobs, an active task has its worker.  On top of it
`ChildrenInv` counts a child row once if the insertion has passed it, and none
before; `StageInv` gives the status that a row may have at each place of its
request, task and attempt; `ArchiveInv` says that an attempt that is settled as
the last one has marked its job; and `AnswerInv`, which the refinement needs, that
a request on its way to a 500 has no task, and no row or a failed one.  The
refinement maps CreateJob to `Open`, Complete to `Complete`, the updates of the
error handler and of a failed submission to `Fail`, the answers to `Accept` and
`Refuse`, and every other step to a stutter.

*Login.*  Inv is TypeOK and, for each token, `TokenInv` (a link that was sent
has a row; a used one was used by a request that read its user); for each
request, `VerifyInv` (what it knows at each place, among others that the token
of a locking request is unused and that of a consuming one is used); and for
two requests with one token, `Exclusive` (not both locking, not both past the
commit).  OneSessionPerToken alone is not inductive: two requests between lock
and commit would both be granted.  The refinement maps the commit to `Spend`,
the answer to `Grant`, and every other step to `Issue` or a stutter.

*Accounts.*  Inv has one part per table or actor.  `TablesInv`: rows refer to
rows, no two accounts share company and e-mail, and each has one origin.
`RegistrationInv` and `AcceptInv`: what a request knows at each of its places,
for instance that at `commit` the account does not exist yet.  `InviteInv`: a
request that was let through has the session of an owner, and accounts do not
change, so that what the middleware read is still true at the insert.
`Exclusive`: two acceptances of one invitation are not both past its row lock
and not both past the commit, and two that have inserted the same (company,
e-mail) are not both about to commit.

*Report attempt.*  That Groq has a whole form says nothing of what the goroutine
has done, so WholeAudioTranscribed is not inductive.  Inv adds `WriterInv`, how
many parts the transport has taken at each place of the goroutine, and that
only a goroutine that did not fail closes the pipe with EOF; and `WholeInv`, that
a request ends regularly only after such a close.  An attempt then inherits it,
because each of its steps is a step of the transcription or leaves it alone.
RowIsAdmissible is inductive together with the fact that the answer is one the
model can give; its lemmas say what `Sanitize` returns and how far rounding is
off.  TagsAsNamed is about a loop.  `NormalizeTags` is therefore a recursive
function over the rounds of it, and `RoundInv` its loop invariant: what is kept
after i rounds are the first of the words that the first i tags name, in their
order, and all of them unless the list is full.  The rounds are counted by
induction, which `AllRounds` derives from the well-foundedness of the natural
numbers for one set of rounds (the library's rule of induction takes an
operator as parameter, which the provers cannot instantiate).  How many are kept
then follows by counting: the kept list is one-to-one into the words named, and
onto them unless it is full.

*Rate limiter.*  Inv is TypeOK and `EntryInv` (the bucket in the map was last
used at most Slack after its entry was last touched), `HolderInv` (a request
holds the bucket that is in the map, because it got it at most Slack ago, which
is too recently for a sweep) and `Unshared` (no two addresses have one
bucket).  A forgotten bucket is then full, so forgetting it leaves the
address' credit as it is; a tick maps to `Fill`, an admission to `Admit`.
EntriesAreRecent needs to know how long ago the ticker has fired (`Overdue`, the
phase of the clock).  For AdmittedInWindow, `WindowInv` balances the account:
what an address was admitted since any moment, and what its bucket holds now,
is at most a full bucket and what has flowed in since.  Each step keeps the
balance by what the refinement has shown of the credit.

*Worker process.*  `EquippedInv` carries what `Load` has checked from main to the
server and from there to each attempt, and `SlotInv` counts the attempts.

Only model-checked:

- The nine liveness properties: liveness under fairness is beyond the prover.
- The two violations of section 5, which are counterexamples.

## 5. Disagreements between code and comments

Two are runs that TLC finds violated:

- `skipped_retries`: `worker.go:82-89` says that a job is marked failed when
  its retries are exhausted and that otherwise retries remain.  A `SkipRetry`
  error (`process_job.go:99-101`) is archived at once with retries to spare, so
  the job stays in "transcribing".
- `slug_collision`: `register.go:112-114` says that a slug collision is retried
  once.  The retry runs in the transaction that the collision has aborted, so a
  second company of the same name gets a 500.

Others were met while modelling, and follow from the same models, but no run is
kept for them:

- `handler.go:143-144`: uploaded objects "can be cleaned up if a later step
  fails".  `cleanupUploads` uses the request's context, so if the step failed
  because the client hung up, no delete is even tried.
- `handler.go:241`: a job whose enqueue failed is "clearly terminal".  If
  `Enqueue` took effect and only its reply was lost, a worker that has passed
  its check of `audio_url` sets the job back to "transcribing".
- `mailer.go:141`: "The link expires in 1 hour."  A login link lasts
  `magicLinkTTL`, 15 minutes (`magic_link.go:26`).
- `mailer.go:141`: "Click the button below to log in".  The link mailed after a
  registration has its token in `invitations` (`register.go:145`), where
  `VerifyHandler` never looks, and `AcceptInviteHandler` answers it with 409
  because the account exists.
- `invite.go:55-56`: an address with a pending invitation is rejected.  Check
  and insert are two statements, so two requests at a time leave two.
- `accept_invite.go:111-114`: an owner "can re-invite" someone whose account
  was committed without a session.  Accepting the second invitation ends in
  409.
- `process_job.go:35`: `defaultLLMTimeout` is "the per-call deadline".  It is
  the deadline of one context for both calls (`process_job.go:154`).
- `worker.go:25-26`: Start "returns only after the server has shut down".  If
  asynq's own signal handler calls `Shutdown` first, or the signal comes before
  `Run` serves, `srv.Shutdown` at `worker.go:62` returns at once.  main then
  closes the pool under the running attempts: they fail, which counts as a
  retry, and one that was the last is archived without `markJobFailed` getting
  a connection; or the process ends before they do.  `worker_process` shows
  that the process ends and no task is lost by it.
- `worker.go:70`: "n is 1-indexed (n=1 -> first retry ...)".  asynq passes the
  number of retries so far, 0 for the first, so that the first retry waits for
  10 minutes and only the second for 30 seconds.
- `worker.go:82-83`: a job whose last attempt timed out is marked failed while
  the handler still runs; a late write of it may set the job back to a working
  status (this is why `lifecycle` has no time-outs).
- `main.go:34-50` closes the asynq client and then the pool.  A submission that
  outlasts `shutdownTimeout` cannot enqueue, and then cannot null the keys of
  its row, while R2 still deletes the files: the row keeps dangling keys, as
  after a failure of the database in `storage_faults`.

## 6. What is left out

- The signature and the expiry of a JWT: a session is one that was issued or it
  is no good.  Sessions are never withdrawn, in the code as in the model.
- The routing and wiring in `cmd/server/main.go`, `cmd/migrate`: run once.
- The mailer's HTML and HTTP: a mail arrives or does not.
- Form parsing, MIME types, JSON and the prompt: a form is valid or not, a reply
  can be used or not.
- asynq's own storage in Redis and its retry delays: the library is modelled
  from how the code uses it, and a retry may come at any time.
- Columns that no decision depends on, `pipeline_events`, billing, and queries
  nobody calls.
- `web/`: a front end that does not call the API yet.

Two simplifications to keep in mind: the clocks of API and database are one
clock, and `GetUserByEmail`, which has no ORDER BY, returns any account of the
address.

## 7. The plan

The order followed the weight of the behaviour: the job pipeline, then login,
the limiter and accounts, then the inside of an attempt, sessions and the life
of the processes; then the proofs, with the properties that hold whatever fails
before those that need a service, and with the queue at last.  Every safety
property and action property of the passing runs is now a theorem, and so are
the type invariants and the five refinements.  What is left:

1. Liveness with fewer assumptions about services, such as an attempt that ends
   although PostgreSQL stalls, if the code gets deadlines for its queries.
2. Two jobs with worker faults, if the state space allows; the theorems cover
   any number for safety.
