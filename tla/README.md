# TLA+ verification of moly-backend

moly-backend serves the chat, memory, diary, routine, fortune, shop and subscription API of one
mobile app, from FastAPI processes, a `tick` that schedules work and resident `consumer` processes
that run it. All of them share one PostgreSQL database and run on two hosts, so most of what can go
wrong is an interleaving of short transactions with work done between them. This project models
those parts in TLA+, checks them with TLC and proves what it can with TLAPS.

## 1. The system

### Components

| Component | Code | State it keeps | Operations |
|---|---|---|---|
| Job platform | `app/services/jobs.py`, `worker/consumer.py` | `async_jobs` rows (state, attempts, lease, deadlines); queue loops, slots and wake-up events in each consumer | enqueue, claim, heartbeat, finalize (success, retry, defer, dead, cancelled), reap, replay, redo, scrub |
| Account deletion | `app/services/privacy.py`, `worker/privacy_sweep_jobs.py`, functions in `db/schema.sql` | `privacy_subject_barriers` (state, epoch, operation), `privacy_ledger_events`, vectors outside the foreign keys | begin, abort, authorize a job, sweep, promote an orphan, close |
| Chat turns | `app/services/chat_turns.py`, `chat.py` | `chat_active_turns` lease, `chat_contexts` revision and sequence, `idempotency_keys`, daily tokens, messages | check, acquire, infer, verify and publish, fixed safety reply, release |
| Memory pipeline | `memory_pipeline.py`, `mem0_*.py`, `worker/mem0_jobs.py`, `memory_sweep_jobs.py`, `scripts/reextract_memories.py` | cursors, generation and epoch in `memory_pipeline_states`; staged plans, registry rows, vectors | enroll, ingest, consolidate, advance, enqueue the successor, sweep stalled chains, extract again, roll back |
| Conversation checkpoints | `checkpoint_repo.py`, `context_retention.py`, `worker/checkpoint_jobs.py` | the chain of summaries, drafts in job payloads, the pressure goal | plan, page, publish, verify again, resume, redo, recover |
| Interaction contracts | `contract_repo.py`, `contract_compiler.py`, `worker/contract_jobs.py` | the document of explicit preferences and its cursor | enqueue, compile a page, merge, redo, filter what is shown |
| Retention releases | `retention_release.py`, `retention_release_promotion.py`, `scripts/prepare_guard_context_release.py`, triggers in `db/schema.sql` | preparations, the active pointer, source revisions and events, private chains | start, catch up, abort, seal, audit, promote, refresh |
| Hay economy | `hay_ledger.py`, `economy.py`, `attendance.py`, `ads.py`, `articles.py`, `shop.py` | `hay_transactions` and the balance in the profile, reward cursors, ad sessions, items | claim, grant after verification, buy, equip |
| Trainings | `trainings.py`, `training_tries.py` | progress, tries, receipts with a lease | pick, reserve, grade, record |
| Subscriptions | `subscription*.py`, `payment.py`, `revenuecat.py` | provider events and their stages, the subscription, payments, the bonus | ingest, process on two paths, ask the provider, refund, reverse |
| Usage ledger | `usage_ledger.py`, `llm.py`, flusher in `consumer.py` | a row per model call, what a process has not written yet | open, close, flush, reconcile, sum up |
| Tick and push | `worker/tick.py`, `notify.py`, `push.py` | sent markers and the evening's words in `user_daily_stats` | visit a user, take a slot, send, note what was accepted |
| Diary | `diary_generation.py` | `diary_gen_claims`, `diaries`, `diary_generation_results` | claim, write, pick a prepared text, confirm, publish |
| Content | fortune, topics, banners, routines, moods | one or a few rows per request | mostly single transactions |

### How they interact

Components call each other inside one transaction and hand work on through `async_jobs` rows that
commit with the state they follow from. A handler runs between two transactions: what it read may
be stale when it publishes. Three guards exist for that. A **lease** (job or chat turn) names the
one worker whose result counts; a **barrier** row per account tells every publisher whether the
account is being deleted; the **user advisory lock** serialises the short transactions of one
account. The auth service (another repository) begins and aborts deletions through two database
functions and deletes the account itself, which cascades to most tables but not to the vector store.

### What is hard

* A worker that lost its lease does not know it: reaper, second claim, heartbeat and late finalizer
  interleave (job platform), and so do takeover, late publish and clean-up (chat turns).
* A condition is evaluated in a statement's or transaction's snapshot, the lock comes later: the
  barrier in the success UPDATE, `now()` in the lease check, the sweep's counter.
* Crashes between any two transactions; the retry of what was already done.
* Deletion races with everything an account does, is retried, aborted or half done.
* Wake-ups, slots and stop events inside one event loop.
* Provider events arrive twice, late and in any order, and one of two processing paths applies them.
* A session that loaded a row before it waited for the lock keeps the values it loaded.
* A long audit must stay true until a short transaction that publishes what it audited.
* What a process only holds in memory ends with it, and a stop has to write it in the right order.
* Something must finish although any step may fail: jobs, deletions, chains of jobs, goals, rows.

PROJECT.json lists each hazard at its line with the properties about it.

### What makes each component correct

* Job platform: one holder passes the fence, an effect is committed iff the row succeeded, terminal
  rows are final, the attempt budget is kept, every job ends; loops lose no row and no wake-up.
* Deletion: living accounts are untouched, deleted ones stay blocked and end closed, the closing
  sweep really was the second empty one, an aborted deletion leaves memory jobs acceptable.
* Chat turns: one turn per key, in order, on the context and balance it was admitted with, none
  during a deletion; a lease is lost only to its owner or after expiry.
* Memory chain: cursors are ordered, go forward within a generation and jump over no turn; one
  ingest job per user; whatever breaks, every turn is ingested and every memory judged.
* Checkpoints: the summaries are one chain without gap or overlap, published over processed messages
  only; a goal is kept until it is covered and is reached whatever hint is lost.
* Contracts: an ended preference is not shown again, the newest start is kept, every message is
  compiled or skipped in the end.
* Releases: what is promoted is what was audited, sealed rows only, one release; the service's
  writers are never kept waiting.
* Economy and trainings: one reward per key and forward in time whatever clock and time zone do; an
  item is paid once; tries and stages add up. (The balance is not always the ledger's sum, section 5.)
* Subscriptions: money follows the newest adjustment, the bonus follows its payment, a refunded period
  is opened by newer events only, and verified access does not go back past the row that was found.
* Usage ledger: usage that was measured is written unless a failure took it; a row settled once
  stays; no row stays open.
* Diary and pushes: one tick at a time writes a day's diary, every night settles its day, what was
  published stays; a push goes out once at most.

## 2. Modules

| Module | Models | Proofs |
|---|---|---|
| `JobAbstract` | what one job promises its producer | |
| `JobQueue` | rows of `async_jobs`, consumer tasks, reaper, deletion as far as it reaches jobs | `JobPlatformProofs` |
| `ConsumerLoop` | scheduling inside one consumer process | `JobPlatformProofs` |
| `SubjectDeletion` | one account's deletion, the auth service, the sweep, the epoch of its jobs | `SubjectDeletionProofs` |
| `ChatTurns` | chat requests of one user: leases, publication, deletion | `ChatTurnsProofs` |
| `ChatInference` | extends `ChatTurns` with what a request does between lease and publication | `ChatTurnsProofs` |
| `MemoryChain` | one user's memory jobs, the chat commits that feed them, the sweep, the operator's scripts | `MemoryChainProofs` |
| `Checkpoints` | one user's summaries: plans, pages, publication, goals, the sweep that recovers them | `CheckpointsProofs` |
| `Contracts` | one user's preferences: compile jobs, merging, redo, what a prompt shows | `MemoryChainProofs` |
| `Release` | the promotion of a prepared release beside the live service, over all accounts | `CheckpointsProofs` |
| `Subscriptions` | one owner's provider events on both processing paths | `EconomyProofs` |
| `HayEconomy` | one user's balance, rewards, advertisements, articles and items | `EconomyProofs` |
| `Trainings` | extends `HayEconomy` with the submissions of one training | `EconomyProofs` |
| `UsageLedger` | calls to model providers, their rows and the processes that make them | `UsageLedgerProofs` |
| `Diary` | the ticks of a night with one user: the diary of the day before | |
| `DailyTick` | extends `Diary` with the pushes of the day and the greeting | `DailyTickProofs` |
| `MC*` | finite instances, with symmetry where no liveness is checked | |

### JobQueue

Each variable is a column (`state`, `owner`, `attempt`, `limit` = `max_attempts`, `token`,
`leaseUntil`, `availableAt`, `expiresAt`) or a task's local copy (`slot`: the claimed job, its token
and what the task does next). Time is what the statements compare: a deadline column is unset,
future or past, and time passing moves one deadline. A token is a number per row instead of a uuid.
One action is one SQL statement with its commit: `Claim`, `Heartbeat`, `FinalizeRetryable`,
`FinalizeTerminal`, `FinalizeDeferred`, the three reap statements, `BeginDeletion`,
`AbortDeletion`. The success finalizer is two steps because its barrier test and its row lock are
at different times (`SuccessSnapshot`, `FinalizeSuccess`). `Abandon` is a crash or a finalizer that
never commits, at any stage. `JobAbstract` hides everything but open and closed jobs and effects;
`ImplementsJobAbstract` is the refinement.

### ConsumerLoop

`queue_loop` from await to await: a pass clears the wake-up, looks at its slots, claims or sleeps.
A task's end is three steps, as in the code: its last transaction, setting the wake-ups, and the
done callback that frees the slot. `signalled` remembers rows that were ready when a task of this
process finished, the ones a wake-up is about; rows made ready elsewhere are found by polling.

### SubjectDeletion

One account, any number of deletion requests, sweeps and jobs. `Begin`/`Abort` are the database
functions (either call may be lost), `DeleteAccount` the cascade, `SweepPromotes`, `SweepLoads`,
`Sweep` the transactions of a sweep, and `CaptureBaseline`, `Enroll`, `EnqueueIngest`, `ClaimJob`,
`AuthorizeJob`, `WriteVector`, `JobEnds` what decides whether a memory job may still write. The
vector store is a count. The account row exists from signup on.

### ChatTurns

A request is `Check` (no lock), `Accept` (lease and balance under the lock), `Infer` (no
transaction), `PublishCheck` and `Commit` (under the lock). `late` and `seenExpired` are what a
transaction's `now()`, fixed before its wait for the lock, knows of the lease's expiry. A normal
reply costs something; a fixed safety reply is free and checks in another order. The reply stored
under a key and the turn commit together.

`ChatInference` splits `Infer` into what `chat.py` and `agent/runtime.py` do: `JudgeFixed`, `Prepare`,
the history that does not fit (`PauseToWait`, `PauseToReduce`, `Resume`, `Reduce`, `Unavailable`), the
two calls of the agent (`Decide`, `Finish`, `Outgrow`) and the publishing transaction, which compares
what the reply rests on (`EnterPublish`, `Outdated`). A reply rests on the contract, recalled
memories and a diary entry; a behaviour follows one of them (`source`), and that another one turns
out changed is a `Fail`. `Rewrite` is anybody who publishes, edits or deletes that source, for all
requests at once; `Writable` is the lock it would wait for. `Summarise` stands for the jobs of
`Checkpoints`. Deadlines are choices: each wait may end with progress or too late. It is the code
with retention enabled.

### MemoryChain

The cursors and the generation are columns of `memory_pipeline_states`. `jobs` is the set of the
user's rows in the memory queue, told apart by their dedup key (kind, cursor or turn, generation,
hour, depth of replay), and rows stay in whatever state they end, because a terminal row still
blocks its key. An attempt is `StartIngest`, `Extract`, `Register`, `FinishIngest`, one per
transaction of the handler; `Halve` freezes a smaller chunk, `Fail` ends it anywhere. What an
attempt holds (`from`, `read`, `taken`) is in its row. How the row is claimed and fenced is
`JobQueue`; here only its holder finishes it. Chat is two steps, the unlocked load of the row and the commit
with the messages, the source cursor and perhaps the first job of a chain. Where a chunk ends
depends on pauses and days and is any turn within `MaxChunk`. The sweep is two steps as well, with
what it read in between; it skips a row that a committing chat has locked. `covered` is a history
variable, the turns read by attempts that moved the cursor in this generation. A judge's revision is
identified with the generation, the only thing that changes both. There is one sweep at a time,
dead rows are always young enough to replay (seven days in the code), and the user is enrolled.

### Checkpoints

Messages are counted in turns and a page is one turn. `cps` is the chain as published, `jobs` every
checkpoint row in the order of creation, each with the key its dedup key is made of; `done` is the
order of `finished_at`, by which rows are replayed and redone. A chat turn is `BeginTurn`,
`CommitTurn` (it holds the user's advisory lock in `tx` in between, which the sweep only tries); a
job is `Begin*`, its model calls (`CutShort` is output that ends too early and halves the piece) and
`Commit*` in its finalization. `Learn`, `Compile`, `Break`, `Mend` stand for the memory pipeline and
the contracts, as far as a publisher asks whether its range was processed. The hint that reserves
the next segment may be lost; `Sweep` takes dead plans up, makes them again up to the last depth, or
plans for the goal. The script of a behaviour says at which turns the history presses and how much
may go wrong.

### Contracts

One preference stands for all: a message starts it, ends it with a closed phrase, or does neither;
a long message is read in two pieces and says its word in one of them. A compile job is `Begin`
(document and cursor as read then), what the model hears, and `Commit` in the fenced finalization,
which publishes, restarts on what another job published, goes on with the next page, or, on its last
attempt, moves the cursor with less (`Merged`). `Truncated` is a cut-off answer, `Ask` the summary
publisher that waits for the range, `skip` the last row of a redo chain, which calls no model.
`Shown` is what a prompt sees.

### Release

The service's transactions (`txn`) change rows, then run the trigger: it shares a sentinel, looks at the
account's clock without waiting, counts or notes the change, or, if the clock is taken, waits for the
preparation's row in the second pass and records an event (which `rev` counts as well). An operator's
command is a sequence of transactions with what it remembers between them: `StartCollect` (which locks
the table of preparations, then reads the accounts) and `StartCommit` or `StartRefused` (which wait for
the advisory lock and only then look for a preparation), `PrepareUser`, `CatchUpCollect` /
`CatchUpCommit`, `LockForAbort` / `Abort`, and the promotion `Seal`, `Audit` (one long snapshot, no
locks), `LockRow`, `Compare`, `Publish`, with `RefreshSeal` and `RefreshOne` when clocks moved. A stage
says which locks a transaction holds; a promotion holds the row when it comes to the table, a start the
other way round. `TimesOut` is the promotion's limit, or the server ending an abort that waits in a
circle; `Fails` any other end. Builders insert parts of a chain under the shared preparation row. Of an
account's data the model keeps its messages (as versions), a count of changes of its other rows and
whether its canonical texts are complete.

### Subscriptions

A webhook event is a row of the inbox with the stages of the staged path (`payment`, `bonus`, `adjust`,
`access`). `Select` claims it (an abandoned claim comes back), `Legacy*` are the handlers of an unadopted
subscription, each one transaction under the owner's lock. The staged path is `Find` (the event's rows
are looked up), `Ask` (the provider answers or fails), `Match` (the row of the answer is looked up, and
one that came since counts as what was there before) and `Apply`, with no lock held between. `Raise` and
`Crash` end a worker anywhere. A store (chosen at the start) says which events may be sent and whether
the provider can be asked. One plan, one bonus and packs; every amount is one hay.

### HayEconomy, Trainings

A request is one transaction under the user lock, but a service that loads the profile first keeps
that balance (`LoadsFirst`): its load is a step of its own. Rewards have a kind and a local date;
`DayPasses` and `ChangeTimezone` move the clock and the zone. Advertisements are a session, a
server-side verification that may come twice or late, and the clean-up of expired sessions.
`Trainings` adds submissions: a picked answer is judged at once, a written one is `Reserve`,
grading, `SubmitWrite`, repeated by the client under one id while its lease may run out; tries come
back with the hours. Scripts are the sets of requests that arrive together.

### UsageLedger

A call is `Open` (its row is committed, or not, and `known` says whether the caller learned its id),
`Answered` or `NotAnswered`, then a close: of an answer through the buffer of its process
(`Enqueued`, or `CloseNow` when the buffer is switched off), of anything else at once (`Close`).
`FlushStarts` and `FlushEnds` are one flush, whose commit may be reported as failed. A process is up,
draining (calls still run), stopping (its flusher makes its last flushes) or down; `Crash` takes it
down from anywhere with what it holds. `age` is what the reconciler and the sums compare. `usage` is a
history variable: what a call measured is kept, or lost to a failure.

### Diary, DailyTick

One user and the ticks that come by. Local time is the quarters from 04:00 to 05:45, then 09h, 10h and
20h; `day` is the activity day that ended, whose diary is due. A tick's visit is one stage after the
other, each a transaction or the work between two: `StartDiary` (with the read that comes first in the
second hour), `Claim`, `Check`, `Write` (model calls, no connection), `Pick`, `Confirm` (the user's
lock, the second look and the text of the week read `FOR SHARE`), `Commit`, and `Release` in the
`finally` block. `claim` is the age of the claim's row in quarters: ticks start at some time within a
quarter, so a claim two quarters old may or may not be past its 30 minutes. `Fail` is an exception or
the time limit, `KillDiary` a process that ends anywhere. `NextSlot` lets a quarter pass when every
visit has ended, which the limits of a user (120 s) and of a tick (780 s) say, except that the deletion
of a claim may take into the next quarter (`stalled`). `EditText` is operators at work on the prepared
texts, `Move` a change of time zone. A push is `StartPush`, `Prepare` (the access token), `Book` (the
slot, committed), `Send` and, in the evening, `Record`; `Say`, `Hear` and `Greet` are the user in the
app. `served` and `excused` are history variables that `NightServed` is about.

## 3. Runs

| Run | Shows | Instance |
|---|---|---|
| `job_queue` | one holder of a row; refinement of `JobAbstract`; every job ends | 1 deferrable job, 3 tasks, 1 account, 2 attempts, 1 deferral, fair |
| `consumer_loop` | claimed rows and wake-ups are not lost; the stop ends every loop | 2 queues, 4 rows, 2 slots, batches of 2, fair |
| `subject_deletion` | living accounts left alone, two empty sweeps; deletion ends | 2 requests and 1 sweep, or 1 request and 2 sweeps; 1 promotion, 1 job, 3 vectors, fair |
| `chat_turns` | turns as admitted, none during a deletion, replies rest on nothing outdated, few attempts | 3 requests, 2 of one key, 2 in inference at once, 1 that may wait; limit 2, cost up to 2 |
| `memory_chain` | no turn skipped, one ingest job, all ingested, all judged | 2 turns, chunks of 2; 2 generations, or 1 fault and 2 hours, fair |
| `checkpoints` | the chain covers a prefix, calls are bounded, goals are kept and reached | 7 courses of up to 5 turns and 5 faults, fair |
| `contracts` | ends hold, starts are kept, messages are compiled | 5 conversations of up to 3 messages and 4 faults, fair |
| `release` | promoted as audited, sealed, one release; writers end | 2 operators, 2 writers, 1 builder, 2 accounts, 3 plans of 3 or 4 commands, fair |
| `subscriptions` | money, access and refunded periods | 2 workers, 12 stores of up to 3 events |
| `hay_economy` | rewards, payments, tries | 10 sets of up to 6 requests |
| `usage_ledger` | measured usage is written, settled rows stay, open rows are settled | 2 calls, a consumer and an API process or a tick, a buffer of 1, fair |
| `daily_tick` | one writer of a diary, no night without one, published texts stay, one push | 2 ticks, 6 courses of up to 2 nights, 2 texts, 2 candidates, 2 edits or a change of zone |

Two runs choose between two kinds of courses at the start (`cast`, `course`), because a liveness
property holds in one of them only and the other has properties of its own; a property that is
about one kind says so in its name (`...There`, `...OfOne`).

Why the bounds suffice. Two tasks on one row give every race of an old and a new holder, a third
one a holder in between; two attempts (three in the code) give a retry and an exhausted budget, and
a deferral raises the limit before or after a failed attempt. Rows meet only in a claim, which takes
any of them, and in a deletion, which treats each alike; safety is proved for any number of rows.
Three rows of one queue are one more than its slots. Two requests are the least with a competing
abort, two sweeps the least that overlap, three vectors (`MaxWrites`) the least with a write after
each of two sweeps. Three chat requests are a retry pair and a stranger, so every takeover has a
third party; `MaxCost` bounds the tokens of a turn, and `MaxAtOnce` how many requests infer at the same
time: one that lost its lease and one that took it. Two turns (`MaxTurn`) of chunks of two
(`MaxChunk`) give a turn that arrives while the chain finishes and, by chunks that end early, a
successor; one fault (`MaxFaults`) gives a dead job and its replay; two generations (`MaxGen`) give
a re-extraction and its rollback; `MaxHour` counts the hours whose sweeps have keys of their own.
Redo depth 1 (4 in the code) gives a row made again and one that may not be. `Scripts` bound what a
user does and what fails (`faults`, `failures`, `toggles`, `cuts`, `pauses`, `switches`) so that every path of
recovery is taken in one of them: an outage past the last depth, a switched-off feature, a long
message with the word in either piece. Three segments are one more than a chain needs to have a
middle. `Stores` pair every adjustment with every purchase it can race with; three events of one
transaction are the least with an order that differs from arrival twice; `changes` counts the answers
of the provider, `StageTries` and `MaxAttempts` the tries of a stage and an event. Two promotion
attempts (`MaxTries`, 3 in the code) give one refresh; `MaxDeaths` bounds dead preparation jobs, the
plan's bound the commands; two operators race every transition. `MaxDay`, `MaxMoves`, `MaxTime`
bound clocks and zone changes: a day forward, back and forward again. Two calls and a buffer of
one (`MaxBuffer`) overflow it by an answer and by what a failed flush puts back; a tick and an API
process stop differently from the consumer, which alone reconciles. Two ticks are the least that race
for a claim; `MaxMent` and a course's edits give a withdrawn, a rewritten and a used-up text,
`MaxTries` (3 in the code) a candidate that changed and the end of tries; two nights (`MaxDay`) a
text given the night before, one change of zone an hour or a day that comes twice. Symmetry is used only in runs
without liveness, over sweeps, requests or workers that no definition tells apart.

Deadlock is checked where the system never stops by itself: the queue of a finished consumer still
receives rows, a chat lease of a finished user can still be deleted or not. The other models do stop
(`CHECK_DEADLOCK FALSE`): a conversation that is worked off, requests that are served and a release
that is promoted leave nothing to do.

### Fairness

* `JobQueue`: a claimable row is eventually claimed (strong fairness: slots come and go, the batch is
  ordered and the number of rows finite); every stage of a task is under a timeout; the reaper runs
  on an interval; leases and delays pass. Crashes, heartbeats, enqueues and deletions are never forced.
* `ConsumerLoop`: runnable callbacks run, sleeps and handlers have timeouts. Nothing forces the stop.
* `SubjectDeletion`: the tick queues a sweep every time and failed ones are retried, so loading and
  sweeping are strongly fair; handlers end. Nothing forces the auth service.
* `MemoryChain`: the consumer works jobs off, the tick queues a sweep every minute, hours pass.
  Applying a sweep is strongly fair: a row is not locked by chat at the moment of every sweep.
  Nothing forces chat, a failure or an operator.
* `Checkpoints`: jobs begin and end, a chat transaction ends, facts and preferences are worked off.
  The sweep is strongly fair: it only tries the user's lock, comes round every minute, and meets it
  free in the end. So is compiling preferences, which repairs interrupt.
* `Contracts`: jobs begin and end, the waiting publisher asks again.
* `Release`: a transaction of the service takes its next step when it can. A start commits or is
  refused once the advisory lock is free, an abort ends when the table is. A promotion that waits for
  the table ends by its own limit (150 ms for a lock, one second at most in all), an abort that waits
  for a start that waits for it by the server's deadlock detection (`TimesOut`). That a transaction
  fails otherwise (`Fails`) is never forced. The commands are bounded, so the row is not taken for ever.
* `UsageLedger`: calls, flushes and stops have time limits, a tick comes to its end, a process is
  started again. Days pass, and the hourly reconciler is strongly fair: some day a consumer stays up
  for an hour. A day does not pass over a call in flight, nor over what a buffer holds unless all
  flushes failed that long. Nothing forces a crash, a stop or a call.

## 4. Proofs

The invariants below are proved for all values of the constants, from the assumptions the modules
state; the runs show the same properties on the instances above.

`JobPlatformProofs` proves of `JobQueue`, for any rows, tasks, accounts and budgets, from the assumptions that the null
values are none of the rows or users, that the checkpoint rows are rows, and `MaxAttempts >= 1`:

* `TypeCorrect`, `LeaseCorrect`, `BudgetKept`, `EffectOnce`, `FenceExclusive`;
* `ClosedForGood`: the action property `TerminalIsFinal`;
* `Refinement`: `Spec => ImplementsJobAbstract`.

The inductive invariant `IInv` is the type invariant, `LeaseIffRunning`, `AttemptBudget`,
`EffectIffSucceeded` and `TokensDistinct`. `SingleHolder` is not inductive alone: that two tasks
with the same row hold different tokens has to be known also of those that lost their lease,
because a later claim must not hand an old token out again. `TokensDistinct` says so: tokens of
busy tasks are positive, at most the number issued for the row, and distinct per row. Rows lean on
one another the same way: a fenced step finds its row running, hence (by `EffectIffSucceeded`) not
applied yet, hence applying it once is right. The refinement splits the steps by what they do to
`state` and `applied` (`RowStep`) and maps each to an abstract step or a stutter.

Of `ConsumerLoop` it proves, for any finite set of rows (`RowAssumption`), queues, slots and batch
size, `LoopTypeCorrect`, `NoRowDropped`, `WakeupsArrive`, `SlotsKept` and `StoppedMeansDrained`. A row
is in exactly one place, waiting, in a claim's answer or with a task that holds a slot (`Places`); a
claim in flight asked for no more rows than there are free slots, and its answer fits
(`SlotsPromised`); from the moment a claim found nothing, an unset event means that no task finished
beside a ready row since (`WakeupPending`).

`SubjectDeletionProofs` proves, for any requests, sweeps, promotions and jobs, `EpochKept`,
`ClosingConfirmedOnce`, `LivingLeftAlone` and `GoneBlockedForGood`. What a sweep has loaded was
loaded when the account was gone, and gone it stays (`SweepsOnlyGone`), so no sweep touches a living
one; the barrier over a living account is open or was raised by a request (`LiveBarrier`,
`BarrierNamesOperation`). An operation raises the barrier once, so one that closed it does not find
it raised by itself again (`ClosedIsOver`, `IdleIsUnused`, `PromotedIsGone`, `ClosedOnce`). Only the
first epoch is ever captured by a baseline or a pipeline, and it is what an abort restores
(`FirstEpoch`). `TwoEmptySweeps` is about sweeps that do not overlap (`OneSweepAtATime` is its
hypothesis; without it TLC closes on an old count, section 5): what the sweep has read is then what
the ledger says (`CountsHold`), and a count that is enough ends with an empty sweep.

`ChatTurnsProofs` proves, for any requests and keys, any limit and any cost, `TypeCorrect`,
`KeyGetsOneTurn`, `AdmissionKept` and `DeletionStopsTurns`. What a request captured
with its lease stays true for as long as no turn was published since, and the revision tells whether
one was (`CaptureInStep`, `CountsAgree`); from the publish check to the commit the lock is held, and
nothing that was checked changes under it (`LockByCommitter`, `CheckedHolds`). A normal reply was
admitted below the limit (`AdmittedBelowLimit`), and every turn has left a reply under its key
(`TurnsHaveReplies`), so no second one is published. `InferenceRefinesTurns`: every step of
`ChatInference` is a step of `ChatTurns` or leaves its variables alone, so all of this holds of
inference too. `PressureEnds` and `RepliesRestOnCurrent` prove `PressureSound` and
`PublishedOnCurrent` from `InferenceInv`: a reduction is the last attempt and a resumption happens
once (`AttemptsCounted`), and what the publishing transaction compared cannot be rewritten while it
holds the locks (`BasisKept`).

`MemoryChainProofs` proves for every number of turns, chunk size, number of faults, generations and
hours, from the assumption that these are numbers and `MaxChunk >= 1`:

* `TypeCorrect`; `CursorsNeverGoBack` for the action property `CursorsForward`;
* `CursorsOrdered` and `NothingSkipped`, from `IInv`: an attempt whose generation still holds read
  from a cursor not ahead of the present one (`ReadsFromBehind`), so what it covered closes the gap
  it makes the cursor jump. It holds because a new generation is begun only when no attempt runs;
* `OneChain` (`OneIngestUntilReset`) and `OneKeyPerCursor`, as long as no operator has reset the
  cursors, which is as long as `gen = 0`: it only grows (`GenGrows`). Afterwards `OneIngestAlive` is
  false (TLC finds two chains with `MaxGen = 2`, `MaxFaults = 1`: after a re-extraction and its
  rollback the sweep replays a dead job of the old generation beside the chain chat started). `ChainInv` says who carries the chain: a row is
  *open* if it waits, runs, or is dead and not replayed; there is at most one, it exists only while
  the user is behind, and a sweep that may resume has seen that there is none. The proof needs the dead
  rows as well as the live ones, because the sweep turns the former into the latter.

It also proves of `Contracts`, for any conversation, number of failures, toggles and redo depth,
`EndedForGood` (`EndedNotRevived`) and `NewestKept` (`NothingHeardLost`), assuming that the messages of
a script are messages and its bounds numbers (`ScriptAssumption`). Neither property is inductive:
`ContractInv` has to say of a task that read the first piece of a long message that its working copy
is the document it was read beside, taken further by that piece at most, with every end up to it
applied (`TaskSound`), whatever becomes of the row: a successor, a retry and a redo carry the copy on.
`DocSound` says the same of the document and the ends up to the cursor; of the ends after it, which
a prompt looks up itself, nothing has to be known. A copy is only published over the document it was taken from
(`Moved`), so nothing another job published is undone. That a rendering may have become too large is
the one premise under which a document covers less (`calm`).

`CheckpointsProofs` proves, for any scripts, budgets, depths and segment sizes, `PrefixCovered`,
`PublicationsProcessed`, `GoalsKept` and `CallsStayBounded`. Every row of the queue, whatever it was continued, taken up
or made again from, begins where the checkpoint it names ends, and gets further (`SoundQueue`); the
published chain has no gap (`Chain`); the goal an open chat transaction will write is not behind the
stored one, or ends it because the summaries have reached it (`SoundChat`). A job whose parent was
superseded is recognised in its finalization, so that only the successor of the latest checkpoint is
published.

`CallsBounded` needs no sum over the rows of a plan, although pages, smaller chunks, resumed and redone
rows are rows of their own: each carries what it and the rows before it have called (`spent`). Its
invariant counts what such a row may still call in this pass (`StillLeft`): the pages that are left and
the calls that are left, where a page that succeeds gives its call back to the next one. Both together
stay within what the passes so far allow (`Thrifty`): a call moves one from the second to the first, a
row taken up by the sweep gets back the attempt it ended with, and a row made again starts a pass of
its own, one deeper. So one pass makes at most one call for each page and each attempt but one,
switches and outages included.

It also proves of `Release`, for any accounts, histories, writers, builders, operators and plans,
`ReleaseIsSealed` (`OneSealedRelease`) and `AuditedIsPromoted` (the action property
`PromotedAsAudited`), assuming that an account starts with a history or does not exist yet, that no
writer is a builder and that there is a first try (`ReleaseAssumption`). `ReleaseInv` follows the promotion's argument. An audit holds no lock, so what it
read is worth something only through the clocks: as long as an account's clock reads as it did, what
the account holds reads so too (`Same`). That is true only because a writer that has changed rows, but
not yet looked at the clock, is known to be about to (`WriteSound`), and because the clock may be
compared when no such writer can still commit (`NoneShared`, `NoneCounted`); from the comparison on
everything stands still (`Compared`). An abort, a catch-up and a publication each raise the
preparation's version, so an operator that finds the version it audited finds the same building
preparation (`AuditSound`), and an audit may be overtaken by a catch-up without harm. Two operators
never both collect users or both hold the row (`OpsApart`).

`DailyTickProofs` proves all four properties of its run, for any ticks, days, texts and courses, from
the assumption that `None` is no number, tick or kind. A claim is one tick's from its insertion to its
deletion, and while it is, its age is zero, or one if the deletion is late, so it cannot expire under
its owner (`ClaimsHeld`); behind the user's lock nobody settled the day since the second look
(`LockedChoice`). `NightServed` needs to know what an unsettled day may still hope for
(`NightGoesOn`): a claim left by a killed tick is at least as old as the night since 05:00, so that it
has expired by 05:45, and from the first visit at 05:45 on somebody is still about to write. A request
to FCM goes out only for a slot just taken, which is one tick's (`SlotsTaken`).

`UsageLedgerProofs` proves `UsageKept` and `SettledStays` for any calls, processes, kinds and buffer
size. Usage of an open row belongs to a call that is closing or waits in a buffer or a flush, and
then the row is younger than a day, so the reconciler does not close it (`UsageHeld`,
`FlightsFresh`). A stopping process has no call in flight, and after its last flush its buffer is
empty unless that flush failed (`StopsLast`), which is why an orderly end loses nothing.

`EconomyProofs` proves of `HayEconomy` and `Trainings`, for any scripts of requests, catalogue, clock and
numbers of stages and tries, `RewardsCorrect`, `PaidOnce` and `SubmissionsCorrect`. It assumes that a
request names something that exists (the handlers look it up first), that the numbers are numbers, the
price and the tries are not zero, and that `None` is none of the values. `EconomyInv` reads every fact
off the ledger, whose rows never change: each row of a reward has its claim and a date no other row of
its kind has, and dates of daily rewards never go back (`DaysRewarded`), each date has as many
advertisement rows as its counter says (`AdsCounted`), each owned product one row (`PaidForOwned`), each
reviewed stage one (`StagesPassed`). `RewardSteps` sorts the steps once by what they claim. That tries
come back with whole hours only is a lemma about quotients: the remainder of an hour stays in the row, so
tries left and wrong answers together exceed the full number by no more than the hours up to the row's
time (`TriesCounted`).

Of `Subscriptions` it proves, for any events with any stamps in any order, any workers, stores and
answers of the provider, `BooksCorrect`, `MoneyCorrect` and the action properties `AccessCorrect` and
`RefundsCorrect`, from the assumptions that every event has a kind, a transaction and a positive stamp,
that the provider's answers are a finite sequence of states, and that there is at least one try.
`InboxInv` says that at most one payment carries the grant and the grant says what became of it
(`Balanced`), that a legacy handler holds a row nobody else may take (`LegacyHands`), that what a worker
fetched is not newer than the provider nor older than the row it found at first (`InboxTyped`), and that
the money of a transaction is where its newest committed adjustment put it (`MoneyAt`). Each step leaves
the books alone (`Quiet`) or adjusts one transaction on one of the paths (`MoneyMoves`). The set of
events need not be finite, so that a newest one exists is a lemma of its own, `NewestExists`.

Only model-checked: liveness (`EventuallyTerminal`, `StopEnds`, `GoneEventuallyClosed`,
`EventuallyIngestedThere`, `EventuallyJudgedThere`, `GoalReached`, `CatchesUp`, `WritersFinish`,
`EveryCallSettles`), which needs fairness and ENABLED. Every safety and action property of a run is
proved, `TwoEmptySweepsOfOne` in the form of `TwoEmptySweeps`. Proved and no longer part of a run, because the runs' other properties
are broken by the same mistakes: `ClosedOncePerOperation`, `GoneStaysBlocked`, `EpochFollowsPipeline`,
`ClaimedRowHasTask`, `AttemptBudget`.

## 5. Findings and observations

All runs pass. Seen while modelling, with a bound or a condition in the property that holds:

* Two rewards are requested at once: the second adds to the balance its session loaded before it
  waited for the lock, and the first amount is in the ledger but not in the balance, although
  `hay_ledger.py:3` says that the row lock prevents balance races. TLC shows `BalanceIsLedgerSum`
  violated with `tlc -config MCHayEconomyLost.cfg MCHayEconomy.tla`.
* A worker finds no subscription, asks the provider, and another worker creates the row from a newer
  answer before the first one looks up the row of its answer (`subscription_processing.py:365`). That
  row then counts as what was there before (`:374`), so `apply` sees no change (`:674`), does not ask
  whether a row appeared (`:695-705`), and puts the older answer over the newer one, although
  `docs/SUBSCRIPTIONS.md:80` has a value that changed since the read checked again
  ("조회 전 값이 달라졌으면 다시 확인한다"). `AccessForward` names this as its one exception
  (`MetRow`); TLC shows `EvidenceForward`, without it, violated with
  `tlc -config MCSubscriptionsLate.cfg MCSubscriptions.tla`.
* A success whose UPDATE waits for the row lock that `begin_subject_deletion` holds commits its effect
  after the barrier went up (`jobs.py:465`, `PublishBlockedByBarrier`). TLC shows it with
  `tlc -config MCJobQueueBarrier.cfg MCJobQueue.tla`.
* A background call has no deadline; when it times out after it was sent, its row is closed as failed
  without tokens (`llm.py:437`), although a lost answer is not to look like no usage
  (`usage_ledger.py:8-9`).
* Overlapping sweeps close on an old count: A reads one empty sweep, a late job writes a vector, B
  deletes it and starts the count again, A closes (`privacy_sweep_jobs.py:10-11` against `:139`).
  One queue's sweeps overlap only when a lease is lost; `TwoEmptySweepsOfOne` is about the others.
* An aborted deletion restores the epoch, so work authorized before it is accepted again.
* A loop with full slots can clear the wake-up of a finishing task; it then sleeps one idle interval.
* The memory sweep leaves a user with a dead job to the replays, also when that job's replay is dead
  and its successor long succeeded: with two faults a chain that breaks later stays broken
  (`memory_sweep_jobs.py:674`). The sweep's page of fifty dead jobs, oldest first, can fill up with
  rows that are never replayed (`:678`). Rolling a re-extraction back leaves dead jobs of an earlier
  generation replayable.
* With a subscription that changes paths between an older reversal and a newer refund, the older
  one can undo the newer; `MoneyFollowsNewest` is about adjustments of one path.
* After the user's language changed, the rendering of a document may be too large; the last attempt
  then passes an end without applying it, and the preference is shown again (`switches = 0`).
* `freeze_job_payload` writes into a row without the fence; a replayed row copies the limit that
  deferrals raised. A deletion that is begun and neither finished nor aborted is only reported.
* A checkpoint job whose lease has run out but was not reaped is cancelled by its own packing
  control; a cancelled plan is neither taken up nor redone. Succeeded rows are scrubbed after 24
  hours: the payload of a plan that was switched off is gone while its key stays taken.
* A tick killed with a user at or after 05:15 leaves a claim that need not have expired when the last
  tick of the night comes at 05:45; the day then stays without a diary, because nothing looks at it
  again (`tick.py:202`). `NightServed` excuses it, and the tick of 05:45 that fails.
* Of the release's functions `fence_activation_sources` and `lock_audited_registry` are never called
  and the state `prepared` is never assigned. A start takes the table lock first and has
  no limit for its wait for the advisory lock: a promotion or an abort that holds the row and wants
  the table waits for it in a circle, which the promotion's limit or the server's deadlock detection
  ends; until then the service's writers wait for the row.

## 6. Not modelled

PROJECT.json lists every component with its status. Model providers, FCM, ad and payment providers
are I/O; catalogues and text generation have no state of interest. A vector written after the
closing sweep stays: no property claims otherwise. Of the modelled components:

* Chat: prompts and their rendering, what the guard judges, greetings, the reading API, provider
  clients and their retries within a call, the size of a history.
* Job platform: replay, redo and scrub of rows other than checkpoints' and contracts'; notification.
* Memory: the classifier, day-boundary jobs, vector deletion, embedding repair; one sweep at a time,
  dead rows young enough to replay.
* Checkpoints: summaries of the time before the chain and their baseline, changes of generation or
  epoch, the foreground wait, the sweep's own cursor.
* Contracts: the older compile path and its baseline, drafts that need a confirmation, changes of
  epoch, errors that are never retried, and the binding to a preparation.
* Release: the proof of a chain's contents and of a tail's size, account deletion during a
  preparation, jobs of the active release, details of day boundaries; filling in texts is one flag.
* Subscriptions: free periods, events without an amount, `UNCANCELLATION` and
  `SUBSCRIPTION_EXTENDED`, transfers, reports and operators' repairs.
* Usage ledger: prices, the reconciler's page of 200 rows, the price cache.
* Economy: fortune advertisements, the signature of the verification callback.
* Diary and pushes: what is written, repaired and translated, recall documents, the reading API,
  which words a push has, dead device tokens; the greeting of a first start, and the ordinary
  greeting when the evening's words cannot be read (`chat.py:2862`). Conflicts on the diary's
  unique indexes do not happen behind the user's lock. Of the tick, the daily jobs it queues, its
  report and its alerts.

## 7. Plan

1. `JobHistory`: replay, redo and scrub of dead rows; the unfenced payload freeze and redaction.
2. `MemoryChain` further: an abstract specification "every turn once, in order" it refines,
   composition with `SubjectDeletion`'s epoch, several users sharing the sweep's page.
3. The agent runtime's greetings and its calls that outlive a turn.
