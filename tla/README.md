# SyncKar in TLA+

SyncKar keeps business records of a single-window system (SWS) and of department
systems (Shop Establishment, Factories) in step.  A change made in one system
is polled or pushed, becomes an event in a PostgreSQL outbox, is drained to Kafka,
read by a consumer thread, handed to Celery, and written by a dispatcher to the other
systems, whose own feeds report it back.  This directory models that loop, the dead
letter queue, the hard reset and the nightly reconciliation in TLA+, checks it with TLC and proves the parts that
matter most with TLAPS.  Paths below are relative to `src/synckar/synckar/` unless
they start with `src/`.

## Inventory

| Part | State it keeps | Operations | Talks to |
|---|---|---|---|
| Outbox (`pipeline/outbox.py`) | `outbox` table; per run: locked rows, producer queue, delivered ids | `write_to_outbox`, `drain_outbox` | pollers, webhooks and the DLQ route write; Celery beat drains; Kafka |
| Kafka consumer thread (`api/main.py`) | positions, committed offsets, the message in hand | `consumer_loop`: poll, hand over, wait, commit, restart | Kafka, Celery |
| Propagation task (`workers/celery_app.py`) | Celery message, retry count, `dead_letter_queue` | `propagate_event_task`, `_write_to_dlq` | dispatcher, PostgreSQL |
| Dispatcher (`pipeline/dispatcher.py`) | results of one attempt | fan-out, `_propagate_to_adapter` | everything below |
| Idempotency engine (`pipeline/idempotency.py`) | one Redis key per event and adapter | `reserve`, `complete`, `release`, `check` | Redis |
| Circuit breaker (`pipeline/circuit_breaker.py`) | per adapter: state, failures of the window | `is_call_permitted`, `record_success`, `record_failure`, `attempt_half_open` | Redis, probe task |
| Conflict detector (`pipeline/conflict.py`) | one Redis key per business and field, 15 minutes | `check_and_register`, `resolve_conflict` | Redis, `conflict_log` |
| Rate limiter (`dispatcher.py` 66-80) | a sliding window in Redis | `_check_rate_limit` | Redis |
| Pollers, watermark, loop guard, webhooks (`adapters/*/poller.py`, `pipeline/watermark.py`, `pipeline/loop_guard.py`, `api/routes/webhooks.py`) | watermark in Redis and PostgreSQL, loop-guard keys | `poll`, `get_watermark`, `set_watermark`, `mark_write`, `is_recent_write` | source systems, outbox |
| Audit ledger (`audit/ledger.py`) | `audit_ledger`, `conflict_log` | `write_audit_row`, `write_conflict_record` | PostgreSQL |
| DLQ route (`api/routes/dlq.py`) | `dead_letter_queue.status` | resolve, discard, retry | outbox |
| Reconciliation (`workers/reconciliation.py`) | none of its own | `reconcile_sample`: nightly sample, corrections | source systems, outbox |
| Hard reset, mock proxy (`api/routes/mock_proxy.py`) | `hard_reset_timestamp` | reset of every store | all stores |
| Clients, translators, models, configuration, schema copilot, dashboard, mocks | no pipeline state | | |

What is hard in it: Redis, PostgreSQL, Kafka and the targets are four stores with no
common transaction; Celery delivers a task again after a lost worker and after every
retry; the same event may arrive twice from Kafka; drain runs overlap; several workers
execute Redis command sequences (reserve, breaker, conflict window) that are not
transactions; every external call can fail, time out after it took effect, or be cut by
the loss of the process.  `PROJECT.json` lists these hazards at the lines where they bite.

What makes each part correct: the outbox never marks an event that Kafka does not hold
and never forgets one; the consumer skips nothing and is blocked by nothing; the
dispatcher writes an event to a target once unless knowledge of a write was lost, never
gives up a write that did not happen because a key claims it did, never leaks a
reservation, and lets no department wait for another; the breaker opens at its threshold
and closes after a recovery; two systems that change the same field never overwrite each
other without a conflict on record; a watermark leaves no change behind in silence; what
SyncKar wrote does not go round for ever when the feeds report it back; a parked event
stays until somebody decides about it, and a retry of it writes nothing twice; after a
hard reset no message from before it is propagated.

## Modules

| Module | Models | Proofs |
|---|---|---|
| `Dispatch` | propagation task + dispatcher + idempotency engine | `DispatchProofs` |
| `Channel` | abstract at-least-once channel | |
| `Outbox` | outbox table, writers, overlapping drain runs, Kafka producer | `OutboxProofs` |
| `Consumer` | Kafka consumer thread, the lifetime of the tasks it creates | `ConsumerProofs` |
| `CircuitBreaker` | one breaker, command by command | `CircuitBreakerProofs` |
| `Conflict` | conflict window, policy matrix and what the dispatcher does with the verdict | `ConflictProofs` |
| `Ingress` | change feed of one system, poller, watermark in two stores, webhook | `IngressProofs` |
| `Sync` | the closed loop of one field: systems, pollers, loop guard, dispatch, conflict window, nightly run | `SyncProofs` |
| `DeadLetters` | dead letter queue and its route, outbox and queue around it, hard reset, stale check | `DeadLettersProofs` |
| `MCDispatch`, `MCOutbox`, `MCConflict`, `MCSync`, `MCDeadLetters` | values and symmetries for TLC's instances | |

Each module keeps in full the component it is named for, and as little of its neighbours as
the component can see: `Dispatch` takes the verdict of breaker, limiter and conflict detector
from a set, `Conflict` takes a write as succeeding, retried or given up, `Sync` composes the
pollers of all systems with dispatcher, conflict window and reconciliation and keeps no
failure but the loss of an event, `DeadLetters` keeps of a task its beginning and its ways to
end.

### Dispatch

One action is the code between two points where another process can act.  A task goes
`new/queued -> admit -> detect -> reserve (-> peek | probe) -> call -> complete -> audit`,
or `-> release` on an error, then to the next adapter or to `finish`.  `idem` is the Redis
key per event and adapter, `applied` and `value` the target, `audit` and `dlq` the tables.

* `Reserve` is `SET NX`; `Peek` is the `GET` of line 81, a command of its own.
* `ReserveUnanswered` is a `SET NX` that took effect and whose reply was lost: the key is
  IN_PROGRESS and the task goes on as if it had not asked (`idempotency.py` 100).  For every
  other command a lost reply is the command followed by a lost connection, or a lost command.
* `Release` deletes the key whoever holds it; the outer handler (line 417) reaches it too.
* `Complete` with Redis lost is not fatal: the key stays IN_PROGRESS.
* `Crash` is the loss of the worker anywhere; `task_acks_late` and
  `task_reject_on_worker_lost` put the task back on the queue.
* Broker and cache are one Redis server in the shipped configuration, so a task that ends
  while it is down is not acknowledged (`Acknowledge`).

Abstractions: rate limiter, breaker and conflict detector answer from a set (the last two
have modules of their own); an event is one
field of one business; no event is stale and a COMPLETED key (72 hours) never expires
(`DeadLetters` has both); an IN_PROGRESS key (one hour) expires only when nobody is between
`reserve` and the end of that turn, since a turn takes seconds.

`doubt` and `unowned` are history variables.  `doubt[k]` counts the occasions on which a
write took effect and the pipeline lost the knowledge of it.  `unowned` is set once a task
went on without a reservation of its own: Redis was down at `reserve` or its reply was lost,
or the outer handler releases a key for the second time because the audit row of a 4xx failed.
`Exclusive` therefore does not speak of what that second release does; `MCDispatch_race.cfg`
does (see Findings).

### Outbox and Channel

A row is its rank in `created_at` order.  A drain run selects the oldest unlocked PENDING
rows (`FOR UPDATE SKIP LOCKED`), queues them to its own producer, gets delivery callbacks,
flushes for at most ten seconds, marks what was delivered and commits.  Failures: a
`produce` that raises, a refused delivery, a lost acknowledgement that the client resends,
a resend that overtakes, a flush timeout with requests still on the wire (`stray`), a failing
UPDATE or COMMIT, a lost worker.  `Channel` says what the module's docstring promises
("at-least-once delivery"); `Outbox` implements it with accepted = committed rows,
delivered = rows in the log, settled = PUBLISHED rows.  Its liveness is that what was accepted is
delivered and what was delivered is settled, not sent again for ever.

### Consumer

`consumer_loop` reads a message (the position moves), creates a task, waits, and on success
commits with no arguments: the position of every partition.  Failures and timeouts only
`continue`; a task that outlives the wait runs on (`late`).  Any exception outside the wait
closes the consumer, and the next one starts at the committed offsets.

### CircuitBreaker

Every Redis command of `record_success`, `record_failure`, `attempt_half_open` and `get_state`
is an action of a worker or of the probe.  A lost connection makes `get_state` answer CLOSED
and ends every other method; the command may not have taken effect (`Lose`) or only its reply
was lost (`LoseReply`).  The sorted set is a set of failures `<<score, number>>`.  That a score
holds at most `Threshold` of them is a bound of the model: the code's set has none, but the code
only compares its cardinality with the threshold.  `excused` is set when recorded failures were
passed over: by a connection lost once the `ZADD` had taken effect, or by a CLOSED written by `record_success` over failures that had reached the
threshold since its `DEL`; the next `DEL` clears it.  `OnTheWay` names the workers that
`TripAccounted` waits for: one that has yet to count, or one that counted enough and has yet
to write OPEN.

### Conflict

One field of one business, held by SWS and every department.  A user's change is an event;
SWS events go to every department in turn, department events to SWS.  Before each write the
worker looks into the window (`GET`), registers its event (`SET`, a command of its own), or
logs a conflict and lets the policy decide.  `check_and_register` returns on a conflict without
registering anybody, so the window keeps its entry even when that entry lost.  A loser whose
value equals the winner's goes on, because the dispatcher compares values.  `LAST_WRITE_WINS`
compares Kafka offsets of different topics; `base` lets the topics start apart.

A round begins with an empty window and ends when all events are done and the entry expires.
`settled` (the changes before the round) and `escaped` are history variables.  `escaped` is set
when window or log could not do their work: a lost connection, a lost `conflict_log` row, an
entry that expired under events still on their way, an event refused by limiter or breaker until
its retries are used up, a worker that registers over what it did not see.  An entry that
expires under events on their way counts as a fault.  Reservation, retry limits and audit rows are those of `Dispatch`; here a write
succeeds, is retried or is given up.

### Ingress

A change is the time stamp its PUT took before its COMMIT, so `Begin` and `Commit` are two
actions and a change may become visible after one with a later stamp.  `kind` says whether the
change is a user's, an echo of a write of SyncKar, or unusable (no UBID, or not translatable).
Stamps are distinct.  A tie behind the feed's `timestamp > since` (`mock_sws/app.py:151`) is
either read in one poll, or its second change becomes visible after the watermark has taken the
stamp of the first, which is what happens to a change with an older stamp.
A poll is `Look -> Fetch -> Remember -> Persist -> WriteEvent*`: the watermark is read from
Redis or else from `poller_state`, the feed is read, the watermark moves in Redis and then in
`poller_state`, and only then `poll_*_task` writes the events to the outbox, each in its own
transaction.  `Break` is a failing call or a lost worker at any place, `LookBlind` and
`RememberFails` are the two lost connections the code swallows, `Wipe` is Redis losing its
memory.  `Push` is the webhook, which asks neither watermark nor loop guard.  `dropped` and
`setbacks` are history: the events a failure dropped behind a watermark, and the SETs that
left Redis with an old one.

### Sync

One field of one business in SWS and every department.  `Edit` is a user's change; `Poll` turns
unguarded changes into events and moves the watermark to the latest of them; `Dispatch` does
window, verdict, mark, write and idempotency key of one event in one step; `StartReconcile` and
`Compare` are the nightly run, department by department; `Expire` takes any of the guard keys
and the window away, which have a TTL each and run out in any order, though not while an event
is on its way; `Lapse` is a day, after all of them have.  A loop-guard key is
the triple the code builds it from: `mark_write` is called with the canonical field name and the
value before translation, while a department's poller asks with that department's field name and
the value as the system stores it.  `Fields` therefore gives each field its name in each system
and what the mapping makes of each value.  `GiveUp` is an event given up on its way, `Overtake`
a change of another field or business that moves the watermark past guarded changes; both count
as losses.  Fields resolved by LAST_WRITE_WINS (`employee_headcount`, `operational_status`,
`last_inspection_date`) are left out: the verdict needs Kafka's sequence numbers, which `Conflict` models;
the mappings hand them over as they are (`int` leaves a headcount what it is), so under `Apart` an echo that meets the window carries the
window's value and goes on whatever the verdict.  No value is empty: the nightly run passes over
a field that is empty on one side.  With `Apart`, users change the field when feeds, queues and keys have come to rest,
and the nightly run starts on a quiet system; this is the assumption under which the loop
guard works, and the `echo` run is the same module without it.  `RestsInAgreement` is the safety
property behind the three of liveness: whenever the system is at rest (`Settled`) every system
holds the last change of a user.  `EventsOf` builds the events of a poll in a recursive function,
so that it can be reasoned about.

### DeadLetters

A message is an event and the epoch of its `received_at`, the number of hard resets that had
taken their time before.  `Take` makes the stale check; `Park` is a task that cannot start on
its message; `Write`, `WriteUnknown` and `Again` are its ways to end.  `Close` is a steward's
resolve or discard of a row in any status, `Select` and `Retry` (or `RetryFails`) are the two
ends of the retry's transaction, with other stewards and the reset between them.
`hard_reset_all` is `Clear, Seed, Truncate, Forget, Stamp`, each with its failure: some end the
reset, after others it goes on.  `TRUNCATE` waits for open retries, as PostgreSQL makes it.
Rows made by `seed_dlq` have no `received_at`, so a retry gives them the present one.

## Runs

| Run | Instance | Shows |
|---|---|---|
| `faults` | 1 event, 1 adapter, 2 deliveries, 2 workers, 1 retry, one crash, outage and database fault, every answer and verdict | `Exclusive`, `NoFalseCompletion`, `DuplicatesAccounted`, `NoLeakedReservation`, `AuditAccounted` |
| `fanout` | 2 adapters in order, 3 tasks (two of them one event, one unparseable), failing shop, one database fault, fairness | `DoneIsSettled`, `EveryTaskEnds`, `HealthyAdaptersServed` |
| `outbox_safe` | 3 rows, 2 drainers, batch 2, 2 failures | `PublishedInLog`, `DuplicatesInDoubt`, `OneRunPerRow` |
| `outbox_live` | 4 rows of 2 businesses, 1 drainer, fairness | `ImplementsChannel` (refinement of `Channel` with its liveness: every committed row reaches Kafka and is marked), `OrderWithoutFaults` |
| `consumer` | 2 partitions of 2 messages, 1 restart, fairness | `HandedOver`, `OncePerStart`, `EventuallyHanded` |
| `breaker` | 2 workers, threshold 2, window 1 tick, 1 tick, 1 lost command or reply, fairness | `TripAccounted`, `RecoversForGood` |
| `conflict` | SWS and 2 departments, 3 values, 3 changes, 2 workers, 1 fault, every policy | `ConflictNoticed`, `AuthorityKept` |
| `ingress` | 3 changes of every kind, 1 webhook call, 2 failures, fairness | `Accounted`, `OncePerSetback`, `CommitOrder`, `EventuallyIngested` |
| `sync` | 3 systems, 3 fields (own names, own rendering, own policy), 3 changes, 1 loss, fairness | `RestsInAgreement`, `EchoDies`, `LastEditArrives`, `Reconciled` |
| `deadletters` | 1 event, 1 seeded letter, 2 rows, 2 stewards, 2 retries, 1 reset, 2 failures | `NothingVanishes`, `OncePerRetry`, `WrittenOncePerKey`, `Fenced` |
| `consumer_skip`, `echo` | smallest instances | violations, see Findings |

Every passing run but `fanout` and `outbox_live` also checks the type invariant of its module.
One more instance is for running by hand: `tlc -config MCDispatch_ends.cfg MCDispatch` checks
`EveryTaskEnds` with a lost worker, whose key need never expire, and an outage, neither of which
the `fanout` run has, and finds no error.

Why the bounds are enough.  The keys of different events and adapters share nothing but the
tasks, so one key with two competing deliveries shows every interleaving at a key, and the
fan-out run adds the coupling of two keys through one task and its retries.  One retry
exercises both sides of `max_retries`.  Each kind of fault may hit at every point; a second
outage or crash repeats the same situation.  In the outbox, three rows with batches of two
leave a row for a second run, two failures allow a failure during the repair of the first.
Two messages per partition allow a message behind an uncommitted one; two partitions allow
the commit of one to move the other.  A threshold of two is the least at which two workers
must add up.  Three changes let each system change the field in one round, or one of them
twice around another's event, and three values tell the start from two conflicting changes; values and
workers are symmetric.  `MaxBase = 0` is enough for both verdicts of LAST_WRITE_WINS, since a
second event of a topic has a higher offset than the first of another.  In `ingress` three
changes allow one that becomes visible late between two others, and two failures a lost SET
followed by the failure that makes it matter; the exceptions of `CommitOrder` (Redis lost its
memory, two lost SETs, a webhook) were found with four failures, and without them it also holds
with five.  In `sync` three systems are the least in which an echo can come back
through a third one, three values are a value, its capital form, which one mapping makes of it,
and another value.  In `deadletters` two rows are a
real and a seeded letter, or one event parked twice; two stewards and two retries are the
competing requests.  The theorems lift the proved properties to every value of the constants.

Fairness.  `Dispatch`: a worker that took a task goes on and takes queued tasks (an embedded
or external Celery worker runs for ever), and a Redis outage ends.  `Outbox`: beat starts a
drain every three seconds; failures are bounded, not fair.  `Consumer`: every wait of the thread
has a timeout (weak fairness of its steps), and the Kafka client takes partitions in turn
(strong fairness of each partition's `Poll`).  `CircuitBreaker`: workers run, the probe is
started every 60 seconds (weak fairness), and turns do not all end unrecorded for ever
(strong fairness of a successful call, an assumption on the traffic, only needed by
`RecoversForGood`).  `Ingress`: beat starts the poll again and again and the worker goes on
(weak fairness of a poll's steps; failures, webhooks and the system itself are not fair).
`Sync`: polls and dispatches, the nightly run, and time (`Expire`, `Lapse`), all weak; users
are not fair.

## Proofs

All theorems are checked by TLAPS for every value of the constants, under the `ASSUME`s of
the modules (bounds are naturals, routes are non-empty sequences, batch size positive).

* `DispatchProofs`: `TypeCorrect`, `ReservationIsExclusive`, `CompletionIsReal`,
  `DuplicatesAreAccounted`, `ReservationsAreReturned`, `LedgerIsAccounted`,
  `DoneMeansSettled`.  The inductive invariant `IInv` has
  three layers.  Exclusiveness needs that the key of a task in its turn is not ABSENT
  (`KeyHeld`), which needs that nobody probes a target while owning a reservation
  (`ProbeUnowned`).  The accounting of duplicates needs exclusiveness, that a task about to
  COMPLETE has written (`AppliedFirst`) and that a task about to release has no write out of
  doubt (`ReleaseInDoubt`).  The leak property needs that the key is COMPLETED by the time the
  audit row is written unless Redis was lost (`CompletedFirst`).  The audit ledger is accounted for
  by an equation in which each task between its write and its row counts once (`Ledger`; the tasks
  are a finite set, so its cardinality moves by one with each step).  `DoneIsSettled` needs that
  every turn that is over has left a result, whatever way it ended (`TurnsRecorded`), and that a
  result that claims a write follows one (`ResultsReal`).
* `OutboxProofs`: `TypeCorrect`, `RunsAreExclusive`, `PublishedIsInLog`, `DuplicatesAreInDoubt`,
  `OneWorkerKeepsOrder`, `OutboxImplementsChannel` (every step of the outbox is a step of
  `Channel` or a stutter).
  `IInv` adds the shape of a run (its rows are split into unproduced, queued, delivered and
  failed ones), that only committed rows are sent, that delivered rows are in the log, and what
  is known of a row that is not in doubt.  `OneWorkerKeepsOrder` is `OrderWithoutFaults` under
  `OneWorkerOneWriter`: one drain run at a time, which the embedded worker gives
  (`--pool=solo --concurrency=1` in `api/main.py`), and one transaction at a time that inserts
  rows, since `created_at` is the start of the transaction and two open ones may commit in the
  other order.  Its invariant `OrderInv` says that rows become visible in the order of their stamps, and that until
  the first failure, of two committed rows the older is always at least as far as the younger: in the
  log when that is there, in the log or the producer when that is in the producer.
* `ConsumerProofs`: `TypeCorrect`, `EverythingHandedOver`, `OncePerStartAlways`.  `IInv` adds
  that what was read was handed over except for the message in hand (`ReadHanded`), and the
  count of tasks of messages not yet read since the last start (`UnreadOnce`, `DownOnce`).

* `CircuitBreakerProofs`: `TypeCorrect`, `TripsAreAccounted`.  `TripAccounted` is inductive
  with the type invariant: a count can only fall short of the recent failures if somebody else
  still has to count, because the set of failures with a recent score is part of the counted
  one and finite; a `DEL` empties it.
* `ConflictProofs`: `TypeCorrect`, `AuthorityIsKept`, `ConflictsAreNoticed`.  `IInv` says that an
  event has one holder, that the window names an event of the round (so its source does not
  change before the round ends without setting `escaped`), and that a write that goes ahead
  against the authority in the window carries a value of that authority (`WritesEarned`).
  `NoticedInv` is a second layer on it: every event that is being written or done has the source
  of the window or stands in a conflict with it, and a system loses its value only to such an
  event of another system; at rest this is `ConflictNoticed`.
* `IngressProofs`: `TypeCorrect`, `EverythingAccounted`, `OncePerSetbackAlways`,
  `CommitOrderKept`.  `IInv` adds that
  no watermark stands past what is visible and that the batch of a poll holds everything it is
  about to pass over (`FetchSafe`, `BatchComplete`).  `CountInv` adds that the watermark in
  PostgreSQL only grows, and counts for each change what is written, what is still due and what
  a setback allows.  `OrderInv` is a third layer: with its memory the watermark in Redis only
  grows too (`RedisGrows`), so an older change that is not in the batch that takes a younger one
  is behind both watermarks from then on (`PassedOver`) and is never read for the first time
  afterwards (`FirstOrNever`).
* `DeadLettersProofs`: `TypeCorrect`, `NothingVanishesEver`, `WrittenOncePerKeyAlways`,
  `FencedAlways`, `OncePerRetryAlways`.  `IInv` adds that the writes of an event are bounded by its present key, the
  resets and the lost keys (`WrittenByKey`), and that a reset under way has an epoch left.
  `InsertInv`, for `OncePerRetry`, adds that whatever is on its way or parked came in before, and
  that a row that is not there has not been retried.  The property holds a sum over the rows, a
  recursive function, and the lemmas about it (`SumTo` changes by what one row changes) need
  induction.  The provers cannot instantiate the library's induction theorems with a predicate, so
  the module derives induction over a *set* of numbers (`InductionOnNat`) from the
  well-foundedness of `<`.
* `SyncProofs`: `TypeCorrect`, `AgreementAtRest`.  The second is `RestsInAgreement` under two
  hypotheses.  `Apart`, users wait for the system to come to rest, cannot go: with the
  constants of the `echo` run, the second of two quick changes of a department is lost and the
  systems come to rest with the first.  `DeptWinsAsIs` says that a field the departments
  decide is handed over without transformation, as the `mapping_v1.yaml` of Factories does for
  `license_status`, `safety_clearance` and `labor_violations` and that of Shop Establishment for
  `license_status`; the other two are not mapped there, and its adapter hands them over under their
  own name as they are; without it a department's own
  rendering of a change of SWS would win against that change and take its place everywhere.  `AgreeInv` has two
  phases: a change is with the system where it was made and nothing else is going on (`Entered`),
  or SWS has it (`Reported`), and then all that is in feeds, queues, guard keys and the
  nightly run carries its value, and either every system has it or SWS is still to report it.
  A department that renders the value in its own way reports that, and is kept from being followed
  by the conflict window, which stands as long as such an echo is on its way (`Odd`).  The types need that `EventsOf` yields events, an induction like the one above.

Every invariant of a passing run is stated by a theorem.  Only model-checked are the temporal
properties, which are liveness and outside the prover's reach: `EveryTaskEnds`,
`HealthyAdaptersServed`, the fairness half of `ImplementsChannel`,
`EventuallyHanded`, `RecoversForGood`, `EventuallyIngested`, `EchoDies`, `LastEditArrives` and
`Reconciled`.

## Findings

Each is a run in which TLC finds the quoted statement violated by what the code does.

* `consumer_skip`: a later commit passes a failed message, which is not redelivered
  (`api/main.py:211`).
* `echo`: the loop guard's key holds the canonical field name and the value before translation,
  but a department's poller asks with its own name and value; and a guarded change is skipped
  without moving the watermark, so it is read after its key has run out.  After two changes of one department
  within the lifetime of a key both values go round between SWS and the departments for ever
  (`pipeline/loop_guard.py:1`).

Four more statements of the repository are kept as definitions with an instance of their own,
to be run by hand; TLC finds each of them violated:

| Command | Statement | What the counterexample shows |
|---|---|---|
| `tlc -config MCDispatch_exhausted.cfg MCDispatch` | `ExhaustionParked` (`src/README.md:194`) | exhausted retries leave the `except` clause without a dead letter row |
| `tlc -config MCDispatch_race.cfg MCDispatch` | `NXPreventsConcurrentWorkers` (`idempotency.py:12`) | a failed audit row after a 4xx releases the key twice; the second delete frees another worker's reservation and two workers call the target |
| `tlc -config MCDispatch_reorder.cfg MCDispatch` | `StrictOrder` (`src/README.md:33`) | a retried event overwrites a newer one |
| `tlc -config MCConflict_priority.cfg MCConflict` | `SwsPrevails` (`src/SyncKar_Final_Solution.md:466`) | under SWS_WINS a department's event that is dispatched first is written to SWS before SWS's own event wins; the two systems end with exchanged values |

Seen while modelling, in the models but without a run of their own: a worker lost between the
write and COMPLETE is followed by a second write after the key expired (`idempotency.py:13`;
`DuplicatesAccounted` counts it); HALF_OPEN admits every caller (`circuit_breaker.py:187` says one
test call); an event that conflicts is never registered, so a newer change of the window's own
source can be overwritten by the winner and appear in no conflict record itself; a
`PermanentWriteError` is
swallowed by the dispatcher, so the task's clause that parks it is never reached
(`celery_app.py:151`); `_write_to_dlq` parses an unparseable message again and fails; a timeout
is neither retried nor parked (`exceptions.py:19`) and never counts for the breaker; a conflict
on an unmapped field writes no dead letter row; a worker lost between COMPLETE and the audit row
leaves a write without its row; with Redis down the task parks the event before the fallback
of `dispatcher.py` 330-356 is reached; a change whose PUT commits late is behind the watermark
when it becomes visible; a failure after the watermark has moved drops the rest of the poll; a
swallowed SET leaves Redis with an old watermark while PostgreSQL has the new one; a steward can
retry a letter of any status, any number of times (only the idempotency key keeps it from being
written again); a hard reset that fails after deleting the keys leaves the time stamp as it was; after a failed delivery the outbox lets younger rows of
the business overtake; a late CLOSED of `record_success` can undo an OPEN.

## Not modelled

* Reading routes, configuration, connection handling, HTTP clients, mapping files, hashing and
  signing, schema copilot, metrics, dashboard and scripts keep no state of the pipeline.  What
  of the translators, payload models and mock systems the properties can see is in `Sync`
  (names, rendered values, a PUT that compares), `Ingress` (unusable changes, stamp before
  COMMIT) and `DeadLetters` (`received_at`, clearing and seeding).
* The rate limiter's window is one atomic Redis pipeline; only its verdict matters.
* Of the hard reset: the watermarks it sets, polls that run meanwhile, and Redis losing
  `hard_reset_timestamp`.  With any of them old changes come in as new ones; the fence that
  `DeadLetters` is about does not see them.
* Of the pollers: feeds of several businesses (in `Sync` they appear as `Overtake`) and two
  overlapping polls of one system, which the embedded worker (`--pool=solo --concurrency=1`)
  excludes.
* Of the nightly run: the random sample, its counters, and systems that do not answer.
* The HMAC check and the body's shape of a webhook, which only decide whether a call is accepted.

## Plan

1. A composition of outbox, consumer and dispatch with an abstract specification of the whole
   path: a committed event is written to every target, parked, or accounted for.
2. `Sync` with two fields of one business, whose poll and window are shared, in place of
   `Overtake`.
3. The safety part of `Reconciled`: an invariant of `Sync` with losses, which needs a bound on how
   far a department can be behind SWS when a correction finds its key COMPLETED.
4. Proofs of the composition's refinement, once it is there.
