---------------------------- MODULE DeadLetters ----------------------------
(***************************************************************************)
(* The dead letter queue, its stewards, and the hard reset.  A task parks  *)
(* an event it cannot start on as a row of dead_letter_queue; stewards    *)
(* resolve, discard or retry rows (api/routes/dlq.py), several requests at *)
(* a time; a retry puts the event into the outbox again.  The hard reset   *)
(* (api/routes/mock_proxy.py) empties systems, tables and keys while all   *)
(* this goes on, and leaves a time stamp by which the dispatcher tells     *)
(* messages of the time before it.                                         *)
(*                                                                         *)
(* A message is an event and the epoch of its received_at: the number of   *)
(* hard resets that had stamped their time before.  Kafka, consumer and    *)
(* Celery are one queue; what a task does inside is module Dispatch.       *)
(***************************************************************************)
EXTENDS Integers, Sequences, FiniteSets

CONSTANTS
    Event,       \* events that pollers and webhooks bring
    Demo,        \* events that only seed_dlq makes
    Steward,     \* requests to resolve_dlq at the same time
    NoJob, NoRow,
    MaxRows,     \* bound: rows of dead_letter_queue
    MaxRetries,  \* bound: retries that commit
    MaxResets,   \* bound: hard resets
    MaxFaults    \* bound: failing calls and statements, keys that run out

AnyEvent == Event \cup Demo
Epoch    == 0 .. MaxResets
Message  == AnyEvent \X Epoch
Undated  == -1                    \* a payload without received_at

ASSUME DeadLettersAssumption ==
    /\ Event \cap Demo = {}
    /\ NoJob \notin Message
    /\ MaxRows \in Nat /\ MaxRetries \in Nat /\ MaxResets \in Nat /\ MaxFaults \in Nat
    /\ NoRow \notin 1 .. MaxRows

VARIABLES
    entered,    \* events that came in
    outbox,     \* outbox[m]: PENDING rows of the outbox
    queue,      \* queue[m]: messages in Kafka or waiting in Celery
    job,        \* the message a task has past the stale check, or NoJob
    rows,       \* dead_letter_queue, deleted rows kept as "truncated"
    request,    \* request[s]: the row a retry has read in its transaction
    epoch,      \* hard resets that have taken their time
    stamp,      \* hard_reset_timestamp
    rpc,        \* idle, seed, truncate, forget, stamp
    filled,     \* the systems have their records
    completed,  \* events whose idempotency key is COMPLETED
    writes,     \* history: writes[e] to the target
    gone,       \* history: events that came to an end
    straggler,  \* history: the job that was running at the stamp
    retries,    \* history: retries[r] that committed, per row
    inserts,    \* history: inserts[e] into the outbox
    unkept,     \* history: writes whose idempotency key ran out or was not kept
    faults

reset   == <<epoch, stamp, rpc, filled>>
history == <<writes, gone, straggler, retries, inserts, unkept>>
vars    == <<entered, outbox, queue, job, rows, request, reset, completed, history, faults>>

Init ==
    /\ entered   = {}
    /\ outbox    = [m \in Message |-> 0]
    /\ queue     = [m \in Message |-> 0]
    /\ job       = NoJob
    /\ rows      = <<>>
    /\ request   = [s \in Steward |-> NoRow]
    /\ epoch     = 0
    /\ stamp     = 0
    /\ rpc       = "idle"
    /\ filled    = TRUE
    /\ completed = {}
    /\ writes    = [e \in AnyEvent |-> 0]
    /\ gone      = {}
    /\ straggler = NoJob
    /\ retries   = [r \in 1 .. MaxRows |-> 0]
    /\ inserts   = [e \in AnyEvent |-> 0]
    /\ unkept    = 0
    /\ faults    = 0

Fault == faults < MaxFaults /\ faults' = faults + 1

Plus(bag, m)  == [bag EXCEPT ![m] = @ + 1]
Minus(bag, m) == [bag EXCEPT ![m] = @ - 1]

Row(e, b) == [event |-> e, born |-> b, status |-> "PENDING"]

-----------------------------------------------------------------------------
(* write_to_outbox from a poll task or a webhook.                          *)
Enter(e) ==
    /\ e \notin entered
    /\ entered' = entered \cup {e}
    /\ outbox'  = Plus(outbox, <<e, epoch>>)
    /\ inserts' = [inserts EXCEPT ![e] = @ + 1]
    /\ UNCHANGED <<queue, job, rows, request, reset, completed,
                   writes, gone, straggler, retries, faults, unkept>>

Drain(m) ==
    /\ outbox[m] > 0
    /\ outbox' = Minus(outbox, m)
    /\ queue'  = Plus(queue, m)
    /\ UNCHANGED <<entered, job, rows, request, reset, completed, history, faults>>

NeverStale(m) == FALSE            \* seeded bug: the time stamp is not looked at
Stale(m)      == m[2] < stamp     \* _is_stale_event

(* A task starts.  The check is made once, here.                           *)
Take(m) ==
    /\ job = NoJob
    /\ queue[m] > 0
    /\ queue' = Minus(queue, m)
    /\ IF Stale(m)
       THEN gone' = gone \cup {m[1]} /\ UNCHANGED job
       ELSE job' = m /\ UNCHANGED gone
    /\ UNCHANGED <<entered, outbox, rows, request, reset, completed,
                   writes, straggler, retries, inserts, faults, unkept>>

(* The message cannot be checked: its payload is not an event, or Redis    *)
(* does not answer.  _write_to_dlq parks it; if the row cannot be written  *)
(* the task fails and nobody runs it again.                                *)
Park(m) ==
    /\ job = NoJob
    /\ queue[m] > 0
    /\ queue' = Minus(queue, m)
    /\ \/ /\ Len(rows) < MaxRows
          /\ rows' = Append(rows, Row(m[1], m[2]))
          /\ UNCHANGED <<gone, faults>>
       \/ /\ Fault
          /\ gone' = gone \cup {m[1]}
          /\ UNCHANGED rows
    /\ UNCHANGED <<entered, outbox, job, request, reset, completed,
                   writes, straggler, retries, inserts, unkept>>

EndJob == job' = NoJob /\ straggler' = NoJob

WritesAlways(e) == TRUE           \* seeded bug: no idempotency key
Writes(e)       == e \notin completed

(* The task ends: written, or skipped since its key is COMPLETED or the    *)
(* business is unknown, or with an error the dispatcher swallows (a 4xx,   *)
(* for which the task would park the event).                               *)
Write ==
    /\ job # NoJob
    /\ LET e == job[1]
       IN  /\ gone' = gone \cup {e}
           /\ \/ /\ filled /\ Writes(e)
                 /\ writes'    = [writes EXCEPT ![e] = @ + 1]
                 /\ completed' = completed \cup {e}
              \/ UNCHANGED <<writes, completed>>
    /\ EndJob
    /\ UNCHANGED <<entered, outbox, queue, rows, request, reset, retries, inserts, unkept, faults>>

(* The target has applied the write, but the task does not learn it, or    *)
(* cannot record it, and deletes the key.                                  *)
WriteUnknown ==
    /\ job # NoJob /\ filled /\ Writes(job[1])
    /\ Fault
    /\ writes' = [writes EXCEPT ![job[1]] = @ + 1]
    /\ unkept' = unkept + 1
    /\ gone'   = gone \cup {job[1]}
    /\ EndJob
    /\ UNCHANGED <<entered, outbox, queue, rows, request, reset, completed, retries, inserts>>

(* The key of an event runs out, 72 hours after its write.                 *)
Lapse(e) ==
    /\ e \in completed
    /\ Fault
    /\ completed' = completed \ {e}
    /\ unkept'    = unkept + 1
    /\ UNCHANGED <<entered, outbox, queue, job, rows, request, reset,
                   writes, gone, straggler, retries, inserts>>

(* A transport error: Celery starts the task again, or gives it up after   *)
(* the last retry, in which case nothing is parked.                        *)
Again ==
    /\ job # NoJob
    /\ Fault
    /\ \/ queue' = Plus(queue, job) /\ UNCHANGED gone
       \/ gone' = gone \cup {job[1]} /\ UNCHANGED queue
    /\ EndJob
    /\ UNCHANGED <<entered, outbox, rows, request, reset, completed,
                   writes, retries, inserts, unkept>>

(* seed_dlq: letters for the demonstration, whose payload has no           *)
(* received_at, in one transaction.                                        *)
SeedDlq(d) ==
    /\ d \notin entered
    /\ Len(rows) < MaxRows
    /\ entered' = entered \cup {d}
    /\ rows'    = Append(rows, Row(d, Undated))
    /\ inserts' = [inserts EXCEPT ![d] = @ + 1]
    /\ UNCHANGED <<outbox, queue, job, request, reset, completed,
                   writes, gone, straggler, retries, faults, unkept>>

-----------------------------------------------------------------------------
(* resolve_dlq, "resolve" or "discard": one UPDATE, whatever the status.   *)
Exists(r) == rows[r].status # "truncated"

Close(r, status) ==
    /\ Exists(r) /\ rows[r].status # status
    /\ rows' = [rows EXCEPT ![r].status = status]
    /\ gone' = gone \cup {rows[r].event}
    /\ UNCHANGED <<entered, outbox, queue, job, request, reset, completed,
                   writes, straggler, retries, inserts, faults, unkept>>

(* "retry": the SELECT reads the row, of any status, without a row lock.   *)
Asked(r) == retries[r] + Cardinality({s \in Steward : request[s] = r})

Select(s, r) ==
    /\ request[s] = NoRow
    /\ Exists(r)
    /\ Asked(r) < MaxRetries
    /\ request' = [request EXCEPT ![s] = r]
    /\ UNCHANGED <<entered, outbox, queue, job, rows, reset, completed, history, faults>>

Revived(r) ==
    <<rows[r].event, IF rows[r].born = Undated THEN epoch ELSE rows[r].born>>

(* write_to_outbox on the connection of the transaction.                   *)
Insert(r) ==
    /\ outbox'  = Plus(outbox, Revived(r))
    /\ inserts' = [inserts EXCEPT ![rows[r].event] = @ + 1]

NotInserted(r) == UNCHANGED <<outbox, inserts>>   \* seeded bug: only the status
Inserted(r)    == Insert(r)

(* INSERT and UPDATE commit together.                                      *)
Retry(s) ==
    /\ request[s] # NoRow
    /\ LET r == request[s]
       IN  /\ Inserted(r)
           /\ rows'    = [rows EXCEPT ![r].status = "RETRIED"]
           /\ retries' = [retries EXCEPT ![r] = @ + 1]
    /\ request' = [request EXCEPT ![s] = NoRow]
    /\ UNCHANGED <<entered, queue, job, reset, completed, writes, gone, straggler, faults, unkept>>

InsertStays(r) == Insert(r)      \* seeded bug: inserted on a connection of its own
RolledBack(r)  == UNCHANGED <<outbox, inserts>>

(* The payload is not an event, or a statement fails: rolled back.         *)
RetryFails(s) ==
    /\ request[s] # NoRow
    /\ Fault
    /\ RolledBack(request[s])
    /\ request' = [request EXCEPT ![s] = NoRow]
    /\ UNCHANGED <<entered, queue, job, rows, reset, completed,
                   writes, gone, straggler, retries, unkept>>

-----------------------------------------------------------------------------
(* hard_reset_all: the systems are cleared ...                             *)
Clear ==
    /\ rpc = "idle"
    /\ epoch < MaxResets
    /\ filled' = FALSE
    /\ rpc' = "seed"
    /\ UNCHANGED <<entered, outbox, queue, job, rows, request, epoch, stamp,
                   completed, history, faults>>

(* ... and seeded again; if that fails the reset ends with an error.       *)
Seed ==
    /\ rpc = "seed"
    /\ \/ filled' = TRUE /\ rpc' = "truncate" /\ UNCHANGED faults
       \/ Fault /\ filled' \in BOOLEAN /\ rpc' = "idle"
    /\ UNCHANGED <<entered, outbox, queue, job, rows, request, epoch, stamp,
                   completed, history>>

(* seed_all, or the systems' own seeding when they start empty.            *)
Refill ==
    /\ rpc = "idle" /\ ~filled
    /\ filled' = TRUE
    /\ UNCHANGED <<entered, outbox, queue, job, rows, request, epoch, stamp, rpc,
                   completed, history, faults>>

(* TRUNCATE waits for transactions that have read a table of its list.  If *)
(* it fails the reset goes on.                                             *)
Truncated == [r \in DOMAIN rows |-> [rows[r] EXCEPT !.status = "truncated"]]

Truncate ==
    /\ rpc = "truncate"
    /\ \/ /\ \A s \in Steward : request[s] = NoRow
          /\ outbox' = [m \in Message |-> 0]
          /\ rows'   = Truncated
          /\ gone'   = gone \cup {m[1] : m \in {n \in Message : outbox[n] > 0}}
                            \cup {rows[r].event : r \in DOMAIN rows}
          /\ UNCHANGED faults
       \/ Fault /\ UNCHANGED <<outbox, rows, gone>>
    /\ rpc' = "forget"
    /\ UNCHANGED <<entered, queue, job, request, epoch, stamp, filled, completed,
                   writes, straggler, retries, inserts, unkept>>

(* The time is taken and the idempotency keys are deleted, then the stamp  *)
(* and the watermarks are set.  Without Redis the reset ends.              *)
Forget ==
    /\ rpc = "forget"
    /\ \/ epoch' = epoch + 1 /\ completed' = {} /\ rpc' = "stamp" /\ UNCHANGED faults
       \/ Fault /\ rpc' = "idle" /\ UNCHANGED <<epoch, completed>>
    /\ UNCHANGED <<entered, outbox, queue, job, rows, request, stamp, filled, history>>

Ahead == epoch + 1               \* seeded bug: a stamp of another time zone
Now   == epoch

Stamp ==
    /\ rpc = "stamp"
    /\ \/ stamp' = Now /\ straggler' = job /\ UNCHANGED faults
       \/ Fault /\ UNCHANGED <<stamp, straggler>>
    /\ rpc' = "idle"
    /\ UNCHANGED <<entered, outbox, queue, job, rows, request, epoch, filled, completed,
                   writes, gone, retries, inserts, unkept>>

-----------------------------------------------------------------------------
Task      == Write \/ WriteUnknown \/ Again
HardReset == Clear \/ Seed \/ Truncate \/ Forget \/ Stamp

(* Nothing is left to do.                                                  *)
Over ==
    /\ epoch = MaxResets /\ rpc = "idle" /\ filled
    /\ job = NoJob /\ \A m \in Message : outbox[m] + queue[m] = 0
    /\ \A r \in DOMAIN rows : ~Exists(r)
    /\ UNCHANGED vars

Next ==
    \/ \E e \in Event : Enter(e)
    \/ \E d \in Demo : SeedDlq(d)
    \/ \E m \in Message : Drain(m) \/ Take(m) \/ Park(m)
    \/ Task
    \/ \E e \in AnyEvent : Lapse(e)
    \/ \E r \in DOMAIN rows :
          \/ \E status \in {"RESOLVED", "DISCARDED"} : Close(r, status)
          \/ \E s \in Steward : Select(s, r)
    \/ \E s \in Steward : Retry(s) \/ RetryFails(s)
    \/ HardReset \/ Refill
    \/ Over

Spec == Init /\ [][Next]_vars

-----------------------------------------------------------------------------
(* Type invariant.                                                         *)
Letter == [event : AnyEvent, born : Epoch \cup {Undated},
           status : {"PENDING", "RETRIED", "RESOLVED", "DISCARDED", "truncated"}]

TypeOK ==
    /\ entered   \subseteq AnyEvent
    /\ outbox    \in [Message -> Nat]
    /\ queue     \in [Message -> Nat]
    /\ job       \in Message \cup {NoJob}
    /\ rows      \in Seq(Letter) /\ Len(rows) <= MaxRows
    /\ request   \in [Steward -> DOMAIN rows \cup {NoRow}]
    /\ epoch     \in Epoch
    /\ stamp     \in 0 .. epoch
    /\ rpc       \in {"idle", "seed", "truncate", "forget", "stamp"}
    /\ filled    \in BOOLEAN
    /\ completed \subseteq AnyEvent
    /\ writes    \in [AnyEvent -> Nat]
    /\ gone      \subseteq AnyEvent
    /\ straggler \in {job, NoJob}
    /\ retries   \in [1 .. MaxRows -> Nat]
    /\ inserts   \in [AnyEvent -> Nat]
    /\ unkept    \in 0 .. faults
    /\ faults    \in 0 .. MaxFaults

(* No event vanishes between outbox, task and dead letter queue: until a   *)
(* task ended with it, it was dropped as stale, closed by a steward,       *)
(* truncated or could not be parked, it waits somewhere; a row marked      *)
(* RETRIED does not count.                                                 *)
Waiting(e) ==
    \/ \E m \in Message : m[1] = e /\ (outbox[m] + queue[m] > 0 \/ job = m)
    \/ \E r \in DOMAIN rows : rows[r].event = e /\ rows[r].status = "PENDING"

NothingVanishes == \A e \in entered : Waiting(e) \/ e \in gone

(* A retry is all or nothing, whatever other stewards do to the row: the   *)
(* outbox got the event once at first and once for each committed retry.   *)
SumTo(f, n) ==
    LET total[i \in 0 .. n] == IF i = 0 THEN 0 ELSE total[i - 1] + f[i]
    IN  total[n]

Retried(e)   == [r \in DOMAIN rows |-> IF rows[r].event = e THEN retries[r] ELSE 0]
RetriesOf(e) == SumTo(Retried(e), Len(rows))

OncePerRetry == \A e \in entered : inserts[e] = 1 + RetriesOf(e)

(* However often and by however many stewards a letter is retried, also    *)
(* after it was discarded, the target is written once, and once more only  *)
(* for each idempotency key that ran out or that a hard reset deleted.     *)
WrittenOncePerKey == \A e \in AnyEvent : writes[e] <= 1 + epoch + unkept

(* The fence of the hard reset: a task that works on a message from before *)
(* the stamp is the one that was running when the stamp was set; whatever  *)
(* Kafka, Celery, or a steward who retries an old letter bring is dropped. *)
Fenced == job # NoJob /\ job[2] < stamp => job = straggler

(* What makes them inductive: a completed event has one write to its key.  *)
WrittenByKey ==
    \A e \in AnyEvent :
        writes[e] <= (IF e \in completed THEN 1 ELSE 0) + epoch + unkept

EpochLeft == rpc \in {"seed", "truncate", "forget"} => epoch < MaxResets

IInv == TypeOK /\ NothingVanishes /\ WrittenByKey /\ Fenced /\ EpochLeft

(* What makes OncePerRetry inductive: whatever is on its way or parked     *)
(* came in before, and a row that is not there has not been retried.       *)
Known ==
    /\ \A m \in Message : outbox[m] + queue[m] > 0 \/ job = m => m[1] \in entered
    /\ \A r \in DOMAIN rows : rows[r].event \in entered

Uncounted ==
    /\ \A r \in 1 .. MaxRows : r \notin DOMAIN rows => retries[r] = 0
    /\ \A e \in AnyEvent : e \notin entered => inserts[e] = 0

InsertInv == Known /\ Uncounted /\ OncePerRetry
=============================================================================
