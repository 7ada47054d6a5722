------------------------------- MODULE Outbox -------------------------------
(***************************************************************************)
(* The transactional outbox of SyncKar (pipeline/outbox.py): writers       *)
(* insert PENDING rows, and runs of drain_outbox, several of which may     *)
(* overlap, lock a batch of rows, hand them to a Kafka producer, wait for  *)
(* the delivery callbacks and mark the delivered rows PUBLISHED.           *)
(*                                                                         *)
(* A row is named by its rank in created_at order.  A drainer is a worker  *)
(* that runs drain_outbox again and again, each run with its own producer  *)
(* and its own database connection.  The log is the topic; the part of it  *)
(* with one business is that business' share of a partition.               *)
(***************************************************************************)
EXTENDS Integers, Sequences, FiniteSets

CONSTANTS
    NumRows,      \* rows ever written
    BusinessOf,   \* BusinessOf[r]: the ubid of row r, the Kafka key
    Drainer,      \* workers that execute drain_outbox
    BatchSize,    \* batch_size
    NumWriters,   \* insert transactions open at the same time
    MaxFaults     \* bound: failures of any kind

Row == 1 .. NumRows

ASSUME OutboxAssumption ==
    /\ NumRows \in Nat
    /\ BatchSize \in Nat \ {0}
    /\ NumWriters \in Nat
    /\ MaxFaults \in Nat

VARIABLES
    status,     \* status[r]: none, open (not committed), PENDING, PUBLISHED, aborted
    dpc,        \* dpc[d]: idle, send (producing and flushing), mark
    locked,     \* locked[d]: rows locked by SELECT ... FOR UPDATE
    todo,       \* todo[d]: rows the loop has not come to yet
    queue,      \* queue[d]: messages in the producer, not acknowledged
    delivered,  \* delivered[d]: delivered_ids
    log,        \* what Kafka holds
    stray,      \* stray[r]: requests on the wire whose producer is gone
    inDoubt,    \* history: rows sent whose delivery was not learned or kept
    faults

rows     == <<status, inDoubt>>
drainers == <<dpc, locked, todo, queue, delivered>>
kafka    == <<log, stray>>
vars     == <<rows, drainers, kafka, faults>>

Committed == {r \in Row : status[r] \in {"PENDING", "PUBLISHED"}}
Published == {r \in Row : status[r] = "PUBLISHED"}
Holds(l, r) == \E i \in 1 .. Len(l) : l[i] = r
InLog(r)  == Holds(log, r)

Init ==
    /\ status    = [r \in Row |-> "none"]
    /\ dpc       = [d \in Drainer |-> "idle"]
    /\ locked    = [d \in Drainer |-> {}]
    /\ todo      = [d \in Drainer |-> {}]
    /\ queue     = [d \in Drainer |-> {}]
    /\ delivered = [d \in Drainer |-> {}]
    /\ log       = <<>>
    /\ stray     = [r \in Row |-> 0]
    /\ inDoubt   = {}
    /\ faults    = 0

Fault == faults < MaxFaults /\ faults' = faults + 1

-----------------------------------------------------------------------------
(* write_to_outbox: INSERT takes created_at, COMMIT shows the row to the   *)
(* drainers, any error rolls it back.                                      *)
Insert(r) ==
    /\ status[r] = "none"
    /\ \A s \in 1 .. r - 1 : status[s] # "none"
    /\ Cardinality({s \in Row : status[s] = "open"}) < NumWriters
    /\ status' = [status EXCEPT ![r] = "open"]
    /\ UNCHANGED <<inDoubt, drainers, kafka, faults>>

Commit(r) ==
    /\ status[r] = "open"
    /\ status' = [status EXCEPT ![r] = "PENDING"]
    /\ UNCHANGED <<inDoubt, drainers, kafka, faults>>

Rollback(r) ==
    /\ status[r] = "open"
    /\ Fault
    /\ status' = [status EXCEPT ![r] = "aborted"]
    /\ UNCHANGED <<inDoubt, drainers, kafka>>

-----------------------------------------------------------------------------
(* SELECT ... WHERE status = 'PENDING' ORDER BY created_at LIMIT batch_size*)
(* FOR UPDATE SKIP LOCKED.                                                 *)
SelectableLocked(r) == status[r] = "PENDING"         \* seeded bug: no SKIP LOCKED
SelectableUntried(r) ==                               \* seeded bug: no second attempt
    status[r] = "PENDING" /\ r \notin inDoubt /\ \A e \in Drainer : r \notin locked[e]
Selectable(r) == status[r] = "PENDING" /\ \A e \in Drainer : r \notin locked[e]

Newest(S)        == {r \in S : Cardinality({s \in S : s > r}) < BatchSize}     \* seeded bug
Oldest(S)        == {r \in S : Cardinality({s \in S : s < r}) < BatchSize}

Select(d) ==
    /\ dpc[d] = "idle"
    /\ \E r \in Row : Selectable(r)
    /\ LET batch == Oldest({r \in Row : Selectable(r)})
       IN  /\ locked' = [locked EXCEPT ![d] = batch]
           /\ todo'   = [todo   EXCEPT ![d] = batch]
    /\ dpc' = [dpc EXCEPT ![d] = "send"]
    /\ UNCHANGED <<rows, queue, delivered, kafka, faults>>

First(S, r) == r \in S /\ \A s \in S : r <= s

(* One iteration of the loop: produce() queues the message, or raises and  *)
(* the loop continues with the next row.                                   *)
Produce(d) ==
    /\ dpc[d] = "send"
    /\ \E r \in Row :
         /\ First(todo[d], r)
         /\ todo' = [todo EXCEPT ![d] = @ \ {r}]
         /\ \/ queue' = [queue EXCEPT ![d] = @ \cup {r}] /\ UNCHANGED faults
            \/ Fault /\ UNCHANGED queue
    /\ UNCHANGED <<rows, dpc, locked, delivered, kafka>>

(* Kafka appends a message and the delivery callback is called.  A message *)
(* the client had to send again is appended after younger ones.            *)
Deliver(d) ==
    /\ dpc[d] = "send"
    /\ \E r \in queue[d] :
         /\ IF First(queue[d], r) THEN UNCHANGED faults ELSE Fault
         /\ log' = Append(log, r)
         /\ queue' = [queue EXCEPT ![d] = @ \ {r}]
         /\ delivered' = [delivered EXCEPT ![d] = @ \cup {r}]
    /\ UNCHANGED <<rows, dpc, locked, todo, stray>>

(* Kafka appends a message, the acknowledgement is lost, and the client    *)
(* will send it again: the producer is not an idempotent one.              *)
LoseAck(d) ==
    /\ dpc[d] = "send"
    /\ Fault
    /\ \E r \in queue[d] :
         /\ log' = Append(log, r)
         /\ inDoubt' = inDoubt \cup {r}
    /\ UNCHANGED <<status, drainers, stray>>

(* The callback reports an error: failed_ids, and the row stays PENDING.   *)
Refuse(d) ==
    /\ dpc[d] = "send"
    /\ Fault
    /\ \E r \in queue[d] : queue' = [queue EXCEPT ![d] = @ \ {r}]
    /\ UNCHANGED <<rows, dpc, locked, todo, delivered, kafka>>

(* What a producer that goes away leaves behind.                           *)
Abandon(d) ==
    /\ queue' = [queue EXCEPT ![d] = {}]
    /\ stray' = [r \in Row |-> stray[r] + (IF r \in queue[d] THEN 1 ELSE 0)]

(* flush(timeout=10) returns when every callback was called, or after ten  *)
(* seconds with messages still in the producer.                            *)
Flush(d) ==
    /\ dpc[d] = "send"
    /\ todo[d] = {}
    /\ dpc' = [dpc EXCEPT ![d] = "mark"]
    /\ \/ queue[d] = {} /\ UNCHANGED <<queue, stray, inDoubt, faults>>
       \/ /\ queue[d] # {}
          /\ Fault
          /\ Abandon(d)
          /\ inDoubt' = inDoubt \cup queue[d]
    /\ UNCHANGED <<status, locked, todo, delivered, log>>

-----------------------------------------------------------------------------
(* The run ends and its connection goes back to the pool, which rolls back *)
(* what was not committed: the row locks are gone either way.              *)
EndRun(d) ==
    /\ dpc'       = [dpc       EXCEPT ![d] = "idle"]
    /\ locked'    = [locked    EXCEPT ![d] = {}]
    /\ todo'      = [todo      EXCEPT ![d] = {}]
    /\ delivered' = [delivered EXCEPT ![d] = {}]

MarkedBatch(d) == locked[d]            \* seeded bug: the whole batch counts as delivered
Marked(d) == delivered[d]

UncommittedStatus == "PENDING"         \* seeded bug: the UPDATE is never committed
UnknownStatus == "DELIVERED"           \* seeded bug: a status no reader knows
MarkedStatus == "PUBLISHED"

(* UPDATE ... SET status = 'PUBLISHED' for delivered_ids, and COMMIT.      *)
MarkPublished(d) ==
    /\ dpc[d] = "mark"
    /\ status' = [r \in Row |-> IF r \in Marked(d) THEN MarkedStatus ELSE status[r]]
    /\ EndRun(d)
    /\ UNCHANGED <<inDoubt, queue, kafka, faults>>

(* The UPDATE or the COMMIT fails and is rolled back.                      *)
MarkFails(d) ==
    /\ dpc[d] = "mark"
    /\ delivered[d] # {}
    /\ Fault
    /\ inDoubt' = inDoubt \cup delivered[d]
    /\ EndRun(d)
    /\ UNCHANGED <<status, queue, kafka>>

(* The worker is lost anywhere in a run.                                   *)
Crash(d) ==
    /\ dpc[d] # "idle"
    /\ Fault
    /\ Abandon(d)
    /\ inDoubt' = inDoubt \cup queue[d] \cup delivered[d]
    /\ EndRun(d)
    /\ UNCHANGED <<status, log>>

(* A request of a producer that is gone reaches Kafka after all, or not.   *)
StrayArrives(r) ==
    /\ stray[r] > 0
    /\ stray' = [stray EXCEPT ![r] = @ - 1]
    /\ log' = Append(log, r)
    /\ UNCHANGED <<rows, drainers, faults>>

StrayVanishes(r) ==
    /\ stray[r] > 0
    /\ stray' = [stray EXCEPT ![r] = @ - 1]
    /\ UNCHANGED <<rows, drainers, log, faults>>

Write(r) == Insert(r) \/ Commit(r) \/ Rollback(r)
Drain(d) == Select(d) \/ Produce(d) \/ Deliver(d) \/ Flush(d) \/ MarkPublished(d)
Fail(d)  == LoseAck(d) \/ Refuse(d) \/ MarkFails(d) \/ Crash(d)
Stray(r) == StrayArrives(r) \/ StrayVanishes(r)

(* Every row written is published and nothing is on its way.               *)
Drained ==
    /\ \A r \in Row : status[r] \in {"PUBLISHED", "aborted"} /\ stray[r] = 0
    /\ \A d \in Drainer : dpc[d] = "idle"
    /\ UNCHANGED vars

Next ==
    \/ \E r \in Row : Write(r) \/ Stray(r)
    \/ \E d \in Drainer : Drain(d) \/ Fail(d)
    \/ Drained

Spec == Init /\ [][Next]_vars

(* Celery beat starts a drain every three seconds and a run that started   *)
(* goes on; Kafka and PostgreSQL answer once the failures are over.        *)
Fairness == \A d \in Drainer : WF_vars(Drain(d))
FairSpec == Spec /\ Fairness
-----------------------------------------------------------------------------
(* Every variable has its type.                                            *)
TypeOK ==
    /\ status    \in [Row -> {"none", "open", "PENDING", "PUBLISHED", "aborted"}]
    /\ dpc       \in [Drainer -> {"idle", "send", "mark"}]
    /\ locked    \in [Drainer -> SUBSET Row]
    /\ todo      \in [Drainer -> SUBSET Row]
    /\ queue     \in [Drainer -> SUBSET Row]
    /\ delivered \in [Drainer -> SUBSET Row]
    /\ log       \in Seq(Row)
    /\ stray     \in [Row -> Nat]
    /\ inDoubt   \subseteq Row
    /\ faults    \in 0 .. MaxFaults

(* Overlapping runs never work on the same row (FOR UPDATE SKIP LOCKED),   *)
(* and while a run works on a row the row stays PENDING.                   *)
OneRunPerRow ==
    /\ \A d, e \in Drainer : d # e => locked[d] \cap locked[e] = {}
    /\ \A d \in Drainer : \A r \in locked[d] : status[r] = "PENDING"

(* No event is lost: a row that counts as PUBLISHED, and is never looked   *)
(* at again, is in Kafka, whatever timed out, crashed or rolled back       *)
(* between the produce call and the commit (drain_outbox, delivered_ids).  *)
PublishedInLog == \A r \in Published : InLog(r)

(* Kafka holds an event twice only if the pipeline sent it and failed to   *)
(* learn or to keep the result: a lost acknowledgement, a flush timeout, a *)
(* lost worker, a rolled back UPDATE.  Overlapping runs, refused messages  *)
(* and failing produce calls never duplicate anything.                     *)
TwiceOnlyIn(l, D) == \A i, j \in 1 .. Len(l) : i # j /\ l[i] = l[j] => l[i] \in D
DuplicatesInDoubt == TwiceOnlyIn(log, inDoubt)

(* What makes these inductive.  The rows of a run are split into those not *)
(* produced, those in the producer, those delivered and those that failed; *)
(* only committed rows are ever sent; a row out of doubt that is not yet   *)
(* sent is not in the log, and one that is in the log is being delivered.  *)
RunShape ==
    \A d \in Drainer :
        /\ todo[d] \cup queue[d] \cup delivered[d] \subseteq locked[d]
        /\ todo[d] \cap queue[d] = {}
        /\ (todo[d] \cup queue[d]) \cap delivered[d] = {}
        /\ dpc[d] = "idle" => locked[d] = {}
        /\ dpc[d] # "send" => todo[d] \cup queue[d] = {}

SentCommitted == \A r \in Row : InLog(r) \/ stray[r] > 0 => r \in Committed

DeliveredInLog == \A d \in Drainer : \A r \in delivered[d] : InLog(r)

OutOfDoubt ==
    \A r \in Row \ inDoubt :
        /\ stray[r] = 0
        /\ \A d \in Drainer : r \in todo[d] \cup queue[d] => ~InLog(r)
        /\ status[r] = "PENDING" /\ InLog(r) => \E d \in Drainer : r \in delivered[d]

IInv ==
    /\ TypeOK
    /\ RunShape
    /\ OneRunPerRow
    /\ SentCommitted
    /\ DeliveredInLog
    /\ PublishedInLog
    /\ OutOfDoubt
    /\ DuplicatesInDoubt

-----------------------------------------------------------------------------
(* The outbox implements the at-least-once channel: a row is accepted by   *)
(* its COMMIT, delivered by its first copy in the log and settled by the   *)
(* COMMIT that marks it PUBLISHED.                                         *)
Kafka == INSTANCE Channel WITH
    Msg       <- Row,
    accepted  <- Committed,
    delivered <- {r \in Row : InLog(r)},
    settled   <- Published

(* At-least-once publication with its liveness: once failures stop every   *)
(* committed event gets to Kafka (docstring of pipeline/outbox.py), and    *)
(* its row is marked PUBLISHED in the end, not sent again for ever.        *)
ImplementsChannel == Kafka!FairSpec

(* The events of one business reach Kafka in the order they were created.  *)
(* "partitioned by UBID to enforce strict ordering" (README.md).           *)
BusinessOrder ==
    \A r, s \in Committed :
        r < s /\ BusinessOf[r] = BusinessOf[s] /\ InLog(s) => InLog(r)

(* One worker that drains what one writer inserts keeps that order until   *)
(* the first failure, over any number of batches (ORDER BY created_at).    *)
OrderWithoutFaults == faults = 0 => BusinessOrder

(* What makes it inductive, for one worker and one writer: rows commit in  *)
(* the order of their stamps, and until the first failure whatever was     *)
(* committed before a row in the log, the producer or the loop is at least *)
(* as far as that row.                                                     *)
OneWorkerOneWriter == (\A d, e \in Drainer : d = e) /\ NumWriters <= 1

WrittenInTurn ==
    \A r, s \in Row : r < s /\ status[r] \in {"none", "open"} => status[s] = "none"

SentInTurn ==
    \A r, s \in Committed : r < s =>
        /\ InLog(s) => InLog(r)
        /\ \A d \in Drainer :
             /\ s \in queue[d] => InLog(r) \/ r \in queue[d]
             /\ s \in todo[d]  => InLog(r) \/ r \in todo[d] \cup queue[d]

OrderInv == WrittenInTurn /\ (faults = 0 => inDoubt = {} /\ SentInTurn)
=============================================================================
