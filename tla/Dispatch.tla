------------------------------ MODULE Dispatch ------------------------------
(***************************************************************************)
(* The propagation path of SyncKar: the Celery task propagate_event_task   *)
(* (workers/celery_app.py), the dispatcher it calls once per target        *)
(* adapter (pipeline/dispatcher.py), and the two-phase reservation in      *)
(* Redis that is to make a write happen once (pipeline/idempotency.py).    *)
(*                                                                         *)
(* A task is one Celery message.  Several tasks may carry the same event   *)
(* (a Kafka redelivery); they then share one reservation key per adapter.  *)
(* Each action is the code between two points where another worker, Redis, *)
(* PostgreSQL or a target system can act.                                  *)
(*                                                                         *)
(* Every event is an update of ONE field of ONE business, and an event is  *)
(* identified with its Kafka offset, so that order can be spoken of.       *)
(* Three decisions are taken from a set instead of being computed here:    *)
(* whether the rate limiter or the circuit breaker refuses a call, what    *)
(* the conflict detector decides, and what a target answers.  The hard     *)
(* reset of the demo API is outside this module: no event is stale.        *)
(***************************************************************************)
EXTENDS Integers, Sequences, FiniteSets

CONSTANTS
    Event,         \* Kafka offsets of the events
    Adapter,       \* target systems
    Route,         \* Route[e]: the adapters e is dispatched to, in order
    NumTasks,      \* number of Celery messages
    EventOf,       \* EventOf[t]: the event task t carries
    Unparseable,   \* events whose JSON does not parse
    NumWorkers,    \* how many tasks execute at the same time
    MaxRetries,    \* max_retries of the task
    Answers,       \* Answers[a]: what a call of adapter a may come back with
    Verdicts,      \* what the conflict detector may decide
    Refusing,      \* adapters whose rate limiter or breaker may refuse
    MaxCrashes,    \* bound: worker processes lost
    MaxOutages,    \* bound: Redis outages
    MaxDBFaults    \* bound: PostgreSQL statements that raise

Task == 1 .. NumTasks
Key  == Event \X Adapter

Answer  == {"ok", "notfound", "unavailable", "rejected", "timeout", "untranslatable"}
Verdict == {"proceed", "loser", "parked"}

ASSUME EventAssumption ==
    /\ Event \subseteq Nat \ {0}
    /\ Unparseable \subseteq Event
ASSUME RouteAssumption ==
    /\ Route \in [Event -> Seq(Adapter)]
    /\ \A e \in Event : Route[e] # <<>>
ASSUME TaskAssumption ==
    /\ NumTasks \in Nat
    /\ EventOf \in [Task -> Event]
ASSUME EnvironmentAssumption ==
    /\ Answers \in [Adapter -> SUBSET Answer]
    /\ Verdicts \subseteq Verdict
    /\ Refusing \subseteq Adapter
ASSUME BoundAssumption ==
    {NumWorkers, MaxRetries, MaxCrashes, MaxOutages, MaxDBFaults} \subseteq Nat

VARIABLES
    pc,         \* pc[t]: where task t is
    at,         \* at[t]: position in the route of the adapter being served
    retries,    \* retries[t]: self.request.retries
    result,     \* result[t][a]: the results dict of the current attempt
    idem,       \* idem[k]: the Redis value of a reservation key
    redisUp,    \* Redis answers
    value,      \* value[a]: last event whose value the target holds, or 0
    applied,    \* applied[k]: how often the target applied the event
    audit,      \* audit[k]: audit_ledger rows recording a write
    dlq,        \* events in dead_letter_queue
    doubt,      \* history: writes applied whose knowledge was lost
    unowned,    \* history: some task went on without holding its reservation
    crashes, outages, dbFaults

taskVars  == <<pc, at, retries, result>>
targets   == <<value, applied>>
history   == <<doubt, unowned>>
budget    == <<crashes, outages, dbFaults>>
vars == <<taskVars, idem, redisUp, targets, audit, dlq, history, budget>>

KeyOf(t)    == <<EventOf[t], Route[EventOf[t]][at[t]]>>
TargetOf(t) == KeyOf(t)[2]

Waiting == {"new", "queued"}
Ended   == {"done", "failed"}
(* Between a successful reserve and the end of the adapter's turn.         *)
Holding == {"call", "complete", "audit", "release"}
Running == Holding \cup {"park", "admit", "detect", "reserve", "peek", "probe",
                         "rejectaudit", "finish"}
Executing == {t \in Task : pc[t] \in Running}

(* What one adapter's turn leaves in the results dict.  The retriable ones *)
(* are the exceptions the dispatcher collects and the task retries on; an  *)
(* "error", a "rejected" and a "timeout" are exceptions it swallows.       *)
RetriableErrors == {"refused", "busy", "unavailable"}
Result == RetriableErrors \cup
          {"none", "written", "completed", "matched", "notfound",
           "loser", "parked", "rejected", "timeout", "error"}

Init ==
    /\ pc       = [t \in Task |-> "new"]
    /\ at       = [t \in Task |-> 1]
    /\ retries  = [t \in Task |-> 0]
    /\ result   = [t \in Task |-> [a \in Adapter |-> "none"]]
    /\ idem     = [k \in Key |-> "ABSENT"]
    /\ redisUp  = TRUE
    /\ value    = [a \in Adapter |-> 0]
    /\ applied  = [k \in Key |-> 0]
    /\ audit    = [k \in Key |-> 0]
    /\ dlq      = {}
    /\ doubt    = [k \in Key |-> 0]
    /\ unowned  = FALSE
    /\ crashes  = 0
    /\ outages  = 0
    /\ dbFaults = 0

-----------------------------------------------------------------------------
Goto(t, place) == pc' = [pc EXCEPT ![t] = place]
Record(t, r)   == result' = [result EXCEPT ![t][TargetOf(t)] = r]
Inc(f, k)      == [f EXCEPT ![k] = @ + 1]

(* The dispatcher goes on to the next adapter whatever this one's turn     *)
(* came to: every exception is caught in dispatch_sws_to_departments.      *)
NextAdapter(t) ==
    IF at[t] < Len(Route[EventOf[t]])
    THEN /\ at' = [at EXCEPT ![t] = @ + 1]
         /\ Goto(t, "admit")
    ELSE /\ Goto(t, "finish")
         /\ UNCHANGED at

(* Seeded bug: the first retriable error leaves the dispatcher at once.    *)
EndTurnRaising(t, r) ==
    /\ Record(t, r)
    /\ IF r \in RetriableErrors THEN Goto(t, "finish") /\ UNCHANGED at ELSE NextAdapter(t)

EndTurn(t, r) == Record(t, r) /\ NextAdapter(t)

(* A PostgreSQL statement raises.                                          *)
DBFault ==
    /\ dbFaults < MaxDBFaults
    /\ dbFaults' = dbFaults + 1
    /\ UNCHANGED <<crashes, outages>>

(* The broker is the same Redis server: a task that ends while it is down  *)
(* cannot be acknowledged (acks_late) and is delivered again.              *)
Acknowledge(t, place) == Goto(t, IF redisUp THEN place ELSE "queued")

-----------------------------------------------------------------------------
(* A worker takes a task from the broker: fresh messages in the order they *)
(* were published, redelivered and retried ones at any time.  The event is *)
(* parsed and _is_stale_event reads Redis; both raise into the handler     *)
(* that parks the event in the dead letter queue.                          *)
Claim(t) ==
    /\ pc[t] \in Waiting
    /\ pc[t] = "new" => \A u \in 1 .. t - 1 : pc[u] # "new"
    /\ Cardinality(Executing) < NumWorkers
    /\ at' = [at EXCEPT ![t] = 1]
    /\ result' = [result EXCEPT ![t] = [a \in Adapter |-> "none"]]
    /\ Goto(t, IF EventOf[t] \in Unparseable \/ ~redisUp THEN "park" ELSE "admit")
    /\ UNCHANGED <<retries, idem, redisUp, targets, audit, dlq, history, budget>>

(* _write_to_dlq parses the JSON again before the INSERT; whatever raises  *)
(* is re-raised and fails the task, which nothing retries.                 *)
Park(t) ==
    /\ pc[t] = "park"
    /\ \/ /\ EventOf[t] \notin Unparseable
          /\ dlq' = dlq \cup {EventOf[t]}
          /\ Acknowledge(t, "done")
          /\ UNCHANGED budget
       \/ /\ EventOf[t] \in Unparseable
          /\ Acknowledge(t, "failed")
          /\ UNCHANGED <<dlq, budget>>
       \/ /\ EventOf[t] \notin Unparseable
          /\ DBFault
          /\ Acknowledge(t, "failed")
          /\ UNCHANGED dlq
    /\ UNCHANGED <<at, retries, result, idem, redisUp, targets, audit, history>>

(* Rate limit, then circuit breaker.  The limiter does not catch a lost    *)
(* Redis connection, so the dispatcher swallows it as an error.            *)
Admit(t) ==
    /\ pc[t] = "admit"
    /\ \/ /\ redisUp
          /\ Goto(t, "detect")
          /\ UNCHANGED <<at, result>>
       \/ /\ redisUp
          /\ TargetOf(t) \in Refusing
          /\ EndTurn(t, "refused")
       \/ /\ ~redisUp
          /\ EndTurn(t, "error")
    /\ UNCHANGED <<retries, idem, redisUp, targets, audit, dlq, history, budget>>

(* Conflict detection.  A lost Redis connection reads as "no conflict"; a  *)
(* conflict writes its conflict_log and audit_ledger rows, and a loser or  *)
(* an unmapped field ends the turn.                                        *)
Detect(t) ==
    /\ pc[t] = "detect"
    /\ \/ /\ redisUp => "proceed" \in Verdicts
          /\ Goto(t, "reserve")
          /\ UNCHANGED <<at, result, budget>>
       \/ /\ redisUp
          /\ \E v \in Verdicts \ {"proceed"} : EndTurn(t, v)
          /\ UNCHANGED budget
       \/ /\ redisUp
          /\ Verdicts # {"proceed"}
          /\ DBFault
          /\ EndTurn(t, "error")
    /\ UNCHANGED <<retries, idem, redisUp, targets, audit, dlq, history>>

-----------------------------------------------------------------------------
(* Phase 1, RESERVE: SET key IN_PROGRESS NX.  When the key exists, a       *)
(* second command reads it (peek).                                         *)
ReservedAsDone == "COMPLETED"      \* seeded bug: one phase instead of two
ReservedValue  == "IN_PROGRESS"

FreeIfNotDone(k) == idem[k] # "COMPLETED"      \* seeded bug: SET without NX
Free(k) == idem[k] = "ABSENT"

Reserve(t) ==
    /\ pc[t] = "reserve"
    /\ \/ /\ redisUp
          /\ Free(KeyOf(t))
          /\ idem' = [idem EXCEPT ![KeyOf(t)] = ReservedValue]
          /\ Goto(t, "call")
          /\ UNCHANGED unowned
       \/ /\ redisUp
          /\ ~Free(KeyOf(t))
          /\ Goto(t, "peek")
          /\ UNCHANGED <<idem, unowned>>
       \/ /\ ~redisUp
          /\ Goto(t, "probe")
          /\ unowned' = TRUE
          /\ UNCHANGED idem
    /\ UNCHANGED <<at, retries, result, redisUp, targets, audit, dlq, doubt, budget>>

(* SET NX took effect but the connection broke before its reply: the key   *)
(* is IN_PROGRESS and the task goes on as if it had not asked for it.  The *)
(* other commands whose reply is lost end as if they had been answered, or *)
(* as if they had not been sent.                                           *)
ReserveUnanswered(t) ==
    /\ pc[t] = "reserve"
    /\ redisUp
    /\ Free(KeyOf(t))
    /\ outages < MaxOutages
    /\ idem' = [idem EXCEPT ![KeyOf(t)] = ReservedValue]
    /\ redisUp' = FALSE
    /\ outages' = outages + 1
    /\ unowned' = TRUE
    /\ Goto(t, "probe")
    /\ UNCHANGED <<at, retries, result, targets, audit, dlq, doubt, crashes, dbFaults>>

(* A key that expired or was released since then also reads as busy.       *)
Peek(t) ==
    /\ pc[t] = "peek"
    /\ \/ /\ redisUp
          /\ EndTurn(t, IF idem[KeyOf(t)] = "COMPLETED" THEN "completed" ELSE "busy")
          /\ UNCHANGED unowned
       \/ /\ ~redisUp
          /\ Goto(t, "probe")
          /\ unowned' = TRUE
          /\ UNCHANGED <<at, result>>
    /\ UNCHANGED <<retries, idem, redisUp, targets, audit, dlq, doubt, budget>>

(* Without Redis the target is asked for its current value, and the write  *)
(* is skipped when it already matches; a failing read, or a failing audit  *)
(* row for the skip, is ignored and the write goes on.                     *)
Probe(t) ==
    /\ pc[t] = "probe"
    /\ \/ /\ value[TargetOf(t)] = EventOf[t]
          /\ EndTurn(t, "matched")
       \/ /\ Goto(t, "call")
          /\ UNCHANGED <<at, result>>
    /\ UNCHANGED <<retries, idem, redisUp, targets, audit, dlq, history, budget>>

(* Phase 2, EXECUTE: translate, then the PUT.  404, 5xx or a refused       *)
(* connection, 4xx, a timeout (the target may have applied the write) and  *)
(* a failing translation all lead to a release of the key.                 *)
ApplyWrite(t) ==
    /\ applied' = Inc(applied, KeyOf(t))
    /\ value' = [value EXCEPT ![TargetOf(t)] = EventOf[t]]

CallOk(t) ==
    /\ pc[t] = "call"
    /\ "ok" \in Answers[TargetOf(t)]
    /\ ApplyWrite(t)
    /\ Goto(t, "complete")
    /\ UNCHANGED <<at, retries, result, idem, redisUp, audit, dlq, history, budget>>

CallFails(t) ==
    /\ pc[t] = "call"
    /\ \E r \in Answers[TargetOf(t)] \ {"ok"} :
         /\ Record(t, IF r = "untranslatable" THEN "error" ELSE r)
         /\ \/ UNCHANGED <<targets, doubt>>
            \/ /\ r = "timeout"
               /\ ApplyWrite(t)
               /\ doubt' = Inc(doubt, KeyOf(t))
    /\ Goto(t, "release")
    /\ UNCHANGED <<at, retries, idem, redisUp, audit, dlq, unowned, budget>>

ForgottenValue == "ABSENT"         \* seeded bug: release instead of complete
CompletedValue == "COMPLETED"

(* Phase 3, COMPLETE.  A lost Redis connection is not fatal: the key stays *)
(* IN_PROGRESS until it expires.                                           *)
Complete(t) ==
    /\ pc[t] = "complete"
    /\ IF redisUp
       THEN /\ idem' = [idem EXCEPT ![KeyOf(t)] = CompletedValue]
            /\ UNCHANGED doubt
       ELSE /\ doubt' = Inc(doubt, KeyOf(t))
            /\ UNCHANGED idem
    /\ Goto(t, "audit")
    /\ UNCHANGED <<at, retries, result, redisUp, targets, audit, dlq, unowned, budget>>

RecordedNever(k) == audit[k]        \* seeded bug: the row's transaction is not committed
RecordedWrite(k) == audit[k] + 1

(* The audit row of a write.  If it cannot be written the outer handler    *)
(* releases the key, completed or not, and the error is swallowed.         *)
Audit(t) ==
    /\ pc[t] = "audit"
    /\ \/ /\ audit' = [audit EXCEPT ![KeyOf(t)] = RecordedWrite(KeyOf(t))]
          /\ EndTurn(t, "written")
          /\ UNCHANGED <<doubt, budget>>
       \/ /\ DBFault
          /\ Record(t, "error")
          /\ Goto(t, "release")
          /\ doubt' = Inc(doubt, KeyOf(t))
          /\ UNCHANGED <<at, audit>>
    /\ UNCHANGED <<retries, idem, redisUp, targets, dlq, unowned>>

(* Seeded bug: the 404 path returns without a release.                     *)
DeletedUnlessNotFound(t) ==
    IF redisUp /\ result[t][TargetOf(t)] # "notfound"
    THEN [idem EXCEPT ![KeyOf(t)] = "ABSENT"] ELSE idem

Deleted(t) == IF redisUp THEN [idem EXCEPT ![KeyOf(t)] = "ABSENT"] ELSE idem

(* DELETE of the key, whoever holds it.                                    *)
Release(t) ==
    /\ pc[t] = "release"
    /\ idem' = Deleted(t)
    /\ IF result[t][TargetOf(t)] = "rejected"
       THEN Goto(t, "rejectaudit") /\ UNCHANGED at
       ELSE NextAdapter(t)
    /\ UNCHANGED <<retries, result, redisUp, targets, audit, dlq, history, budget>>

(* The audit row of a 4xx answer comes after the release; if it cannot be  *)
(* written the outer handler releases the key a second time.               *)
RejectAudit(t) ==
    /\ pc[t] = "rejectaudit"
    /\ \/ /\ NextAdapter(t)
          /\ UNCHANGED <<result, unowned, budget>>
       \/ /\ DBFault
          /\ Record(t, "error")
          /\ Goto(t, "release")
          /\ unowned' = TRUE
          /\ UNCHANGED at
    /\ UNCHANGED <<retries, idem, redisUp, targets, audit, dlq, doubt>>

(* After every adapter had its turn, the first retriable error makes the   *)
(* task retry, or fail once max_retries is reached.                        *)
LastMustRetry(t) == result[t][TargetOf(t)] \in RetriableErrors    \* seeded bug
MustRetry(t) == \E a \in Adapter : result[t][a] \in RetriableErrors

RetryOneMore(t) == retries[t] <= MaxRetries    \* seeded bug: off by one
MayRetry(t) == retries[t] < MaxRetries

SameRetries(n) == n                \* seeded bug: a fresh message instead of a retry
NextRetries(n) == n + 1

Finish(t) ==
    /\ pc[t] = "finish"
    /\ IF MustRetry(t) /\ redisUp /\ MayRetry(t)
       THEN /\ retries' = [retries EXCEPT ![t] = NextRetries(@)]
            /\ Goto(t, "queued")
       ELSE /\ Acknowledge(t, IF MustRetry(t) THEN "failed" ELSE "done")
            /\ UNCHANGED retries
    /\ UNCHANGED <<at, result, idem, redisUp, targets, audit, dlq, history, budget>>

-----------------------------------------------------------------------------
(* The worker process is lost; the unacknowledged task is delivered again  *)
(* (acks_late, reject_on_worker_lost).  What it did to Redis stays.        *)
Crash(t) ==
    /\ pc[t] \in Running
    /\ crashes < MaxCrashes
    /\ crashes' = crashes + 1
    /\ doubt' = IF pc[t] = "complete" THEN Inc(doubt, KeyOf(t)) ELSE doubt
    /\ Goto(t, "queued")
    /\ UNCHANGED <<at, retries, result, idem, redisUp, targets, audit, dlq,
                   unowned, outages, dbFaults>>

Holds(t, k) == pc[t] \in Holding /\ KeyOf(t) = k

(* An IN_PROGRESS key expires after an hour.  A turn lasts seconds, so no  *)
(* task is in the middle of one that began before.                         *)
Expire(k) ==
    /\ idem[k] = "IN_PROGRESS"
    /\ \A t \in Task : ~Holds(t, k)
    /\ idem' = [idem EXCEPT ![k] = "ABSENT"]
    /\ UNCHANGED <<taskVars, redisUp, targets, audit, dlq, history, budget>>

RedisFails ==
    /\ redisUp
    /\ outages < MaxOutages
    /\ outages' = outages + 1
    /\ redisUp' = FALSE
    /\ UNCHANGED <<taskVars, idem, targets, audit, dlq, history, crashes, dbFaults>>

RedisRecovers ==
    /\ ~redisUp
    /\ redisUp' = TRUE
    /\ UNCHANGED <<taskVars, idem, targets, audit, dlq, history, budget>>

Step(t) ==
    \/ Claim(t)    \/ Park(t)
    \/ Admit(t)    \/ Detect(t)
    \/ Reserve(t)  \/ Peek(t)      \/ Probe(t)
    \/ CallOk(t)   \/ CallFails(t)
    \/ Complete(t) \/ Audit(t)
    \/ Release(t)  \/ RejectAudit(t)
    \/ Finish(t)

AllEnded == \A t \in Task : pc[t] \in Ended
(* The queue is drained: nothing is left to do.                            *)
Idle == AllEnded /\ UNCHANGED vars

Next ==
    \/ \E t \in Task : Step(t) \/ ReserveUnanswered(t) \/ Crash(t)
    \/ \E k \in Key : Expire(k)
    \/ RedisFails
    \/ RedisRecovers
    \/ Idle

Spec == Init /\ [][Next]_vars

(* The worker keeps executing what it claimed and claiming what is queued, *)
(* and a Redis outage ends.                                                *)
Fairness == WF_vars(RedisRecovers) /\ \A t \in Task : WF_vars(Step(t))
FairSpec == Spec /\ Fairness
-----------------------------------------------------------------------------
(* Type invariant of the dispatcher's, Redis' and the targets' state.      *)
Place == Waiting \cup Running \cup Ended

TasksTypeOK ==
    /\ pc      \in [Task -> Place]
    /\ at      \in [Task -> Nat \ {0}]
    /\ \A t \in Task : at[t] <= Len(Route[EventOf[t]])
    /\ retries \in [Task -> 0 .. MaxRetries]
    /\ result  \in [Task -> [Adapter -> Result]]

StoresTypeOK ==
    /\ idem    \in [Key -> {"ABSENT", "IN_PROGRESS", "COMPLETED"}]
    /\ redisUp \in BOOLEAN
    /\ value   \in [Adapter -> Event \cup {0}]
    /\ applied \in [Key -> Nat]
    /\ audit   \in [Key -> Nat]
    /\ dlq     \subseteq Event

HistoryTypeOK ==
    /\ doubt    \in [Key -> Nat]
    /\ unowned  \in BOOLEAN
    /\ crashes  \in 0 .. MaxCrashes
    /\ outages  \in 0 .. MaxOutages
    /\ dbFaults \in 0 .. MaxDBFaults

TypeOK == TasksTypeOK /\ StoresTypeOK /\ HistoryTypeOK

(* SET NX gives at most one task the turn of an event at an adapter, from  *)
(* the reservation to the last step that touches the key, through crashes, *)
(* expiries, failed audit rows and releases, as long as no task went on    *)
(* without its reservation (idempotency.py reserve and release).           *)
Exclusive ==
    ~unowned => \A t, u \in Task :
        t # u /\ {pc[t], pc[u]} \subseteq Holding => KeyOf(t) # KeyOf(u)

(* A key reads COMPLETED only if the target did apply the write: skipping  *)
(* the call on COMPLETED never loses an update (dispatcher.py line 322).   *)
NoFalseCompletion == \A k \in Key : idem[k] = "COMPLETED" => applied[k] > 0

(* Every application of a write beyond the first is answered for by one    *)
(* occasion on which the pipeline lost the knowledge of a write: a timeout *)
(* the target had applied, a crash or an outage before COMPLETE, or a      *)
(* failed audit row that released a completed key.                         *)
Known(k) ==
    \/ idem[k] = "COMPLETED"
    \/ \E t \in Task : pc[t] = "complete" /\ KeyOf(t) = k

DuplicatesAccounted ==
    ~unowned => \A k \in Key :
        applied[k] <= doubt[k] + (IF Known(k) THEN 1 ELSE 0)

(* Every path through _propagate_to_adapter, each of its error paths       *)
(* included, completes or releases what it reserved: only a crash or a     *)
(* Redis outage leaves a key IN_PROGRESS with nobody working on it.        *)
NoLeakedReservation ==
    (crashes = 0 /\ outages = 0 /\ ~unowned) => \A k \in Key :
        idem[k] = "IN_PROGRESS" => \E t \in Task : Holds(t, k)

(* What makes the last four inductive: the key of a task in its turn is    *)
(* reserved, only a task that lost Redis probes a target, the write comes  *)
(* before COMPLETE and COMPLETE before the audit row, and a task about to  *)
(* release has no write the history does not know to be in doubt.          *)
KeyHeld ==
    ~unowned => \A t \in Task :
        /\ pc[t] \in {"call", "complete"} => idem[KeyOf(t)] = "IN_PROGRESS"
        /\ pc[t] \in {"audit", "release"} => idem[KeyOf(t)] # "ABSENT"

ProbeUnowned    == \A t \in Task : pc[t] = "probe" => unowned
AppliedFirst    == \A t \in Task : pc[t] = "complete" => applied[KeyOf(t)] > 0
OutageCounted   == outages = 0 => redisUp
CompletedFirst  ==
    (outages = 0 /\ ~unowned) => \A t \in Task :
        pc[t] = "audit" => idem[KeyOf(t)] = "COMPLETED"
ReleaseInDoubt  ==
    ~unowned => \A t \in Task :
        pc[t] = "release" => applied[KeyOf(t)] <= doubt[KeyOf(t)]

ReservationInv == ProbeUnowned /\ KeyHeld /\ Exclusive
AccountingInv  == AppliedFirst /\ NoFalseCompletion /\ ReleaseInDoubt /\ DuplicatesAccounted
LeakInv        == OutageCounted /\ CompletedFirst /\ NoLeakedReservation
IInv           == TypeOK /\ ReservationInv /\ AccountingInv /\ LeakInv

(* The ledger agrees with the target.  A row stands for a write that did   *)
(* happen and no write has two; a write has no row only if it is in doubt, *)
(* or its worker was lost on the way to it (C5, dispatcher.py line 387):   *)
(* no error path, skip or retry of the code drops or repeats a row.        *)
OnTheWay(k) == {t \in Task : pc[t] \in {"complete", "audit"} /\ KeyOf(t) = k}
AuditAccounted ==
    \A k \in Key :
        /\ audit[k] <= applied[k]
        /\ applied[k] <= audit[k] + doubt[k] + crashes + Cardinality(OnTheWay(k))

(* A task that ends normally has parked its event, or every adapter of its *)
(* route has been written, was decided against, or failed in a way the     *)
(* dispatcher swallows; no adapter is left in a retriable error because    *)
(* another one succeeded (dispatcher.py, retriable_errors).                *)
DoneIsSettled ==
    \A t \in Task : pc[t] = "done" /\ EventOf[t] \notin dlq =>
        \A i \in DOMAIN Route[EventOf[t]] :
            LET a == Route[EventOf[t]][i] IN
            \/ result[t][a] \in {"written", "completed"} /\ applied[<<EventOf[t], a>>] > 0
            \/ result[t][a] \in {"matched", "notfound", "loser", "parked",
                                 "rejected", "timeout", "error"}

(* What makes these two inductive: a task on its way to its row has        *)
(* applied a write that no row stands for yet; every turn that is over has *)
(* left a result, and the results that claim a write follow one.           *)
Ledger ==
    \A k \in Key :
        LET onTheWay == Cardinality(OnTheWay(k)) IN
        /\ audit[k] + onTheWay <= applied[k]
        /\ applied[k] <= audit[k] + doubt[k] + crashes + onTheWay

Served(t, n) == \A i \in 1 .. n : result[t][Route[EventOf[t]][i]] # "none"
ServedAll(t) == Served(t, Len(Route[EventOf[t]]))

TurnsRecorded(t) ==
    /\ pc[t] \in Running \ {"park", "finish"} => Served(t, at[t] - 1)
    /\ pc[t] \in {"release", "rejectaudit"}    => Served(t, at[t])
    /\ pc[t] = "finish" => ServedAll(t)
    /\ pc[t] = "done"   => EventOf[t] \in dlq \/ (ServedAll(t) /\ ~MustRetry(t))

ResultsReal(t) ==
    /\ pc[t] = "audit" => applied[KeyOf(t)] > 0
    /\ \A a \in Adapter :
          result[t][a] \in {"written", "completed"} => applied[<<EventOf[t], a>>] > 0

SettledInv == \A t \in Task : TurnsRecorded(t) /\ ResultsReal(t)

(* No task retries for ever: each is acknowledged in the end.              *)
EveryTaskEnds == \A t \in Task : <>(pc[t] \in Ended)

(* One adapter's failures never keep an event from another adapter that    *)
(* answers (C9 of dispatch_sws_to_departments), even when several tasks    *)
(* compete for the event and the failing adapter exhausts their retries.   *)
Healthy(a) == Answers[a] = {"ok"} /\ a \notin Refusing
HealthyAdaptersServed ==
    \A t \in Task : EventOf[t] \notin Unparseable => \A i \in DOMAIN Route[EventOf[t]] :
        Healthy(Route[EventOf[t]][i]) =>
            <>(applied[<<EventOf[t], Route[EventOf[t]][i]>>] > 0)

(* A target never goes back to an event older than the one it holds.  It   *)
(* holds for one worker as long as nothing is retried.                     *)
StrictOrder == [][\A a \in Adapter : value'[a] >= value[a]]_value

-----------------------------------------------------------------------------
(* What the documentation says and the code does not do.                   *)

(* "maximum retry exhaustions are parked in PostgreSQL" (README.md).       *)
ExhaustionParked ==
    \A t \in Task : pc[t] = "failed" => EventOf[t] \in dlq

(* "Redis NX prevents concurrent workers" (idempotency.py).                *)
NXPreventsConcurrentWorkers ==
    \A t, u \in Task : t # u /\ pc[t] = "call" /\ pc[u] = "call" => KeyOf(t) # KeyOf(u)
=============================================================================
