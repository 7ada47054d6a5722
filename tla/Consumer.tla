------------------------------ MODULE Consumer ------------------------------
(***************************************************************************)
(* The Kafka consumer thread of SyncKar (consumer_loop in api/main.py).    *)
(* It reads one message at a time from its partitions, hands it to Celery  *)
(* as a propagate_event_task, waits for the task's result for a limited    *)
(* time, and commits only after a success.  A commit without arguments     *)
(* commits the position of every partition.  Any exception outside the     *)
(* wait closes the consumer, and a new one starts at the committed offsets.*)
(*                                                                         *)
(* What a task does is module Dispatch; here it ends or fails, at any      *)
(* time, also after the consumer stopped waiting for it.                   *)
(***************************************************************************)
EXTENDS Integers, FiniteSets

CONSTANTS
    Partition,    \* partitions of the three topics
    MaxLog,       \* bound: messages per partition
    MaxRestarts   \* bound: fatal errors and process losses

ASSUME ConsumerAssumption == MaxLog \in Nat /\ MaxRestarts \in Nat

Offset == 0 .. MaxLog - 1
Msg    == Partition \X Offset

VARIABLES
    produced,    \* produced[p]: messages in the partition
    committed,   \* committed[p]: offset of the group "synckar-dispatcher"
    position,    \* position[p]: next offset the consumer reads
    cpc,         \* poll, dispatch, wait, down
    current,     \* the message in hand
    mine,        \* state of the task being waited for: running, done, failed
    late,        \* late[m]: running tasks nobody waits for any more
    handed,      \* handed[m]: tasks created for the message
    settled,     \* messages of which a task ended normally
    restarts

kafka  == <<produced, committed>>
tasks  == <<mine, late, handed, settled>>
vars   == <<kafka, position, cpc, current, tasks, restarts>>

NoMsg == <<>>

Init ==
    /\ produced  = [p \in Partition |-> 0]
    /\ committed = [p \in Partition |-> 0]
    /\ position  = [p \in Partition |-> 0]
    /\ cpc       = "poll"
    /\ current   = NoMsg
    /\ mine      = "done"
    /\ late      = [m \in Msg |-> 0]
    /\ handed    = [m \in Msg |-> 0]
    /\ settled   = {}
    /\ restarts  = 0

(* The outbox publishes (module Outbox).                                   *)
Publish(p) ==
    /\ produced[p] < MaxLog
    /\ produced' = [produced EXCEPT ![p] = @ + 1]
    /\ UNCHANGED <<committed, position, cpc, current, tasks, restarts>>

-----------------------------------------------------------------------------
(* poll() returns the next message of some partition, past which the       *)
(* position moves at once, or nothing.                                     *)
SkippedOne(n)  == n + 2      \* seeded bug: off by one
NotAdvanced(n) == n          \* seeded bug: the position waits for the commit
Advanced(n)    == n + 1

Poll(p) ==
    /\ cpc = "poll"
    /\ position[p] < produced[p]
    /\ current' = <<p, position[p]>>
    /\ position' = [position EXCEPT ![p] = Advanced(@)]
    /\ cpc' = "dispatch"
    /\ UNCHANGED <<kafka, tasks, restarts>>

PollNothing ==
    /\ cpc = "poll"
    /\ position = produced
    /\ UNCHANGED vars

(* apply_async(retry=False).                                               *)
HandOver ==
    /\ cpc = "dispatch"
    /\ handed' = [handed EXCEPT ![current] = @ + 1]
    /\ mine' = "running"
    /\ cpc' = "wait"
    /\ UNCHANGED <<kafka, position, current, late, settled, restarts>>

TaskEnds ==
    /\ cpc = "wait" /\ mine = "running"
    /\ \/ mine' = "done" /\ settled' = settled \cup {current}
       \/ mine' = "failed" /\ UNCHANGED settled
    /\ UNCHANGED <<kafka, position, cpc, current, late, handed, restarts>>

LateTaskEnds(m) ==
    /\ late[m] > 0
    /\ late' = [late EXCEPT ![m] = @ - 1]
    /\ settled' \in {settled, settled \cup {m}}
    /\ UNCHANGED <<kafka, position, cpc, current, mine, handed, restarts>>

(* The consumer stops waiting; a task still running goes on without it.    *)
StopWaiting ==
    /\ current' = NoMsg
    /\ mine' = "done"
    /\ late' = IF mine = "running" THEN [late EXCEPT ![current] = @ + 1] ELSE late

(* result.get() returns and every position is committed.                   *)
Commit ==
    /\ cpc = "wait" /\ mine = "done"
    /\ committed' = position
    /\ StopWaiting
    /\ cpc' = "poll"
    /\ UNCHANGED <<produced, position, handed, settled, restarts>>

(* result.get() raises what the task raised, or after 30 seconds, or the   *)
(* commit itself fails: the loop continues with the next message.          *)
GiveUp ==
    /\ cpc = "wait"
    /\ StopWaiting
    /\ cpc' = "poll"
    /\ UNCHANGED <<kafka, position, handed, settled, restarts>>

(* A fatal error anywhere in the loop, among them a broker that refuses    *)
(* apply_async, or the loss of the process.                                *)
AfterRefusal(place) == IF place = "dispatch" THEN "poll" ELSE "down"   \* seeded bug
AfterFatal(place)   == "down"

Fatal ==
    /\ cpc # "down"
    /\ restarts < MaxRestarts
    /\ restarts' = restarts + 1
    /\ cpc' = AfterFatal(cpc)
    /\ StopWaiting
    /\ UNCHANGED <<kafka, position, handed, settled>>

StartLatest == produced          \* seeded bug: a new consumer starts at the end
Start == committed

(* A new consumer of the group, five seconds later.                        *)
Restart ==
    /\ cpc = "down"
    /\ cpc' = "poll"
    /\ position' = Start
    /\ UNCHANGED <<kafka, current, tasks, restarts>>

Read    == \E p \in Partition : Poll(p)
Consume == Read \/ HandOver \/ TaskEnds \/ Commit \/ GiveUp \/ Restart

Next ==
    \/ \E p \in Partition : Publish(p)
    \/ Consume
    \/ PollNothing
    \/ \E m \in Msg : LateTaskEnds(m)
    \/ Fatal

Spec == Init /\ [][Next]_vars

(* The thread keeps running, every wait being limited by its timeout, and  *)
(* the Kafka client takes the partitions in turn.                          *)
FairSpec == Spec /\ WF_vars(Consume) /\ \A p \in Partition : SF_vars(Poll(p))

-----------------------------------------------------------------------------
(* Type invariant; no offset runs past the log.                            *)
TypeOK ==
    /\ produced  \in [Partition -> 0 .. MaxLog]
    /\ committed \in [Partition -> 0 .. MaxLog]
    /\ position  \in [Partition -> 0 .. MaxLog]
    /\ \A p \in Partition : committed[p] <= produced[p] /\ position[p] <= produced[p]
    /\ cpc       \in {"poll", "dispatch", "wait", "down"}
    /\ current   \in Msg \cup {NoMsg}
    /\ mine      \in {"running", "done", "failed"}
    /\ late      \in [Msg -> Nat]
    /\ handed    \in [Msg -> Nat]
    /\ settled   \subseteq Msg
    /\ restarts  \in 0 .. MaxRestarts

(* At least once: no message is behind the committed offset, and so never  *)
(* read again, without having become a Celery task, although a commit made *)
(* for one partition moves the offsets of all of them (consumer.commit()   *)
(* in consumer_loop).                                                      *)
HandedOver ==
    \A p \in Partition : \A o \in Offset : o < committed[p] => handed[<<p, o>>] > 0

(* A message becomes a second task only when the consumer was restarted:   *)
(* failures, timeouts and failed commits alone duplicate nothing.          *)
OncePerStart == \A m \in Msg : handed[m] <= restarts + 1

(* Every published message becomes a task, through any number of failing   *)
(* or slow tasks before it: none of them blocks its partition for ever.    *)
EventuallyHanded ==
    \A p \in Partition : \A o \in Offset :
        (produced[p] > o) ~> (handed[<<p, o>>] > 0)

(* What makes them inductive: what the consumer has read it has handed     *)
(* over, except the message in hand.                                       *)
InHand(m) == cpc = "dispatch" /\ m = current

ReadHanded ==
    cpc # "down" =>
        \A p \in Partition : \A o \in Offset :
            o < position[p] => handed[<<p, o>>] > 0 \/ InHand(<<p, o>>)

HandShape ==
    /\ cpc \in {"dispatch", "wait"} => current \in Msg /\ position[current[1]] = current[2] + 1
    /\ cpc \in {"poll", "down"} => current = NoMsg
    /\ mine = "running" => cpc = "wait"

UnreadOnce ==
    cpc # "down" =>
        \A p \in Partition : \A o \in Offset :
            o >= position[p] \/ InHand(<<p, o>>) => handed[<<p, o>>] <= restarts

DownOnce == cpc = "down" => \A m \in Msg : handed[m] <= restarts

IInv ==
    /\ TypeOK /\ HandShape /\ ReadHanded /\ HandedOver
    /\ UnreadOnce /\ DownOnce /\ OncePerStart

(* "No commit: Kafka will redeliver" (consumer_loop), said of a message    *)
(* whose task failed: the committed offset never passes such a message.    *)
FailedRedelivered ==
    \A p \in Partition : \A o \in Offset : o < committed[p] => <<p, o>> \in settled
=============================================================================
