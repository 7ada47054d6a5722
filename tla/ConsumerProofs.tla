--------------------------- MODULE ConsumerProofs ---------------------------
(***************************************************************************)
(* Proofs about Consumer, for any number of partitions, messages and       *)
(* restarts.                                                               *)
(***************************************************************************)
EXTENDS Consumer, TLAPS

LEMMA NoMsgIsNoMsg == NoMsg \notin Msg
BY DEF NoMsg, Msg

LEMMA InvInit == Init => IInv
BY ConsumerAssumption DEF Init, IInv, TypeOK, HandShape, ReadHanded, HandedOver,
   UnreadOnce, DownOnce, OncePerStart, InHand, Offset, Msg

(* What Kafka and Celery do leaves the consumer's bookkeeping alone.       *)
LEMMA OthersStep ==
    ASSUME IInv,
           \/ \E p \in Partition : Publish(p)
           \/ TaskEnds
           \/ \E m \in Msg : LateTaskEnds(m)
           \/ UNCHANGED vars
    PROVE  IInv'
<1> USE DEF IInv, kafka, tasks
<1>1. TypeOK'
      BY ConsumerAssumption DEF TypeOK, Publish, TaskEnds, LateTaskEnds, vars, HandShape
<1>2. UNCHANGED <<committed, position, cpc, current, handed, restarts>>
      BY DEF Publish, TaskEnds, LateTaskEnds, vars
<1>3. mine' = "running" => mine = "running"
      BY DEF Publish, TaskEnds, LateTaskEnds, vars
<1> QED
    BY <1>1, <1>2, <1>3 DEF HandShape, ReadHanded, HandedOver, UnreadOnce, DownOnce,
       OncePerStart, InHand

LEMMA PollStep ==
    ASSUME IInv, NEW p \in Partition, Poll(p)
    PROVE  IInv'
<1> USE DEF IInv
<1>1. /\ position[p] \in Offset /\ position' = [position EXCEPT ![p] = @ + 1]
      /\ current' = <<p, position[p]>> /\ cpc' = "dispatch" /\ cpc = "poll"
      /\ UNCHANGED <<produced, committed, mine, late, handed, settled, restarts>>
      BY ConsumerAssumption DEF Poll, Advanced, TypeOK, Offset, kafka, tasks
<1>2. TypeOK'
      BY <1>1, ConsumerAssumption DEF Poll, TypeOK, Msg, Offset
<1>3. HandShape'
      BY <1>1 DEF HandShape, TypeOK, Msg
<1>4. ReadHanded'
      BY <1>1 DEF ReadHanded, InHand, TypeOK, Offset
<1>5. UnreadOnce'
      BY <1>1 DEF UnreadOnce, InHand, TypeOK, Offset
<1> QED
    BY <1>1, <1>2, <1>3, <1>4, <1>5 DEF HandedOver, DownOnce, OncePerStart

LEMMA HandOverStep ==
    ASSUME IInv, HandOver
    PROVE  IInv'
<1> USE DEF IInv
<1>1. /\ current \in Msg /\ cpc = "dispatch" /\ cpc' = "wait"
      /\ handed' = [handed EXCEPT ![current] = @ + 1]
      /\ UNCHANGED <<produced, committed, position, current, late, settled, restarts>>
      /\ mine' = "running"
      BY DEF HandOver, HandShape, kafka
<1>2. TypeOK'
      BY <1>1 DEF TypeOK
<1>3. HandShape'
      BY <1>1 DEF HandShape
<1>4. \A m \in Msg : handed'[m] >= handed[m] /\ (m = current => handed'[m] > 0)
      BY <1>1 DEF TypeOK
<1>5. \A m \in Msg : handed[m] > 0 => handed'[m] > 0
      BY <1>1 DEF TypeOK
<1>6. ReadHanded'
      BY <1>1, <1>4, <1>5 DEF ReadHanded, InHand, Msg
<1>7. HandedOver'
      BY <1>1, <1>5 DEF HandedOver, Msg
<1>8. handed[current] <= restarts
  <2>1. PICK p \in Partition, o \in Offset : current = <<p, o>>
        BY <1>1 DEF Msg
  <2> QED
      BY <1>1, <2>1 DEF UnreadOnce, InHand
<1>9. UnreadOnce'
  <2>1. ASSUME NEW p \in Partition, NEW o \in Offset, o >= position[p]
        PROVE  handed'[<<p, o>>] <= restarts
    <3>1. <<p, o>> # current
          BY <1>1, <2>1 DEF HandShape, TypeOK, Offset
    <3>2. handed'[<<p, o>>] = handed[<<p, o>>]
          BY <1>1, <3>1 DEF TypeOK
    <3> QED
        BY <1>1, <2>1, <3>2 DEF UnreadOnce
  <2> QED
      BY <1>1, <2>1 DEF UnreadOnce, InHand
<1>10. OncePerStart'
      BY <1>1, <1>8 DEF OncePerStart, TypeOK
<1> QED
    BY <1>1, <1>2, <1>3, <1>6, <1>7, <1>9, <1>10 DEF DownOnce

(* The consumer stops waiting, with or without a commit.                   *)
LEMMA StopStep ==
    ASSUME IInv, Commit \/ GiveUp
    PROVE  IInv'
<1> USE DEF IInv
<1>1. /\ cpc = "wait" /\ cpc' = "poll" /\ current' = NoMsg /\ mine' = "done"
      /\ committed' = committed \/ committed' = position
      /\ UNCHANGED <<produced, position, handed, settled, restarts>>
      BY DEF Commit, GiveUp, StopWaiting, kafka
<1>2. late' \in [Msg -> Nat]
      BY DEF Commit, GiveUp, StopWaiting, TypeOK, HandShape
<1>3. TypeOK'
      BY <1>1, <1>2 DEF TypeOK
<1>4. HandShape'
      BY <1>1 DEF HandShape
<1>5. ReadHanded'
      BY <1>1 DEF ReadHanded, InHand
<1>6. HandedOver'
      BY <1>1 DEF HandedOver, ReadHanded, InHand
<1>7. UnreadOnce'
      BY <1>1, NoMsgIsNoMsg DEF UnreadOnce, InHand, Msg
<1> QED
    BY <1>1, <1>3, <1>4, <1>5, <1>6, <1>7 DEF DownOnce, OncePerStart

LEMMA FatalStep ==
    ASSUME IInv, Fatal
    PROVE  IInv'
<1> USE DEF IInv
<1>1. /\ cpc # "down" /\ cpc' = "down" /\ current' = NoMsg /\ mine' = "done"
      /\ restarts' = restarts + 1 /\ restarts < MaxRestarts
      /\ UNCHANGED <<produced, committed, position, handed, settled>>
      BY DEF Fatal, AfterFatal, StopWaiting, kafka
<1>2. late' \in [Msg -> Nat]
      BY DEF Fatal, StopWaiting, TypeOK, HandShape
<1>3. TypeOK'
      BY <1>1, <1>2, ConsumerAssumption DEF TypeOK
<1>4. OncePerStart'
      BY <1>1 DEF OncePerStart, TypeOK
<1>5. DownOnce'
      BY <1>1 DEF DownOnce, OncePerStart, TypeOK
<1> QED
    BY <1>1, <1>3, <1>4, <1>5 DEF HandShape, ReadHanded, HandedOver, UnreadOnce

(* A new consumer starts at the committed offsets: everything before them  *)
(* was handed over, and no message more often than the consumer started.   *)
LEMMA RestartStep ==
    ASSUME IInv, Restart
    PROVE  IInv'
<1> USE DEF IInv
<1>1. /\ cpc = "down" /\ cpc' = "poll" /\ position' = committed
      /\ UNCHANGED <<produced, committed, current, mine, late, handed, settled, restarts>>
      BY DEF Restart, Start, kafka, tasks
<1>2. TypeOK'
      BY <1>1 DEF TypeOK
<1>3. ReadHanded'
      BY <1>1 DEF ReadHanded, HandedOver
<1>4. UnreadOnce'
      BY <1>1 DEF UnreadOnce, InHand, DownOnce, Msg
<1> QED
    BY <1>1, <1>2, <1>3, <1>4 DEF HandShape, HandedOver, DownOnce, OncePerStart

LEMMA InvStep ==
    ASSUME IInv, [Next]_vars
    PROVE  IInv'
BY OthersStep, PollStep, HandOverStep, StopStep, FatalStep, RestartStep
DEF Next, Consume, Read, PollNothing

LEMMA InvAlways == Spec => []IInv
BY InvInit, InvStep, PTL DEF Spec

-----------------------------------------------------------------------------
(* Every variable keeps its type and no offset runs past its log           *)
(* (consumer_loop).                                                        *)
THEOREM TypeCorrect == Spec => []TypeOK
BY InvAlways, PTL DEF IInv

(* At least once: whatever fails, times out or is lost, a message behind   *)
(* the committed offset has become a Celery task (consumer.commit()).      *)
THEOREM EverythingHandedOver == Spec => []HandedOver
BY InvAlways, PTL DEF IInv

(* One task per start of the consumer: only a restart duplicates a message *)
(* (consumer_loop).                                                        *)
THEOREM OncePerStartAlways == Spec => []OncePerStart
BY InvAlways, PTL DEF IInv
=============================================================================
