---------------------------- MODULE OutboxProofs ----------------------------
(***************************************************************************)
(* Proofs about Outbox, for any number of rows, drainers, writers and      *)
(* failures.  IInv is the inductive invariant; its parts are proved to be  *)
(* preserved in three layers: the shape of a run, what is in Kafka, and    *)
(* what is in doubt.                                                       *)
(***************************************************************************)
EXTENDS Outbox, FiniteSetTheorems, TLAPS

LEMMA AppendHolds ==
    ASSUME NEW l \in Seq(Row), NEW r \in Row, NEW m, m = Append(l, r)
    PROVE  /\ m \in Seq(Row)
           /\ \A s : Holds(m, s) <=> Holds(l, s) \/ s = r
<1>1. m \in Seq(Row) /\ Len(m) = Len(l) + 1 /\ Len(l) \in Nat
      OBVIOUS
<1>2. \A i \in 1 .. Len(l) : m[i] = l[i]
      OBVIOUS
<1>3. m[Len(l) + 1] = r
      OBVIOUS
<1>4. 1 .. Len(m) = (1 .. Len(l)) \cup {Len(l) + 1}
      BY <1>1
<1> QED
    BY <1>1, <1>2, <1>3, <1>4 DEF Holds

LEMMA AppendTwice ==
    ASSUME NEW l \in Seq(Row), NEW r \in Row, NEW m, m = Append(l, r),
           NEW D, NEW E, D \subseteq E, TwiceOnlyIn(l, D), r \in E \/ ~Holds(l, r)
    PROVE  TwiceOnlyIn(m, E)
<1>1. m \in Seq(Row) /\ Len(m) = Len(l) + 1 /\ Len(l) \in Nat
      OBVIOUS
<1>2. \A i \in 1 .. Len(l) : m[i] = l[i]
      OBVIOUS
<1>3. m[Len(l) + 1] = r
      OBVIOUS
<1>4. 1 .. Len(m) = (1 .. Len(l)) \cup {Len(l) + 1}
      BY <1>1
<1>5. SUFFICES ASSUME NEW i \in 1 .. Len(m), NEW j \in 1 .. Len(m), i # j, m[i] = m[j]
               PROVE  m[i] \in E
      BY DEF TwiceOnlyIn
<1>6. CASE i \in 1 .. Len(l) /\ j \in 1 .. Len(l)
      BY <1>2, <1>5, <1>6 DEF TwiceOnlyIn
<1>7. CASE i = Len(l) + 1 /\ j \in 1 .. Len(l)
      BY <1>2, <1>3, <1>5, <1>7 DEF Holds
<1>8. CASE j = Len(l) + 1 /\ i \in 1 .. Len(l)
      BY <1>2, <1>3, <1>5, <1>8 DEF Holds
<1> QED
    BY <1>4, <1>5, <1>6, <1>7, <1>8

LEMMA FaultTyped ==
    ASSUME faults \in 0 .. MaxFaults, Fault
    PROVE  faults' \in 0 .. MaxFaults
BY OutboxAssumption DEF Fault

LEMMA SelectBatch ==
    ASSUME NEW d \in Drainer, Select(d)
    PROVE  \E batch \in SUBSET Row :
              /\ \A r \in batch : Selectable(r)
              /\ locked' = [locked EXCEPT ![d] = batch]
              /\ todo'   = [todo   EXCEPT ![d] = batch]
<1> DEFINE batch == Oldest({r \in Row : Selectable(r)})
<1>1. batch \subseteq {r \in Row : Selectable(r)}
      BY DEF Oldest
<1>2. /\ locked' = [locked EXCEPT ![d] = batch]
      /\ todo'   = [todo   EXCEPT ![d] = batch]
      BY DEF Select
<1> HIDE DEF batch
<1> QED
    BY <1>1, <1>2

LEMMA AbandonTyped ==
    ASSUME NEW d \in Drainer, TypeOK, Abandon(d)
    PROVE  /\ queue' \in [Drainer -> SUBSET Row]
           /\ stray' \in [Row -> Nat]
           /\ \A r \in Row : /\ r \in queue[d]    => stray'[r] = stray[r] + 1
                            /\ r \notin queue[d] => stray'[r] = stray[r]
BY DEF TypeOK, Abandon

-----------------------------------------------------------------------------
(* The type invariant is preserved.                                        *)
LEMMA TypeInit == Init => TypeOK
BY OutboxAssumption DEF Init, TypeOK

LEMMA TypeStep ==
    ASSUME TypeOK, [Next]_vars
    PROVE  TypeOK'
<1> USE DEF TypeOK
<1>1. CASE \E r \in Row : Write(r)
  <2>1. PICK r \in Row : Write(r)
        BY <1>1
  <2>2. /\ UNCHANGED <<inDoubt, drainers, kafka>>
        /\ UNCHANGED faults \/ Fault
        /\ \E s \in {"open", "PENDING", "aborted"} : status' = [status EXCEPT ![r] = s]
        BY <2>1 DEF Write, Insert, Commit, Rollback
  <2>3. faults' \in 0 .. MaxFaults
        BY <2>2, FaultTyped
  <2>4. status' \in [Row -> {"none", "open", "PENDING", "PUBLISHED", "aborted"}]
        BY <2>2
  <2> QED
      BY <2>2, <2>3, <2>4 DEF drainers, kafka
<1>2. CASE \E d \in Drainer : Select(d)
  <2>1. PICK d \in Drainer : Select(d)
        BY <1>2
  <2>2. PICK batch \in SUBSET Row :
             /\ locked' = [locked EXCEPT ![d] = batch]
             /\ todo'   = [todo   EXCEPT ![d] = batch]
        BY <2>1, SelectBatch
  <2>3. dpc' = [dpc EXCEPT ![d] = "send"] /\ UNCHANGED <<rows, queue, delivered, kafka, faults>>
        BY <2>1 DEF Select
  <2> QED
      BY <2>2, <2>3 DEF rows, kafka
<1>3. CASE \E d \in Drainer : Produce(d)
  <2>1. PICK d \in Drainer : Produce(d)
        BY <1>3
  <2>2. PICK r \in Row : /\ todo' = [todo EXCEPT ![d] = @ \ {r}]
                         /\ \/ queue' = [queue EXCEPT ![d] = @ \cup {r}] /\ UNCHANGED faults
                            \/ Fault /\ UNCHANGED queue
        BY <2>1 DEF Produce
  <2>3. queue' \in [Drainer -> SUBSET Row] /\ faults' \in 0 .. MaxFaults
        BY <2>2, FaultTyped
  <2>4. UNCHANGED <<rows, dpc, locked, delivered, kafka>>
        BY <2>1 DEF Produce
  <2> QED
      BY <2>2, <2>3, <2>4 DEF rows, kafka
<1>4. CASE \E d \in Drainer : Deliver(d)
  <2>1. PICK d \in Drainer : Deliver(d)
        BY <1>4
  <2>2. PICK r \in queue[d] : /\ log' = Append(log, r)
                              /\ queue' = [queue EXCEPT ![d] = @ \ {r}]
                              /\ delivered' = [delivered EXCEPT ![d] = @ \cup {r}]
                              /\ faults' = faults \/ Fault
        BY <2>1 DEF Deliver
  <2>3. r \in Row
        BY <2>2
  <2>4. log' \in Seq(Row)
        BY <2>2, <2>3
  <2>5. UNCHANGED <<rows, dpc, locked, todo, stray>>
        BY <2>1 DEF Deliver
  <2> QED
      BY <2>2, <2>3, <2>4, <2>5, FaultTyped DEF rows
<1>5. CASE \E d \in Drainer : LoseAck(d)
  <2>0. PICK d \in Drainer : LoseAck(d)
        BY <1>5
  <2>1. PICK r \in queue[d] :
             /\ log' = Append(log, r) /\ inDoubt' = inDoubt \cup {r} /\ Fault
             /\ UNCHANGED <<status, drainers, stray>>
        BY <2>0 DEF LoseAck
  <2>2. r \in Row
        BY <2>1
  <2>3. log' \in Seq(Row)
        BY <2>1, <2>2
  <2> QED
      BY <2>1, <2>2, <2>3, FaultTyped DEF drainers
<1>6. CASE \E d \in Drainer : Refuse(d)
      BY <1>6, FaultTyped DEF Refuse, rows, kafka
<1>7. CASE \E d \in Drainer : Flush(d)
  <2>1. PICK d \in Drainer : Flush(d)
        BY <1>7
  <2>2. /\ dpc' = [dpc EXCEPT ![d] = "mark"]
        /\ UNCHANGED <<status, locked, todo, delivered, log>>
        BY <2>1 DEF Flush
  <2>3. CASE UNCHANGED <<queue, stray, inDoubt, faults>>
        BY <2>2, <2>3
  <2>4. CASE Fault /\ Abandon(d) /\ inDoubt' = inDoubt \cup queue[d]
        BY <2>2, <2>4, FaultTyped, AbandonTyped
  <2> QED
      BY <2>1, <2>3, <2>4 DEF Flush
<1>8. CASE \E d \in Drainer : MarkPublished(d)
      BY <1>8 DEF MarkPublished, Marked, MarkedStatus, EndRun, kafka
<1>9. CASE \E d \in Drainer : MarkFails(d)
      BY <1>9, FaultTyped DEF MarkFails, EndRun, kafka
<1>10. CASE \E d \in Drainer : Crash(d)
      BY <1>10, FaultTyped DEF Crash, EndRun, Abandon
<1>11. CASE \E r \in Row : StrayArrives(r)
  <2>1. PICK r \in Row : StrayArrives(r)
        BY <1>11
  <2>2. log' \in Seq(Row)
        BY <2>1 DEF StrayArrives
  <2>3. stray' \in [Row -> Nat]
        BY <2>1 DEF StrayArrives
  <2> QED
      BY <2>1, <2>2, <2>3 DEF StrayArrives, rows, drainers
<1>12. CASE \E r \in Row : StrayVanishes(r)
      BY <1>12 DEF StrayVanishes, rows, drainers
<1>13. CASE UNCHANGED vars
      BY <1>13 DEF vars, rows, drainers, kafka
<1> QED
    BY <1>1, <1>2, <1>3, <1>4, <1>5, <1>6, <1>7, <1>8, <1>9, <1>10, <1>11, <1>12, <1>13
    DEF Next, Drain, Fail, Stray, Drained

-----------------------------------------------------------------------------
(* The shape of a run and the exclusion of overlapping ones.  Everything a *)
(* step does to a drainer's sets happens to one drainer; the lemma says    *)
(* what has to hold of that one.                                           *)
RowsOf(d) == <<dpc[d], locked[d], todo[d], queue[d], delivered[d]>>

LEMMA OneRunMoves ==
    ASSUME TypeOK, RunShape, OneRunPerRow,
           NEW d \in Drainer,
           \A e \in Drainer \ {d} : RowsOf(e)' = RowsOf(e),
           \A r \in Row : status'[r] # status[r] => \A e \in Drainer \ {d} : r \notin locked[e],
           (todo[d] \cup queue[d] \cup delivered[d])' \subseteq locked'[d],
           (todo[d] \cap queue[d])' = {},
           ((todo[d] \cup queue[d]) \cap delivered[d])' = {},
           dpc'[d] = "idle" => locked'[d] = {},
           dpc'[d] # "send" => (todo[d] \cup queue[d])' = {},
           \A r \in locked'[d] : /\ status'[r] = "PENDING"
                                 /\ \A e \in Drainer \ {d} : r \notin locked[e]
    PROVE  RunShape' /\ OneRunPerRow'
<1> USE DEF RowsOf
<1>1. RunShape'
      BY DEF RunShape
<1>2. ASSUME NEW a \in Drainer, NEW b \in Drainer, a # b
      PROVE  locked'[a] \cap locked'[b] = {}
  <2>1. CASE a # d /\ b # d
        BY <1>2, <2>1 DEF OneRunPerRow
  <2>2. CASE a = d
        BY <1>2, <2>2
  <2>3. CASE b = d
        BY <1>2, <2>3
  <2> QED
      BY <2>1, <2>2, <2>3
<1>3. ASSUME NEW a \in Drainer, NEW r \in locked'[a]
      PROVE  status'[r] = "PENDING"
      BY <1>3 DEF OneRunPerRow, TypeOK
<1> QED
    BY <1>1, <1>2, <1>3 DEF OneRunPerRow

LEMMA ShapeStep ==
    ASSUME TypeOK, RunShape, OneRunPerRow, [Next]_vars
    PROVE  RunShape' /\ OneRunPerRow'
<1> USE DEF TypeOK
<1>1. CASE \E r \in Row : Insert(r) \/ Commit(r) \/ Rollback(r)
  <2>1. PICK r \in Row : Insert(r) \/ Commit(r) \/ Rollback(r)
        BY <1>1
  <2>2. UNCHANGED drainers /\ \A s \in Row : status[s] = "PENDING" => status'[s] = "PENDING"
        BY <2>1 DEF Insert, Commit, Rollback
  <2>3. RunShape'
        BY <2>2 DEF drainers, RunShape
  <2>4. OneRunPerRow'
        BY <2>2 DEF drainers, OneRunPerRow
  <2> QED
      BY <2>3, <2>4
<1>2. CASE \E d \in Drainer : Select(d)
  <2>1. PICK d \in Drainer : Select(d)
        BY <1>2
  <2>2. PICK batch \in SUBSET Row :
             /\ \A r \in batch : Selectable(r)
             /\ locked' = [locked EXCEPT ![d] = batch]
             /\ todo'   = [todo   EXCEPT ![d] = batch]
        BY <2>1, SelectBatch
  <2>3. dpc[d] = "idle" /\ dpc' = [dpc EXCEPT ![d] = "send"] /\ UNCHANGED <<rows, queue, delivered>>
        BY <2>1 DEF Select
  <2>4. queue[d] = {} /\ delivered[d] = {}
        BY <2>3 DEF RunShape
  <2>5. \A e \in Drainer \ {d} : RowsOf(e)' = RowsOf(e)
        BY <2>2, <2>3 DEF RowsOf
  <2>6. /\ locked'[d] = batch /\ todo'[d] = batch /\ queue'[d] = {} /\ delivered'[d] = {}
        /\ dpc'[d] = "send" /\ status' = status
        BY <2>2, <2>3, <2>4 DEF rows
  <2>7. \A r \in locked'[d] : /\ status'[r] = "PENDING"
                              /\ \A e \in Drainer \ {d} : r \notin locked[e]
        BY <2>2, <2>6 DEF Selectable
  <2>8. /\ (todo[d] \cup queue[d] \cup delivered[d])' \subseteq locked'[d]
        /\ (todo[d] \cap queue[d])' = {}
        /\ ((todo[d] \cup queue[d]) \cap delivered[d])' = {}
        BY <2>6
  <2> HIDE DEF TypeOK
  <2> QED
      BY <2>5, <2>6, <2>7, <2>8, OneRunMoves
<1>3. CASE \E d \in Drainer : Produce(d)
  <2>1. PICK d \in Drainer : Produce(d)
        BY <1>3
  <2>2. PICK r \in Row : /\ r \in todo[d]
                         /\ todo' = [todo EXCEPT ![d] = @ \ {r}]
                         /\ \/ queue' = [queue EXCEPT ![d] = @ \cup {r}]
                            \/ UNCHANGED queue
        BY <2>1 DEF Produce, First
  <2>3. dpc[d] = "send" /\ UNCHANGED <<rows, dpc, locked, delivered>>
        BY <2>1 DEF Produce
  <2>4. \A e \in Drainer \ {d} : RowsOf(e)' = RowsOf(e)
        BY <2>2, <2>3 DEF RowsOf
  <2>5. /\ (todo[d] \cup queue[d] \cup delivered[d])' \subseteq locked'[d]
        /\ (todo[d] \cap queue[d])' = {}
        /\ ((todo[d] \cup queue[d]) \cap delivered[d])' = {}
        BY <2>2, <2>3 DEF RunShape
  <2> QED
      BY <2>2, <2>3, <2>4, <2>5, OneRunMoves DEF OneRunPerRow, rows
<1>4. CASE \E d \in Drainer : Deliver(d) \/ LoseAck(d) \/ Refuse(d)
  <2>1. PICK d \in Drainer : Deliver(d) \/ LoseAck(d) \/ Refuse(d)
        BY <1>4
  <2>2. PICK r \in queue[d] : \/ /\ queue' = [queue EXCEPT ![d] = @ \ {r}]
                                 /\ \/ delivered' = [delivered EXCEPT ![d] = @ \cup {r}]
                                    \/ UNCHANGED delivered
                              \/ UNCHANGED <<queue, delivered>>
        BY <2>1 DEF Deliver, LoseAck, Refuse, drainers
  <2>3. dpc[d] = "send" /\ UNCHANGED <<status, dpc, locked, todo>>
        BY <2>1 DEF Deliver, LoseAck, Refuse, drainers, rows
  <2>4. \A e \in Drainer \ {d} : RowsOf(e)' = RowsOf(e)
        BY <2>2, <2>3 DEF RowsOf
  <2>5. /\ (todo[d] \cup queue[d] \cup delivered[d])' \subseteq locked'[d]
        /\ (todo[d] \cap queue[d])' = {}
        BY <2>2, <2>3 DEF RunShape
  <2>6. ((todo[d] \cup queue[d]) \cap delivered[d])' = {}
    <3>1. CASE UNCHANGED delivered
          BY <2>2, <2>3, <3>1 DEF RunShape
    <3>2. CASE /\ queue' = [queue EXCEPT ![d] = @ \ {r}]
               /\ delivered' = [delivered EXCEPT ![d] = @ \cup {r}]
          BY <2>3, <3>2 DEF RunShape
    <3> QED
        BY <2>2, <3>1, <3>2
  <2> QED
      BY <2>3, <2>4, <2>5, <2>6, OneRunMoves DEF OneRunPerRow
<1>5. CASE \E d \in Drainer : Flush(d)
  <2>1. PICK d \in Drainer : Flush(d)
        BY <1>5
  <2>2. /\ dpc' = [dpc EXCEPT ![d] = "mark"] /\ todo[d] = {} /\ dpc[d] = "send"
        /\ UNCHANGED <<status, locked, todo, delivered>>
        BY <2>1 DEF Flush
  <2>3. queue' = [queue EXCEPT ![d] = {}]
        BY <2>1 DEF Flush, Abandon
  <2>4. \A e \in Drainer \ {d} : RowsOf(e)' = RowsOf(e)
        BY <2>2, <2>3 DEF RowsOf
  <2>5. dpc'[d] = "mark" /\ todo'[d] = {} /\ queue'[d] = {}
        BY <2>2, <2>3
  <2>6. (todo[d] \cup queue[d] \cup delivered[d])' \subseteq locked'[d]
        BY <2>2, <2>5 DEF RunShape
  <2>7. /\ (todo[d] \cap queue[d])' = {}
        /\ ((todo[d] \cup queue[d]) \cap delivered[d])' = {}
        /\ (todo[d] \cup queue[d])' = {}
        BY <2>5
  <2>8. \A r \in locked'[d] : /\ status'[r] = "PENDING"
                              /\ \A e \in Drainer \ {d} : r \notin locked[e]
        BY <2>2 DEF OneRunPerRow
  <2> HIDE DEF TypeOK
  <2> QED
      BY <2>2, <2>4, <2>5, <2>6, <2>7, <2>8, OneRunMoves
<1>6. CASE \E d \in Drainer : MarkPublished(d) \/ MarkFails(d) \/ Crash(d)
  <2>1. PICK d \in Drainer : MarkPublished(d) \/ MarkFails(d) \/ Crash(d)
        BY <1>6
  <2>2. EndRun(d)
        BY <2>1 DEF MarkPublished, MarkFails, Crash
  <2>3. queue' = [queue EXCEPT ![d] = {}]
    <3>1. CASE Crash(d)
          BY <3>1 DEF Crash, Abandon
    <3>2. CASE MarkPublished(d) \/ MarkFails(d)
          BY <3>2 DEF MarkPublished, MarkFails, RunShape
    <3> QED
        BY <2>1, <3>1, <3>2
  <2>4. \A r \in Row : status'[r] # status[r] => r \in locked[d]
        BY <2>1 DEF MarkPublished, Marked, MarkFails, Crash, RunShape
  <2>5. \A e \in Drainer \ {d} : RowsOf(e)' = RowsOf(e)
        BY <2>2, <2>3 DEF RowsOf, EndRun
  <2>6. \A r \in Row : status'[r] # status[r] => \A e \in Drainer \ {d} : r \notin locked[e]
        BY <2>4 DEF OneRunPerRow
  <2>7. /\ locked'[d] = {} /\ todo'[d] = {} /\ queue'[d] = {} /\ delivered'[d] = {}
        /\ dpc'[d] = "idle"
        BY <2>2, <2>3 DEF EndRun
  <2> QED
      BY SMTT(30), <2>5, <2>6, <2>7, OneRunMoves
<1>7. CASE (\E r \in Row : Stray(r)) \/ UNCHANGED vars
  <2>1. UNCHANGED <<status, dpc, locked, todo, queue, delivered>>
        BY <1>7 DEF Stray, StrayArrives, StrayVanishes, vars, rows, drainers
  <2> QED
      BY <2>1 DEF RunShape, OneRunPerRow
<1> QED
    BY <1>1, <1>2, <1>3, <1>4, <1>5, <1>6, <1>7 DEF Next, Write, Drain, Fail, Drained

-----------------------------------------------------------------------------
(* What Kafka holds.  Three kinds of step append to the log, each of them  *)
(* a row that was committed before.                                        *)
Appends(r) ==
    \/ \E d \in Drainer : /\ dpc[d] = "send" /\ r \in queue[d]
                          /\ Deliver(d) \/ LoseAck(d)
    \/ StrayArrives(r)

LEMMA LogGrows ==
    ASSUME TypeOK, [Next]_vars
    PROVE  \/ log' = log
           \/ \E r \in Row : log' = Append(log, r) /\ Appends(r)
<1> USE DEF TypeOK
<1>1. CASE \E d \in Drainer : Deliver(d)
      BY <1>1 DEF Deliver, Appends
<1>2. CASE \E d \in Drainer : LoseAck(d)
      BY <1>2 DEF LoseAck, Appends
<1>3. CASE \E r \in Row : StrayArrives(r)
      BY <1>3 DEF StrayArrives, Appends
<1>4. CASE \E r \in Row : Write(r) \/ StrayVanishes(r)
      BY <1>4 DEF Write, Insert, Commit, Rollback, StrayVanishes, kafka
<1>5. CASE \E d \in Drainer : Select(d) \/ Produce(d) \/ Flush(d) \/ MarkPublished(d)
      BY <1>5 DEF Select, Produce, Flush, MarkPublished, kafka
<1>6. CASE \E d \in Drainer : Refuse(d) \/ MarkFails(d) \/ Crash(d)
      BY <1>6 DEF Refuse, MarkFails, Crash, kafka
<1>7. CASE UNCHANGED vars
      BY <1>7 DEF vars, kafka
<1> QED
    BY <1>1, <1>2, <1>3, <1>4, <1>5, <1>6, <1>7 DEF Next, Drain, Fail, Stray, Drained

LEMMA AppendedCommitted ==
    ASSUME TypeOK, RunShape, OneRunPerRow, SentCommitted, NEW r \in Row, Appends(r)
    PROVE  r \in Committed
BY DEF Appends, RunShape, OneRunPerRow, SentCommitted, StrayArrives, Committed

LEMMA LogKeeps ==
    ASSUME TypeOK, [Next]_vars
    PROVE  \A s : InLog(s) => InLog(s)'
<1>1. CASE log' = log
      BY <1>1 DEF InLog
<1>2. CASE \E r \in Row : log' = Append(log, r)
      BY <1>2, AppendHolds DEF InLog, TypeOK
<1> QED
    BY <1>1, <1>2, LogGrows

LEMMA CommittedKeeps ==
    ASSUME TypeOK, RunShape, OneRunPerRow, [Next]_vars
    PROVE  Committed \subseteq Committed'
<1> USE DEF TypeOK, Committed
<1>1. CASE \E r \in Row : Insert(r) \/ Commit(r) \/ Rollback(r)
      BY <1>1 DEF Insert, Commit, Rollback
<1>2. CASE \E d \in Drainer : MarkPublished(d)
      BY <1>2 DEF MarkPublished, MarkedStatus
<1>3. CASE UNCHANGED status
      BY <1>3
<1> QED
    BY <1>1, <1>2, <1>3
    DEF Next, Write, Drain, Fail, Stray, Drained, vars, rows, Select, Produce, Deliver,
        Flush, LoseAck, Refuse, MarkFails, Crash, StrayArrives, StrayVanishes

(* The stray messages of a step are those of before or of an abandoned     *)
(* producer.                                                               *)
LEMMA StrayGrows ==
    ASSUME TypeOK, [Next]_vars, NEW s \in Row, stray'[s] # stray[s]
    PROVE  \/ stray[s] > 0
           \/ \E d \in Drainer : /\ s \in queue[d] /\ Abandon(d)
                                 /\ inDoubt' = inDoubt \cup queue[d] \/ Crash(d)
<1> USE DEF TypeOK
<1>1. CASE \E d \in Drainer : Flush(d)
  <2>1. PICK d \in Drainer : Flush(d)
        BY <1>1
  <2>2. Abandon(d) /\ inDoubt' = inDoubt \cup queue[d]
        BY <2>1 DEF Flush
  <2>3. s \in queue[d]
        BY <2>2, AbandonTyped
  <2> QED
      BY <2>2, <2>3
<1>2. CASE \E d \in Drainer : Crash(d)
  <2>1. PICK d \in Drainer : Crash(d)
        BY <1>2
  <2>2. Abandon(d)
        BY <2>1 DEF Crash
  <2>3. s \in queue[d]
        BY <2>2, AbandonTyped
  <2> QED
      BY <2>1, <2>2, <2>3
<1>3. CASE \E r \in Row : StrayArrives(r) \/ StrayVanishes(r)
  <2>1. PICK r \in Row : stray[r] > 0 /\ stray' = [stray EXCEPT ![r] = @ - 1]
        BY <1>3 DEF StrayArrives, StrayVanishes
  <2> QED
      BY <2>1
<1>4. CASE UNCHANGED stray
      BY <1>4
<1> QED
    BY <1>1, <1>2, <1>3, <1>4
    DEF Next, Write, Drain, Fail, Stray, Drained, vars, kafka, Insert, Commit, Rollback,
        Select, Produce, Deliver, LoseAck, Refuse, MarkPublished, MarkFails

LEMMA SentStep ==
    ASSUME TypeOK, RunShape, OneRunPerRow, SentCommitted, [Next]_vars
    PROVE  SentCommitted'
<1>1. SUFFICES ASSUME NEW s \in Row, InLog(s)' \/ stray'[s] > 0
               PROVE  s \in Committed
      BY CommittedKeeps DEF SentCommitted
<1>2. CASE InLog(s)'
  <2>1. CASE log' = log
        BY <1>2, <2>1 DEF InLog, SentCommitted
  <2>2. CASE \E r \in Row : log' = Append(log, r) /\ Appends(r)
    <3>1. PICK r \in Row : log' = Append(log, r) /\ Appends(r)
          BY <2>2
    <3>2. InLog(s) \/ s = r
          BY <1>2, <3>1, AppendHolds DEF InLog, TypeOK
    <3> QED
        BY <3>1, <3>2, AppendedCommitted DEF SentCommitted
  <2> QED
      BY <2>1, <2>2, LogGrows
<1>3. CASE stray'[s] > 0
  <2>1. CASE stray'[s] = stray[s]
        BY <1>3, <2>1 DEF SentCommitted
  <2>2. CASE stray'[s] # stray[s]
    <3>1. CASE stray[s] > 0
          BY <3>1 DEF SentCommitted
    <3>2. CASE \E d \in Drainer : s \in queue[d]
          BY <3>2 DEF RunShape, OneRunPerRow, Committed
    <3> QED
        BY <2>2, <3>1, <3>2, StrayGrows
  <2> QED
      BY <2>1, <2>2
<1> QED
    BY <1>1, <1>2, <1>3

LEMMA DeliveredStep ==
    ASSUME TypeOK, DeliveredInLog, [Next]_vars
    PROVE  DeliveredInLog'
<1> USE DEF TypeOK
<1>1. CASE \E d \in Drainer : Deliver(d)
  <2>1. PICK d \in Drainer : Deliver(d)
        BY <1>1
  <2>2. PICK r \in queue[d] : /\ log' = Append(log, r)
                              /\ delivered' = [delivered EXCEPT ![d] = @ \cup {r}]
        BY <2>1 DEF Deliver
  <2>3. r \in Row
        BY <2>2
  <2>4. \A s : InLog(s)' <=> InLog(s) \/ s = r
        BY <2>2, <2>3, AppendHolds DEF InLog
  <2>5. \A e \in Drainer : delivered'[e] \subseteq delivered[e] \cup {r}
        BY <2>2
  <2> QED
      BY <2>4, <2>5 DEF DeliveredInLog
<1>2. CASE \E d \in Drainer : MarkPublished(d) \/ MarkFails(d) \/ Crash(d)
  <2>1. \A e \in Drainer : delivered'[e] \subseteq delivered[e]
        BY <1>2 DEF MarkPublished, MarkFails, Crash, EndRun
  <2> QED
      BY <2>1, LogKeeps DEF DeliveredInLog
<1>3. CASE UNCHANGED delivered
      BY <1>3, LogKeeps DEF DeliveredInLog
<1> QED
    BY <1>1, <1>2, <1>3
    DEF Next, Write, Drain, Fail, Stray, Drained, vars, drainers, Insert, Commit, Rollback,
        Select, Produce, Flush, LoseAck, Refuse, StrayArrives, StrayVanishes

LEMMA PublishedStep ==
    ASSUME TypeOK, DeliveredInLog, PublishedInLog, [Next]_vars
    PROVE  PublishedInLog'
<1>1. \A r \in Row : status'[r] = "PUBLISHED" =>
          status[r] = "PUBLISHED" \/ \E d \in Drainer : r \in delivered[d]
  <2> USE DEF TypeOK
  <2>1. CASE \E r \in Row : Insert(r) \/ Commit(r) \/ Rollback(r)
        BY <2>1 DEF Insert, Commit, Rollback
  <2>2. CASE \E d \in Drainer : MarkPublished(d)
        BY <2>2 DEF MarkPublished, Marked, MarkedStatus
  <2>3. CASE UNCHANGED status
        BY <2>3
  <2> QED
      BY <2>1, <2>2, <2>3
      DEF Next, Write, Drain, Fail, Stray, Drained, vars, rows, Select, Produce, Deliver,
          Flush, LoseAck, Refuse, MarkFails, Crash, StrayArrives, StrayVanishes
<1>2. \A r \in Row : status[r] = "PUBLISHED" => InLog(r)
      BY DEF PublishedInLog, Published
<1>3. \A r \in Row : status'[r] = "PUBLISHED" => InLog(r)
      BY <1>1, <1>2 DEF DeliveredInLog
<1> QED
    BY <1>3, LogKeeps DEF PublishedInLog, Published

-----------------------------------------------------------------------------
(* What is in doubt.  Clear(s) is what OutOfDoubt says of one row.         *)
Clear(s) ==
    /\ stray[s] = 0
    /\ \A d \in Drainer : s \in todo[d] \cup queue[d] => ~InLog(s)
    /\ status[s] = "PENDING" /\ InLog(s) => \E d \in Drainer : s \in delivered[d]

LEMMA DoubtGrows ==
    ASSUME TypeOK, [Next]_vars
    PROVE  inDoubt \subseteq inDoubt'
BY DEF Next, Write, Drain, Fail, Stray, Drained, vars, rows, Insert, Commit, Rollback,
       Select, Produce, Deliver, Flush, LoseAck, Refuse, MarkPublished, MarkFails, Crash,
       StrayArrives, StrayVanishes

(* Steps that leave Kafka and the delivered rows alone, and at most take   *)
(* rows out of the producers.                                              *)
LEMMA ClearStays ==
    ASSUME NEW s \in Row, Clear(s),
           log' = log, stray'[s] = stray[s],
           \A d \in Drainer : (todo[d] \cup queue[d])' \subseteq todo[d] \cup queue[d],
           status'[s] = "PENDING" => status[s] = "PENDING" \/ ~InLog(s),
           \A d \in Drainer : s \in delivered[d] =>
               s \in delivered'[d] \/ status'[s] # "PENDING"
    PROVE  Clear(s)'
BY DEF Clear, InLog

LEMMA ClearStep ==
    ASSUME TypeOK, RunShape, OneRunPerRow, SentCommitted, OutOfDoubt, [Next]_vars,
           NEW s \in Row, s \notin inDoubt'
    PROVE  Clear(s)'
<1> USE DEF TypeOK
<1>1. s \notin inDoubt /\ Clear(s)
      BY DoubtGrows DEF OutOfDoubt, Clear
<1>2. CASE \E r \in Row : Insert(r) \/ Commit(r) \/ Rollback(r)
  <2>1. PICK r \in Row : Insert(r) \/ Commit(r) \/ Rollback(r)
        BY <1>2
  <2>2. UNCHANGED <<todo, queue, delivered, log, stray>>
        BY <2>1 DEF Insert, Commit, Rollback, drainers, kafka
  <2>3. status'[s] = "PENDING" => status[s] = "PENDING" \/ status[s] = "open"
        BY <2>1 DEF Insert, Commit, Rollback
  <2>4. status[s] = "open" => ~InLog(s)
        BY DEF SentCommitted, Committed
  <2> QED
      BY <1>1, <2>2, <2>3, <2>4, ClearStays
<1>3. CASE \E d \in Drainer : Select(d)
  <2>1. PICK d \in Drainer : Select(d)
        BY <1>3
  <2>2. PICK batch \in SUBSET Row :
             /\ \A r \in batch : Selectable(r)
             /\ locked' = [locked EXCEPT ![d] = batch]
             /\ todo'   = [todo   EXCEPT ![d] = batch]
        BY <2>1, SelectBatch
  <2>3. UNCHANGED <<status, queue, delivered, log, stray>>
        BY <2>1 DEF Select, rows, kafka
  <2>4. s \in batch => ~InLog(s)
        BY <1>1, <2>2 DEF Selectable, Clear, RunShape
  <2>5. \A e \in Drainer : s \in (todo[e] \cup queue[e])' => ~InLog(s)
        BY <1>1, <2>2, <2>3, <2>4 DEF Clear
  <2> QED
      BY <1>1, <2>3, <2>5 DEF Clear, InLog
<1>4. CASE \E d \in Drainer : Produce(d)
  <2>1. PICK d \in Drainer : Produce(d)
        BY <1>4
  <2>2. PICK r \in Row : /\ r \in todo[d]
                         /\ todo' = [todo EXCEPT ![d] = @ \ {r}]
                         /\ \/ queue' = [queue EXCEPT ![d] = @ \cup {r}]
                            \/ UNCHANGED queue
        BY <2>1 DEF Produce, First
  <2>3. UNCHANGED <<status, delivered, log, stray>>
        BY <2>1 DEF Produce, rows, kafka
  <2>4. \A e \in Drainer : (todo[e] \cup queue[e])' \subseteq todo[e] \cup queue[e]
        BY <2>2
  <2> QED
      BY <1>1, <2>3, <2>4, ClearStays
<1>5. CASE \E d \in Drainer : Deliver(d)
  <2>1. PICK d \in Drainer : Deliver(d)
        BY <1>5
  <2>2. PICK r \in queue[d] : /\ log' = Append(log, r)
                              /\ queue' = [queue EXCEPT ![d] = @ \ {r}]
                              /\ delivered' = [delivered EXCEPT ![d] = @ \cup {r}]
        BY <2>1 DEF Deliver
  <2>3. UNCHANGED <<status, todo, stray>> /\ r \in Row
        BY <2>1, <2>2 DEF Deliver, rows
  <2>4. InLog(s)' <=> InLog(s) \/ s = r
        BY <2>2, <2>3, AppendHolds DEF InLog
  <2>5. CASE s # r
        BY <1>1, <2>2, <2>3, <2>4, <2>5 DEF Clear
  <2>6. CASE s = r
    <3>1. s \in delivered'[d]
          BY <2>2, <2>6
    <3>2. \A e \in Drainer : s \notin (todo[e] \cup queue[e])'
          BY <2>2, <2>3, <2>6 DEF RunShape, OneRunPerRow
    <3> QED
        BY <1>1, <2>3, <3>1, <3>2 DEF Clear
  <2> QED
      BY <2>5, <2>6
<1>6. CASE \E d \in Drainer : LoseAck(d)
  <2>1. PICK d \in Drainer : LoseAck(d)
        BY <1>6
  <2>2. PICK r \in queue[d] : log' = Append(log, r) /\ inDoubt' = inDoubt \cup {r}
        BY <2>1 DEF LoseAck
  <2>3. UNCHANGED <<status, todo, queue, delivered, stray>> /\ r \in Row /\ s # r
        BY <2>1, <2>2 DEF LoseAck, drainers
  <2>4. InLog(s)' <=> InLog(s)
        BY <2>2, <2>3, AppendHolds DEF InLog
  <2> QED
      BY <1>1, <2>3, <2>4 DEF Clear
<1>7. CASE \E d \in Drainer : Refuse(d)
  <2>1. UNCHANGED <<status, todo, delivered, log, stray>>
        BY <1>7 DEF Refuse, rows, kafka
  <2>2. \A e \in Drainer : (todo[e] \cup queue[e])' \subseteq todo[e] \cup queue[e]
        BY <1>7 DEF Refuse
  <2> QED
      BY <1>1, <2>1, <2>2, ClearStays
<1>8. CASE \E d \in Drainer : Flush(d) \/ Crash(d)
  <2>1. PICK d \in Drainer : Flush(d) \/ Crash(d)
        BY <1>8
  <2>2. stray'[s] = stray[s]
    <3>1. CASE UNCHANGED stray
          BY <3>1
    <3>2. CASE Abandon(d) /\ s \notin queue[d]
          BY <3>2, AbandonTyped
    <3> QED
        BY <2>1, <3>1, <3>2 DEF Flush, Crash
  <2>3. UNCHANGED <<status, log>>
        BY <2>1 DEF Flush, Crash
  <2>4. \A e \in Drainer : (todo[e] \cup queue[e])' \subseteq todo[e] \cup queue[e]
        BY <2>1 DEF Flush, Crash, Abandon, EndRun
  <2>5. \A e \in Drainer : s \in delivered[e] => s \in delivered'[e]
        BY <2>1 DEF Flush, Crash, EndRun
  <2> QED
      BY <1>1, <2>2, <2>3, <2>4, <2>5, ClearStays
<1>9. CASE \E d \in Drainer : MarkPublished(d) \/ MarkFails(d)
  <2>1. PICK d \in Drainer : MarkPublished(d) \/ MarkFails(d)
        BY <1>9
  <2>2. UNCHANGED <<queue, log, stray>>
        BY <2>1 DEF MarkPublished, MarkFails, kafka
  <2>3. \A e \in Drainer : (todo[e] \cup queue[e])' \subseteq todo[e] \cup queue[e]
        BY <2>1, <2>2 DEF MarkPublished, MarkFails, EndRun
  <2>4. /\ status'[s] = "PENDING" => status[s] = "PENDING"
        /\ s \in delivered[d] => status'[s] # "PENDING"
        BY <2>1 DEF MarkPublished, Marked, MarkedStatus, MarkFails
  <2>5. \A e \in Drainer : s \in delivered[e] => s \in delivered'[e] \/ e = d
        BY <2>1 DEF MarkPublished, MarkFails, EndRun
  <2> QED
      BY <1>1, <2>2, <2>3, <2>4, <2>5, ClearStays
<1>10. CASE \E r \in Row : StrayArrives(r) \/ StrayVanishes(r)
  <2>1. PICK r \in Row : StrayArrives(r) \/ StrayVanishes(r)
        BY <1>10
  <2>2. stray[r] > 0 /\ stray' = [stray EXCEPT ![r] = @ - 1]
        BY <2>1 DEF StrayArrives, StrayVanishes
  <2>3. s # r
        BY <1>1, <2>2 DEF Clear
  <2>4. InLog(s)' <=> InLog(s)
        BY <2>1, <2>3, AppendHolds DEF StrayArrives, StrayVanishes, InLog
  <2>5. UNCHANGED <<status, todo, queue, delivered>> /\ stray'[s] = stray[s]
        BY <2>1, <2>2, <2>3 DEF StrayArrives, StrayVanishes, rows, drainers
  <2> QED
      BY <1>1, <2>4, <2>5 DEF Clear
<1>11. CASE UNCHANGED vars
      BY <1>1, <1>11 DEF vars, rows, drainers, kafka, Clear, InLog
<1> QED
    BY <1>2, <1>3, <1>4, <1>5, <1>6, <1>7, <1>8, <1>9, <1>10, <1>11
    DEF Next, Write, Drain, Fail, Stray, Drained

LEMMA TwiceStep ==
    ASSUME TypeOK, OutOfDoubt, DuplicatesInDoubt, [Next]_vars
    PROVE  DuplicatesInDoubt'
<1>1. inDoubt \subseteq inDoubt'
      BY DoubtGrows
<1>2. CASE log' = log
      BY <1>1, <1>2 DEF DuplicatesInDoubt, TwiceOnlyIn
<1>3. CASE \E r \in Row : log' = Append(log, r) /\ Appends(r)
  <2>1. PICK r \in Row : log' = Append(log, r) /\ Appends(r)
        BY <1>3
  <2>2. r \in inDoubt' \/ ~InLog(r)
    <3>1. CASE r \in inDoubt
          BY <1>1, <3>1
    <3>2. CASE r \notin inDoubt
          BY <2>1, <3>2 DEF OutOfDoubt, Appends, StrayArrives
    <3> QED
        BY <3>1, <3>2
  <2>3. log \in Seq(Row)
        BY DEF TypeOK
  <2> QED
      BY <1>1, <2>1, <2>2, <2>3, AppendTwice DEF DuplicatesInDoubt, InLog
<1> QED
    BY <1>2, <1>3, LogGrows

-----------------------------------------------------------------------------
(* The inductive invariant.                                                *)
LEMMA InvInit == Init => IInv
<1> SUFFICES ASSUME Init PROVE IInv
    OBVIOUS
<1>1. TypeOK
      BY TypeInit
<1>2. \A s : ~InLog(s)
      BY DEF Init, InLog, Holds
<1>3. RunShape /\ OneRunPerRow /\ DeliveredInLog
      BY DEF Init, RunShape, OneRunPerRow, DeliveredInLog
<1>4. SentCommitted /\ PublishedInLog /\ OutOfDoubt
      BY <1>2 DEF Init, SentCommitted, PublishedInLog, Published, OutOfDoubt
<1>5. DuplicatesInDoubt
      BY DEF Init, DuplicatesInDoubt, TwiceOnlyIn
<1> QED
    BY <1>1, <1>3, <1>4, <1>5 DEF IInv

LEMMA InvStep == IInv /\ [Next]_vars => IInv'
<1> SUFFICES ASSUME IInv, [Next]_vars PROVE IInv'
    OBVIOUS
<1> USE DEF IInv
<1>1. TypeOK'
      BY TypeStep
<1>2. RunShape' /\ OneRunPerRow'
      BY ShapeStep
<1>3. SentCommitted'
      BY SentStep
<1>4. DeliveredInLog' /\ PublishedInLog'
      BY DeliveredStep, PublishedStep
<1>5. OutOfDoubt'
      BY ClearStep DEF OutOfDoubt, Clear
<1>6. DuplicatesInDoubt'
      BY TwiceStep
<1> QED
    BY <1>1, <1>2, <1>3, <1>4, <1>5, <1>6

LEMMA InvAlways == Spec => []IInv
BY InvInit, InvStep, PTL DEF Spec

(* Every variable keeps its type (pipeline/outbox.py).                     *)
THEOREM TypeCorrect == Spec => []TypeOK
<1>1. IInv => TypeOK
      BY DEF IInv
<1> QED
    BY <1>1, InvAlways, PTL

(* Overlapping runs of drain_outbox never work on the same row (SELECT ... *)
(* FOR UPDATE SKIP LOCKED), for any number of workers.                     *)
THEOREM RunsAreExclusive == Spec => []OneRunPerRow
<1>1. IInv => OneRunPerRow
      BY DEF IInv
<1> QED
    BY <1>1, InvAlways, PTL

(* A row marked PUBLISHED is in Kafka: no failure between produce and      *)
(* commit loses an event (delivered_ids of drain_outbox).                  *)
THEOREM PublishedIsInLog == Spec => []PublishedInLog
<1>1. IInv => PublishedInLog
      BY DEF IInv
<1> QED
    BY <1>1, InvAlways, PTL

(* Kafka holds a row twice only if drain_outbox sent it once without       *)
(* learning, or keeping, that it arrived.                                  *)
THEOREM DuplicatesAreInDoubt == Spec => []DuplicatesInDoubt
<1>1. IInv => DuplicatesInDoubt
      BY DEF IInv
<1> QED
    BY <1>1, InvAlways, PTL

-----------------------------------------------------------------------------
(* The outbox implements the channel.                                      *)
Logged == {r \in Row : InLog(r)}

LEMMA ChannelStep ==
    ASSUME IInv, [Next]_vars
    PROVE  [Kafka!Next]_(Kafka!vars)
<1> USE DEF IInv, Logged, Kafka!vars
<1>a. status \in [Row -> {"none", "open", "PENDING", "PUBLISHED", "aborted"}]
      BY DEF TypeOK
<1>1. CASE \E r \in Row : Commit(r)
  <2>1. PICK r \in Row : Commit(r)
        BY <1>1
  <2>2. r \notin Committed /\ Committed' = Committed \cup {r} /\ Published' = Published
        BY <1>a, <2>1 DEF Commit, Committed, Published
  <2>3. Logged' = Logged
        BY <2>1 DEF Commit, kafka, InLog
  <2> QED
      BY <2>2, <2>3 DEF Kafka!Next, Kafka!Accept
<1>2. CASE \E r \in Row : Insert(r) \/ Rollback(r)
  <2>1. Committed' = Committed /\ Published' = Published
        BY <1>a, <1>2 DEF Insert, Rollback, Committed, Published
  <2>2. Logged' = Logged
        BY <1>2 DEF Insert, Rollback, kafka, InLog
  <2> QED
      BY <2>1, <2>2
<1>3. CASE \E d \in Drainer : MarkPublished(d)
  <2>1. PICK d \in Drainer : MarkPublished(d)
        BY <1>3
  <2>2. delivered[d] \subseteq Logged /\ delivered[d] \in SUBSET Row
        BY DEF DeliveredInLog, TypeOK
  <2>3. \A r \in delivered[d] : status[r] = "PENDING"
        BY DEF RunShape, OneRunPerRow
  <2>4. status' = [r \in Row |-> IF r \in delivered[d] THEN "PUBLISHED" ELSE status[r]]
        BY <2>1 DEF MarkPublished, Marked, MarkedStatus
  <2>5. Committed' = Committed /\ Published' = Published \cup delivered[d]
        BY <1>a, <2>2, <2>3, <2>4 DEF Committed, Published
  <2>6. Logged' = Logged
        BY <2>1 DEF MarkPublished, kafka, InLog
  <2> QED
      BY <2>2, <2>5, <2>6 DEF Kafka!Next, Kafka!Settle
<1>4. CASE UNCHANGED status
  <2>1. Committed' = Committed /\ Published' = Published
        BY <1>4 DEF Committed, Published
  <2>2. CASE log' = log
        BY <2>1, <2>2 DEF InLog
  <2>3. CASE \E r \in Row : log' = Append(log, r) /\ Appends(r)
    <3>1. PICK r \in Row : log' = Append(log, r) /\ Appends(r)
          BY <2>3
    <3>2. Logged' = Logged \cup {r}
          BY <3>1, AppendHolds DEF InLog, TypeOK
    <3>3. r \in Committed
          BY <3>1, AppendedCommitted
    <3>4. CASE r \in Logged
          BY <2>1, <3>2, <3>4
    <3>5. CASE r \notin Logged
          BY <2>1, <3>2, <3>3, <3>5 DEF Kafka!Next, Kafka!Deliver
    <3> QED
        BY <3>4, <3>5
  <2> QED
      BY <2>2, <2>3, LogGrows
<1> QED
    BY <1>1, <1>2, <1>3, <1>4
    DEF Next, Write, Drain, Fail, Stray, Drained, vars, rows, Select, Produce, Deliver,
        Flush, LoseAck, Refuse, MarkFails, Crash, StrayArrives, StrayVanishes

(* Every behaviour of the outbox is one of an at-least-once channel:       *)
(* nothing reaches Kafka that was not committed, and nothing is settled    *)
(* that did not reach Kafka (docstring of pipeline/outbox.py).  That every *)
(* committed row gets there is liveness, and left to TLC.                  *)
THEOREM OutboxImplementsChannel == Spec => Kafka!Spec
<1>1. Init => Kafka!Init
  <2>1. ASSUME Init PROVE Committed = {} /\ Published = {} /\ \A r : ~InLog(r)
        BY <2>1 DEF Init, Committed, Published, InLog, Holds
  <2> QED
      BY <2>1 DEF Kafka!Init
<1>2. IInv /\ [Next]_vars => [Kafka!Next]_(Kafka!vars)
      BY ChannelStep
<1> QED
    BY <1>1, <1>2, InvAlways, PTL DEF Spec, Kafka!Spec
-----------------------------------------------------------------------------
(* One worker and one writer keep the order.                               *)
LEMMA NoFault ==
    ASSUME TypeOK, faults' = 0, faults' = faults \/ Fault
    PROVE  faults = 0 /\ ~Fault
BY DEF TypeOK, Fault

(* The oldest rows of a set are closed downwards in it.                    *)
LEMMA OldestClosed ==
    ASSUME NEW S \in SUBSET Row, NEW r \in S, NEW s \in Oldest(S), r < s
    PROVE  r \in Oldest(S)
<1> DEFINE Before(x) == {q \in S : q < x}
<1>1. r \in Nat /\ s \in Nat /\ \A q \in S : q \in Nat
      BY OutboxAssumption DEF Row, Oldest
<1>2. IsFiniteSet(Row)
      BY FS_Interval, OutboxAssumption DEF Row
<1>3. Before(s) \subseteq Row /\ Before(r) \subseteq Before(s)
  <2>1. \A q \in S : q < r => q < s
        BY <1>1
  <2> QED
      BY <2>1
<1>4. IsFiniteSet(Before(s))
      BY <1>2, <1>3, FS_Subset
<1>5. IsFiniteSet(Before(r)) /\ Cardinality(Before(r)) <= Cardinality(Before(s))
      BY <1>3, <1>4, FS_Subset
<1>6. Cardinality(Before(r)) \in Nat /\ Cardinality(Before(s)) \in Nat
      BY <1>4, <1>5, FS_CardinalityType
<1>7. Cardinality(Before(s)) < BatchSize
      BY DEF Oldest
<1>8. Cardinality(Before(r)) < BatchSize
      BY <1>5, <1>6, <1>7, OutboxAssumption
<1> QED
    BY <1>8 DEF Oldest

LEMMA NothingOpen ==
    ASSUME OneWorkerOneWriter, NEW r \in Row, Insert(r)
    PROVE  \A s \in Row : status[s] # "open"
<1> DEFINE O == {s \in Row : status[s] = "open"}
<1>1. IsFiniteSet(Row)
      BY FS_Interval, OutboxAssumption DEF Row
<1>2. IsFiniteSet(O)
      BY <1>1, FS_Subset
<1>3. Cardinality(O) < NumWriters
      BY DEF Insert
<1>4. Cardinality(O) \in Nat
      BY <1>2, FS_CardinalityType
<1>5. Cardinality(O) = 0
      BY <1>3, <1>4, OutboxAssumption DEF OneWorkerOneWriter
<1>6. O = {}
      BY <1>2, <1>5, FS_EmptySet
<1> QED
    BY <1>6

LEMMA WrittenInTurnStep ==
    ASSUME OneWorkerOneWriter, TypeOK, RunShape, OneRunPerRow, WrittenInTurn, [Next]_vars
    PROVE  WrittenInTurn'
<1> USE DEF TypeOK
<1>0. \A r, s \in Row : r < s => r # s /\ r \in 1 .. s - 1
      BY OutboxAssumption DEF Row
<1>1. CASE \E r \in Row : Insert(r)
  <2>1. PICK q \in Row : Insert(q)
        BY <1>1
  <2>2. \A s \in Row : status[s] # "open"
        BY <2>1, NothingOpen
  <2>3. /\ status[q] = "none" /\ status' = [status EXCEPT ![q] = "open"]
        /\ \A s \in 1 .. q - 1 : status[s] # "none"
        BY <2>1 DEF Insert
  <2>4. SUFFICES ASSUME NEW r \in Row, NEW s \in Row, r < s,
                        status'[r] \in {"none", "open"}
                 PROVE  status'[s] = "none"
        BY DEF WrittenInTurn
  <2>5. status[r] = "none" /\ status[s] = "none"
        BY <2>2, <2>3, <2>4 DEF WrittenInTurn
  <2>6. s # q
        BY <1>0, <2>3, <2>4, <2>5
  <2> QED
      BY <2>3, <2>5, <2>6
<1>2. CASE \E r \in Row : Commit(r) \/ Rollback(r)
  <2>1. PICK q \in Row : Commit(q) \/ Rollback(q)
        BY <1>2
  <2>2. /\ status[q] = "open"
        /\ \A s \in Row : s # q => status'[s] = status[s]
        /\ status'[q] \in {"PENDING", "aborted"}
        BY <2>1 DEF Commit, Rollback
  <2> QED
      BY <2>2 DEF WrittenInTurn
<1>3. CASE \E d \in Drainer : MarkPublished(d)
  <2>1. \A s \in Row : status'[s] # status[s] => status[s] = "PENDING" /\ status'[s] = "PUBLISHED"
        BY <1>3 DEF MarkPublished, Marked, MarkedStatus, RunShape, OneRunPerRow
  <2> QED
      BY <2>1 DEF WrittenInTurn
<1>4. CASE UNCHANGED status
      BY <1>4 DEF WrittenInTurn
<1> QED
    BY <1>1, <1>2, <1>3, <1>4
    DEF Next, Write, Drain, Fail, Stray, Drained, vars, rows, Select, Produce, Deliver,
        Flush, LoseAck, Refuse, MarkFails, Crash, StrayArrives, StrayVanishes

(* What SentInTurn says of two rows.                                       *)
InTurn(r, s) ==
    /\ InLog(s) => InLog(r)
    /\ \A d \in Drainer :
         /\ s \in queue[d] => InLog(r) \/ r \in queue[d]
         /\ s \in todo[d]  => InLog(r) \/ r \in todo[d] \cup queue[d]

LEMMA InTurnStep ==
    ASSUME OneWorkerOneWriter, IInv, WrittenInTurn, inDoubt = {}, SentInTurn,
           [Next]_vars, faults' = 0,
           NEW r \in Row, NEW s \in Row, r < s, r \in Committed', s \in Committed'
    PROVE  inDoubt' = {} /\ InTurn(r, s)'
<1> USE DEF IInv, TypeOK
<1>0. r # s /\ ~(s < r) /\ ~(s <= r)
      BY OutboxAssumption DEF Row
<1>1. r \in Committed /\ s \in Committed => InTurn(r, s)
      BY DEF SentInTurn, InTurn
<1>2. CASE \E q \in Row : Insert(q)
  <2>1. UNCHANGED <<inDoubt, todo, queue, log>>
        BY <1>2 DEF Insert, drainers, kafka
  <2>2. r \in Committed /\ s \in Committed
        BY <1>2 DEF Insert, Committed
  <2> QED
      BY <1>1, <2>1, <2>2 DEF InTurn, InLog
<1>3. CASE \E q \in Row : Commit(q)
  <2>1. PICK q \in Row : Commit(q)
        BY <1>3
  <2>2. UNCHANGED <<inDoubt, todo, queue, log>>
        BY <2>1 DEF Commit, drainers, kafka
  <2>3. status[q] = "open" /\ status' = [status EXCEPT ![q] = "PENDING"]
        BY <2>1 DEF Commit
  <2>4. CASE s = q
    <3>1. ~InLog(s) /\ \A d \in Drainer : s \notin todo[d] \cup queue[d]
          BY <2>3, <2>4 DEF SentCommitted, Committed, RunShape, OneRunPerRow
    <3> QED
        BY <2>2, <3>1 DEF InTurn, InLog
  <2>5. CASE r = q
        BY <1>0, <2>3, <2>5 DEF WrittenInTurn, Committed
  <2>6. CASE r # q /\ s # q
    <3>1. r \in Committed /\ s \in Committed
          BY <2>3, <2>6 DEF Committed
    <3> QED
        BY <1>1, <2>2, <3>1 DEF InTurn, InLog
  <2> QED
      BY <2>2, <2>4, <2>5, <2>6
<1>4. CASE \E d \in Drainer : Select(d)
  <2>1. PICK d \in Drainer : Select(d)
        BY <1>4
  <2> DEFINE S == {q \in Row : Selectable(q)}
  <2>2. todo' = [todo EXCEPT ![d] = Oldest(S)] /\ dpc[d] = "idle"
        /\ UNCHANGED <<status, inDoubt, queue, log>>
        BY <2>1 DEF Select, rows, kafka
  <2>3. r \in Committed /\ s \in Committed
        BY <2>2 DEF Committed
  <2>4. \A e \in Drainer : e = d /\ queue[e] = {} /\ locked[e] = {}
        BY <2>2 DEF OneWorkerOneWriter, RunShape
  <2>5. S = {q \in Row : status[q] = "PENDING"}
        BY <2>4 DEF Selectable
  <2>6. status[r] = "PENDING" \/ InLog(r)
        BY <2>3 DEF Committed, PublishedInLog, Published
  <2>7. s \in Oldest(S) => InLog(r) \/ r \in Oldest(S)
    <3>1. S \in SUBSET Row
          OBVIOUS
    <3>2. CASE r \in S /\ s \in Oldest(S)
      <4> HIDE DEF S
      <4> QED
          BY <3>1, <3>2, OldestClosed
    <3> QED
        BY <2>5, <2>6, <3>2
  <2> HIDE DEF S
  <2>8. \A e \in Drainer : todo'[e] = Oldest(S)
        BY <2>2, <2>4
  <2> QED
      BY <1>1, <2>2, <2>3, <2>4, <2>7, <2>8 DEF InTurn, InLog
<1>5. CASE \E d \in Drainer : Produce(d)
  <2>1. PICK d \in Drainer : Produce(d)
        BY <1>5
  <2>2. UNCHANGED <<status, inDoubt, log>>
        BY <2>1 DEF Produce, rows, kafka
  <2>3. PICK q \in Row : /\ First(todo[d], q)
                         /\ todo' = [todo EXCEPT ![d] = @ \ {q}]
                         /\ queue' = [queue EXCEPT ![d] = @ \cup {q}]
        BY <2>1, NoFault DEF Produce
  <2>4. InTurn(r, s)
        BY <1>1, <2>2 DEF Committed
  <2>5. s = q => r \notin todo[d]
        BY <1>0, <2>3 DEF First
  <2> QED
      BY <2>2, <2>3, <2>4, <2>5 DEF InTurn, InLog, First
<1>6. CASE \E d \in Drainer : Deliver(d)
  <2>1. PICK d \in Drainer : Deliver(d)
        BY <1>6
  <2>2. UNCHANGED <<status, inDoubt, todo>>
        BY <2>1 DEF Deliver, rows
  <2>3. PICK q \in queue[d] : /\ First(queue[d], q)
                              /\ log' = Append(log, q)
                              /\ queue' = [queue EXCEPT ![d] = @ \ {q}]
        BY <2>1, NoFault DEF Deliver
  <2>4. InTurn(r, s)
        BY <1>1, <2>2 DEF Committed
  <2>5. s = q => r \notin queue[d]
        BY <1>0, <2>3 DEF First
  <2>6. q \in Row
        BY <2>3
  <2>7. \A x : InLog(x)' <=> InLog(x) \/ x = q
        BY <2>3, <2>6, AppendHolds DEF InLog
  <2> QED
      BY <2>2, <2>3, <2>4, <2>5, <2>7 DEF InTurn
<1>7. CASE \E d \in Drainer : Flush(d)
  <2>1. PICK d \in Drainer : Flush(d)
        BY <1>7
  <2>2. UNCHANGED <<queue, inDoubt, status, todo, log>>
        BY <2>1, NoFault DEF Flush
  <2> QED
      BY <1>1, <2>2 DEF InTurn, InLog, Committed
<1>8. CASE \E d \in Drainer : MarkPublished(d)
  <2>1. PICK d \in Drainer : MarkPublished(d)
        BY <1>8
  <2>2. UNCHANGED <<inDoubt, queue, log>> /\ todo' = [todo EXCEPT ![d] = {}]
        BY <2>1 DEF MarkPublished, EndRun, kafka
  <2>3. \A q \in delivered[d] : status[q] = "PENDING"
        BY DEF RunShape, OneRunPerRow
  <2>4. r \in Committed /\ s \in Committed
        BY <2>1, <2>3 DEF MarkPublished, Marked, MarkedStatus, Committed
  <2>5. \A e \in Drainer : todo'[e] = {} \/ todo'[e] = todo[e]
        BY <2>2
  <2> QED
      BY <1>1, <2>2, <2>4, <2>5 DEF InTurn, InLog
<1>9. CASE \E q \in Row : Stray(q)
      BY <1>9 DEF Stray, StrayArrives, StrayVanishes, OutOfDoubt
<1>10. CASE (\E q \in Row : Rollback(q)) \/ \E d \in Drainer : Fail(d)
      BY <1>10, NoFault DEF Rollback, Fail, LoseAck, Refuse, MarkFails, Crash
<1>11. CASE UNCHANGED vars
      BY <1>1, <1>11 DEF vars, rows, drainers, kafka, InTurn, InLog, Committed
<1> QED
    BY <1>2, <1>3, <1>4, <1>5, <1>6, <1>7, <1>8, <1>9, <1>10, <1>11
    DEF Next, Write, Drain, Drained

LEMMA FaultsGrow ==
    ASSUME TypeOK, [Next]_vars
    PROVE  faults' = faults \/ Fault
BY DEF Next, Write, Drain, Fail, Stray, Drained, vars, Insert, Commit, Rollback, Select,
       Produce, Deliver, Flush, LoseAck, Refuse, MarkPublished, MarkFails, Crash,
       StrayArrives, StrayVanishes

LEMMA OrderStep ==
    ASSUME OneWorkerOneWriter, IInv, OrderInv, [Next]_vars
    PROVE  OrderInv'
<1>1. WrittenInTurn'
      BY WrittenInTurnStep DEF OrderInv, IInv
<1>2. ASSUME faults' = 0 PROVE inDoubt' = {} /\ SentInTurn'
  <2>1. faults = 0
        BY <1>2, FaultsGrow, NoFault DEF IInv
  <2>2. WrittenInTurn /\ inDoubt = {} /\ SentInTurn
        BY <2>1 DEF OrderInv
  <2>3. \A r, s \in Row : r < s /\ r \in Committed' /\ s \in Committed'
                             => inDoubt' = {} /\ InTurn(r, s)'
        BY <1>2, <2>2, InTurnStep
  <2>4. inDoubt' = {}
        BY <1>2, <2>1, <2>2, NoFault
        DEF Next, Write, Drain, Fail, Stray, Drained, vars, rows, Insert, Commit, Rollback,
            Select, Produce, Deliver, Flush, LoseAck, Refuse, MarkPublished, MarkFails, Crash,
            StrayArrives, StrayVanishes, IInv
  <2>5. SentInTurn'
        BY <2>3 DEF SentInTurn, InTurn, Committed
  <2> QED
      BY <2>4, <2>5
<1> QED
    BY <1>1, <1>2 DEF OrderInv

(* The events of one business reach Kafka in the order in which they were  *)
(* created, over any number of batches and rows, until the first failure;  *)
(* for one worker that drains what one writer at a time inserts.  Neither  *)
(* hypothesis can go: two runs of drain_outbox send two batches in either  *)
(* order, and created_at is taken before the COMMIT that shows the row.    *)
THEOREM OneWorkerKeepsOrder ==
    ASSUME OneWorkerOneWriter
    PROVE  Spec => []OrderWithoutFaults
<1>1. Init => OrderInv
  <2>1. SUFFICES ASSUME Init PROVE OrderInv
        OBVIOUS
  <2>2. inDoubt = {} /\ \A r \in Row : status[r] = "none"
        BY <2>1 DEF Init
  <2>3. Committed = {}
        BY <2>2 DEF Committed
  <2> QED
      BY <2>2, <2>3 DEF OrderInv, WrittenInTurn, SentInTurn
<1>2. IInv /\ OrderInv /\ [Next]_vars => OrderInv'
      BY OrderStep
<1>3. OrderInv => OrderWithoutFaults
      BY DEF OrderInv, SentInTurn, OrderWithoutFaults, BusinessOrder
<1> QED
    BY <1>1, <1>2, <1>3, InvAlways, PTL DEF Spec
=============================================================================
