------------------------- MODULE DeadLettersProofs -------------------------
(***************************************************************************)
(* Proofs about DeadLetters, for any number of events, stewards, rows,     *)
(* retries, hard resets and failures.                                      *)
(***************************************************************************)
EXTENDS DeadLetters, WellFoundedInduction, TLAPS

LEMMA Appended ==
    ASSUME NEW S, NEW s \in Seq(S), NEW e \in S
    PROVE  /\ Append(s, e) \in Seq(S) /\ Len(Append(s, e)) = Len(s) + 1
           /\ DOMAIN s \subseteq DOMAIN Append(s, e)
           /\ \A r \in DOMAIN s : Append(s, e)[r] = s[r]
           /\ Len(s) + 1 \in DOMAIN Append(s, e)
           /\ Append(s, e)[Len(s) + 1] = e
OBVIOUS

LEMMA Updated ==
    ASSUME NEW S, NEW s \in Seq(S), NEW r \in DOMAIN s, NEW e \in S
    PROVE  /\ [s EXCEPT ![r] = e] \in Seq(S)
           /\ Len([s EXCEPT ![r] = e]) = Len(s)
           /\ DOMAIN [s EXCEPT ![r] = e] = DOMAIN s
OBVIOUS

LEMMA RowsAreNumbered ==
    ASSUME TypeOK
    PROVE  /\ DOMAIN rows \subseteq 1 .. MaxRows
           /\ \A r \in DOMAIN rows : r # NoRow /\ rows[r] \in Letter
           /\ \A s \in Steward : request[s] # NoRow => request[s] \in DOMAIN rows
BY DeadLettersAssumption DEF TypeOK

LEMMA InvInit == Init => IInv
<1> SUFFICES ASSUME Init PROVE IInv
    OBVIOUS
<1>1. TypeOK
  <2>1. <<>> \in Seq(Letter) /\ Len(<<>>) <= MaxRows
        BY DeadLettersAssumption
  <2>2. 0 \in Epoch /\ 0 \in 0 .. MaxFaults
        BY DeadLettersAssumption DEF Epoch
  <2> QED
      BY <2>1, <2>2 DEF Init, TypeOK
<1> QED
    BY <1>1 DEF Init, IInv, NothingVanishes, WrittenByKey, Fenced, EpochLeft

LEMMA Messages == \A m \in Message : m[1] \in AnyEvent /\ m[2] \in Epoch /\ m # NoJob
BY DeadLettersAssumption DEF Message

LEMMA Bags ==
    ASSUME NEW bag \in [Message -> Nat], NEW m \in Message
    PROVE  /\ Plus(bag, m) \in [Message -> Nat]
           /\ \A n \in Message : Plus(bag, m)[n] = IF n = m THEN bag[n] + 1 ELSE bag[n]
           /\ bag[m] > 0 => Minus(bag, m) \in [Message -> Nat]
           /\ \A n \in Message : Minus(bag, m)[n] = IF n = m THEN bag[n] - 1 ELSE bag[n]
BY DEF Plus, Minus

LEMMA BagTypes == TypeOK => outbox \in [Message -> Nat] /\ queue \in [Message -> Nat]
BY DEF TypeOK

LEMMA Faulted == Fault /\ TypeOK => faults' = faults + 1 /\ faults' \in 0 .. MaxFaults
BY DeadLettersAssumption DEF Fault, TypeOK

-----------------------------------------------------------------------------
LEMMA EnterStep ==
    ASSUME IInv, NEW e \in Event, Enter(e)
    PROVE  IInv'
<1> USE DEF IInv
<1>1. /\ <<e, epoch>> \in Message /\ e \in AnyEvent
      /\ entered' = entered \cup {e}
      /\ inserts' = [inserts EXCEPT ![e] = @ + 1]
      /\ UNCHANGED <<queue, job, rows, request, epoch, stamp, rpc, filled, completed,
                     writes, gone, straggler, retries, faults, unkept>>
      BY DEF Enter, TypeOK, reset, Message, AnyEvent
<1>2. PICK m \in Message : m[1] = e /\ outbox' = Plus(outbox, m)
      BY <1>1, Zenon DEF Enter
<1>3. /\ outbox' \in [Message -> Nat]
      /\ \A n \in Message : outbox'[n] = IF n = m THEN outbox[n] + 1 ELSE outbox[n]
      BY <1>1, <1>2, Bags, BagTypes
<1>4. TypeOK'
  <2>1. inserts' \in [AnyEvent -> Nat] /\ entered' \subseteq AnyEvent
        BY <1>1 DEF TypeOK
  <2> QED
      BY <1>1, <1>3, <2>1 DEF TypeOK
<1>5. \A n \in Message : outbox[n] \in Nat /\ queue[n] \in Nat
      BY BagTypes
<1>6. NothingVanishes'
  <2>1. Waiting(e)'
        BY <1>1, <1>2, <1>3, <1>5 DEF Waiting
  <2>2. ASSUME NEW d \in entered, Waiting(d)
        PROVE  Waiting(d)'
        BY <1>1, <1>3, <1>5, <2>2 DEF Waiting
  <2> QED
      BY <1>1, <2>1, <2>2 DEF NothingVanishes
<1>7. WrittenByKey' /\ Fenced' /\ EpochLeft'
      BY <1>1 DEF WrittenByKey, Fenced, EpochLeft
<1> QED
    BY <1>4, <1>6, <1>7

LEMMA DrainStep ==
    ASSUME IInv, NEW m \in Message, Drain(m)
    PROVE  IInv'
<1> USE DEF IInv
<1>1. /\ outbox[m] > 0
      /\ outbox' = Minus(outbox, m) /\ queue' = Plus(queue, m)
      /\ UNCHANGED <<entered, job, rows, request, epoch, stamp, rpc, filled, completed,
                     writes, gone, straggler, retries, inserts, faults, unkept>>
      BY DEF Drain, reset, history
<1>2. /\ outbox' \in [Message -> Nat] /\ queue' \in [Message -> Nat]
      /\ \A n \in Message : outbox'[n] = IF n = m THEN outbox[n] - 1 ELSE outbox[n]
      /\ \A n \in Message : queue'[n] = IF n = m THEN queue[n] + 1 ELSE queue[n]
      BY <1>1, Bags, BagTypes
<1>3. TypeOK'
      BY <1>1, <1>2 DEF TypeOK
<1>4. \A n \in Message : outbox'[n] + queue'[n] = outbox[n] + queue[n]
      BY <1>2, BagTypes
<1>5. NothingVanishes'
      BY <1>1, <1>4 DEF NothingVanishes, Waiting
<1>6. WrittenByKey' /\ Fenced' /\ EpochLeft'
      BY <1>1 DEF WrittenByKey, Fenced, EpochLeft
<1> QED
    BY <1>3, <1>5, <1>6

(* An event that waits, waits elsewhere or has come to its end, if one     *)
(* message has left the queue and is accounted for.                        *)
LEMMA OffTheQueue ==
    ASSUME TypeOK, NothingVanishes, NEW m \in Message,
           entered' = entered, outbox' = outbox, queue' = Minus(queue, m),
           job = NoJob, gone \subseteq gone',
           \A r \in DOMAIN rows : r \in DOMAIN rows' /\ rows'[r] = rows[r],
           Waiting(m[1])' \/ m[1] \in gone'
    PROVE  NothingVanishes'
<1>1. ASSUME NEW e \in entered, Waiting(e), e # m[1]
      PROVE  Waiting(e)'
  <2>1. ASSUME NEW n \in Message, n[1] = e
        PROVE  outbox'[n] + queue'[n] = outbox[n] + queue[n]
        BY SMTT(30), <1>1, <2>1, Bags, BagTypes
  <2>2. CASE \E n \in Message : n[1] = e /\ outbox[n] + queue[n] > 0
        BY <2>1, <2>2 DEF Waiting
  <2>3. CASE \E r \in DOMAIN rows : rows[r].event = e /\ rows[r].status = "PENDING"
        BY <2>3 DEF Waiting
  <2> QED
      BY <1>1, <2>2, <2>3, Messages DEF Waiting
<1> QED
    BY <1>1 DEF NothingVanishes

LEMMA TakeStep ==
    ASSUME IInv, NEW m \in Message, Take(m)
    PROVE  IInv'
<1> USE DEF IInv
<1>1. /\ job = NoJob /\ queue[m] > 0 /\ queue' = Minus(queue, m)
      /\ \/ Stale(m) /\ gone' = gone \cup {m[1]} /\ job' = job
         \/ ~Stale(m) /\ job' = m /\ gone' = gone
      /\ UNCHANGED <<entered, outbox, rows, request, epoch, stamp, rpc, filled, completed,
                     writes, straggler, retries, inserts, faults, unkept>>
      BY DEF Take, reset
<1>2. straggler = NoJob
      BY <1>1 DEF TypeOK
<1>3. TypeOK'
  <2>1. queue' \in [Message -> Nat] /\ m[1] \in AnyEvent
        BY <1>1, Bags, BagTypes, Messages
  <2> QED
      BY <1>1, <1>2, <2>1 DEF TypeOK
<1>4. Waiting(m[1])' \/ m[1] \in gone'
      BY <1>1 DEF Waiting
<1>5. NothingVanishes'
      BY <1>1, <1>4, OffTheQueue
<1>6. Fenced'
      BY <1>1, Messages DEF Fenced, Stale, TypeOK, Epoch
<1>7. WrittenByKey' /\ EpochLeft'
      BY <1>1 DEF WrittenByKey, EpochLeft
<1> QED
    BY <1>3, <1>5, <1>6, <1>7

LEMMA ParkStep ==
    ASSUME IInv, NEW m \in Message, Park(m)
    PROVE  IInv'
<1> USE DEF IInv
<1>1. /\ job = NoJob /\ queue[m] > 0 /\ queue' = Minus(queue, m)
      /\ UNCHANGED <<entered, outbox, job, request, epoch, stamp, rpc, filled, completed,
                     writes, straggler, retries, inserts, unkept>>
      BY DEF Park, reset
<1>2. CASE Len(rows) < MaxRows /\ rows' = Append(rows, Row(m[1], m[2])) /\ UNCHANGED <<gone, faults>>
  <2>1. Row(m[1], m[2]) \in Letter
        BY Messages DEF Row, Letter
  <2>2. /\ rows' \in Seq(Letter) /\ Len(rows') = Len(rows) + 1
        /\ DOMAIN rows \subseteq DOMAIN rows'
        /\ \A r \in DOMAIN rows : rows'[r] = rows[r]
        /\ Len(rows) + 1 \in DOMAIN rows' /\ rows'[Len(rows) + 1] = Row(m[1], m[2])
        BY <1>2, <2>1, Appended DEF TypeOK
  <2>3. queue' \in [Message -> Nat]
        BY <1>1, Bags, BagTypes
  <2>4. TypeOK'
        BY <1>1, <1>2, <2>2, <2>3, DeadLettersAssumption DEF TypeOK
  <2>5. Waiting(m[1])'
        BY <2>2 DEF Waiting, Row
  <2>6. NothingVanishes'
        BY <1>1, <1>2, <2>2, <2>5, OffTheQueue
  <2> QED
      BY <1>1, <1>2, <2>4, <2>6 DEF WrittenByKey, Fenced, EpochLeft
<1>3. CASE Fault /\ gone' = gone \cup {m[1]} /\ UNCHANGED rows
  <2>1. queue' \in [Message -> Nat] /\ faults' = faults + 1 /\ faults' \in 0 .. MaxFaults
        BY <1>1, <1>3, Bags, BagTypes, Faulted
  <2>2. TypeOK'
        BY <1>1, <1>3, <2>1, Messages DEF TypeOK
  <2>3. NothingVanishes'
        BY <1>1, <1>3, OffTheQueue
  <2> QED
      BY <1>1, <1>3, <2>2, <2>3 DEF WrittenByKey, Fenced, EpochLeft
<1> QED
    BY <1>2, <1>3 DEF Park

-----------------------------------------------------------------------------
(* The task that runs comes to an end, or its message goes back.           *)
LEMMA JobOver ==
    ASSUME TypeOK, NothingVanishes, job # NoJob, job' = NoJob,
           entered' = entered, outbox' = outbox, rows' = rows, gone \subseteq gone',
           \A n \in Message : queue'[n] \in Nat /\ queue'[n] >= queue[n],
           job[1] \in gone' \/ queue'[job] > 0
    PROVE  NothingVanishes'
<1>1. job \in Message /\ \A n \in Message : outbox[n] \in Nat /\ queue[n] \in Nat
      BY DEF TypeOK
<1>2. ASSUME NEW e \in entered, Waiting(e)
      PROVE  Waiting(e)' \/ e \in gone'
  <2>1. CASE \E n \in Message : n[1] = e /\ outbox[n] + queue[n] > 0
        BY <1>1, <2>1 DEF Waiting
  <2>2. CASE \E r \in DOMAIN rows : rows[r].event = e /\ rows[r].status = "PENDING"
        BY <2>2 DEF Waiting
  <2>3. CASE job[1] = e
        BY <1>1, <2>3 DEF Waiting
  <2> QED
      BY <1>2, <2>1, <2>2, <2>3 DEF Waiting
<1> QED
    BY <1>2 DEF NothingVanishes

LEMMA WriteStep ==
    ASSUME IInv, Write
    PROVE  IInv'
<1> USE DEF IInv
<1>1. /\ job # NoJob /\ job' = NoJob /\ straggler' = NoJob
      /\ gone' = gone \cup {job[1]}
      /\ UNCHANGED <<entered, outbox, queue, rows, request, epoch, stamp, rpc, filled,
                     retries, inserts, unkept, faults>>
      BY DEF Write, EndJob, reset
<1>2. job[1] \in AnyEvent
      BY <1>1, Messages DEF TypeOK
<1>3. \/ /\ job[1] \notin completed
         /\ writes' = [writes EXCEPT ![job[1]] = @ + 1]
         /\ completed' = completed \cup {job[1]}
      \/ UNCHANGED <<writes, completed>>
      BY DEF Write, Writes
<1>4. TypeOK'
  <2>1. writes' \in [AnyEvent -> Nat] /\ completed' \subseteq AnyEvent
        BY <1>2, <1>3 DEF TypeOK
  <2> QED
      BY <1>1, <1>2, <2>1 DEF TypeOK
<1>5. NothingVanishes'
      BY <1>1, BagTypes, JobOver
<1>6. WrittenByKey'
      BY <1>1, <1>2, <1>3 DEF WrittenByKey, TypeOK, Epoch
<1> QED
    BY <1>1, <1>4, <1>5, <1>6 DEF Fenced, EpochLeft

LEMMA WriteUnknownStep ==
    ASSUME IInv, WriteUnknown
    PROVE  IInv'
<1> USE DEF IInv
<1>1. /\ job # NoJob /\ job' = NoJob /\ straggler' = NoJob
      /\ gone' = gone \cup {job[1]}
      /\ writes' = [writes EXCEPT ![job[1]] = @ + 1] /\ unkept' = unkept + 1
      /\ faults' = faults + 1 /\ faults' \in 0 .. MaxFaults
      /\ UNCHANGED <<entered, outbox, queue, rows, request, epoch, stamp, rpc, filled,
                     completed, retries, inserts>>
      BY Faulted DEF WriteUnknown, EndJob, reset
<1>2. job[1] \in AnyEvent
      BY <1>1, Messages DEF TypeOK
<1>3. TypeOK'
  <2>1. writes' \in [AnyEvent -> Nat] /\ unkept' \in 0 .. faults'
        BY <1>1, <1>2 DEF TypeOK
  <2> QED
      BY <1>1, <1>2, <2>1 DEF TypeOK
<1>4. NothingVanishes'
      BY <1>1, BagTypes, JobOver
<1>5. WrittenByKey'
      BY SMTT(30), <1>1, <1>2 DEF WrittenByKey, TypeOK, Epoch
<1> QED
    BY <1>1, <1>3, <1>4, <1>5 DEF Fenced, EpochLeft

LEMMA AgainStep ==
    ASSUME IInv, Again
    PROVE  IInv'
<1> USE DEF IInv
<1>1. /\ job # NoJob /\ job' = NoJob /\ straggler' = NoJob /\ job \in Message
      /\ faults' = faults + 1 /\ faults' \in 0 .. MaxFaults
      /\ UNCHANGED <<entered, outbox, rows, request, epoch, stamp, rpc, filled,
                     completed, writes, retries, inserts, unkept>>
      BY Faulted DEF Again, EndJob, reset, TypeOK
<1>2. \/ queue' = Plus(queue, job) /\ gone' = gone
      \/ gone' = gone \cup {job[1]} /\ queue' = queue
      BY DEF Again
<1>3. /\ queue' \in [Message -> Nat]
      /\ \A n \in Message : queue'[n] \in Nat /\ queue'[n] >= queue[n]
      /\ job[1] \in gone' \/ queue'[job] > 0
      /\ gone \subseteq gone' /\ gone' \subseteq AnyEvent
  <2>1. CASE queue' = Plus(queue, job) /\ gone' = gone
    <3>1. /\ queue' \in [Message -> Nat]
          /\ \A n \in Message : queue'[n] = IF n = job THEN queue[n] + 1 ELSE queue[n]
          BY <1>1, <2>1, Bags, BagTypes
    <3>2. \A n \in Message : queue[n] \in Nat
          BY BagTypes
    <3>3. gone' \subseteq AnyEvent
          BY <2>1 DEF TypeOK
    <3>4. queue'[job] > 0 /\ \A n \in Message : queue'[n] \in Nat /\ queue'[n] >= queue[n]
          BY <1>1, <3>1, <3>2
    <3> QED
        BY <2>1, <3>1, <3>3, <3>4
  <2>2. CASE gone' = gone \cup {job[1]} /\ queue' = queue
        BY <1>1, <2>2, BagTypes, Messages DEF TypeOK
  <2> QED
      BY <1>2, <2>1, <2>2
<1>4. TypeOK'
      BY <1>1, <1>3 DEF TypeOK
<1>5. NothingVanishes'
      BY <1>1, <1>3, JobOver
<1> QED
    BY <1>1, <1>4, <1>5 DEF WrittenByKey, Fenced, EpochLeft, TypeOK, Epoch

LEMMA LapseStep ==
    ASSUME IInv, NEW e \in AnyEvent, Lapse(e)
    PROVE  IInv'
<1> USE DEF IInv
<1>1. /\ e \in completed /\ completed' = completed \ {e} /\ unkept' = unkept + 1
      /\ faults' = faults + 1 /\ faults' \in 0 .. MaxFaults
      /\ UNCHANGED <<entered, outbox, queue, job, rows, request, epoch, stamp, rpc, filled,
                     writes, gone, straggler, retries, inserts>>
      BY Faulted DEF Lapse, reset
<1>2. TypeOK'
      BY <1>1 DEF TypeOK
<1>3. WrittenByKey'
      BY <1>1 DEF WrittenByKey, TypeOK, Epoch
<1> QED
    BY <1>1, <1>2, <1>3 DEF NothingVanishes, Waiting, Fenced, EpochLeft

LEMMA SeedDlqStep ==
    ASSUME IInv, NEW d \in Demo, SeedDlq(d)
    PROVE  IInv'
<1> USE DEF IInv
<1>1. /\ entered' = entered \cup {d} /\ d \in AnyEvent
      /\ Len(rows) < MaxRows /\ rows' = Append(rows, Row(d, Undated))
      /\ inserts' = [inserts EXCEPT ![d] = @ + 1]
      /\ UNCHANGED <<outbox, queue, job, request, epoch, stamp, rpc, filled, completed,
                     writes, gone, straggler, retries, faults, unkept>>
      BY DEF SeedDlq, reset, AnyEvent
<1>2. Row(d, Undated) \in Letter
      BY <1>1 DEF Row, Letter
<1>3. /\ rows' \in Seq(Letter) /\ Len(rows') = Len(rows) + 1
      /\ DOMAIN rows \subseteq DOMAIN rows'
      /\ \A r \in DOMAIN rows : rows'[r] = rows[r]
      /\ Len(rows) + 1 \in DOMAIN rows' /\ rows'[Len(rows) + 1] = Row(d, Undated)
      BY <1>1, <1>2, Appended DEF TypeOK
<1>4. TypeOK'
  <2>1. inserts' \in [AnyEvent -> Nat] /\ entered' \subseteq AnyEvent
        BY <1>1 DEF TypeOK
  <2>2. request' \in [Steward -> DOMAIN rows' \cup {NoRow}]
        BY <1>1, <1>3 DEF TypeOK
  <2>3. Len(rows') <= MaxRows
        BY <1>1, <1>3, DeadLettersAssumption DEF TypeOK
  <2> QED
      BY <1>1, <1>3, <2>1, <2>2, <2>3 DEF TypeOK
<1>5. NothingVanishes'
  <2>1. Waiting(d)'
        BY <1>3 DEF Waiting, Row
  <2>2. ASSUME NEW e \in entered, Waiting(e)
        PROVE  Waiting(e)'
        BY <1>1, <1>3, <2>2 DEF Waiting
  <2> QED
      BY <1>1, <2>1, <2>2 DEF NothingVanishes
<1> QED
    BY <1>1, <1>4, <1>5 DEF WrittenByKey, Fenced, EpochLeft

-----------------------------------------------------------------------------
(* One row gets another status, and the event of the row is accounted for. *)
LEMMA RowChanged ==
    ASSUME TypeOK, NothingVanishes, NEW r \in DOMAIN rows, NEW status,
           NEW event, event = rows[r].event, event \in gone' \/ Waiting(event)',
           rows' = [rows EXCEPT ![r].status = status],
           entered' = entered, queue' = queue, job' = job, gone \subseteq gone',
           \A n \in Message : outbox'[n] \in Nat /\ outbox'[n] >= outbox[n]
    PROVE  NothingVanishes'
<1>1. /\ DOMAIN rows' = DOMAIN rows
      /\ \A q \in DOMAIN rows \ {r} : rows'[q] = rows[q]
      BY DEF TypeOK
<1>2. ASSUME NEW e \in entered, Waiting(e), e # event
      PROVE  Waiting(e)'
  <2>1. CASE \E n \in Message : n[1] = e /\ (outbox[n] + queue[n] > 0 \/ job = n)
        BY <2>1, BagTypes DEF Waiting
  <2>2. CASE \E q \in DOMAIN rows : rows[q].event = e /\ rows[q].status = "PENDING"
        BY <1>1, <1>2, <2>2 DEF Waiting
  <2> QED
      BY <1>2, <2>1, <2>2 DEF Waiting
<1> QED
    BY <1>2 DEF NothingVanishes

LEMMA RowTyped ==
    ASSUME TypeOK, NEW r \in DOMAIN rows,
           NEW status \in {"RETRIED", "RESOLVED", "DISCARDED"},
           rows' = [rows EXCEPT ![r].status = status]
    PROVE  /\ rows' \in Seq(Letter) /\ Len(rows') = Len(rows)
           /\ DOMAIN rows' = DOMAIN rows /\ rows[r].event \in AnyEvent
<1>1. rows[r] \in Letter
      BY RowsAreNumbered
<1>2. [rows[r] EXCEPT !.status = status] \in Letter
      BY <1>1 DEF Letter
<1>3. rows' = [rows EXCEPT ![r] = [rows[r] EXCEPT !.status = status]]
      OBVIOUS
<1> QED
    BY <1>1, <1>2, <1>3, Updated DEF TypeOK, Letter

LEMMA CloseStep ==
    ASSUME IInv, NEW r \in DOMAIN rows, NEW status \in {"RESOLVED", "DISCARDED"},
           Close(r, status)
    PROVE  IInv'
<1> USE DEF IInv
<1>1. /\ rows' = [rows EXCEPT ![r].status = status]
      /\ gone' = gone \cup {rows[r].event}
      /\ UNCHANGED <<entered, outbox, queue, job, request, epoch, stamp, rpc, filled,
                     completed, writes, straggler, retries, inserts, faults, unkept>>
      BY DEF Close, reset
<1>2. TypeOK'
  <2>1. /\ rows' \in Seq(Letter) /\ Len(rows') = Len(rows)
        /\ DOMAIN rows' = DOMAIN rows /\ rows[r].event \in AnyEvent
        BY <1>1, RowTyped
  <2> QED
      BY <1>1, <2>1 DEF TypeOK
<1>3. NothingVanishes'
  <2>1. PICK e \in AnyEvent : e = rows[r].event
        BY <1>1, RowTyped
  <2>2. e \in gone' /\ gone \subseteq gone'
        BY <1>1, <2>1
  <2>3. \A n \in Message : outbox'[n] \in Nat /\ outbox'[n] >= outbox[n]
        BY <1>1, BagTypes
  <2> QED
      BY <1>1, <2>1, <2>2, <2>3, RowChanged
<1> QED
    BY <1>1, <1>2, <1>3 DEF WrittenByKey, Fenced, EpochLeft

LEMMA SelectStep ==
    ASSUME IInv, NEW s \in Steward, NEW r \in DOMAIN rows, Select(s, r)
    PROVE  IInv'
<1> USE DEF IInv
<1>1. /\ request' = [request EXCEPT ![s] = r]
      /\ UNCHANGED <<entered, outbox, queue, job, rows, epoch, stamp, rpc, filled, completed,
                     writes, gone, straggler, retries, inserts, unkept, faults>>
      BY DEF Select, reset, history
<1>2. TypeOK'
      BY <1>1 DEF TypeOK
<1> QED
    BY <1>1, <1>2 DEF NothingVanishes, Waiting, WrittenByKey, Fenced, EpochLeft

(* A retry marks the row, and the outbox holds the event again.            *)
LEMMA RetryStep ==
    ASSUME IInv, NEW s \in Steward, Retry(s)
    PROVE  IInv'
<1> USE DEF IInv
<1>1. PICK r \in DOMAIN rows : r = request[s]
      BY RowsAreNumbered DEF Retry
<1>2. /\ outbox' = Plus(outbox, Revived(r))
      /\ inserts' = [inserts EXCEPT ![rows[r].event] = @ + 1]
      /\ rows' = [rows EXCEPT ![r].status = "RETRIED"]
      /\ retries' = [retries EXCEPT ![r] = @ + 1]
      /\ request' = [request EXCEPT ![s] = NoRow]
      /\ UNCHANGED <<entered, queue, job, epoch, stamp, rpc, filled, completed,
                     writes, gone, straggler, faults, unkept>>
      BY <1>1 DEF Retry, Inserted, Insert, reset
<1>3. /\ r \in 1 .. MaxRows /\ rows[r].event \in AnyEvent
      /\ rows' \in Seq(Letter) /\ Len(rows') = Len(rows) /\ DOMAIN rows' = DOMAIN rows
      BY <1>2, RowTyped, RowsAreNumbered
<1>4. Revived(r) \in Message /\ Revived(r)[1] = rows[r].event
  <2>1. rows[r].born \in Epoch \cup {Undated} /\ epoch \in Epoch
        BY RowsAreNumbered DEF Letter, TypeOK
  <2> QED
      BY <1>3, <2>1 DEF Revived, Message
<1>5. PICK m \in Message : m = Revived(r) /\ m[1] = rows[r].event
      BY <1>4
<1>6. /\ outbox' \in [Message -> Nat]
      /\ \A n \in Message : outbox'[n] = IF n = m THEN outbox[n] + 1 ELSE outbox[n]
      BY <1>2, <1>5, Bags, BagTypes
<1>7. TypeOK'
  <2>1. inserts' \in [AnyEvent -> Nat]
        BY SMTT(30), <1>2, <1>3 DEF TypeOK
  <2>2. retries' \in [1 .. MaxRows -> Nat]
        BY SMTT(30), <1>2, <1>3 DEF TypeOK
  <2>3. request' \in [Steward -> DOMAIN rows' \cup {NoRow}]
        BY <1>2, <1>3 DEF TypeOK
  <2> QED
      BY <1>2, <1>3, <1>6, <2>1, <2>2, <2>3 DEF TypeOK
<1>8. NothingVanishes'
  <2>1. PICK e \in AnyEvent : e = rows[r].event
        BY <1>3
  <2>2. \A n \in Message : outbox[n] \in Nat /\ queue[n] \in Nat
        BY BagTypes
  <2>3. Waiting(e)'
        BY <1>2, <1>5, <1>6, <2>1, <2>2 DEF Waiting
  <2>4. \A n \in Message : outbox'[n] \in Nat /\ outbox'[n] >= outbox[n]
        BY <1>6, <2>2
  <2> QED
      BY <1>2, <2>1, <2>3, <2>4, RowChanged
<1> QED
    BY <1>2, <1>7, <1>8 DEF WrittenByKey, Fenced, EpochLeft

LEMMA RetryFailsStep ==
    ASSUME IInv, NEW s \in Steward, RetryFails(s)
    PROVE  IInv'
<1> USE DEF IInv
<1>1. /\ request' = [request EXCEPT ![s] = NoRow]
      /\ faults' = faults + 1 /\ faults' \in 0 .. MaxFaults
      /\ UNCHANGED <<entered, outbox, queue, job, rows, epoch, stamp, rpc, filled, completed,
                     writes, gone, straggler, retries, inserts, unkept>>
      BY Faulted DEF RetryFails, RolledBack, reset
<1>2. TypeOK'
      BY <1>1 DEF TypeOK
<1> QED
    BY <1>1, <1>2 DEF NothingVanishes, Waiting, WrittenByKey, Fenced, EpochLeft

-----------------------------------------------------------------------------
(* Steps of the hard reset that touch only its own variables.              *)
LEMMA ResetStep ==
    ASSUME IInv, Clear \/ Seed \/ Refill
    PROVE  IInv'
<1> USE DEF IInv
<1>0. faults \in Nat /\ faults <= MaxFaults /\ MaxFaults \in Nat /\ filled \in BOOLEAN
      BY DeadLettersAssumption DEF TypeOK
<1>1. filled' \in BOOLEAN
      BY <1>0, Zenon DEF Clear, Seed, Refill
<1>2. /\ rpc' \in {"idle", "seed", "truncate"}
      /\ rpc' # "idle" => epoch < MaxResets
      BY DEF Clear, Seed, Refill, EpochLeft
<1>3. faults' \in Nat /\ faults <= faults' /\ faults' <= MaxFaults
      BY <1>0, Faulted DEF Clear, Seed, Refill
<1>4. UNCHANGED <<entered, outbox, queue, job, rows, request, epoch, stamp, completed,
                  writes, gone, straggler, retries, inserts, unkept>>
      BY DEF Clear, Seed, Refill, history
<1>5. TypeOK'
      BY <1>1, <1>2, <1>3, <1>4 DEF TypeOK
<1> QED
    BY <1>2, <1>3, <1>4, <1>5 DEF NothingVanishes, Waiting, WrittenByKey, Fenced, EpochLeft

LEMMA TruncateStep ==
    ASSUME IInv, Truncate
    PROVE  IInv'
<1> USE DEF IInv
<1>1. /\ rpc = "truncate" /\ rpc' = "forget"
      /\ UNCHANGED <<entered, queue, job, request, epoch, stamp, filled, completed,
                     writes, straggler, retries, inserts, unkept>>
      BY DEF Truncate
<1>2. CASE /\ outbox' = [m \in Message |-> 0] /\ rows' = Truncated
           /\ gone' = gone \cup {m[1] : m \in {n \in Message : outbox[n] > 0}}
                           \cup {rows[r].event : r \in DOMAIN rows}
           /\ UNCHANGED faults
  <2>1. rows' \in Seq(Letter) /\ Len(rows') = Len(rows) /\ DOMAIN rows' = DOMAIN rows
    <3>1. \A r \in DOMAIN rows : [rows[r] EXCEPT !.status = "truncated"] \in Letter
          BY RowsAreNumbered DEF Letter
    <3>2. DOMAIN rows = 1 .. Len(rows) /\ Len(rows) \in Nat
          BY DEF TypeOK
    <3> QED
        BY <1>2, <3>1, <3>2 DEF Truncated
  <2>2. gone' \subseteq AnyEvent /\ gone \subseteq gone'
    <3>1. \A r \in DOMAIN rows : rows[r].event \in AnyEvent
          BY RowsAreNumbered DEF Letter
    <3> QED
        BY <1>2, <3>1, Messages DEF TypeOK
  <2>3. TypeOK'
        BY <1>1, <1>2, <2>1, <2>2 DEF TypeOK
  <2>4. ASSUME NEW e \in entered, Waiting(e), e \notin gone'
        PROVE  Waiting(e)'
        BY <1>1, <1>2, <2>4, BagTypes DEF Waiting
  <2>5. NothingVanishes'
        BY <1>1, <2>2, <2>4 DEF NothingVanishes
  <2> QED
      BY <1>1, <1>2, <2>3, <2>5 DEF WrittenByKey, Fenced, EpochLeft
<1>3. CASE Fault /\ UNCHANGED <<outbox, rows, gone>>
  <2>1. faults' = faults + 1 /\ faults' \in 0 .. MaxFaults
        BY <1>3, Faulted
  <2>2. TypeOK'
        BY <1>1, <1>3, <2>1 DEF TypeOK
  <2> QED
      BY <1>1, <1>3, <2>1, <2>2 DEF NothingVanishes, Waiting, WrittenByKey, Fenced, EpochLeft
<1> QED
    BY <1>2, <1>3 DEF Truncate

(* Every deleted key is one of the epoch that begins.                      *)
LEMMA ForgetStep ==
    ASSUME IInv, Forget
    PROVE  IInv'
<1> USE DEF IInv
<1>1. /\ rpc = "forget"
      /\ UNCHANGED <<entered, outbox, queue, job, rows, request, stamp, filled,
                     writes, gone, straggler, retries, inserts, unkept>>
      BY DEF Forget, history
<1>2. CASE epoch' = epoch + 1 /\ completed' = {} /\ rpc' = "stamp" /\ UNCHANGED faults
  <2>1. epoch' \in Epoch /\ epoch' >= epoch /\ epoch \in Nat
        BY <1>1, <1>2, DeadLettersAssumption DEF TypeOK, EpochLeft, Epoch
  <2>2. TypeOK'
        BY <1>1, <1>2, <2>1 DEF TypeOK
  <2>3. WrittenByKey'
        BY <1>1, <1>2, <2>1 DEF WrittenByKey, TypeOK
  <2> QED
      BY <1>1, <1>2, <2>2, <2>3 DEF NothingVanishes, Waiting, Fenced, EpochLeft
<1>3. CASE Fault /\ rpc' = "idle" /\ UNCHANGED <<epoch, completed>>
  <2>1. faults' = faults + 1 /\ faults' \in 0 .. MaxFaults
        BY <1>3, Faulted
  <2>2. TypeOK'
        BY <1>1, <1>3, <2>1 DEF TypeOK
  <2> QED
      BY <1>1, <1>3, <2>2 DEF NothingVanishes, Waiting, WrittenByKey, Fenced, EpochLeft
<1> QED
    BY <1>2, <1>3 DEF Forget

(* The task that runs when the stamp is set is the straggler.              *)
LEMMA StampStep ==
    ASSUME IInv, Stamp
    PROVE  IInv'
<1> USE DEF IInv
<1>1. /\ rpc' = "idle"
      /\ UNCHANGED <<entered, outbox, queue, job, rows, request, epoch, filled, completed,
                     writes, gone, retries, inserts, unkept>>
      BY DEF Stamp
<1>2. CASE stamp' = Now /\ straggler' = job /\ UNCHANGED faults
  <2>1. TypeOK'
        BY <1>1, <1>2 DEF TypeOK, Now, Epoch
  <2> QED
      BY <1>1, <1>2, <2>1 DEF NothingVanishes, Waiting, WrittenByKey, Fenced, EpochLeft
<1>3. CASE Fault /\ UNCHANGED <<stamp, straggler>>
  <2>1. faults' = faults + 1 /\ faults' \in 0 .. MaxFaults
        BY <1>3, Faulted
  <2>2. TypeOK'
        BY <1>1, <1>3, <2>1 DEF TypeOK
  <2> QED
      BY <1>1, <1>3, <2>2 DEF NothingVanishes, Waiting, WrittenByKey, Fenced, EpochLeft
<1> QED
    BY <1>2, <1>3 DEF Stamp

LEMMA InvStep ==
    ASSUME IInv, [Next]_vars
    PROVE  IInv'
<1>1. CASE UNCHANGED vars
      BY <1>1 DEF IInv, vars, reset, history, TypeOK, NothingVanishes, Waiting,
         WrittenByKey, Fenced, EpochLeft
<1> QED
    BY <1>1, EnterStep, SeedDlqStep, DrainStep, TakeStep, ParkStep, WriteStep,
       WriteUnknownStep, AgainStep, LapseStep, CloseStep, SelectStep, RetryStep,
       RetryFailsStep, ResetStep, TruncateStep, ForgetStep, StampStep
    DEF Next, Task, HardReset, Over

LEMMA InvAlways == Spec => []IInv
BY InvInit, InvStep, PTL DEF Spec

-----------------------------------------------------------------------------
(* Every variable keeps its type, and the stamp is never ahead of the      *)
(* clock (hard_reset_all, resolve_dlq).                                    *)
THEOREM TypeCorrect == Spec => []TypeOK
BY InvAlways, PTL DEF IInv

(* An event that entered waits somewhere or has come to an end             *)
(* (resolve_dlq, _write_to_dlq, hard_reset_all).                           *)
THEOREM NothingVanishesEver == Spec => []NothingVanishes
BY InvAlways, PTL DEF IInv

(* Retries of a letter do not repeat its write: one for each key that was  *)
(* deleted, ran out or was not kept, and one more (resolve_dlq, reserve).  *)
THEOREM WrittenOncePerKeyAlways == Spec => []WrittenOncePerKey
<1>1. IInv => WrittenOncePerKey
      BY DEF IInv, WrittenByKey, WrittenOncePerKey, TypeOK, Epoch
<1> QED
    BY <1>1, InvAlways, PTL

(* After a hard reset no task works on an older message, except the one    *)
(* that was running when the stamp was set (_is_stale_event).              *)
THEOREM FencedAlways == Spec => []Fenced
BY InvAlways, PTL DEF IInv
-----------------------------------------------------------------------------
(* Sums.  The theorems of the library on induction take a predicate as a   *)
(* parameter; the principle of the least number does not, and induction    *)
(* for a set of numbers follows from it.                                   *)
LEMMA LeastOfNat ==
    ASSUME NEW T \in SUBSET Nat, T # {}
    PROVE  \E n \in T : \A m \in T : n <= m
<1> DEFINE R == OpToRel(<, Nat)
<1>1. IsWellFoundedOn(R, Nat)
      BY NatLessThanWellFounded
<1>2. \A m, n \in Nat : m < n => <<m, n>> \in R
      BY DEF OpToRel
<1> HIDE DEF R
<1>3. PICK n \in T : \A m \in T : ~ (<<m, n>> \in R)
      BY <1>1, WFMin
<1>4. \A m \in T : ~(m < n)
      BY <1>2, <1>3
<1>5. \A m \in T : m \in Nat /\ n \in Nat
      OBVIOUS
<1> QED
    BY <1>4, <1>5

(* Induction, for a set of numbers in place of a predicate.                *)
LEMMA InductionOnNat ==
    ASSUME NEW T, 0 \in T, \A n \in Nat : n \in T => n + 1 \in T
    PROVE  \A n \in Nat : n \in T
<1> DEFINE U == {n \in Nat : n \notin T}
<1>1. SUFFICES ASSUME U # {} PROVE FALSE
      OBVIOUS
<1>2. PICK n \in U : \A m \in U : n <= m
      BY <1>1, LeastOfNat
<1>3. n \in Nat /\ n # 0
      BY <1>2
<1>4. n - 1 \in Nat /\ ~(n <= n - 1) /\ (n - 1) + 1 = n
      BY <1>3
<1>5. n - 1 \in T
      BY <1>2, <1>4
<1> QED
    BY <1>2, <1>4, <1>5

(* What the recursion of SumTo says of the function it defines.            *)
Totals(t, f, n) == t = [i \in 0 .. n |-> IF i = 0 THEN 0 ELSE t[i - 1] + f[i]]

LEMMA TotalsExist ==
    ASSUME NEW f, NEW n \in Nat
    PROVE  \E t : Totals(t, f, n)
<1> DEFINE T == {m \in Nat : \E t : Totals(t, f, m)}
<1>1. 0 \in T
  <2> DEFINE t == [i \in 0 .. 0 |-> 0]
  <2>1. Totals(t, f, 0)
        BY DEF Totals
  <2> QED
      BY <2>1
<1>2. ASSUME NEW m \in Nat, m \in T
      PROVE  m + 1 \in T
  <2>1. PICK t : Totals(t, f, m)
        BY <1>2
  <2> DEFINE u == [i \in 0 .. m + 1 |-> IF i = m + 1 THEN t[m] + f[m + 1] ELSE t[i]]
  <2>2. \A i \in 0 .. m : t[i] = IF i = 0 THEN 0 ELSE t[i - 1] + f[i]
        BY <2>1 DEF Totals
  <2>3. ASSUME NEW i \in 0 .. m + 1
        PROVE  u[i] = IF i = 0 THEN 0 ELSE u[i - 1] + f[i]
    <3>1. CASE i = m + 1
      <4>1. i # 0 /\ i - 1 = m /\ m \in 0 .. m + 1 /\ m # m + 1
            BY <3>1
      <4>2. u[i - 1] = t[m]
            BY <4>1
      <4>3. u[i] = t[m] + f[m + 1]
            BY <3>1
      <4> QED
          BY <3>1, <4>1, <4>2, <4>3
    <3>2. CASE i # m + 1
      <4>1. i \in 0 .. m /\ u[i] = t[i]
            BY <3>2
      <4>2. CASE i = 0
            BY <2>2, <4>1, <4>2
      <4>3. CASE i # 0
        <5>1. i - 1 \in 0 .. m + 1 /\ i - 1 # m + 1
              BY <3>2, <4>3
        <5>2. u[i - 1] = t[i - 1]
              BY <5>1
        <5> QED
            BY <2>2, <4>1, <4>3, <5>2
      <4> QED
          BY <4>2, <4>3
    <3> QED
        BY <3>1, <3>2
  <2>4. u = [i \in 0 .. m + 1 |-> u[i]]
        OBVIOUS
  <2> HIDE DEF u
  <2>5. Totals(u, f, m + 1)
        BY <2>3, <2>4 DEF Totals
  <2> QED
      BY <2>5
<1> HIDE DEF T
<1>3. n \in T
      BY <1>1, <1>2, InductionOnNat
<1> QED
    BY <1>3 DEF T

LEMMA TotalsAgree ==
    ASSUME NEW f, NEW g, NEW n \in Nat, NEW m \in Nat, NEW t, NEW u,
           Totals(t, f, n), Totals(u, g, m), m <= n,
           \A i \in 1 .. m : f[i] = g[i]
    PROVE  \A i \in 0 .. m : t[i] = u[i]
<1> DEFINE T == {i \in Nat : i <= m => t[i] = u[i]}
<1>1. /\ \A i \in 0 .. n : t[i] = IF i = 0 THEN 0 ELSE t[i - 1] + f[i]
      /\ \A i \in 0 .. m : u[i] = IF i = 0 THEN 0 ELSE u[i - 1] + g[i]
      BY DEF Totals
<1>2. 0 \in T
      BY <1>1
<1>3. ASSUME NEW i \in Nat, i \in T
      PROVE  i + 1 \in T
  <2>1. SUFFICES ASSUME i + 1 <= m PROVE t[i + 1] = u[i + 1]
        OBVIOUS
  <2>2. /\ i + 1 \in 0 .. n /\ i + 1 \in 0 .. m /\ i + 1 \in 1 .. m
        /\ i + 1 # 0 /\ (i + 1) - 1 = i /\ i <= m
        BY <2>1
  <2>3. t[i] = u[i]
        BY <1>3, <2>2
  <2>4. t[i + 1] = t[i] + f[i + 1]
        BY <1>1, <2>2
  <2>5. u[i + 1] = u[i] + g[i + 1]
        BY <1>1, <2>2
  <2> QED
      BY <2>2, <2>3, <2>4, <2>5
<1> HIDE DEF T
<1>4. \A i \in Nat : i \in T
      BY <1>2, <1>3, InductionOnNat
<1> QED
    BY <1>4 DEF T

LEMMA SumIsTotal ==
    ASSUME NEW f, NEW n \in Nat
    PROVE  \E t : Totals(t, f, n) /\ SumTo(f, n) = t[n]
<1> DEFINE t == CHOOSE s : Totals(s, f, n)
<1>1. Totals(t, f, n)
      BY TotalsExist
<1>2. SumTo(f, n) = t[n]
      BY DEF SumTo, Totals
<1> QED
    BY <1>1, <1>2

(* Two functions that agree up to n have the same sum up to n.             *)
LEMMA SumSame ==
    ASSUME NEW f, NEW g, NEW n \in Nat, \A i \in 1 .. n : f[i] = g[i]
    PROVE  SumTo(f, n) = SumTo(g, n)
<1>1. PICK t : Totals(t, f, n) /\ SumTo(f, n) = t[n]
      BY SumIsTotal
<1>2. PICK u : Totals(u, g, n) /\ SumTo(g, n) = u[n]
      BY SumIsTotal
<1>3. \A i \in 0 .. n : t[i] = u[i]
      BY <1>1, <1>2, TotalsAgree
<1> QED
    BY <1>1, <1>2, <1>3

(* The recursion of SumTo.                                                 *)
LEMMA SumNext ==
    ASSUME NEW f, NEW n \in Nat
    PROVE  SumTo(f, 0) = 0 /\ SumTo(f, n + 1) = SumTo(f, n) + f[n + 1]
<1>1. SumTo(f, 0) = 0
  <2>1. PICK t : Totals(t, f, 0) /\ SumTo(f, 0) = t[0]
        BY SumIsTotal
  <2> QED
      BY <2>1 DEF Totals
<1>2. PICK t : Totals(t, f, n) /\ SumTo(f, n) = t[n]
      BY SumIsTotal
<1>3. PICK u : Totals(u, f, n + 1) /\ SumTo(f, n + 1) = u[n + 1]
      BY SumIsTotal
<1>4. n + 1 \in Nat /\ n <= n + 1 /\ n \in 0 .. n
      OBVIOUS
<1>5. u[n] = t[n]
      BY <1>2, <1>3, <1>4, TotalsAgree
<1>6. u[n + 1] = u[n] + f[n + 1]
      BY <1>3 DEF Totals
<1> QED
    BY <1>1, <1>2, <1>3, <1>5, <1>6

LEMMA SumType ==
    ASSUME NEW f, NEW n \in Nat, \A i \in 1 .. n : f[i] \in Nat
    PROVE  SumTo(f, n) \in Nat
<1> DEFINE T == {m \in Nat : m <= n => SumTo(f, m) \in Nat}
<1>1. 0 \in T
      BY SumNext
<1>2. ASSUME NEW m \in Nat, m \in T
      PROVE  m + 1 \in T
      BY <1>2, SumNext
<1> HIDE DEF T
<1>3. n \in T
      BY <1>1, <1>2, InductionOnNat
<1> QED
    BY <1>3 DEF T

LEMMA SumZero ==
    ASSUME NEW f, NEW n \in Nat, \A i \in 1 .. n : f[i] = 0
    PROVE  SumTo(f, n) = 0
<1> DEFINE T == {m \in Nat : m <= n => SumTo(f, m) = 0}
<1>1. 0 \in T
      BY SumNext
<1>2. ASSUME NEW m \in Nat, m \in T
      PROVE  m + 1 \in T
      BY <1>2, SumNext
<1> HIDE DEF T
<1>3. n \in T
      BY <1>1, <1>2, InductionOnNat
<1> QED
    BY <1>3 DEF T

(* One more at one place is one more in the sum.                           *)
LEMMA SumBump ==
    ASSUME NEW f, NEW g, NEW n \in Nat, NEW k \in 1 .. n,
           \A i \in 1 .. n : f[i] \in Nat /\ g[i] = IF i = k THEN f[i] + 1 ELSE f[i]
    PROVE  SumTo(g, n) = SumTo(f, n) + 1
<1> DEFINE T == {m \in Nat : k <= m /\ m <= n => SumTo(g, m) = SumTo(f, m) + 1}
<1>1. 0 \in T
      OBVIOUS
<1>2. ASSUME NEW m \in Nat, m \in T
      PROVE  m + 1 \in T
  <2>1. SUFFICES ASSUME k <= m + 1, m + 1 <= n
                 PROVE  SumTo(g, m + 1) = SumTo(f, m + 1) + 1
        OBVIOUS
  <2>2. /\ SumTo(f, m + 1) = SumTo(f, m) + f[m + 1]
        /\ SumTo(g, m + 1) = SumTo(g, m) + g[m + 1]
        BY SumNext
  <2>3. SumTo(f, m) \in Nat
        BY <2>1, SumType
  <2>4. m + 1 \in 1 .. n /\ f[m + 1] \in Nat
        BY <2>1
  <2>5. CASE k = m + 1
    <3>1. \A i \in 1 .. m : f[i] = g[i]
          BY <2>1, <2>5
    <3>2. SumTo(f, m) = SumTo(g, m)
          BY <3>1, SumSame
    <3> QED
        BY <2>2, <2>3, <2>4, <2>5, <3>2
  <2>6. CASE k <= m
    <3>1. SumTo(g, m) = SumTo(f, m) + 1
          BY <1>2, <2>1, <2>6
    <3>2. g[m + 1] = f[m + 1]
          BY <2>4, <2>6
    <3> QED
        BY <2>2, <2>3, <2>4, <3>1, <3>2
  <2> QED
      BY <2>1, <2>5, <2>6
<1> HIDE DEF T
<1>3. n \in T
      BY <1>1, <1>2, InductionOnNat
<1> QED
    BY <1>3 DEF T

-----------------------------------------------------------------------------
(* The outbox gets an event once, and once for each committed retry.       *)
LEMMA RowsCounted ==
    ASSUME TypeOK
    PROVE  /\ Len(rows) \in Nat /\ DOMAIN rows = 1 .. Len(rows) /\ Len(rows) <= MaxRows
           /\ \A e : \A r \in 1 .. Len(rows) :
                 Retried(e)[r] = IF rows[r].event = e THEN retries[r] ELSE 0
           /\ \A r \in 1 .. Len(rows) : r \in 1 .. MaxRows /\ retries[r] \in Nat
BY DeadLettersAssumption DEF TypeOK, Retried

(* A step that touches no count, whatever it does to the status of rows.   *)
LEMMA CountsKept ==
    ASSUME TypeOK, TypeOK', InsertInv,
           entered' = entered, inserts' = inserts, retries' = retries,
           Len(rows') = Len(rows),
           \A r \in DOMAIN rows : rows'[r].event = rows[r].event,
           \A m \in Message : outbox'[m] + queue'[m] > 0 \/ job' = m
                                 => outbox[m] + queue[m] > 0 \/ job = m
    PROVE  InsertInv'
<1>1. DOMAIN rows' = DOMAIN rows /\ DOMAIN rows = 1 .. Len(rows) /\ Len(rows) \in Nat
      BY DEF TypeOK
<1>2. Known'
      BY <1>1 DEF InsertInv, Known
<1>3. Uncounted'
      BY <1>1 DEF InsertInv, Uncounted
<1>4. ASSUME NEW e \in entered
      PROVE  RetriesOf(e)' = RetriesOf(e)
  <2>1. \A r \in 1 .. Len(rows) : Retried(e)'[r] = Retried(e)[r]
        BY <1>1 DEF Retried
  <2>2. SumTo(Retried(e)', Len(rows)) = SumTo(Retried(e), Len(rows))
        BY <1>1, <2>1, SumSame
  <2> QED
      BY <2>2 DEF RetriesOf
<1>5. OncePerRetry'
      BY <1>4 DEF InsertInv, OncePerRetry
<1> QED
    BY <1>2, <1>3, <1>5 DEF InsertInv

LEMMA RowAtTheEnd ==
    ASSUME NEW s \in Seq(Letter), NEW x \in Letter, NEW t, t = Append(s, x)
    PROVE  /\ Len(t) = Len(s) + 1 /\ DOMAIN t = 1 .. Len(s) + 1
           /\ \A r \in DOMAIN s : t[r] = s[r]
           /\ t[Len(s) + 1] = x
<1>1. t \in Seq(Letter) /\ Len(t) = Len(s) + 1
      BY Appended
<1>2. DOMAIN t = 1 .. Len(t)
      BY <1>1
<1> QED
    BY <1>1, <1>2, Appended

(* A row more, of an event that came in, and has not been retried.         *)
LEMMA RowAdded ==
    ASSUME TypeOK, InsertInv, NEW e \in AnyEvent,
           Len(rows) < MaxRows, Len(rows') = Len(rows) + 1, retries' = retries,
           DOMAIN rows' = 1 .. Len(rows) + 1,
           \A r \in DOMAIN rows : rows'[r] = rows[r]
    PROVE  RetriesOf(e)' = RetriesOf(e)
<1>1. Len(rows) \in Nat /\ DOMAIN rows = 1 .. Len(rows)
      BY RowsCounted
<1>2. retries[Len(rows) + 1] = 0
  <2>1. Len(rows) + 1 \in 1 .. MaxRows /\ Len(rows) + 1 \notin DOMAIN rows
        BY <1>1, DeadLettersAssumption
  <2> QED
      BY <2>1 DEF InsertInv, Uncounted
<1>3. \A r \in 1 .. Len(rows) : Retried(e)'[r] = Retried(e)[r]
      BY <1>1 DEF Retried
<1>4. Retried(e)'[Len(rows) + 1] = 0
  <2>1. Len(rows) + 1 \in DOMAIN rows'
        BY <1>1
  <2> QED
      BY <1>2, <2>1 DEF Retried
<1>5. SumTo(Retried(e)', Len(rows)) = SumTo(Retried(e), Len(rows))
      BY <1>1, <1>3, SumSame
<1>6. SumTo(Retried(e), Len(rows)) \in Nat
      BY <1>1, SumType, RowsCounted
<1>7. SumTo(Retried(e)', Len(rows) + 1) = SumTo(Retried(e)', Len(rows)) + Retried(e)'[Len(rows) + 1]
      BY <1>1, SumNext
<1> QED
    BY <1>4, <1>5, <1>6, <1>7 DEF RetriesOf

(* An event that is new has no rows.                                       *)
LEMMA NewIsUnretried ==
    ASSUME TypeOK, InsertInv, NEW e \in AnyEvent, e \notin entered
    PROVE  RetriesOf(e) = 0 /\ inserts[e] = 0
<1>1. \A r \in 1 .. Len(rows) : Retried(e)[r] = 0
      BY RowsCounted DEF InsertInv, Known
<1>2. RetriesOf(e) = 0
      BY <1>1, SumZero, RowsCounted DEF RetriesOf
<1> QED
    BY <1>2 DEF InsertInv, Uncounted

LEMMA InsertInvEnter ==
    ASSUME TypeOK, InsertInv, NEW e \in Event, Enter(e)
    PROVE  InsertInv'
<1>1. /\ <<e, epoch>> \in Message /\ e \in AnyEvent /\ e \notin entered
      /\ entered' = entered \cup {e}
      /\ inserts' = [inserts EXCEPT ![e] = @ + 1]
      /\ UNCHANGED <<queue, job, rows, retries>>
      BY DEF Enter, TypeOK, Message, AnyEvent
<1>2. PICK m \in Message : m[1] = e /\ outbox' = Plus(outbox, m)
      BY <1>1, Zenon DEF Enter
<1>3. \A n \in Message : n # m => outbox'[n] = outbox[n]
      BY <1>2, Bags, BagTypes
<1>4. Known'
      BY <1>1, <1>2, <1>3 DEF InsertInv, Known
<1>5. inserts \in [AnyEvent -> Nat]
      BY DEF TypeOK
<1>6. Uncounted'
      BY <1>1, <1>5 DEF InsertInv, Uncounted
<1>7. ASSUME NEW d \in entered'
      PROVE  inserts'[d] = 1 + RetriesOf(d)
  <2>1. CASE d = e
        BY <1>1, <1>5, <2>1, NewIsUnretried
  <2>2. CASE d # e
        BY <1>1, <1>5, <2>2 DEF InsertInv, OncePerRetry
  <2> QED
      BY <2>1, <2>2
<1>8. \A d : RetriesOf(d)' = RetriesOf(d)
      BY <1>1 DEF RetriesOf, Retried
<1>9. OncePerRetry'
      BY <1>7, <1>8 DEF OncePerRetry
<1> QED
    BY <1>4, <1>6, <1>9 DEF InsertInv

LEMMA InsertInvSeedDlq ==
    ASSUME TypeOK, InsertInv, NEW e \in Demo, SeedDlq(e)
    PROVE  InsertInv'
<1>1. /\ e \in AnyEvent /\ e \notin entered /\ entered' = entered \cup {e}
      /\ Len(rows) < MaxRows /\ rows' = Append(rows, Row(e, Undated))
      /\ inserts' = [inserts EXCEPT ![e] = @ + 1]
      /\ UNCHANGED <<outbox, queue, job, retries>>
      BY DEF SeedDlq, AnyEvent
<1>2. Row(e, Undated) \in Letter /\ Row(e, Undated).event = e
      BY <1>1 DEF Row, Letter
<1>3. /\ Len(rows') = Len(rows) + 1 /\ DOMAIN rows' = 1 .. Len(rows) + 1
      /\ \A r \in DOMAIN rows : rows'[r] = rows[r]
      /\ rows'[Len(rows) + 1].event = e
  <2>1. rows \in Seq(Letter)
        BY DEF TypeOK
  <2>2. PICK x \in Letter : x.event = e /\ rows' = Append(rows, x)
        BY <1>1, <1>2
  <2> QED
      BY <2>1, <2>2, RowAtTheEnd
<1>4. DOMAIN rows = 1 .. Len(rows) /\ Len(rows) \in Nat
      BY RowsCounted
<1>5. inserts \in [AnyEvent -> Nat]
      BY DEF TypeOK
<1>6. Known'
  <2>1. \A r \in DOMAIN rows' : r \in DOMAIN rows \/ r = Len(rows) + 1
        BY <1>3, <1>4
  <2> QED
      BY <1>1, <1>3, <2>1 DEF InsertInv, Known
<1>7. Uncounted'
      BY <1>1, <1>3, <1>4, <1>5 DEF InsertInv, Uncounted
<1>8. \A d \in AnyEvent : RetriesOf(d)' = RetriesOf(d)
      BY <1>1, <1>3, RowAdded
<1>9. ASSUME NEW d \in entered'
      PROVE  inserts'[d] = 1 + RetriesOf(d)
  <2>1. CASE d = e
        BY <1>1, <1>5, <2>1, NewIsUnretried
  <2>2. CASE d # e
        BY <1>1, <1>5, <2>2 DEF InsertInv, OncePerRetry
  <2> QED
      BY <2>1, <2>2
<1>10. entered' \subseteq AnyEvent
      BY <1>1 DEF TypeOK
<1>11. OncePerRetry'
      BY <1>8, <1>9, <1>10 DEF OncePerRetry
<1> QED
    BY <1>6, <1>7, <1>11 DEF InsertInv

LEMMA InsertInvPark ==
    ASSUME TypeOK, TypeOK', InsertInv, NEW m \in Message, Park(m)
    PROVE  InsertInv'
<1>1. /\ job = NoJob /\ queue[m] > 0 /\ queue' = Minus(queue, m)
      /\ UNCHANGED <<entered, outbox, job, retries, inserts>>
      BY DEF Park
<1>2. \A n \in Message : /\ outbox[n] \in Nat /\ queue[n] \in Nat
                         /\ queue'[n] = IF n = m THEN queue[n] - 1 ELSE queue[n]
      BY <1>1, Bags, BagTypes
<1>3. \A n \in Message : outbox'[n] + queue'[n] > 0 \/ job' = n
                            => outbox[n] + queue[n] > 0 \/ job = n
      BY <1>1, <1>2
<1>4. CASE UNCHANGED rows
      BY <1>1, <1>3, <1>4, CountsKept
<1>5. CASE Len(rows) < MaxRows /\ rows' = Append(rows, Row(m[1], m[2]))
  <2>1. Row(m[1], m[2]) \in Letter /\ Row(m[1], m[2]).event = m[1]
        BY Messages DEF Row, Letter
  <2>2. /\ Len(rows') = Len(rows) + 1 /\ DOMAIN rows' = 1 .. Len(rows) + 1
        /\ \A r \in DOMAIN rows : rows'[r] = rows[r]
        /\ rows'[Len(rows) + 1].event = m[1]
    <3>1. rows \in Seq(Letter)
          BY DEF TypeOK
    <3>2. PICK x \in Letter : x.event = m[1] /\ rows' = Append(rows, x)
          BY <1>5, <2>1
    <3> QED
        BY <3>1, <3>2, RowAtTheEnd
  <2>3. DOMAIN rows = 1 .. Len(rows) /\ Len(rows) \in Nat
        BY RowsCounted
  <2>4. m[1] \in entered
        BY <1>1, <1>2 DEF InsertInv, Known
  <2>5. Known'
    <3>1. \A r \in DOMAIN rows' : r \in DOMAIN rows \/ r = Len(rows) + 1
          BY <2>2, <2>3
    <3> QED
        BY <1>1, <1>3, <2>2, <2>4, <3>1 DEF InsertInv, Known
  <2>6. Uncounted'
        BY <1>1, <2>2, <2>3 DEF InsertInv, Uncounted
  <2>7. \A d \in AnyEvent : RetriesOf(d)' = RetriesOf(d)
        BY <1>1, <1>5, <2>2, RowAdded
  <2>8. entered \subseteq AnyEvent
        BY DEF TypeOK
  <2>9. OncePerRetry'
        BY <1>1, <2>7, <2>8 DEF InsertInv, OncePerRetry
  <2> QED
      BY <2>5, <2>6, <2>9 DEF InsertInv
<1> QED
    BY <1>4, <1>5 DEF Park

LEMMA InsertInvRetry ==
    ASSUME TypeOK, InsertInv, NEW s \in Steward, Retry(s)
    PROVE  InsertInv'
<1>1. PICK r \in DOMAIN rows : r = request[s]
      BY RowsAreNumbered DEF Retry
<1>2. PICK e \in AnyEvent : e = rows[r].event
      BY RowsAreNumbered DEF Letter
<1>3. /\ outbox' = Plus(outbox, Revived(r))
      /\ inserts' = [inserts EXCEPT ![e] = @ + 1]
      /\ rows' = [rows EXCEPT ![r].status = "RETRIED"]
      /\ retries' = [retries EXCEPT ![r] = @ + 1]
      /\ UNCHANGED <<entered, queue, job>>
      BY <1>1, <1>2 DEF Retry, Inserted, Insert
<1>4. /\ Len(rows') = Len(rows) /\ DOMAIN rows' = DOMAIN rows /\ rows' \in Seq(Letter)
      /\ DOMAIN rows = 1 .. Len(rows) /\ Len(rows) \in Nat /\ r \in 1 .. MaxRows
      BY <1>3, RowTyped, RowsCounted
<1>5. \A q \in DOMAIN rows : rows'[q].event = rows[q].event
  <2>1. rows[r] \in Letter
        BY RowsAreNumbered
  <2>2. rows'[r] = [rows[r] EXCEPT !.status = "RETRIED"] /\ \A q \in DOMAIN rows \ {r} : rows'[q] = rows[q]
        BY <1>3 DEF TypeOK
  <2> QED
      BY <2>1, <2>2 DEF Letter
<1>6. e \in entered
      BY <1>2 DEF InsertInv, Known
<1>7. Revived(r) \in Message /\ Revived(r)[1] = e
  <2>1. rows[r].born \in Epoch \cup {Undated} /\ epoch \in Epoch
        BY RowsAreNumbered DEF Letter, TypeOK
  <2> QED
      BY <1>2, <2>1 DEF Revived, Message
<1>8. PICK m \in Message : m = Revived(r) /\ m[1] = e
      BY <1>7
<1>9. \A n \in Message : n # m => outbox'[n] = outbox[n]
      BY <1>3, <1>8, Bags, BagTypes
<1>10. Known'
      BY <1>3, <1>4, <1>5, <1>6, <1>8, <1>9 DEF InsertInv, Known
<1>11. retries \in [1 .. MaxRows -> Nat] /\ inserts \in [AnyEvent -> Nat] /\ entered \subseteq AnyEvent
      BY DEF TypeOK
<1>12. Uncounted'
      BY <1>3, <1>4, <1>6, <1>11 DEF InsertInv, Uncounted
<1>13. ASSUME NEW d \in entered
       PROVE  inserts'[d] = 1 + RetriesOf(d)'
  <2>1. inserts[d] = 1 + RetriesOf(d)
        BY DEF InsertInv, OncePerRetry
  <2>2. RetriesOf(d) \in Nat
        BY SumType, RowsCounted DEF RetriesOf
  <2>3. \A i \in 1 .. Len(rows) : Retried(d)'[i] = IF rows[i].event = d THEN retries'[i] ELSE 0
        BY <1>4, <1>5 DEF Retried
  <2>4. \A i \in 1 .. Len(rows) : retries'[i] = IF i = r THEN retries[i] + 1 ELSE retries[i]
        BY <1>3, <1>4, <1>11, RowsCounted
  <2>5. CASE d = e
    <3>1. \A i \in 1 .. Len(rows) :
             /\ Retried(d)[i] \in Nat
             /\ Retried(d)'[i] = IF i = r THEN Retried(d)[i] + 1 ELSE Retried(d)[i]
          BY <1>2, <2>3, <2>4, <2>5, RowsCounted
    <3>2. r \in 1 .. Len(rows)
          BY <1>4
    <3>3. SumTo(Retried(d)', Len(rows)) = SumTo(Retried(d), Len(rows)) + 1
          BY <1>4, <3>1, <3>2, SumBump
    <3>4. RetriesOf(d)' = RetriesOf(d) + 1
          BY <1>4, <3>3 DEF RetriesOf
    <3> QED
        BY <1>3, <1>11, <2>1, <2>2, <2>5, <3>4
  <2>6. CASE d # e
    <3>1. \A i \in 1 .. Len(rows) : Retried(d)'[i] = Retried(d)[i]
          BY <1>2, <2>3, <2>4, <2>6, RowsCounted
    <3>2. SumTo(Retried(d)', Len(rows)) = SumTo(Retried(d), Len(rows))
          BY <1>4, <3>1, SumSame
    <3>3. RetriesOf(d)' = RetriesOf(d)
          BY <1>4, <3>2 DEF RetriesOf
    <3> QED
        BY <1>3, <1>11, <2>1, <2>6, <3>3
  <2> QED
      BY <2>5, <2>6
<1>14. OncePerRetry'
      BY <1>3, <1>13 DEF OncePerRetry
<1> QED
    BY <1>10, <1>12, <1>14 DEF InsertInv

(* Everything else moves messages, or marks rows.                          *)
LEMMA InsertInvMessages ==
    ASSUME TypeOK, TypeOK', InsertInv, NEW m \in Message, Drain(m) \/ Take(m)
    PROVE  InsertInv'
<1>1. \A n \in Message : outbox[n] \in Nat /\ queue[n] \in Nat
      BY BagTypes
<1>2. UNCHANGED <<entered, inserts, retries, rows>>
      BY DEF Drain, Take, history
<1>3. CASE Drain(m)
  <2>1. outbox' = Minus(outbox, m) /\ queue' = Plus(queue, m) /\ job' = job
        BY <1>3 DEF Drain
  <2>2. \A n \in Message : outbox'[n] + queue'[n] = outbox[n] + queue[n]
    <3>1. outbox \in [Message -> Nat] /\ queue \in [Message -> Nat]
          BY BagTypes
    <3>2. \A n \in Message : outbox'[n] = IF n = m THEN outbox[n] - 1 ELSE outbox[n]
          BY <2>1, <3>1, Bags
    <3>3. \A n \in Message : queue'[n] = IF n = m THEN queue[n] + 1 ELSE queue[n]
          BY <2>1, <3>1, Bags
    <3> QED
        BY <1>1, <3>2, <3>3
  <2> QED
      BY <1>2, <2>1, <2>2, CountsKept
<1>4. CASE Take(m)
  <2>1. /\ queue[m] > 0 /\ queue' = Minus(queue, m) /\ outbox' = outbox
        /\ job' = job \/ job' = m
        BY <1>4 DEF Take
  <2>2. \A n \in Message : queue'[n] = IF n = m THEN queue[n] - 1 ELSE queue[n]
        BY <2>1, Bags, BagTypes
  <2>3. \A n \in Message : outbox'[n] + queue'[n] > 0 \/ job' = n
                              => outbox[n] + queue[n] > 0 \/ job = n
        BY <1>1, <2>1, <2>2
  <2> QED
      BY <1>2, <2>3, CountsKept
<1> QED
    BY <1>3, <1>4

LEMMA InsertInvTask ==
    ASSUME TypeOK, TypeOK', InsertInv, Task
    PROVE  InsertInv'
<1>1. \A n \in Message : outbox[n] \in Nat /\ queue[n] \in Nat
      BY BagTypes
<1>2. /\ job \in Message /\ job' = NoJob /\ \A n \in Message : n # NoJob
      /\ UNCHANGED <<entered, inserts, retries, rows, outbox>>
      BY Messages DEF Task, Write, WriteUnknown, Again, EndJob, TypeOK
<1>3. queue' = queue \/ queue' = Plus(queue, job)
      BY DEF Task, Write, WriteUnknown, Again
<1>4. \A n \in Message : queue'[n] = queue[n] \/ n = job
      BY <1>2, <1>3, Bags, BagTypes
<1> QED
    BY <1>1, <1>2, <1>4, CountsKept

LEMMA InsertInvRows ==
    ASSUME TypeOK, TypeOK', InsertInv,
           \/ \E r \in DOMAIN rows, status \in {"RESOLVED", "DISCARDED"} : Close(r, status)
           \/ Truncate
    PROVE  InsertInv'
<1>1. /\ UNCHANGED <<entered, inserts, retries, queue, job>>
      /\ outbox' = outbox \/ outbox' = [m \in Message |-> 0]
      BY DEF Close, Truncate
<1>2. \A n \in Message : outbox[n] \in Nat /\ queue[n] \in Nat
      BY BagTypes
<1>3. \A n \in Message : outbox'[n] + queue'[n] > 0 => outbox[n] + queue[n] > 0
      BY <1>1, <1>2
<1>4. Len(rows') = Len(rows) /\ \A r \in DOMAIN rows : rows'[r].event = rows[r].event
  <2>1. CASE \E r \in DOMAIN rows, status \in {"RESOLVED", "DISCARDED"} : Close(r, status)
    <3>1. PICK r \in DOMAIN rows, status \in {"RESOLVED", "DISCARDED"} : Close(r, status)
          BY <2>1
    <3>2. rows' = [rows EXCEPT ![r].status = status] /\ Len(rows') = Len(rows)
          BY <3>1, RowTyped DEF Close
    <3>3. rows'[r] = [rows[r] EXCEPT !.status = status] /\ \A q \in DOMAIN rows \ {r} : rows'[q] = rows[q]
          BY <3>2 DEF TypeOK
    <3>4. rows[r] \in Letter
          BY RowsAreNumbered
    <3> QED
        BY <3>2, <3>3, <3>4 DEF Letter
  <2>2. CASE rows' = Truncated
    <3>1. DOMAIN rows = 1 .. Len(rows) /\ Len(rows) \in Nat
          BY RowsCounted
    <3>2. DOMAIN rows' = 1 .. Len(rows) /\ Len(rows') = Len(rows)
          BY <2>2, <3>1 DEF Truncated, TypeOK
    <3>3. \A r \in DOMAIN rows : rows'[r] = [rows[r] EXCEPT !.status = "truncated"]
          BY <2>2 DEF Truncated
    <3> QED
        BY <3>2, <3>3, RowsAreNumbered DEF Letter
  <2> QED
      BY <2>1, <2>2 DEF Truncate
<1> QED
    BY <1>1, <1>3, <1>4, CountsKept

LEMMA InsertInvRest ==
    ASSUME TypeOK, TypeOK', InsertInv,
           \/ \E e \in AnyEvent : Lapse(e)
           \/ \E s \in Steward, r \in DOMAIN rows : Select(s, r)
           \/ \E s \in Steward : RetryFails(s)
           \/ Clear \/ Seed \/ Forget \/ Stamp \/ Refill
           \/ UNCHANGED vars
    PROVE  InsertInv'
<1>1. UNCHANGED <<entered, inserts, retries, rows, outbox, queue, job>>
      BY DEF Lapse, Select, RetryFails, RolledBack, Clear, Seed, Forget, Stamp, Refill,
             vars, history
<1> QED
    BY <1>1, CountsKept

LEMMA InsertInvStep ==
    ASSUME IInv, InsertInv, [Next]_vars
    PROVE  InsertInv'
<1>1. TypeOK /\ TypeOK'
      BY InvStep DEF IInv
<1> QED
    BY <1>1, InsertInvEnter, InsertInvSeedDlq, InsertInvPark, InsertInvRetry,
       InsertInvMessages, InsertInvTask, InsertInvRows, InsertInvRest
    DEF Next, HardReset, Over

LEMMA InsertInvInit == Init => InsertInv
<1> SUFFICES ASSUME Init PROVE InsertInv
    OBVIOUS
<1>1. DOMAIN rows = {} /\ entered = {}
      BY DEF Init
<1>2. Known
      BY <1>1, Messages DEF Init, Known
<1>3. Uncounted
      BY DEF Init, Uncounted
<1> QED
    BY <1>1, <1>2, <1>3 DEF InsertInv, OncePerRetry

(* A retry is all or nothing: the outbox got every event once at first and *)
(* once for each retry that committed, however many rows there are, and    *)
(* whatever stewards, parked duplicates, failing statements and hard       *)
(* resets do in between (resolve_dlq: INSERT and UPDATE in one             *)
(* transaction).                                                           *)
THEOREM OncePerRetryAlways == Spec => []OncePerRetry
<1>1. InsertInv => OncePerRetry
      BY DEF InsertInv
<1>2. IInv /\ InsertInv /\ [Next]_vars => InsertInv'
      BY InsertInvStep
<1> QED
    BY <1>1, <1>2, InsertInvInit, InvAlways, PTL DEF Spec
=============================================================================
