--------------------------- MODULE DispatchProofs ---------------------------
(***************************************************************************)
(* Proofs about Dispatch, for every set of events, adapters, routes, tasks *)
(* and workers and for every number of crashes, outages and faults.        *)
(***************************************************************************)
EXTENDS Dispatch, FiniteSetTheorems, TLAPS

USE DEF vars, taskVars, targets, history, budget

LEMMA Bounds ==
    /\ MaxRetries \in Nat /\ MaxCrashes \in Nat
    /\ MaxOutages \in Nat /\ MaxDBFaults \in Nat
BY BoundAssumption

LEMMA RouteLength ==
    ASSUME NEW t \in Task
    PROVE  /\ EventOf[t] \in Event
           /\ Len(Route[EventOf[t]]) \in Nat \ {0}
           /\ \A i \in 1 .. Len(Route[EventOf[t]]) : Route[EventOf[t]][i] \in Adapter
BY RouteAssumption, TaskAssumption

(* The key of a task is well formed: its position is inside its route.     *)
LEMMA KeyOfType ==
    ASSUME TasksTypeOK, NEW t \in Task
    PROVE  KeyOf(t) \in Key /\ TargetOf(t) \in Adapter /\ EventOf[t] \in Event
BY RouteLength DEF TasksTypeOK, KeyOf, TargetOf, Key

LEMMA Places ==
    Waiting \subseteq Place /\ Running \subseteq Place /\ Ended \subseteq Place
BY DEF Place

LEMMA GotoType ==
    ASSUME TasksTypeOK, NEW t \in Task, NEW p \in Place, Goto(t, p)
    PROVE  pc' \in [Task -> Place]
BY DEF Goto, TasksTypeOK

(* Going on to the next adapter keeps the task's position in its route.    *)
LEMMA NextAdapterType ==
    ASSUME TasksTypeOK, NEW t \in Task, NextAdapter(t)
    PROVE  /\ pc' \in [Task -> Place]
           /\ at' \in [Task -> Nat \ {0}]
           /\ \A u \in Task : at'[u] <= Len(Route[EventOf[u]])
<1>1. "admit" \in Place /\ "finish" \in Place
    BY DEF Place, Running
<1>2. pc' \in [Task -> Place]
    BY <1>1, GotoType DEF NextAdapter
<1>3. at' \in [Task -> Nat \ {0}]
    <2>1. at \in [Task -> Nat \ {0}] /\ at[t] + 1 \in Nat \ {0}
        BY DEF TasksTypeOK
    <2>2. QED
        BY <2>1 DEF NextAdapter
<1>4. \A u \in Task : at'[u] <= Len(Route[EventOf[u]])
    <2>1. Len(Route[EventOf[t]]) \in Nat
        BY RouteLength
    <2>2. at \in [Task -> Nat \ {0}] /\ \A u \in Task : at[u] <= Len(Route[EventOf[u]])
        BY DEF TasksTypeOK
    <2>3. QED
        BY <2>1, <2>2 DEF NextAdapter
<1>5. QED
    BY <1>2, <1>3, <1>4

LEMMA RecordType ==
    ASSUME TasksTypeOK, NEW t \in Task, NEW r \in Result, Record(t, r)
    PROVE  result' \in [Task -> [Adapter -> Result]]
BY KeyOfType DEF TasksTypeOK, Record

LEMMA EndTurnType ==
    ASSUME TasksTypeOK, UNCHANGED retries, NEW t \in Task, NEW r \in Result, EndTurn(t, r)
    PROVE  TasksTypeOK'
<1>1. result' \in [Task -> [Adapter -> Result]]
    BY RecordType DEF EndTurn
<1>2. QED
    BY <1>1, NextAdapterType DEF EndTurn, TasksTypeOK

LEMMA AdvanceType ==
    ASSUME TasksTypeOK, UNCHANGED <<retries, result>>, NEW t \in Task, NextAdapter(t)
    PROVE  TasksTypeOK'
BY NextAdapterType DEF TasksTypeOK

(* A step that only moves the program counter, or also records a result.   *)
LEMMA MoveType ==
    ASSUME TasksTypeOK, UNCHANGED <<at, retries>>, NEW t \in Task, NEW p \in Place,
           Goto(t, p), UNCHANGED result \/ \E r \in Result : Record(t, r)
    PROVE  TasksTypeOK'
<1>1. result' \in [Task -> [Adapter -> Result]]
    BY RecordType DEF TasksTypeOK
<1>2. QED
    BY <1>1, GotoType DEF TasksTypeOK

LEMMA Results ==
    RetriableErrors \cup {"none", "written", "completed", "matched", "notfound", "loser",
                          "parked", "rejected", "timeout", "error"} = Result
BY DEF Result

LEMMA PlaceNames ==
    {"new", "queued", "done", "failed", "call", "complete", "audit", "release", "park",
     "admit", "detect", "reserve", "peek", "probe", "rejectaudit", "finish"} = Place
BY DEF Place, Waiting, Running, Holding, Ended

LEMMA IncType ==
    ASSUME NEW f \in [Key -> Nat], NEW k \in Key
    PROVE  Inc(f, k) \in [Key -> Nat]
BY DEF Inc

LEMMA InitTypeOK == Init => TypeOK
<1> SUFFICES ASSUME Init PROVE TypeOK
    OBVIOUS
<1>1. TasksTypeOK
    <2>1. pc \in [Task -> Place] /\ result \in [Task -> [Adapter -> Result]]
        BY PlaceNames, Results DEF Init
    <2>2. at \in [Task -> Nat \ {0}] /\ retries \in [Task -> 0 .. MaxRetries]
        BY Bounds DEF Init
    <2>3. \A t \in Task : at[t] <= Len(Route[EventOf[t]])
        BY RouteLength DEF Init
    <2>4. QED
        BY <2>1, <2>2, <2>3 DEF TasksTypeOK
<1>2. StoresTypeOK
    BY DEF Init, StoresTypeOK
<1>3. HistoryTypeOK
    <2>1. 0 \in 0 .. MaxCrashes /\ 0 \in 0 .. MaxOutages /\ 0 \in 0 .. MaxDBFaults
        BY Bounds
    <2>2. QED
        BY <2>1 DEF Init, HistoryTypeOK
<1>4. QED
    BY <1>1, <1>2, <1>3 DEF TypeOK

LEMMA StepTypeOK ==
    ASSUME TypeOK, NEW t \in Task, Step(t)
    PROVE  TypeOK'
<1> USE DEF Acknowledge
<1>0. /\ TasksTypeOK /\ StoresTypeOK /\ HistoryTypeOK
      /\ EventOf[t] \in Event /\ KeyOf(t) \in Key /\ TargetOf(t) \in Adapter
    BY KeyOfType DEF TypeOK
<1>1. CASE Claim(t)
    <2>1. at' \in [Task -> Nat \ {0}] /\ \A u \in Task : at'[u] <= Len(Route[EventOf[u]])
        BY <1>0, <1>1, RouteLength DEF Claim, TasksTypeOK
    <2>2. result' \in [Task -> [Adapter -> Result]]
        BY <1>0, <1>1, Results DEF Claim, TasksTypeOK
    <2>3. pc' \in [Task -> Place]
        BY <1>0, <1>1, PlaceNames, GotoType DEF Claim
    <2>4. TasksTypeOK'
        BY <1>0, <1>1, <2>1, <2>2, <2>3 DEF Claim, TasksTypeOK
    <2>5. QED
        BY <1>0, <1>1, <2>4 DEF Claim, TypeOK, StoresTypeOK, HistoryTypeOK
<1>2. CASE Park(t)
    <2>1. TasksTypeOK'
        BY <1>0, <1>2, PlaceNames, MoveType DEF Park
    <2>2. StoresTypeOK'
        BY <1>0, <1>2 DEF Park, StoresTypeOK
    <2>3. HistoryTypeOK'
        BY <1>0, <1>2, Bounds DEF Park, DBFault, HistoryTypeOK
    <2>4. QED
        BY <2>1, <2>2, <2>3 DEF TypeOK
<1>3. CASE Admit(t)
    <2>1. TasksTypeOK'
        BY <1>0, <1>3, PlaceNames, Results, MoveType, EndTurnType DEF Admit, RetriableErrors
    <2>2. StoresTypeOK'
        BY <1>0, <1>3 DEF Admit, StoresTypeOK
    <2>3. HistoryTypeOK'
        BY <1>0, <1>3 DEF Admit, HistoryTypeOK
    <2>4. QED
        BY <2>1, <2>2, <2>3 DEF TypeOK
<1>4. CASE Detect(t)
    <2>1. Verdicts \ {"proceed"} \subseteq Result
        BY EnvironmentAssumption, Results DEF Verdict
    <2>2. TasksTypeOK'
        BY <1>0, <1>4, <2>1, PlaceNames, Results, MoveType, EndTurnType DEF Detect
    <2>3. StoresTypeOK'
        BY <1>0, <1>4 DEF Detect, StoresTypeOK
    <2>4. HistoryTypeOK'
        BY <1>0, <1>4, Bounds DEF Detect, DBFault, HistoryTypeOK
    <2>5. QED
        BY <2>2, <2>3, <2>4 DEF TypeOK
<1>5. CASE Reserve(t)
    <2>1. TasksTypeOK'
        BY <1>0, <1>5, PlaceNames, MoveType DEF Reserve
    <2>2. StoresTypeOK'
        BY <1>0, <1>5 DEF Reserve, ReservedValue, StoresTypeOK
    <2>3. HistoryTypeOK'
        BY <1>0, <1>5 DEF Reserve, HistoryTypeOK
    <2>4. QED
        BY <2>1, <2>2, <2>3 DEF TypeOK
<1>6. CASE Peek(t)
    <2>1. TasksTypeOK'
        BY <1>0, <1>6, PlaceNames, Results, MoveType, EndTurnType DEF Peek, RetriableErrors
    <2>2. StoresTypeOK'
        BY <1>0, <1>6 DEF Peek, StoresTypeOK
    <2>3. HistoryTypeOK'
        BY <1>0, <1>6 DEF Peek, HistoryTypeOK
    <2>4. QED
        BY <2>1, <2>2, <2>3 DEF TypeOK
<1>7. CASE Probe(t)
    <2>1. TasksTypeOK'
        BY <1>0, <1>7, PlaceNames, Results, MoveType, EndTurnType DEF Probe
    <2>2. StoresTypeOK'
        BY <1>0, <1>7 DEF Probe, StoresTypeOK
    <2>3. HistoryTypeOK'
        BY <1>0, <1>7 DEF Probe, HistoryTypeOK
    <2>4. QED
        BY <2>1, <2>2, <2>3 DEF TypeOK
<1>8. CASE CallOk(t)
    <2>1. TasksTypeOK'
        BY <1>0, <1>8, PlaceNames, MoveType DEF CallOk
    <2>2. StoresTypeOK'
        BY <1>0, <1>8, IncType DEF CallOk, ApplyWrite, StoresTypeOK
    <2>3. HistoryTypeOK'
        BY <1>0, <1>8 DEF CallOk, HistoryTypeOK
    <2>4. QED
        BY <2>1, <2>2, <2>3 DEF TypeOK
<1>9. CASE CallFails(t)
    <2>1. \A r \in Answers[TargetOf(t)] \ {"ok"} :
              (IF r = "untranslatable" THEN "error" ELSE r) \in Result
        BY <1>0, EnvironmentAssumption DEF Answer, Result, RetriableErrors
    <2>2. TasksTypeOK'
        BY <1>0, <1>9, <2>1, PlaceNames, MoveType DEF CallFails
    <2>3. StoresTypeOK'
        BY <1>0, <1>9, IncType DEF CallFails, ApplyWrite, StoresTypeOK
    <2>4. HistoryTypeOK'
        BY <1>0, <1>9, IncType DEF CallFails, HistoryTypeOK
    <2>5. QED
        BY <2>2, <2>3, <2>4 DEF TypeOK
<1>10. CASE Complete(t)
    <2>1. TasksTypeOK'
        BY <1>0, <1>10, PlaceNames, MoveType DEF Complete
    <2>2. StoresTypeOK'
        BY <1>0, <1>10 DEF Complete, CompletedValue, StoresTypeOK
    <2>3. HistoryTypeOK'
        BY <1>0, <1>10, IncType DEF Complete, HistoryTypeOK
    <2>4. QED
        BY <2>1, <2>2, <2>3 DEF TypeOK
<1>11. CASE Audit(t)
    <2>1. TasksTypeOK'
        BY <1>0, <1>11, PlaceNames, Results, MoveType, EndTurnType DEF Audit
    <2>2. StoresTypeOK'
        BY <1>0, <1>11 DEF Audit, RecordedWrite, StoresTypeOK
    <2>3. HistoryTypeOK'
        BY <1>0, <1>11, Bounds, IncType DEF Audit, DBFault, HistoryTypeOK
    <2>4. QED
        BY <2>1, <2>2, <2>3 DEF TypeOK
<1>12. CASE Release(t)
    <2>1. TasksTypeOK'
        BY <1>0, <1>12, PlaceNames, MoveType, AdvanceType DEF Release
    <2>2. StoresTypeOK'
        BY <1>0, <1>12 DEF Release, Deleted, StoresTypeOK
    <2>3. HistoryTypeOK'
        BY <1>0, <1>12 DEF Release, HistoryTypeOK
    <2>4. QED
        BY <2>1, <2>2, <2>3 DEF TypeOK
<1>13. CASE RejectAudit(t)
    <2>1. TasksTypeOK'
        BY <1>0, <1>13, PlaceNames, Results, MoveType, AdvanceType DEF RejectAudit
    <2>2. StoresTypeOK'
        BY <1>0, <1>13 DEF RejectAudit, StoresTypeOK
    <2>3. HistoryTypeOK'
        <3>1. dbFaults' \in 0 .. MaxDBFaults
            BY <1>0, <1>13, Bounds DEF RejectAudit, DBFault, HistoryTypeOK
        <3>2. unowned' \in BOOLEAN
            BY <1>0, <1>13 DEF RejectAudit, HistoryTypeOK
        <3>3. QED
            BY <1>0, <1>13, <3>1, <3>2 DEF RejectAudit, DBFault, HistoryTypeOK
    <2>4. QED
        BY <2>1, <2>2, <2>3 DEF TypeOK
<1>14. CASE Finish(t)
    <2>1. pc' \in [Task -> Place]
        BY <1>0, <1>14, PlaceNames, GotoType DEF Finish
    <2>2. retries' \in [Task -> 0 .. MaxRetries]
        <3>1. retries \in [Task -> 0 .. MaxRetries]
            BY <1>0 DEF TasksTypeOK
        <3>2. retries[t] < MaxRetries => retries[t] + 1 \in 0 .. MaxRetries
            BY <3>1, Bounds
        <3>3. QED
            BY <1>14, <3>1, <3>2 DEF Finish, MayRetry, NextRetries
    <2>3. TasksTypeOK'
        BY <1>0, <1>14, <2>1, <2>2 DEF Finish, TasksTypeOK
    <2>4. QED
        BY <1>0, <1>14, <2>3 DEF Finish, TypeOK, StoresTypeOK, HistoryTypeOK
<1>15. QED
    BY <1>1, <1>2, <1>3, <1>4, <1>5, <1>6, <1>7, <1>8, <1>9, <1>10, <1>11,
       <1>12, <1>13, <1>14 DEF Step

(* A reservation whose reply was lost only touches its key and its task.   *)
LEMMA Unanswered ==
    ASSUME TypeOK, NEW t \in Task, ReserveUnanswered(t)
    PROVE  /\ UNCHANGED <<at, retries, result, targets, audit, dlq, doubt, crashes, dbFaults>>
           /\ pc[t] = "reserve" /\ pc'[t] = "probe"
           /\ \A u \in Task : u # t => pc'[u] = pc[u]
           /\ \A u \in Task : KeyOf(u)' = KeyOf(u)
           /\ \A k \in Key : idem'[k] = "COMPLETED" <=> idem[k] = "COMPLETED"
           /\ unowned' = TRUE /\ outages' # 0 /\ outages' \in 0 .. MaxOutages
<1>1. KeyOf(t) \in Key
    BY KeyOfType DEF TypeOK
<1>2. outages' # 0 /\ outages' \in 0 .. MaxOutages
    BY Bounds DEF ReserveUnanswered, TypeOK, HistoryTypeOK
<1>3. \A k \in Key : idem'[k] = "COMPLETED" <=> idem[k] = "COMPLETED"
    BY <1>1 DEF ReserveUnanswered, ReservedValue, Free, TypeOK, StoresTypeOK
<1>4. QED
    BY <1>2, <1>3 DEF ReserveUnanswered, Goto, KeyOf, TypeOK, TasksTypeOK

LEMMA NextTypeOK == TypeOK /\ [Next]_vars => TypeOK'
<1> SUFFICES ASSUME TypeOK, [Next]_vars PROVE TypeOK'
    OBVIOUS
<1>0. TasksTypeOK /\ StoresTypeOK /\ HistoryTypeOK
    BY DEF TypeOK
<1>1. ASSUME NEW t \in Task, Step(t) PROVE TypeOK'
    BY <1>1, StepTypeOK
<1>2. ASSUME NEW t \in Task, Crash(t) PROVE TypeOK'
    <2>1. TasksTypeOK'
        BY <1>0, <1>2, PlaceNames, MoveType DEF Crash
    <2>2. StoresTypeOK'
        BY <1>0, <1>2 DEF Crash, StoresTypeOK
    <2>3. HistoryTypeOK'
        BY <1>0, <1>2, KeyOfType, IncType, Bounds DEF Crash, HistoryTypeOK
    <2>4. QED
        BY <2>1, <2>2, <2>3 DEF TypeOK
<1>3. ASSUME NEW k \in Key, Expire(k) PROVE TypeOK'
    BY <1>0, <1>3 DEF Expire, TypeOK, TasksTypeOK, StoresTypeOK, HistoryTypeOK
<1>4. CASE RedisFails
    <2>1. outages' \in 0 .. MaxOutages
        BY <1>0, <1>4, Bounds DEF RedisFails, HistoryTypeOK
    <2>2. QED
        BY <1>0, <1>4, <2>1 DEF RedisFails, TypeOK, TasksTypeOK, StoresTypeOK, HistoryTypeOK
<1>5. CASE RedisRecovers
    BY <1>0, <1>5 DEF RedisRecovers, TypeOK, TasksTypeOK, StoresTypeOK, HistoryTypeOK
<1>6. CASE UNCHANGED vars
    BY <1>0, <1>6 DEF TypeOK, TasksTypeOK, StoresTypeOK, HistoryTypeOK
<1>7. ASSUME NEW t \in Task, ReserveUnanswered(t) PROVE TypeOK'
    <2>1. TasksTypeOK'
        BY <1>0, <1>7, PlaceNames, MoveType DEF ReserveUnanswered
    <2>2. StoresTypeOK'
        BY <1>0, <1>7, KeyOfType DEF ReserveUnanswered, ReservedValue, StoresTypeOK, targets
    <2>3. HistoryTypeOK'
        BY <1>0, <1>7, Unanswered, Bounds DEF ReserveUnanswered, HistoryTypeOK
    <2>4. QED
        BY <2>1, <2>2, <2>3 DEF TypeOK
<1>8. QED
    BY <1>1, <1>2, <1>3, <1>4, <1>5, <1>6, <1>7 DEF Next, Idle

(* Type correctness.                                                       *)
THEOREM TypeCorrect == Spec => []TypeOK
BY InitTypeOK, NextTypeOK, PTL DEF Spec

-----------------------------------------------------------------------------
(* Nobody moves another task.                                              *)
LEMMA OthersUnmoved ==
    ASSUME NEW t \in Task, Step(t) \/ Crash(t), TasksTypeOK, NEW u \in Task, u # t
    PROVE  pc'[u] = pc[u] /\ KeyOf(u)' = KeyOf(u)
<1>1. pc'[u] = pc[u] /\ at'[u] = at[u]
    BY DEF Step, Crash, Claim, Park, Admit, Detect, Reserve, Peek, Probe, CallOk, CallFails,
           Complete, Audit, Release, RejectAudit, Finish, Goto, Acknowledge, EndTurn,
           NextAdapter, TasksTypeOK
<1>2. QED
    BY <1>1 DEF KeyOf

LEMMA NextAdapterMoves ==
    ASSUME NEW t \in Task, TasksTypeOK, NextAdapter(t)
    PROVE  pc'[t] \in {"admit", "finish"}
BY DEF NextAdapter, Goto, TasksTypeOK

(* A task outside its turn, or ending it, while no key but its own changes *)
(* and that one only if the task held it.                                  *)
LEMMA Leaving ==
    ASSUME TypeOK, KeyHeld, Exclusive, ~unowned,
           NEW t \in Task, Step(t) \/ Crash(t),
           pc'[t] \notin Holding,
           \/ UNCHANGED idem
           \/ pc[t] \in Holding /\ \A k \in Key : k # KeyOf(t) => idem'[k] = idem[k]
    PROVE  KeyHeld' /\ Exclusive'
<1>1. \A u \in Task : u # t => pc'[u] = pc[u] /\ KeyOf(u)' = KeyOf(u)
    BY OthersUnmoved DEF TypeOK
<1>2. \A u \in Task : KeyOf(u) \in Key
    BY KeyOfType DEF TypeOK
<1>3. \A u \in Task : u # t /\ pc[u] \in Holding => idem'[KeyOf(u)] = idem[KeyOf(u)]
    BY <1>2 DEF Exclusive
<1>4. KeyHeld'
    BY <1>1, <1>3 DEF KeyHeld, Holding
<1>5. Exclusive'
    BY <1>1 DEF Exclusive
<1>6. QED
    BY <1>4, <1>5

(* A task in its turn that stays in it and leaves its key as it must be.   *)
LEMMA Staying ==
    ASSUME TypeOK, KeyHeld, Exclusive, ~unowned,
           NEW t \in Task, Step(t),
           pc[t] \in Holding, KeyOf(t)' = KeyOf(t),
           \A k \in Key : k # KeyOf(t) => idem'[k] = idem[k],
           pc'[t] \in {"call", "complete"} => idem'[KeyOf(t)] = "IN_PROGRESS",
           pc'[t] \in {"audit", "release"} => idem'[KeyOf(t)] # "ABSENT"
    PROVE  KeyHeld' /\ Exclusive'
<1>1. \A u \in Task : u # t => pc'[u] = pc[u] /\ KeyOf(u)' = KeyOf(u)
    BY OthersUnmoved DEF TypeOK
<1>2. \A u \in Task : KeyOf(u) \in Key
    BY KeyOfType DEF TypeOK
<1>3. \A u \in Task : u # t /\ pc[u] \in Holding => idem'[KeyOf(u)] = idem[KeyOf(u)]
    BY <1>2 DEF Exclusive
<1>4. KeyHeld'
    BY <1>1, <1>3 DEF KeyHeld, Holding
<1>5. Exclusive'
    BY <1>1 DEF Exclusive
<1>6. QED
    BY <1>4, <1>5

LEMMA StepReservation ==
    ASSUME TypeOK, ReservationInv, NEW t \in Task, Step(t)
    PROVE  ReservationInv'
<1> USE DEF Goto, Acknowledge, EndTurn
<1>0. /\ TasksTypeOK /\ KeyOf(t) \in Key /\ KeyHeld /\ Exclusive /\ ProbeUnowned
      /\ idem \in [Key -> {"ABSENT", "IN_PROGRESS", "COMPLETED"}]
      /\ pc \in [Task -> Place]
    BY KeyOfType DEF TypeOK, ReservationInv, TasksTypeOK, StoresTypeOK
<1>a. unowned => unowned'
    BY DEF Step, Claim, Park, Admit, Detect, Reserve, Peek, Probe, CallOk, CallFails,
           Complete, Audit, Release, RejectAudit, Finish
<1>b. pc'[t] = "probe" => unowned'
    BY <1>0, NextAdapterMoves DEF Step, Claim, Park, Admit, Detect, Reserve, Peek, Probe,
           CallOk, CallFails, Complete, Audit, Release, RejectAudit, Finish, Record
<1>c. ProbeUnowned'
    BY <1>0, <1>a, <1>b, OthersUnmoved DEF ProbeUnowned
<1>d. unowned' => KeyHeld' /\ Exclusive'
    BY DEF KeyHeld, Exclusive
<1>e. SUFFICES ASSUME ~unowned' PROVE KeyHeld' /\ Exclusive'
    BY <1>c, <1>d DEF ReservationInv
<1>f. ~unowned
    BY <1>a, <1>e
<1> DEFINE Quiet == pc'[t] \notin Holding /\ UNCHANGED idem
<1>q. ASSUME Quiet PROVE KeyHeld' /\ Exclusive'
    BY <1>0, <1>f, <1>q, Leaving
<1>1. CASE Claim(t)
    <2>1. Quiet
        BY <1>0, <1>1 DEF Claim, Holding
    <2>2. QED
        BY <2>1, <1>q
<1>2. CASE Park(t)
    <2>1. Quiet
        BY <1>0, <1>2 DEF Park, Holding
    <2>2. QED
        BY <2>1, <1>q
<1>3. CASE Admit(t)
    <2>1. Quiet
        BY <1>0, <1>3, NextAdapterMoves DEF Admit, Holding
    <2>2. QED
        BY <2>1, <1>q
<1>4. CASE Detect(t)
    <2>1. Quiet
        BY <1>0, <1>4, NextAdapterMoves DEF Detect, Holding
    <2>2. QED
        BY <2>1, <1>q
<1>5. CASE Reserve(t)
    <2>1. CASE ~Free(KeyOf(t)) \/ ~redisUp
        <3>1. Quiet
            BY <1>0, <1>5, <1>e, <2>1 DEF Reserve, Holding
        <3>2. QED
            BY <3>1, <1>q
    <2>2. CASE Free(KeyOf(t)) /\ redisUp
        <3>1. /\ pc'[t] = "call" /\ KeyOf(t)' = KeyOf(t)
              /\ idem' = [idem EXCEPT ![KeyOf(t)] = "IN_PROGRESS"]
            BY <1>0, <1>5, <2>2 DEF Reserve, ReservedValue, KeyOf
        <3>2. \A u \in Task : u # t => pc'[u] = pc[u] /\ KeyOf(u)' = KeyOf(u)
            BY <1>0, OthersUnmoved
        <3>3. \A u \in Task : pc[u] \in Holding => KeyOf(u) # KeyOf(t)
            BY <1>0, <1>f, <2>2 DEF KeyHeld, Free, Holding
        <3>4. \A u \in Task : KeyOf(u) \in Key
            BY <1>0, KeyOfType
        <3>5. KeyHeld'
            BY <1>0, <1>f, <3>1, <3>2, <3>3, <3>4 DEF KeyHeld, Holding
        <3>6. Exclusive'
            BY <1>0, <1>f, <3>1, <3>2, <3>3 DEF Exclusive
        <3>7. QED
            BY <3>5, <3>6
    <2>3. QED
        BY <2>1, <2>2
<1>6. CASE Peek(t)
    <2>1. Quiet
        BY <1>0, <1>6, <1>e, NextAdapterMoves DEF Peek, Holding
    <2>2. QED
        BY <2>1, <1>q
<1>7. CASE Probe(t)
    BY <1>0, <1>7, <1>f DEF Probe, ProbeUnowned
<1>8. CASE CallOk(t)
    <2>1. pc[t] = "call" /\ pc'[t] = "complete" /\ KeyOf(t)' = KeyOf(t) /\ UNCHANGED idem
        BY <1>0, <1>8 DEF CallOk, KeyOf
    <2>2. idem[KeyOf(t)] = "IN_PROGRESS"
        BY <1>0, <1>f, <2>1 DEF KeyHeld
    <2>3. QED
        BY <1>0, <1>f, <2>1, <2>2, Staying DEF Holding
<1>9. CASE CallFails(t)
    <2>1. pc[t] = "call" /\ pc'[t] = "release" /\ KeyOf(t)' = KeyOf(t) /\ UNCHANGED idem
        BY <1>0, <1>9 DEF CallFails, KeyOf
    <2>2. idem[KeyOf(t)] = "IN_PROGRESS"
        BY <1>0, <1>f, <2>1 DEF KeyHeld
    <2>3. QED
        BY <1>0, <1>f, <2>1, <2>2, Staying DEF Holding
<1>10. CASE Complete(t)
    <2>1. pc[t] = "complete" /\ pc'[t] = "audit" /\ KeyOf(t)' = KeyOf(t)
        BY <1>0, <1>10 DEF Complete, KeyOf
    <2>2. idem[KeyOf(t)] = "IN_PROGRESS"
        BY <1>0, <1>f, <2>1 DEF KeyHeld
    <2>3. UNCHANGED idem \/ idem' = [idem EXCEPT ![KeyOf(t)] = "COMPLETED"]
        BY <1>10 DEF Complete, CompletedValue
    <2>4. QED
        BY <1>0, <1>f, <2>1, <2>2, <2>3, Staying DEF Holding
<1>11. CASE Audit(t)
    <2>1. CASE NextAdapter(t)
        <3>1. Quiet
            BY <1>0, <1>11, <2>1, NextAdapterMoves DEF Audit, Holding
        <3>2. QED
            BY <3>1, <1>q
    <2>2. CASE ~NextAdapter(t)
        <3>1. pc[t] = "audit" /\ pc'[t] = "release" /\ KeyOf(t)' = KeyOf(t) /\ UNCHANGED idem
            BY <1>0, <1>11, <2>2 DEF Audit, KeyOf
        <3>2. idem[KeyOf(t)] # "ABSENT"
            BY <1>0, <1>f, <3>1 DEF KeyHeld
        <3>3. QED
            BY <1>0, <1>f, <3>1, <3>2, Staying DEF Holding
    <2>3. QED
        BY <2>1, <2>2
<1>12. CASE Release(t)
    <2>1. pc[t] = "release" /\ pc'[t] \notin Holding
        BY <1>0, <1>12, NextAdapterMoves DEF Release, Holding
    <2>2. \A k \in Key : k # KeyOf(t) => idem'[k] = idem[k]
        BY <1>0, <1>12 DEF Release, Deleted
    <2>3. QED
        BY <1>0, <1>f, <2>1, <2>2, Leaving DEF Holding
<1>13. CASE RejectAudit(t)
    <2>1. Quiet
        BY <1>0, <1>13, <1>e, NextAdapterMoves DEF RejectAudit, Holding
    <2>2. QED
        BY <2>1, <1>q
<1>14. CASE Finish(t)
    <2>1. Quiet
        BY <1>0, <1>14 DEF Finish, Holding
    <2>2. QED
        BY <2>1, <1>q
<1>15. QED
    BY <1>1, <1>2, <1>3, <1>4, <1>5, <1>6, <1>7, <1>8, <1>9, <1>10, <1>11,
       <1>12, <1>13, <1>14 DEF Step

LEMMA NextReservation == TypeOK /\ ReservationInv /\ [Next]_vars => ReservationInv'
<1> SUFFICES ASSUME TypeOK, ReservationInv, [Next]_vars PROVE ReservationInv'
    OBVIOUS
<1>0. TasksTypeOK /\ KeyHeld /\ Exclusive /\ ProbeUnowned
    BY DEF TypeOK, ReservationInv
<1>1. ASSUME NEW t \in Task, Step(t) PROVE ReservationInv'
    BY <1>1, StepReservation
<1>2. ASSUME NEW t \in Task, Crash(t) PROVE ReservationInv'
    <2>1. pc'[t] = "queued" /\ UNCHANGED <<idem, unowned>>
        BY <1>0, <1>2 DEF Crash, Goto, TasksTypeOK
    <2>2. ProbeUnowned'
        BY <1>0, <1>2, <2>1, OthersUnmoved DEF ProbeUnowned
    <2>3. CASE unowned
        BY <2>1, <2>2, <2>3 DEF ReservationInv, KeyHeld, Exclusive
    <2>4. CASE ~unowned
        BY <1>0, <1>2, <2>1, <2>2, <2>4, Leaving DEF ReservationInv, Holding
    <2>5. QED
        BY <2>3, <2>4
<1>3. ASSUME NEW k \in Key, Expire(k) PROVE ReservationInv'
    <2>1. UNCHANGED taskVars /\ UNCHANGED unowned /\ \A t \in Task : KeyOf(t)' = KeyOf(t)
        BY <1>3 DEF Expire, KeyOf
    <2>2. \A t \in Task : pc[t] \in Holding => KeyOf(t) # k
        BY <1>3 DEF Expire, Holds
    <2>3. \A t \in Task : pc[t] \in Holding => idem'[KeyOf(t)] = idem[KeyOf(t)]
        BY <1>3, <2>2, KeyOfType DEF Expire, TypeOK, StoresTypeOK
    <2>4. KeyHeld'
        BY <1>0, <2>1, <2>3 DEF KeyHeld, Holding
    <2>5. QED
        BY <1>0, <2>1, <2>4 DEF ReservationInv, ProbeUnowned, Exclusive
<1>4. CASE UNCHANGED <<taskVars, idem, unowned>>
    BY <1>0, <1>4 DEF ReservationInv, ProbeUnowned, KeyHeld, Exclusive, KeyOf
<1>5. ASSUME NEW t \in Task, ReserveUnanswered(t) PROVE ReservationInv'
    <2>1. unowned'
        BY <1>5, Unanswered
    <2>2. QED
        BY <2>1 DEF ReservationInv, ProbeUnowned, KeyHeld, Exclusive
<1>6. QED
    BY <1>1, <1>2, <1>3, <1>4, <1>5 DEF Next, RedisFails, RedisRecovers, Idle

LEMMA InitInvariants == Init => ReservationInv /\ AccountingInv /\ LeakInv
<1> SUFFICES ASSUME Init PROVE ReservationInv /\ AccountingInv /\ LeakInv
    OBVIOUS
<1>1. ReservationInv
    BY DEF Init, ReservationInv, ProbeUnowned, KeyHeld, Exclusive, Holding
<1>2. AccountingInv
    BY DEF Init, AccountingInv, AppliedFirst, NoFalseCompletion, ReleaseInDoubt,
           DuplicatesAccounted
<1>3. LeakInv
    BY DEF Init, LeakInv, OutageCounted, CompletedFirst, NoLeakedReservation
<1>4. QED
    BY <1>1, <1>2, <1>3

(* Reservations are exclusive: no two tasks are in the turn of one event   *)
(* at one adapter unless some task went on without its reservation.        *)
THEOREM ReservationIsExclusive == Spec => []Exclusive
<1>1. Init => TypeOK /\ ReservationInv
    BY InitTypeOK, InitInvariants
<1>2. TypeOK /\ ReservationInv /\ [Next]_vars => (TypeOK /\ ReservationInv)'
    BY NextTypeOK, NextReservation
<1>3. ReservationInv => Exclusive
    BY DEF ReservationInv
<1>4. QED
    BY <1>1, <1>2, <1>3, PTL DEF Spec

-----------------------------------------------------------------------------
(* The counters only change at the key of the task that acts.              *)
LEMMA OnlyOwnKey ==
    ASSUME TypeOK, NEW t \in Task, Step(t) \/ Crash(t), NEW k \in Key, k # KeyOf(t)
    PROVE  applied'[k] = applied[k] /\ doubt'[k] = doubt[k] /\ idem'[k] = idem[k]
<1>1. KeyOf(t) \in Key
    BY KeyOfType DEF TypeOK
<1>2. applied'[k] = applied[k]
    BY <1>1 DEF TypeOK, StoresTypeOK, Step, Crash, Claim, Park, Admit, Detect, Reserve, Peek,
           Probe, CallOk, CallFails, Complete, Audit, Release, RejectAudit, Finish,
           ApplyWrite, Inc
<1>3. doubt'[k] = doubt[k]
    BY <1>1 DEF TypeOK, HistoryTypeOK, Step, Crash, Claim, Park, Admit, Detect, Reserve, Peek,
           Probe, CallOk, CallFails, Complete, Audit, Release, RejectAudit, Finish, Inc
<1>4. idem'[k] = idem[k]
    BY <1>1 DEF TypeOK, StoresTypeOK, Step, Crash, Claim, Park, Admit, Detect, Reserve, Peek,
           Probe, CallOk, CallFails, Complete, Audit, Release, RejectAudit, Finish,
           Deleted
<1>5. QED
    BY <1>2, <1>3, <1>4

(* Nothing ever takes back a write the target applied, nor a doubt.        *)
LEMMA CountersGrow ==
    ASSUME TypeOK, NEW t \in Task, Step(t) \/ Crash(t), NEW k \in Key
    PROVE  applied'[k] >= applied[k] /\ doubt'[k] >= doubt[k]
<1>1. KeyOf(t) \in Key /\ applied \in [Key -> Nat] /\ doubt \in [Key -> Nat]
    BY KeyOfType DEF TypeOK, StoresTypeOK, HistoryTypeOK
<1>2. UNCHANGED applied \/ applied' = Inc(applied, KeyOf(t))
    BY DEF Step, Crash, Claim, Park, Admit, Detect, Reserve, Peek, Probe, CallOk, CallFails,
           Complete, Audit, Release, RejectAudit, Finish, ApplyWrite
<1>3. UNCHANGED doubt \/ doubt' = Inc(doubt, KeyOf(t))
    BY DEF Step, Crash, Claim, Park, Admit, Detect, Reserve, Peek, Probe, CallOk, CallFails,
           Complete, Audit, Release, RejectAudit, Finish
<1>4. QED
    BY <1>1, <1>2, <1>3 DEF Inc

(* The two parts that need no exclusion: the write comes before COMPLETE.  *)
LEMMA StepApplied ==
    ASSUME TypeOK, AppliedFirst, NoFalseCompletion, NEW t \in Task, Step(t) \/ Crash(t)
    PROVE  AppliedFirst' /\ NoFalseCompletion'
<1> USE DEF Goto, Acknowledge, EndTurn
<1>0. /\ KeyOf(t) \in Key /\ \A u \in Task : KeyOf(u) \in Key
      /\ TasksTypeOK /\ applied \in [Key -> Nat] /\ pc \in [Task -> Place]
      /\ idem \in [Key -> {"ABSENT", "IN_PROGRESS", "COMPLETED"}]
    BY KeyOfType DEF TypeOK, StoresTypeOK, TasksTypeOK
<1>1. ASSUME NEW u \in Task, pc'[u] = "complete", u # t PROVE applied'[KeyOf(u)'] > 0
    <2>1. pc[u] = "complete" /\ KeyOf(u)' = KeyOf(u)
        BY <1>0, <1>1, OthersUnmoved
    <2>2. applied[KeyOf(u)] > 0 /\ applied'[KeyOf(u)] >= applied[KeyOf(u)]
        BY <1>0, <2>1, CountersGrow DEF AppliedFirst
    <2>3. applied[KeyOf(u)] \in Nat /\ applied'[KeyOf(u)] \in Nat
        BY <1>0, NextTypeOK DEF TypeOK, StoresTypeOK, Next
    <2>4. QED
        BY <2>1, <2>2, <2>3
<1>2. ASSUME pc'[t] = "complete" PROVE applied'[KeyOf(t)'] > 0
    <2>1. CallOk(t)
        BY <1>0, <1>2, NextAdapterMoves DEF Step, Crash, Claim, Park, Admit, Detect, Reserve,
               Peek, Probe, CallFails, Complete, Audit, Release, RejectAudit, Finish
    <2>2. KeyOf(t)' = KeyOf(t) /\ applied'[KeyOf(t)] = applied[KeyOf(t)] + 1
        BY <1>0, <2>1 DEF CallOk, ApplyWrite, Inc, KeyOf
    <2>3. QED
        BY <1>0, <2>2
<1>3. ASSUME NEW k \in Key, idem'[k] = "COMPLETED" PROVE applied'[k] > 0
    <2>1. applied[k] \in Nat /\ applied'[k] \in Nat /\ applied'[k] >= applied[k]
        BY <1>0, CountersGrow, NextTypeOK DEF TypeOK, StoresTypeOK, Next
    <2>2. idem[k] = "COMPLETED" \/ (pc[t] = "complete" /\ k = KeyOf(t))
        BY <1>0, <1>3 DEF Step, Crash, Claim, Park, Admit, Detect, Reserve, Peek, Probe,
               CallOk, CallFails, Complete, Audit, Release, RejectAudit, Finish, Deleted,
               ReservedValue
    <2>3. applied[k] > 0
        BY <2>2 DEF AppliedFirst, NoFalseCompletion
    <2>4. QED
        BY <2>1, <2>3
<1>4. QED
    BY <1>1, <1>2, <1>3 DEF AppliedFirst, NoFalseCompletion

(* A task in its turn is the only one there, so that before the call and   *)
(* before COMPLETE nobody else knows of a write.                           *)
LEMMA Alone ==
    ASSUME TypeOK, KeyHeld, Exclusive, ~unowned, NEW t \in Task, pc[t] = "call"
    PROVE  ~Known(KeyOf(t))
BY DEF Known, KeyHeld, Exclusive, Holding

LEMMA StepAccounting ==
    ASSUME TypeOK, ReservationInv, AccountingInv, NEW t \in Task, Step(t) \/ Crash(t)
    PROVE  AccountingInv'
<1> USE DEF Goto, Acknowledge, EndTurn
<1>0. /\ KeyOf(t) \in Key /\ \A u \in Task : KeyOf(u) \in Key
      /\ TasksTypeOK /\ pc \in [Task -> Place]
      /\ applied \in [Key -> Nat] /\ doubt \in [Key -> Nat]
      /\ applied' \in [Key -> Nat] /\ doubt' \in [Key -> Nat]
      /\ idem \in [Key -> {"ABSENT", "IN_PROGRESS", "COMPLETED"}]
      /\ KeyHeld /\ Exclusive
    BY KeyOfType, NextTypeOK DEF TypeOK, StoresTypeOK, TasksTypeOK, HistoryTypeOK,
       ReservationInv, Next
<1>1. AppliedFirst' /\ NoFalseCompletion'
    BY StepApplied DEF AccountingInv
<1>2. unowned => unowned'
    BY DEF Step, Crash, Claim, Park, Admit, Detect, Reserve, Peek, Probe, CallOk, CallFails,
           Complete, Audit, Release, RejectAudit, Finish
<1>3. CASE unowned'
    BY <1>1, <1>3 DEF AccountingInv, ReleaseInDoubt, DuplicatesAccounted
<1>4. CASE ~unowned'
    <2>0. ~unowned
        BY <1>2, <1>4
    <2> DEFINE a == applied[KeyOf(t)]
               d == doubt[KeyOf(t)]
    <2>1. a <= d + 1 /\ (a > d => Known(KeyOf(t)))
        BY <1>0, <2>0 DEF AccountingInv, DuplicatesAccounted
    <2>2. pc[t] = "call" => a <= d
        BY <1>0, <2>0, <2>1, Alone
    <2>3. pc[t] = "release" => a <= d
        BY <2>0 DEF AccountingInv, ReleaseInDoubt
    <2>4. pc'[t] = "release" => applied'[KeyOf(t)'] <= doubt'[KeyOf(t)']
        <3>1. CASE CallFails(t)
            BY <1>0, <2>2, <3>1 DEF CallFails, ApplyWrite, Inc, KeyOf
        <3>2. CASE Audit(t)
            BY <1>0, <2>1, <3>2, NextAdapterMoves DEF Audit, Inc, KeyOf
        <3>3. CASE RejectAudit(t)
            BY <1>0, <1>4, <3>3, NextAdapterMoves DEF RejectAudit
        <3>4. CASE ~CallFails(t) /\ ~Audit(t) /\ ~RejectAudit(t)
            BY <1>0, <3>4, NextAdapterMoves DEF Step, Crash, Claim, Park, Admit, Detect,
               Reserve, Peek, Probe, CallOk, Complete, Release, Finish
        <3>5. QED
            BY <3>1, <3>2, <3>3, <3>4
    <2>5. ASSUME NEW u \in Task, u # t, pc'[u] = "release"
          PROVE  applied'[KeyOf(u)'] <= doubt'[KeyOf(u)']
        <3>1. pc[u] = "release" /\ KeyOf(u)' = KeyOf(u)
            BY <1>0, <2>5, OthersUnmoved
        <3>2. applied[KeyOf(u)] <= doubt[KeyOf(u)]
            BY <2>0, <3>1 DEF AccountingInv, ReleaseInDoubt
        <3>3. CASE KeyOf(u) # KeyOf(t)
            BY <1>0, <3>1, <3>2, <3>3, OnlyOwnKey
        <3>4. CASE KeyOf(u) = KeyOf(t)
            <4>1. pc[t] \notin Holding
                BY <1>0, <2>0, <2>5, <3>1, <3>4 DEF Exclusive, Holding
            <4>2. UNCHANGED applied /\ UNCHANGED doubt
                BY <4>1 DEF Holding, Step, Crash, Claim, Park, Admit, Detect, Reserve, Peek,
                   Probe, CallOk, CallFails, Complete, Audit, Release, RejectAudit, Finish
            <4>3. QED
                BY <3>1, <3>2, <4>2
        <3>5. QED
            BY <3>3, <3>4
    <2>6. ReleaseInDoubt'
        BY <2>4, <2>5 DEF ReleaseInDoubt
    <2>7. ASSUME NEW k \in Key, Known(k), idem'[k] = idem[k], k # KeyOf(t) \/ pc[t] # "complete"
          PROVE  Known(k)'
        BY <1>0, <2>7, OthersUnmoved DEF Known
    <2>8. ASSUME NEW k \in Key, k # KeyOf(t)
          PROVE  applied'[k] <= doubt'[k] + (IF Known(k)' THEN 1 ELSE 0)
        <3>1. applied'[k] = applied[k] /\ doubt'[k] = doubt[k] /\ idem'[k] = idem[k]
            BY <2>8, OnlyOwnKey
        <3>2. applied[k] <= doubt[k] + (IF Known(k) THEN 1 ELSE 0)
            BY <2>0 DEF AccountingInv, DuplicatesAccounted
        <3>3. Known(k) => Known(k)'
            BY <2>7, <2>8, <3>1
        <3>4. QED
            BY <1>0, <3>1, <3>2, <3>3
    <2>9. ASSUME NEW k \in Key, k = KeyOf(t)
          PROVE  applied'[k] <= doubt'[k] + (IF Known(k)' THEN 1 ELSE 0)
        <3>0. a = applied[k] /\ d = doubt[k] /\ a \in Nat /\ d \in Nat
            BY <1>0, <2>9
        <3>1. CASE CallOk(t)
            <4>1. applied'[k] = a + 1 /\ doubt'[k] = d /\ a <= d
                BY <1>0, <2>2, <2>9, <3>1 DEF CallOk, ApplyWrite, Inc
            <4>2. pc'[t] = "complete" /\ KeyOf(t)' = k
                BY <1>0, <2>9, <3>1 DEF CallOk, KeyOf
            <4>3. Known(k)'
                BY <4>2 DEF Known
            <4>4. QED
                BY <3>0, <4>1, <4>3
        <3>2. CASE CallFails(t)
            <4>1. a <= d
                BY <2>2, <3>2 DEF CallFails
            <4>2. QED
                BY <1>0, <2>9, <3>2, <4>1 DEF CallFails, ApplyWrite, Inc
        <3>3. CASE Complete(t)
            <4>1. redisUp => idem'[k] = "COMPLETED"
                BY <1>0, <2>9, <3>3 DEF Complete, CompletedValue
            <4>2. redisUp => Known(k)'
                BY <4>1 DEF Known
            <4>3. applied'[k] = a /\ doubt'[k] = (IF redisUp THEN d ELSE d + 1)
                BY <1>0, <2>9, <3>3 DEF Complete, Inc
            <4>4. QED
                BY <3>0, <2>1, <4>2, <4>3
        <3>4. CASE Release(t)
            BY <1>0, <2>3, <2>9, <3>4 DEF Release
        <3>5. CASE Crash(t) /\ pc[t] = "complete"
            BY <1>0, <2>1, <2>9, <3>5 DEF Crash, Inc
        <3>6. CASE Reserve(t)
            <4>1. UNCHANGED applied /\ UNCHANGED doubt /\ pc[t] # "complete"
                BY <3>6 DEF Reserve
            <4>2. CASE Free(k) /\ redisUp
                <5>1. ~Known(k)
                    BY <2>0, <1>0, <2>9, <4>2 DEF Known, Free, KeyHeld
                <5>2. QED
                    BY <1>0, <2>1, <2>9, <3>0, <4>1, <5>1
            <4>3. CASE ~(Free(k) /\ redisUp)
                <5>1. idem'[k] = idem[k]
                    BY <2>9, <3>6, <4>3 DEF Reserve
                <5>2. Known(k) => Known(k)'
                    BY <2>7, <4>1, <5>1
                <5>3. QED
                    BY <2>1, <2>9, <3>0, <4>1, <5>2
            <4>4. QED
                BY <4>2, <4>3
        <3>7. CASE \/ Claim(t) \/ Park(t) \/ Admit(t) \/ Detect(t) \/ Peek(t) \/ Probe(t)
                   \/ Audit(t) \/ RejectAudit(t) \/ Finish(t) \/ (Crash(t) /\ pc[t] # "complete")
            <4>1. UNCHANGED applied /\ UNCHANGED idem /\ pc[t] # "complete"
                BY <3>7 DEF Claim, Park, Admit, Detect, Peek, Probe, Audit, RejectAudit,
                   Finish, Crash, Waiting
            <4>2. doubt'[k] >= d
                BY CountersGrow, <2>9
            <4>3. Known(k) => Known(k)'
                BY <2>7, <4>1
            <4>4. QED
                BY <1>0, <2>1, <2>9, <3>0, <4>1, <4>2, <4>3
        <3>8. QED
            BY <3>1, <3>2, <3>3, <3>4, <3>5, <3>6, <3>7 DEF Step
    <2>10. DuplicatesAccounted'
        BY <2>8, <2>9 DEF DuplicatesAccounted
    <2>11. QED
        BY <1>1, <2>6, <2>10 DEF AccountingInv
<1>5. QED
    BY <1>3, <1>4

LEMMA NextAccounting ==
    TypeOK /\ ReservationInv /\ AccountingInv /\ [Next]_vars => AccountingInv'
<1> SUFFICES ASSUME TypeOK, ReservationInv, AccountingInv, [Next]_vars PROVE AccountingInv'
    OBVIOUS
<1>1. ASSUME NEW t \in Task, Step(t) \/ Crash(t) PROVE AccountingInv'
    BY <1>1, StepAccounting
<1>2. ASSUME NEW k \in Key, Expire(k) PROVE AccountingInv'
    <2>1. /\ UNCHANGED <<taskVars, applied, doubt, unowned>>
          /\ \A t \in Task : KeyOf(t)' = KeyOf(t)
          /\ \A j \in Key : (idem'[j] = "COMPLETED") <=> (idem[j] = "COMPLETED")
        BY <1>2 DEF Expire, KeyOf, TypeOK, StoresTypeOK
    <2>2. \A j \in Key : Known(j)' <=> Known(j)
        BY <2>1 DEF Known
    <2>3. AppliedFirst' /\ NoFalseCompletion' /\ ReleaseInDoubt'
        BY <2>1 DEF AccountingInv, AppliedFirst, NoFalseCompletion, ReleaseInDoubt
    <2>4. DuplicatesAccounted'
        BY <2>1, <2>2 DEF AccountingInv, DuplicatesAccounted
    <2>5. QED
        BY <2>3, <2>4 DEF AccountingInv
<1>3. CASE UNCHANGED <<taskVars, idem, applied, history>>
    BY <1>3 DEF AccountingInv, AppliedFirst, NoFalseCompletion, ReleaseInDoubt,
           DuplicatesAccounted, Known, KeyOf
<1>4. ASSUME NEW t \in Task, ReserveUnanswered(t) PROVE AccountingInv'
    <2>1. /\ unowned' /\ UNCHANGED applied /\ \A u \in Task : KeyOf(u)' = KeyOf(u)
          /\ \A u \in Task : pc'[u] = "complete" => pc[u] = "complete"
          /\ \A k \in Key : idem'[k] = "COMPLETED" => idem[k] = "COMPLETED"
        BY <1>4, Unanswered DEF targets
    <2>2. QED
        BY <2>1 DEF AccountingInv, AppliedFirst, NoFalseCompletion, ReleaseInDoubt,
           DuplicatesAccounted
<1>5. QED
    BY <1>1, <1>2, <1>3, <1>4 DEF Next, RedisFails, RedisRecovers, Idle

(* A key reads COMPLETED only when the target has applied the write: the   *)
(* skip on COMPLETED loses nothing, whatever crashed or was unreachable.   *)
THEOREM CompletionIsReal == Spec => []NoFalseCompletion
<1>1. Init => TypeOK /\ ReservationInv /\ AccountingInv
    BY InitTypeOK, InitInvariants
<1>2. TypeOK /\ ReservationInv /\ AccountingInv /\ [Next]_vars
        => (TypeOK /\ ReservationInv /\ AccountingInv)'
    BY NextTypeOK, NextReservation, NextAccounting
<1>3. AccountingInv => NoFalseCompletion
    BY DEF AccountingInv
<1>4. QED
    BY <1>1, <1>2, <1>3, PTL DEF Spec

(* Every write beyond the first of an event at an adapter is answered for  *)
(* by one recorded loss of knowledge.                                      *)
THEOREM DuplicatesAreAccounted == Spec => []DuplicatesAccounted
<1>1. Init => TypeOK /\ ReservationInv /\ AccountingInv
    BY InitTypeOK, InitInvariants
<1>2. TypeOK /\ ReservationInv /\ AccountingInv /\ [Next]_vars
        => (TypeOK /\ ReservationInv /\ AccountingInv)'
    BY NextTypeOK, NextReservation, NextAccounting
<1>3. AccountingInv => DuplicatesAccounted
    BY DEF AccountingInv
<1>4. QED
    BY <1>1, <1>2, <1>3, PTL DEF Spec

-----------------------------------------------------------------------------
LEMMA StepLeak ==
    ASSUME TypeOK, ReservationInv, LeakInv, NEW t \in Task, Step(t) \/ Crash(t)
    PROVE  LeakInv'
<1> USE DEF Goto, Acknowledge, EndTurn
<1>0. /\ KeyOf(t) \in Key /\ \A u \in Task : KeyOf(u) \in Key
      /\ TasksTypeOK /\ pc \in [Task -> Place] /\ crashes \in Nat
      /\ idem \in [Key -> {"ABSENT", "IN_PROGRESS", "COMPLETED"}]
      /\ KeyHeld /\ Exclusive
    BY KeyOfType, Bounds DEF TypeOK, StoresTypeOK, TasksTypeOK, HistoryTypeOK, ReservationInv
<1>1. UNCHANGED <<outages, redisUp>> /\ (unowned => unowned')
    BY DEF Step, Crash, Claim, Park, Admit, Detect, Reserve, Peek, Probe, CallOk, CallFails,
           Complete, Audit, Release, RejectAudit, Finish, DBFault
<1>2. OutageCounted'
    BY <1>1 DEF LeakInv, OutageCounted
<1>3. CASE outages' # 0 \/ unowned'
    BY <1>2, <1>3 DEF LeakInv, CompletedFirst, NoLeakedReservation
<1>4. CASE outages' = 0 /\ ~unowned'
    <2>1. outages = 0 /\ ~unowned /\ redisUp
        BY <1>1, <1>4 DEF LeakInv, OutageCounted
    <2>2. \A u \in Task : pc[u] = "audit" => idem[KeyOf(u)] = "COMPLETED"
        BY <2>1 DEF LeakInv, CompletedFirst
    <2>3. ASSUME NEW u \in Task, u # t, pc'[u] = "audit"
          PROVE  idem'[KeyOf(u)'] = "COMPLETED"
        <3>1. pc[u] = "audit" /\ KeyOf(u)' = KeyOf(u) /\ idem[KeyOf(u)] = "COMPLETED"
            BY <1>0, <2>2, <2>3, OthersUnmoved
        <3>2. CASE KeyOf(u) # KeyOf(t)
            BY <1>0, <3>1, <3>2, OnlyOwnKey
        <3>3. CASE KeyOf(u) = KeyOf(t)
            <4>1. pc[t] \notin Holding
                BY <1>0, <2>1, <2>3, <3>1, <3>3 DEF Exclusive, Holding
            <4>2. idem'[KeyOf(t)] = idem[KeyOf(t)] \/ Free(KeyOf(t))
                BY <4>1 DEF Holding, Step, Crash, Claim, Park, Admit, Detect, Reserve, Peek,
                   Probe, CallOk, CallFails, Complete, Audit, Release, RejectAudit, Finish
            <4>3. QED
                BY <3>1, <3>3, <4>2 DEF Free
        <3>4. QED
            BY <3>2, <3>3
    <2>4. pc'[t] = "audit" => idem'[KeyOf(t)'] = "COMPLETED"
        <3>1. CASE Complete(t)
            BY <1>0, <2>1, <3>1 DEF Complete, CompletedValue, KeyOf
        <3>2. CASE ~Complete(t)
            BY <1>0, <3>2, NextAdapterMoves DEF Step, Crash, Claim, Park, Admit, Detect,
               Reserve, Peek, Probe, CallOk, CallFails, Audit, Release, RejectAudit, Finish
        <3>3. QED
            BY <3>1, <3>2
    <2>5. CompletedFirst'
        BY <2>3, <2>4 DEF CompletedFirst
    <2>6. ASSUME NEW k \in Key, crashes' = 0, idem'[k] = "IN_PROGRESS"
          PROVE  \E u \in Task : pc'[u] \in Holding /\ KeyOf(u)' = k
        <3>1. Step(t) /\ crashes = 0
            BY <1>0, <2>6 DEF Crash, Step, Claim, Park, Admit, Detect, Reserve, Peek, Probe,
               CallOk, CallFails, Complete, Audit, Release, RejectAudit, Finish, DBFault
        <3>2. CASE idem[k] # "IN_PROGRESS"
            <4>1. Reserve(t) /\ k = KeyOf(t) /\ pc'[t] = "call"
                BY <1>0, <2>6, <3>1, <3>2 DEF Step, Claim, Park, Admit, Detect, Reserve, Peek,
                   Probe, CallOk, CallFails, Complete, Audit, Release, RejectAudit, Finish,
                   Deleted, CompletedValue
            <4>2. KeyOf(t)' = k
                BY <4>1 DEF Reserve, KeyOf
            <4>3. QED
                BY <4>1, <4>2 DEF Holding
        <3>3. CASE idem[k] = "IN_PROGRESS"
            <4>1. PICK u \in Task : pc[u] \in Holding /\ KeyOf(u) = k
                BY <2>1, <3>1, <3>3 DEF LeakInv, NoLeakedReservation, Holds
            <4>2. CASE u # t
                BY <1>0, <4>1, <4>2, OthersUnmoved
            <4>3. CASE u = t
                <5>1. pc[t] # "audit"
                    BY <2>2, <3>3, <4>1, <4>3
                <5>2. pc[t] # "release"
                    BY <1>0, <2>1, <2>6, <3>1, <4>1, <4>3 DEF Holding, Step, Claim, Park,
                       Admit, Detect, Reserve, Peek, Probe, CallOk, CallFails, Complete,
                       Audit, Release, RejectAudit, Finish, Deleted, Waiting
                <5>3. CallOk(t) \/ CallFails(t) \/ Complete(t)
                    BY <3>1, <4>1, <4>3, <5>1, <5>2 DEF Holding, Step, Claim, Park, Admit,
                       Detect, Reserve, Peek, Probe, Audit, Release, RejectAudit, Finish,
                       Waiting
                <5>4. pc'[t] \in Holding /\ KeyOf(t)' = KeyOf(t)
                    BY <1>0, <5>3 DEF CallOk, CallFails, Complete, Holding, KeyOf
                <5>5. QED
                    BY <4>1, <4>3, <5>4
            <4>4. QED
                BY <4>2, <4>3
        <3>4. QED
            BY <3>2, <3>3
    <2>7. NoLeakedReservation'
        BY <2>6 DEF NoLeakedReservation, Holds
    <2>8. QED
        BY <1>2, <2>5, <2>7 DEF LeakInv
<1>5. QED
    BY <1>3, <1>4

LEMMA NextLeak == TypeOK /\ ReservationInv /\ LeakInv /\ [Next]_vars => LeakInv'
<1> SUFFICES ASSUME TypeOK, ReservationInv, LeakInv, [Next]_vars PROVE LeakInv'
    OBVIOUS
<1>1. ASSUME NEW t \in Task, Step(t) \/ Crash(t) PROVE LeakInv'
    BY <1>1, StepLeak
<1>2. ASSUME NEW k \in Key, Expire(k) PROVE LeakInv'
    <2>1. /\ UNCHANGED <<taskVars, redisUp, unowned, crashes, outages>>
          /\ \A t \in Task : KeyOf(t)' = KeyOf(t)
          /\ \A j \in Key : idem'[j] # "ABSENT" => idem'[j] = idem[j]
          /\ \A j \in Key : idem[j] = "COMPLETED" => idem'[j] = "COMPLETED"
        BY <1>2 DEF Expire, KeyOf, TypeOK, StoresTypeOK
    <2>2. OutageCounted' /\ CompletedFirst'
        BY <2>1, KeyOfType DEF LeakInv, OutageCounted, CompletedFirst, TypeOK
    <2>3. NoLeakedReservation'
        BY <2>1 DEF LeakInv, NoLeakedReservation, Holds
    <2>4. QED
        BY <2>2, <2>3 DEF LeakInv
<1>3. CASE RedisFails
    <2>1. outages' # 0
        BY <1>3, Bounds DEF RedisFails, TypeOK, HistoryTypeOK
    <2>2. QED
        BY <2>1 DEF LeakInv, OutageCounted, CompletedFirst, NoLeakedReservation
<1>4. CASE RedisRecovers
    BY <1>4 DEF RedisRecovers, LeakInv, OutageCounted, CompletedFirst,
           NoLeakedReservation, Holds, KeyOf
<1>5. CASE UNCHANGED vars
    BY <1>5 DEF LeakInv, OutageCounted, CompletedFirst, NoLeakedReservation, Holds, KeyOf
<1>6. ASSUME NEW t \in Task, ReserveUnanswered(t) PROVE LeakInv'
    <2>1. outages' # 0
        BY <1>6, Unanswered
    <2>2. QED
        BY <2>1 DEF LeakInv, OutageCounted, CompletedFirst, NoLeakedReservation
<1>7. QED
    BY <1>1, <1>2, <1>3, <1>4, <1>5, <1>6 DEF Next, Idle

(* Every path of the dispatcher, its error paths included, completes or    *)
(* releases the key it reserved: nobody but a crash or an outage leaves a  *)
(* key blocked for the hour it takes to expire.                            *)
THEOREM ReservationsAreReturned == Spec => []NoLeakedReservation
<1>1. Init => TypeOK /\ ReservationInv /\ LeakInv
    BY InitTypeOK, InitInvariants
<1>2. TypeOK /\ ReservationInv /\ LeakInv /\ [Next]_vars
        => (TypeOK /\ ReservationInv /\ LeakInv)'
    BY NextTypeOK, NextReservation, NextLeak
<1>3. LeakInv => NoLeakedReservation
    BY DEF LeakInv
<1>4. QED
    BY <1>1, <1>2, <1>3, PTL DEF Spec

-----------------------------------------------------------------------------
(* The tasks that have written and owe a row: a finite set, which only the *)
(* acting task enters or leaves, and only at its own key.                  *)
LEMMA OnTheWayFinite ==
    ASSUME NEW k \in Key
    PROVE  IsFiniteSet(OnTheWay(k)) /\ Cardinality(OnTheWay(k)) \in Nat
<1>1. IsFiniteSet(Task)
    BY FS_Interval, TaskAssumption DEF Task
<1>2. IsFiniteSet(OnTheWay(k))
    BY <1>1, FS_Subset DEF OnTheWay
<1>3. QED
    BY <1>2, FS_CardinalityType

LEMMA OnTheWayMoves ==
    ASSUME TypeOK, NEW t \in Task, Step(t) \/ Crash(t), NEW k \in Key
    PROVE  OnTheWay(k)' = IF pc'[t] \in {"complete", "audit"} /\ KeyOf(t)' = k
                          THEN OnTheWay(k) \cup {t} ELSE OnTheWay(k) \ {t}
<1>1. \A u \in Task : u # t => pc'[u] = pc[u] /\ KeyOf(u)' = KeyOf(u)
    BY OthersUnmoved DEF TypeOK
<1>2. QED
    BY <1>1 DEF OnTheWay

LEMMA OnTheWayCounted ==
    ASSUME TypeOK, NEW t \in Task, Step(t) \/ Crash(t), NEW k \in Key
    PROVE  LET before == pc[t] \in {"complete", "audit"} /\ KeyOf(t) = k
               after  == pc'[t] \in {"complete", "audit"} /\ KeyOf(t)' = k
           IN  /\ before = after => Cardinality(OnTheWay(k))' = Cardinality(OnTheWay(k))
               /\ ~before /\ after => Cardinality(OnTheWay(k))' = Cardinality(OnTheWay(k)) + 1
               /\ before /\ ~after => Cardinality(OnTheWay(k))' = Cardinality(OnTheWay(k)) - 1
<1>1. t \in OnTheWay(k) <=> pc[t] \in {"complete", "audit"} /\ KeyOf(t) = k
    BY DEF OnTheWay
<1>2. /\ Cardinality(OnTheWay(k) \cup {t}) =
             IF t \in OnTheWay(k) THEN Cardinality(OnTheWay(k)) ELSE Cardinality(OnTheWay(k)) + 1
      /\ Cardinality(OnTheWay(k) \ {t}) =
             IF t \in OnTheWay(k) THEN Cardinality(OnTheWay(k)) - 1 ELSE Cardinality(OnTheWay(k))
    BY OnTheWayFinite, FS_AddElement, FS_RemoveElement
<1>3. QED
    BY <1>1, <1>2, OnTheWayMoves

(* The ledger only changes at the key of the task that acts.               *)
LEMMA OnlyOwnRows ==
    ASSUME TypeOK, NEW t \in Task, Step(t) \/ Crash(t), NEW k \in Key, k # KeyOf(t)
    PROVE  audit'[k] = audit[k]
BY KeyOfType DEF TypeOK, StoresTypeOK, Step, Crash, Claim, Park, Admit, Detect, Reserve, Peek,
       Probe, CallOk, CallFails, Complete, Audit, Release, RejectAudit, Finish

LEMMA StepLedger ==
    ASSUME TypeOK, Ledger, NEW t \in Task, Step(t) \/ Crash(t)
    PROVE  Ledger'
<1> USE DEF Goto, Acknowledge, EndTurn
<1> SUFFICES ASSUME NEW k \in Key
             PROVE  /\ audit'[k] + Cardinality(OnTheWay(k))' <= applied'[k]
                    /\ applied'[k] <= audit'[k] + doubt'[k] + crashes'
                                          + Cardinality(OnTheWay(k))'
    BY DEF Ledger
<1> DEFINE n == Cardinality(OnTheWay(k))
           m == Cardinality(OnTheWay(k))'
           before == pc[t] \in {"complete", "audit"} /\ KeyOf(t) = k
           after  == pc'[t] \in {"complete", "audit"} /\ KeyOf(t)' = k
<1>0. /\ KeyOf(t) \in Key /\ TasksTypeOK /\ pc \in [Task -> Place]
      /\ applied \in [Key -> Nat] /\ doubt \in [Key -> Nat] /\ audit \in [Key -> Nat]
      /\ crashes \in Nat /\ n \in Nat
    BY KeyOfType, OnTheWayFinite, Bounds DEF TypeOK, TasksTypeOK, StoresTypeOK, HistoryTypeOK
<1>1. /\ audit[k] + n <= applied[k]
      /\ applied[k] <= audit[k] + doubt[k] + crashes + n
    BY DEF Ledger
<1>2. /\ before = after => m = n
      /\ ~before /\ after => m = n + 1
      /\ before /\ ~after => m = n - 1
    BY OnTheWayCounted
<1>3. ASSUME k # KeyOf(t) PROVE m = n
    <2>1. pc'[t] \in {"complete", "audit"} => KeyOf(t)' = KeyOf(t)
        BY <1>0, NextAdapterMoves DEF Step, Crash, Claim, Park, Admit, Detect, Reserve, Peek,
           Probe, CallOk, CallFails, Complete, Audit, Release, RejectAudit, Finish, KeyOf
    <2>2. QED
        BY <1>2, <1>3, <2>1
<1>4. crashes' \in Nat /\ crashes' >= crashes
    BY <1>0, Bounds DEF Step, Crash, Claim, Park, Admit, Detect, Reserve, Peek, Probe, CallOk,
       CallFails, Complete, Audit, Release, RejectAudit, Finish, DBFault
<1>5. CASE k # KeyOf(t)
    BY <1>0, <1>1, <1>3, <1>4, <1>5, OnlyOwnKey, OnlyOwnRows
<1>6. CASE k = KeyOf(t)
    <2>1. CASE CallOk(t)
        <3>1. ~before /\ after
            BY <1>0, <1>6, <2>1 DEF CallOk, KeyOf
        <3>2. applied'[k] = applied[k] + 1 /\ UNCHANGED <<audit, doubt, crashes>>
            BY <1>0, <1>6, <2>1 DEF CallOk, ApplyWrite, Inc
        <3>3. QED
            BY <1>0, <1>1, <1>2, <3>1, <3>2
    <2>2. CASE CallFails(t)
        <3>1. ~before /\ ~after
            BY <1>0, <2>2 DEF CallFails
        <3>2. /\ \/ applied'[k] = applied[k] /\ doubt'[k] = doubt[k]
                 \/ applied'[k] = applied[k] + 1 /\ doubt'[k] = doubt[k] + 1
              /\ UNCHANGED <<audit, crashes>>
            BY <1>0, <1>6, <2>2 DEF CallFails, ApplyWrite, Inc
        <3>3. QED
            BY <1>0, <1>1, <1>2, <3>1, <3>2
    <2>3. CASE Complete(t)
        <3>1. before /\ after
            BY <1>0, <1>6, <2>3 DEF Complete, KeyOf
        <3>2. doubt'[k] \in {doubt[k], doubt[k] + 1} /\ UNCHANGED <<applied, audit, crashes>>
            BY <1>0, <1>6, <2>3 DEF Complete, Inc
        <3>3. QED
            BY <1>0, <1>1, <1>2, <3>1, <3>2
    <2>4. CASE Audit(t)
        <3>1. before /\ ~after
            BY <1>0, <1>6, <2>4, NextAdapterMoves DEF Audit
        <3>2. /\ \/ audit'[k] = audit[k] + 1 /\ doubt'[k] = doubt[k]
                 \/ audit'[k] = audit[k] /\ doubt'[k] = doubt[k] + 1
              /\ UNCHANGED <<applied, crashes>>
            BY <1>0, <1>6, <2>4 DEF Audit, RecordedWrite, Inc, DBFault
        <3>3. QED
            BY <1>0, <1>1, <1>2, <3>1, <3>2
    <2>5. CASE Crash(t)
        <3>1. ~after
            BY <1>0, <2>5 DEF Crash
        <3>2. doubt'[k] \in {doubt[k], doubt[k] + 1} /\ UNCHANGED <<applied, audit>>
              /\ crashes' = crashes + 1
            BY <1>0, <1>6, <2>5 DEF Crash, Inc
        <3>3. QED
            BY <1>0, <1>1, <1>2, <3>1, <3>2
    <2>6. CASE \/ Claim(t) \/ Park(t) \/ Admit(t) \/ Detect(t) \/ Reserve(t) \/ Peek(t)
               \/ Probe(t) \/ Release(t) \/ RejectAudit(t) \/ Finish(t)
        <3>1. ~before /\ ~after
            BY <1>0, <2>6, NextAdapterMoves DEF Claim, Park, Admit, Detect, Reserve, Peek,
               Probe, Release, RejectAudit, Finish, Waiting
        <3>2. UNCHANGED <<applied, audit, doubt, crashes>>
            BY <2>6 DEF Claim, Park, Admit, Detect, Reserve, Peek, Probe, Release,
               RejectAudit, Finish, DBFault
        <3>3. QED
            BY <1>0, <1>1, <1>2, <3>1, <3>2
    <2>7. QED
        BY <2>1, <2>2, <2>3, <2>4, <2>5, <2>6 DEF Step
<1>7. QED
    BY <1>5, <1>6

LEMMA NextLedger == TypeOK /\ Ledger /\ [Next]_vars => Ledger'
<1> SUFFICES ASSUME TypeOK, Ledger, [Next]_vars PROVE Ledger'
    OBVIOUS
<1>1. ASSUME NEW t \in Task, Step(t) \/ Crash(t) PROVE Ledger'
    BY <1>1, StepLedger
<1>2. CASE UNCHANGED <<taskVars, targets, audit, doubt, crashes>>
    <2>1. \A k \in Key : OnTheWay(k)' = OnTheWay(k)
        BY <1>2 DEF OnTheWay, KeyOf
    <2>2. QED
        BY <1>2, <2>1 DEF Ledger
<1>3. ASSUME NEW t \in Task, ReserveUnanswered(t) PROVE Ledger'
    <2>1. /\ UNCHANGED <<applied, audit, doubt, crashes>>
          /\ \A u \in Task : KeyOf(u)' = KeyOf(u)
          /\ \A u \in Task : pc'[u] \in {"complete", "audit"} <=> pc[u] \in {"complete", "audit"}
        BY <1>3, Unanswered DEF targets
    <2>2. \A k \in Key : OnTheWay(k)' = OnTheWay(k)
        BY <2>1 DEF OnTheWay
    <2>3. QED
        BY <2>1, <2>2 DEF Ledger
<1>4. QED
    BY <1>1, <1>2, <1>3 DEF Next, Expire, RedisFails, RedisRecovers, Idle

(* The audit ledger agrees with the target, write by write, but for writes *)
(* in doubt and for workers lost before their row.                         *)
THEOREM LedgerIsAccounted == Spec => []AuditAccounted
<1>1. Init => TypeOK /\ Ledger
    <2>1. ASSUME Init, NEW k \in Key PROVE Cardinality(OnTheWay(k)) = 0
        <3>1. OnTheWay(k) = {}
            BY <2>1 DEF Init, OnTheWay
        <3>2. QED
            BY <3>1, FS_EmptySet
    <2>2. ASSUME Init, NEW k \in Key
          PROVE  /\ audit[k] = 0 /\ applied[k] = 0 /\ doubt[k] = 0 /\ crashes = 0
        BY <2>2 DEF Init
    <2>3. Init => Ledger
        BY <2>1, <2>2 DEF Ledger
    <2>4. QED
        BY <2>3, InitTypeOK
<1>2. TypeOK /\ Ledger /\ [Next]_vars => (TypeOK /\ Ledger)'
    BY NextTypeOK, NextLedger
<1>3. TypeOK /\ Ledger => AuditAccounted
    <2>1. SUFFICES ASSUME TypeOK, Ledger, NEW k \in Key
                   PROVE  /\ audit[k] <= applied[k]
                          /\ applied[k] <= audit[k] + doubt[k] + crashes
                                               + Cardinality(OnTheWay(k))
        BY DEF AuditAccounted
    <2>2. audit[k] \in Nat /\ applied[k] \in Nat /\ Cardinality(OnTheWay(k)) \in Nat
        BY <2>1, OnTheWayFinite DEF TypeOK, StoresTypeOK
    <2>3. QED
        BY <2>1, <2>2 DEF Ledger
<1>4. QED
    BY <1>1, <1>2, <1>3, PTL DEF Spec

-----------------------------------------------------------------------------
(* What a task knows of its turns is its own.                              *)
LEMMA OthersSettled ==
    ASSUME TypeOK, NEW t \in Task, Step(t) \/ Crash(t), NEW u \in Task, u # t
    PROVE  at'[u] = at[u] /\ result'[u] = result[u]
BY DEF Step, Crash, Claim, Park, Admit, Detect, Reserve, Peek, Probe, CallOk, CallFails,
       Complete, Audit, Release, RejectAudit, Finish, Goto, Acknowledge, EndTurn, Record,
       NextAdapter, TypeOK, TasksTypeOK

LEMMA ParkedStays ==
    ASSUME NEW t \in Task, Step(t) \/ Crash(t)
    PROVE  dlq \subseteq dlq'
BY DEF Step, Crash, Claim, Park, Admit, Detect, Reserve, Peek, Probe, CallOk, CallFails,
       Complete, Audit, Release, RejectAudit, Finish

LEMMA RecordServes ==
    ASSUME TypeOK, NEW t \in Task, NEW r \in Result \ {"none"}, Record(t, r),
           Served(t, at[t] - 1)
    PROVE  \A i \in 1 .. at[t] : result'[t][Route[EventOf[t]][i]] # "none"
<1>1. /\ at[t] \in Nat \ {0} /\ at[t] <= Len(Route[EventOf[t]])
      /\ result \in [Task -> [Adapter -> Result]]
      /\ \A i \in 1 .. Len(Route[EventOf[t]]) : Route[EventOf[t]][i] \in Adapter
      /\ Len(Route[EventOf[t]]) \in Nat
    BY RouteLength DEF TypeOK, TasksTypeOK
<1>2. SUFFICES ASSUME NEW i \in 1 .. at[t]
               PROVE  result'[t][Route[EventOf[t]][i]] # "none"
    OBVIOUS
<1>3. Route[EventOf[t]][i] \in Adapter /\ (i = at[t] \/ i \in 1 .. at[t] - 1)
    BY <1>1
<1>4. result'[t] = [result[t] EXCEPT ![Route[EventOf[t]][at[t]]] = r]
    BY <1>1 DEF Record, TargetOf, KeyOf
<1>5. CASE Route[EventOf[t]][i] = Route[EventOf[t]][at[t]]
    BY <1>1, <1>3, <1>4, <1>5
<1>6. CASE Route[EventOf[t]][i] # Route[EventOf[t]][at[t]]
    BY <1>1, <1>3, <1>4, <1>6 DEF Served
<1>7. QED
    BY <1>5, <1>6

(* Going on after a turn that left its result keeps the account of turns.  *)
LEMMA NextAdapterServes ==
    ASSUME TypeOK, NEW t \in Task, NextAdapter(t),
           \A i \in 1 .. at[t] : result'[t][Route[EventOf[t]][i]] # "none"
    PROVE  TurnsRecorded(t)'
<1>1. /\ at \in [Task -> Nat \ {0}] /\ at[t] <= Len(Route[EventOf[t]])
      /\ pc \in [Task -> Place] /\ Len(Route[EventOf[t]]) \in Nat
    BY RouteLength DEF TypeOK, TasksTypeOK
<1>2. CASE at[t] < Len(Route[EventOf[t]])
    <2>1. pc'[t] = "admit" /\ at'[t] = at[t] + 1
        BY <1>1, <1>2 DEF NextAdapter, Goto
    <2>2. at'[t] - 1 = at[t]
        BY <1>1, <2>1
    <2>3. QED
        BY <2>1, <2>2 DEF TurnsRecorded, Served
<1>3. CASE ~(at[t] < Len(Route[EventOf[t]]))
    <2>1. pc'[t] = "finish" /\ at[t] = Len(Route[EventOf[t]])
        BY <1>1, <1>3 DEF NextAdapter, Goto
    <2>2. QED
        BY <2>1 DEF TurnsRecorded, Served, ServedAll
<1>4. QED
    BY <1>2, <1>3

LEMMA EndTurnServes ==
    ASSUME TypeOK, NEW t \in Task, NEW r \in Result \ {"none"}, EndTurn(t, r),
           Served(t, at[t] - 1)
    PROVE  TurnsRecorded(t)'
BY RecordServes, NextAdapterServes DEF EndTurn

(* A turn goes on where it is, or leaves a result on its way to release.   *)
LEMMA TurnGoesOn ==
    ASSUME TypeOK, NEW t \in Task, UNCHANGED <<at, result>>, Served(t, at[t] - 1),
           pc'[t] \in Running \ {"park", "finish", "release", "rejectaudit"}
    PROVE  TurnsRecorded(t)'
BY DEF TurnsRecorded, Served, Running, Holding

LEMMA TurnReleases ==
    ASSUME TypeOK, NEW t \in Task, NEW r \in Result \ {"none"}, Record(t, r),
           Served(t, at[t] - 1), UNCHANGED at, pc'[t] = "release"
    PROVE  TurnsRecorded(t)'
<1>1. \A i \in 1 .. at[t] : result'[t][Route[EventOf[t]][i]] # "none"
    BY RecordServes
<1>2. at[t] \in Nat /\ at'[t] = at[t]
    BY DEF TypeOK, TasksTypeOK
<1>3. QED
    BY <1>1, <1>2 DEF TurnsRecorded, Served

(* Every turn that is over has left a result.                              *)
LEMMA StepTurns ==
    ASSUME TypeOK, NEW t \in Task, TurnsRecorded(t), Step(t) \/ Crash(t)
    PROVE  TurnsRecorded(t)'
<1> USE DEF Acknowledge
<1>0. /\ pc \in [Task -> Place] /\ at \in [Task -> Nat \ {0}]
      /\ result \in [Task -> [Adapter -> Result]] /\ TargetOf(t) \in Adapter
    BY KeyOfType DEF TypeOK, TasksTypeOK
<1>a. pc[t] \in {"admit", "detect", "reserve", "peek", "probe", "call", "complete", "audit",
                 "release", "rejectaudit"} => Served(t, at[t] - 1)
    BY DEF TurnsRecorded, Running, Holding
<1>b. {"refused", "busy", "error", "completed", "matched", "written"} \subseteq Result \ {"none"}
    BY DEF Result, RetriableErrors
<1>c. \A p \in {"detect", "reserve", "peek", "probe", "call", "complete", "audit"} :
          p \in Running \ {"park", "finish", "release", "rejectaudit"}
    BY DEF Running, Holding
<1>1. CASE Claim(t)
    <2>1. pc'[t] \in {"park", "admit"} /\ at'[t] = 1
        BY <1>0, <1>1 DEF Claim, Goto
    <2>2. Served(t, at[t] - 1)'
        BY <2>1 DEF Served
    <2>3. QED
        BY <2>1, <2>2 DEF TurnsRecorded
<1>2. CASE Park(t)
    <2>1. pc'[t] \in {"done", "failed", "queued"} /\ (pc'[t] = "done" => EventOf[t] \in dlq')
        BY <1>0, <1>2 DEF Park, Goto
    <2>2. QED
        BY <2>1 DEF TurnsRecorded, Running, Holding
<1>3. CASE Admit(t)
    <2>1. Served(t, at[t] - 1)
        BY <1>3, <1>a DEF Admit
    <2>2. CASE Goto(t, "detect") /\ UNCHANGED <<at, result>>
        BY <1>0, <1>c, <2>1, <2>2, TurnGoesOn DEF Goto
    <2>3. CASE EndTurn(t, "refused") \/ EndTurn(t, "error")
        BY <1>b, <2>1, <2>3, EndTurnServes
    <2>4. QED
        BY <1>3, <2>2, <2>3 DEF Admit
<1>4. CASE Detect(t)
    <2>1. Served(t, at[t] - 1)
        BY <1>4, <1>a DEF Detect
    <2>2. CASE Goto(t, "reserve") /\ UNCHANGED <<at, result>>
        BY <1>0, <1>c, <2>1, <2>2, TurnGoesOn DEF Goto
    <2>3. Verdicts \ {"proceed"} \subseteq Result \ {"none"}
        BY EnvironmentAssumption DEF Verdict, Result
    <2>4. ASSUME NEW r \in (Verdicts \ {"proceed"}) \cup {"error"}, EndTurn(t, r)
          PROVE  TurnsRecorded(t)'
        BY <1>b, <2>1, <2>3, <2>4, EndTurnServes
    <2>5. QED
        BY <1>4, <2>2, <2>4 DEF Detect
<1>5. CASE \/ Reserve(t) \/ CallOk(t) \/ Complete(t)
    <2>1. /\ Served(t, at[t] - 1) /\ UNCHANGED <<at, result>>
          /\ pc'[t] \in {"call", "peek", "probe", "complete", "audit"}
        BY <1>0, <1>5, <1>a DEF Reserve, CallOk, Complete, Goto
    <2>2. QED
        BY <1>c, <2>1, TurnGoesOn
<1>6. CASE Peek(t)
    <2>1. Served(t, at[t] - 1)
        BY <1>6, <1>a DEF Peek
    <2>2. CASE Goto(t, "probe") /\ UNCHANGED <<at, result>>
        BY <1>0, <1>c, <2>1, <2>2, TurnGoesOn DEF Goto
    <2>3. CASE EndTurn(t, "completed") \/ EndTurn(t, "busy")
        BY <1>b, <2>1, <2>3, EndTurnServes
    <2>4. QED
        BY <1>6, <2>2, <2>3 DEF Peek
<1>7. CASE Probe(t)
    <2>1. Served(t, at[t] - 1)
        BY <1>7, <1>a DEF Probe
    <2>2. CASE Goto(t, "call") /\ UNCHANGED <<at, result>>
        BY <1>0, <1>c, <2>1, <2>2, TurnGoesOn DEF Goto
    <2>3. CASE EndTurn(t, "matched")
        BY <1>b, <2>1, <2>3, EndTurnServes
    <2>4. QED
        BY <1>7, <2>2, <2>3 DEF Probe
<1>8. CASE CallFails(t)
    <2>1. Served(t, at[t] - 1) /\ UNCHANGED at /\ pc'[t] = "release"
        BY <1>0, <1>8, <1>a DEF CallFails, Goto
    <2>2. \A r \in Answers[TargetOf(t)] \ {"ok"} :
              (IF r = "untranslatable" THEN "error" ELSE r) \in Result \ {"none"}
        BY <1>0, EnvironmentAssumption DEF Answer, Result, RetriableErrors
    <2>3. PICK r \in Answers[TargetOf(t)] \ {"ok"} :
              Record(t, IF r = "untranslatable" THEN "error" ELSE r)
        BY <1>8 DEF CallFails
    <2>4. QED
        BY <2>1, <2>2, <2>3, TurnReleases
<1>9. CASE Audit(t)
    <2>1. Served(t, at[t] - 1)
        BY <1>9, <1>a DEF Audit
    <2>2. CASE EndTurn(t, "written")
        BY <1>b, <2>1, <2>2, EndTurnServes
    <2>3. CASE Record(t, "error") /\ Goto(t, "release") /\ UNCHANGED at
        BY <1>0, <1>b, <2>1, <2>3, TurnReleases DEF Goto
    <2>4. QED
        BY <1>9, <2>2, <2>3 DEF Audit
<1>10. CASE Release(t)
    <2>1. Served(t, at[t]) /\ UNCHANGED result
        BY <1>10 DEF Release, TurnsRecorded
    <2>2. CASE Goto(t, "rejectaudit") /\ UNCHANGED at
        BY <1>0, <1>10, <1>a, <2>1, <2>2 DEF Release, Goto, TurnsRecorded, Served
    <2>3. CASE NextAdapter(t)
        BY <2>1, <2>3, NextAdapterServes DEF Served
    <2>4. QED
        BY <1>10, <2>2, <2>3 DEF Release
<1>11. CASE RejectAudit(t)
    <2>1. Served(t, at[t]) /\ Served(t, at[t] - 1)
        BY <1>11, <1>a DEF RejectAudit, TurnsRecorded
    <2>2. CASE NextAdapter(t) /\ UNCHANGED result
        BY <2>1, <2>2, NextAdapterServes DEF Served
    <2>3. CASE Record(t, "error") /\ Goto(t, "release") /\ UNCHANGED at
        BY <1>0, <1>b, <2>1, <2>3, TurnReleases DEF Goto
    <2>4. QED
        BY <1>11, <2>2, <2>3 DEF RejectAudit
<1>12. CASE Finish(t)
    <2>1. /\ ServedAll(t) /\ UNCHANGED result
          /\ pc'[t] \in {"queued", "failed", "done"} /\ (pc'[t] = "done" => ~MustRetry(t))
        BY <1>0, <1>12 DEF Finish, Goto, TurnsRecorded
    <2>2. QED
        BY <2>1 DEF TurnsRecorded, ServedAll, Served, MustRetry, Running, Holding
<1>13. CASE Crash(t)
    <2>1. pc'[t] = "queued"
        BY <1>0, <1>13 DEF Crash, Goto
    <2>2. QED
        BY <2>1 DEF TurnsRecorded, Running, Holding
<1>14. QED
    BY <1>1, <1>2, <1>3, <1>4, <1>5, <1>6, <1>7, <1>8, <1>9, <1>10, <1>11, <1>12, <1>13
       DEF Step

LEMMA RecordReal ==
    ASSUME TypeOK, NEW t \in Task, NEW r \in Result, Record(t, r),
           r \in {"written", "completed"} => applied'[KeyOf(t)] > 0,
           \A a \in Adapter : result[t][a] \in {"written", "completed"}
                                  => applied'[<<EventOf[t], a>>] > 0
    PROVE  \A a \in Adapter : result'[t][a] \in {"written", "completed"}
                                  => applied'[<<EventOf[t], a>>] > 0
<1>1. result \in [Task -> [Adapter -> Result]] /\ TargetOf(t) \in Adapter
    BY KeyOfType DEF TypeOK, TasksTypeOK
<1>2. result'[t] = [result[t] EXCEPT ![TargetOf(t)] = r]
    BY <1>1 DEF Record
<1>3. KeyOf(t) = <<EventOf[t], TargetOf(t)>>
    BY DEF KeyOf, TargetOf
<1>4. QED
    BY <1>1, <1>2, <1>3

(* A result that claims a write follows one.                               *)
LEMMA StepReal ==
    ASSUME TypeOK, AccountingInv, NEW t \in Task, ResultsReal(t), Step(t) \/ Crash(t)
    PROVE  ResultsReal(t)'
<1> USE DEF Goto, Acknowledge
<1>0. /\ pc \in [Task -> Place] /\ KeyOf(t) \in Key /\ TasksTypeOK
      /\ result \in [Task -> [Adapter -> Result]] /\ TargetOf(t) \in Adapter
      /\ applied \in [Key -> Nat] /\ applied' \in [Key -> Nat]
      /\ EventOf[t] \in Event /\ \A a \in Adapter : <<EventOf[t], a>> \in Key
    BY KeyOfType, NextTypeOK DEF TypeOK, TasksTypeOK, StoresTypeOK, Next, Key
<1>1. \A k \in Key : applied[k] > 0 => applied'[k] > 0
    BY <1>0, CountersGrow
<1>2. \A a \in Adapter : result[t][a] \in {"written", "completed"}
                             => applied'[<<EventOf[t], a>>] > 0
    BY <1>0, <1>1 DEF ResultsReal
<1>3. pc'[t] = "audit" => applied'[KeyOf(t)'] > 0
    <2>1. SUFFICES ASSUME pc'[t] = "audit" PROVE applied'[KeyOf(t)'] > 0
        OBVIOUS
    <2>2. Complete(t)
        BY <1>0, <2>1, NextAdapterMoves DEF Step, Crash, Claim, Park, Admit, Detect, Reserve,
           Peek, Probe, CallOk, CallFails, Audit, Release, RejectAudit, Finish, EndTurn
    <2>3. KeyOf(t)' = KeyOf(t) /\ applied[KeyOf(t)] > 0
        BY <2>2 DEF Complete, KeyOf, AccountingInv, AppliedFirst
    <2>4. QED
        BY <1>0, <1>1, <2>3
<1>4. \A a \in Adapter : result'[t][a] \in {"written", "completed"}
                             => applied'[<<EventOf[t], a>>] > 0
    <2>1. CASE Claim(t)
        BY <1>0, <2>1 DEF Claim
    <2>2. ASSUME NEW r \in Result \ {"written", "completed"}, Record(t, r)
          PROVE  \A a \in Adapter : result'[t][a] \in {"written", "completed"}
                                        => applied'[<<EventOf[t], a>>] > 0
        BY <1>2, <2>2, RecordReal
    <2>3. {"refused", "busy", "error", "matched"} \subseteq Result \ {"written", "completed"}
        BY DEF Result, RetriableErrors
    <2>4. CASE UNCHANGED result
        BY <1>2, <2>4
    <2>5. CASE Admit(t) \/ Probe(t) \/ RejectAudit(t)
        BY <2>2, <2>3, <2>4, <2>5 DEF Admit, Probe, RejectAudit, EndTurn
    <2>6. CASE Detect(t)
        <3>1. Verdicts \ {"proceed"} \subseteq Result \ {"written", "completed"}
            BY EnvironmentAssumption DEF Verdict, Result
        <3>2. QED
            BY <2>2, <2>3, <2>4, <2>6, <3>1 DEF Detect, EndTurn
    <2>7. CASE Peek(t)
        <3>1. CASE UNCHANGED result \/ Record(t, "busy")
            BY <2>2, <2>3, <2>4, <3>1
        <3>2. CASE Record(t, "completed") /\ idem[KeyOf(t)] = "COMPLETED"
            <4>1. applied'[KeyOf(t)] > 0
                BY <1>0, <1>1, <3>2 DEF AccountingInv, NoFalseCompletion
            <4>2. "completed" \in Result
                BY DEF Result
            <4>3. QED
                BY <1>2, <3>2, <4>1, <4>2, RecordReal
        <3>3. QED
            BY <2>7, <3>1, <3>2 DEF Peek, EndTurn
    <2>8. CASE CallFails(t)
        <3>1. \A r \in Answers[TargetOf(t)] \ {"ok"} :
                  (IF r = "untranslatable" THEN "error" ELSE r)
                      \in Result \ {"written", "completed"}
            BY <1>0, EnvironmentAssumption DEF Answer, Result, RetriableErrors
        <3>2. PICK r \in Answers[TargetOf(t)] \ {"ok"} :
                  Record(t, IF r = "untranslatable" THEN "error" ELSE r)
            BY <2>8 DEF CallFails
        <3>3. QED
            BY <2>2, <3>1, <3>2
    <2>9. CASE Audit(t)
        <3>1. applied'[KeyOf(t)] > 0 /\ "written" \in Result
            BY <1>0, <1>1, <2>9 DEF Audit, ResultsReal, Result
        <3>2. CASE Record(t, "written")
            BY <1>2, <3>1, <3>2, RecordReal
        <3>3. CASE Record(t, "error")
            BY <2>2, <2>3, <3>3
        <3>4. QED
            BY <2>9, <3>2, <3>3 DEF Audit, EndTurn
    <2>10. QED
        BY <2>1, <2>4, <2>5, <2>6, <2>7, <2>8, <2>9 DEF Step, Park, Reserve, CallOk, Complete,
           Release, Finish, Crash
<1>5. QED
    BY <1>3, <1>4 DEF ResultsReal

LEMMA OthersKeepSettled ==
    ASSUME TypeOK, NEW t \in Task, Step(t) \/ Crash(t), NEW u \in Task, u # t,
           TurnsRecorded(u), ResultsReal(u)
    PROVE  TurnsRecorded(u)' /\ ResultsReal(u)'
<1>1. /\ pc'[u] = pc[u] /\ KeyOf(u)' = KeyOf(u) /\ at'[u] = at[u] /\ result'[u] = result[u]
      /\ dlq \subseteq dlq'
    BY OthersUnmoved, OthersSettled, ParkedStays DEF TypeOK
<1>2. /\ applied \in [Key -> Nat] /\ applied' \in [Key -> Nat] /\ KeyOf(u) \in Key
      /\ \A a \in Adapter : <<EventOf[u], a>> \in Key
    BY KeyOfType, NextTypeOK DEF TypeOK, StoresTypeOK, Next, Key
<1>3. \A k \in Key : applied[k] > 0 => applied'[k] > 0
    BY <1>2, CountersGrow
<1>4. TurnsRecorded(u)'
    BY <1>1 DEF TurnsRecorded, Served, ServedAll, MustRetry
<1>5. ResultsReal(u)'
    BY <1>1, <1>2, <1>3 DEF ResultsReal
<1>6. QED
    BY <1>4, <1>5

LEMMA NextSettled ==
    TypeOK /\ AccountingInv /\ SettledInv /\ [Next]_vars => SettledInv'
<1> SUFFICES ASSUME TypeOK, AccountingInv, SettledInv, [Next]_vars PROVE SettledInv'
    OBVIOUS
<1>1. ASSUME NEW t \in Task, Step(t) \/ Crash(t) PROVE SettledInv'
    <2>1. TurnsRecorded(t)' /\ ResultsReal(t)'
        BY <1>1, StepTurns, StepReal DEF SettledInv
    <2>2. ASSUME NEW u \in Task, u # t PROVE TurnsRecorded(u)' /\ ResultsReal(u)'
        BY <1>1, <2>2, OthersKeepSettled DEF SettledInv
    <2>3. QED
        BY <2>1, <2>2 DEF SettledInv
<1>2. CASE UNCHANGED <<taskVars, applied, dlq>>
    BY <1>2 DEF SettledInv, TurnsRecorded, ResultsReal, Served, ServedAll, MustRetry, KeyOf
<1>3. ASSUME NEW t \in Task, ReserveUnanswered(t) PROVE SettledInv'
    <2>1. /\ UNCHANGED <<at, result, applied, dlq>> /\ pc[t] = "reserve" /\ pc'[t] = "probe"
          /\ \A u \in Task : u # t => pc'[u] = pc[u]
          /\ \A u \in Task : KeyOf(u)' = KeyOf(u)
        BY <1>3, Unanswered DEF targets
    <2>2. TurnsRecorded(t)'
        BY <2>1, TurnGoesOn DEF SettledInv, TurnsRecorded, Running, Holding
    <2>3. ResultsReal(t)'
        BY <2>1 DEF SettledInv, ResultsReal
    <2>4. ASSUME NEW u \in Task, u # t PROVE TurnsRecorded(u)' /\ ResultsReal(u)'
        BY <2>1, <2>4 DEF SettledInv, TurnsRecorded, ResultsReal, Served, ServedAll, MustRetry
    <2>5. QED
        BY <2>2, <2>3, <2>4 DEF SettledInv
<1>4. QED
    BY <1>1, <1>2, <1>3 DEF Next, Expire, RedisFails, RedisRecovers, Idle

LEMMA InitSettled == Init => SettledInv
<1> SUFFICES ASSUME Init, NEW t \in Task PROVE TurnsRecorded(t) /\ ResultsReal(t)
    BY DEF SettledInv
<1>1. pc[t] = "new" /\ \A a \in Adapter : result[t][a] = "none"
    BY DEF Init
<1>2. QED
    BY <1>1 DEF TurnsRecorded, ResultsReal, Running, Holding

(* A task that ends normally has parked its event or settled it with every *)
(* adapter of its route: none is passed over, and none is left in an error *)
(* that asks for a retry, whatever the others of the fan-out came to.      *)
THEOREM DoneMeansSettled == Spec => []DoneIsSettled
<1>1. Init => TypeOK /\ ReservationInv /\ AccountingInv /\ SettledInv
    BY InitTypeOK, InitInvariants, InitSettled
<1>2. TypeOK /\ ReservationInv /\ AccountingInv /\ SettledInv /\ [Next]_vars
        => (TypeOK /\ ReservationInv /\ AccountingInv /\ SettledInv)'
    BY NextTypeOK, NextReservation, NextAccounting, NextSettled
<1>3. TypeOK /\ SettledInv => DoneIsSettled
    <2>1. SUFFICES ASSUME TypeOK, SettledInv, NEW t \in Task,
                          pc[t] = "done", EventOf[t] \notin dlq,
                          NEW i \in DOMAIN Route[EventOf[t]]
                   PROVE  LET a == Route[EventOf[t]][i] IN
                          \/ result[t][a] \in {"written", "completed"}
                             /\ applied[<<EventOf[t], a>>] > 0
                          \/ result[t][a] \in {"matched", "notfound", "loser", "parked",
                                               "rejected", "timeout", "error"}
        BY DEF DoneIsSettled
    <2> DEFINE a == Route[EventOf[t]][i]
    <2>2. i \in 1 .. Len(Route[EventOf[t]]) /\ a \in Adapter
        BY RouteLength, RouteAssumption
    <2>3. result[t][a] \in Result \ (RetriableErrors \cup {"none"})
        BY <2>1, <2>2 DEF SettledInv, TurnsRecorded, ServedAll, Served, MustRetry, TypeOK,
           TasksTypeOK
    <2>4. QED
        BY <2>1, <2>2, <2>3 DEF SettledInv, ResultsReal, Result
<1>4. QED
    BY <1>1, <1>2, <1>3, PTL DEF Spec
=============================================================================
