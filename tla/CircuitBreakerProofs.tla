----------------------- MODULE CircuitBreakerProofs -----------------------
(***************************************************************************)
(* Proofs about CircuitBreaker, for any number of workers, any threshold   *)
(* and window, and any number of lost commands.                            *)
(***************************************************************************)
EXTENDS CircuitBreaker, FiniteSetTheorems, TLAPS

IInv == TypeOK /\ TripAccounted

(* The sorted set is finite, so fewer members are not counted as more.     *)
LEMMA Counted ==
    ASSUME TypeOK, NEW S, NEW T \in SUBSET S
    PROVE  /\ Cardinality(Members(S)) \in Nat /\ Cardinality(failures) \in Nat
           /\ Cardinality(Members(T)) <= Cardinality(Members(S))
           /\ Cardinality(Members(S)) <= Cardinality(failures)
<1>1. IsFiniteSet(Time) /\ IsFiniteSet(1 .. Threshold)
      BY FS_Interval, BreakerAssumption DEF Time
<1>2. IsFiniteSet(Time \X (1 .. Threshold))
      BY <1>1, FS_Product
<1>3. IsFiniteSet(failures)
      BY <1>2, FS_Subset DEF TypeOK
<1>4. Members(S) \in SUBSET failures /\ Members(T) \in SUBSET Members(S)
      BY DEF Members
<1>5. IsFiniteSet(Members(S)) /\ Cardinality(Members(S)) <= Cardinality(failures)
      BY <1>3, <1>4, FS_Subset
<1>6. Cardinality(Members(T)) <= Cardinality(Members(S)) /\ IsFiniteSet(Members(T))
      BY <1>4, <1>5, FS_Subset
<1> QED
    BY <1>3, <1>5, <1>6, FS_CardinalityType

LEMMA InvInit == Init => IInv
<1> SUFFICES ASSUME Init PROVE IInv
    OBVIOUS
<1>1. TypeOK
  <2>1. 0 \in Time /\ 0 \in 0 .. MaxLost
        BY BreakerAssumption DEF Time
  <2>2. "closed" \in State /\ "idle" \in Place
        BY DEF State, Place
  <2> QED
      BY <2>1, <2>2 DEF Init, TypeOK
<1>2. Members(Recent) = {} /\ Cardinality({}) = 0
      BY FS_EmptySet DEF Init, Members
<1> QED
    BY <1>1, <1>2, BreakerAssumption DEF IInv, TripAccounted

-----------------------------------------------------------------------------
(* Type correctness, one step per action.                                  *)
LEMMA StateTyped == {"closed", "open", "half_open"} \subseteq State
BY DEF State

LEMMA NumbersTyped ==
    ASSUME TypeOK
    PROVE  /\ Saturated(Cardinality(Members({now}))) \in 1 .. Threshold
           /\ lost < MaxLost => lost + 1 \in 0 .. MaxLost
           /\ now < MaxClock => now + 1 \in Time
<1>1. IsFiniteSet({now} \X (1 .. Threshold))
      /\ Cardinality({now} \X (1 .. Threshold)) = Threshold
  <2>1. IsFiniteSet({now}) /\ Cardinality({now}) = 1
        BY FS_Singleton
  <2>2. IsFiniteSet(1 .. Threshold) /\ Cardinality(1 .. Threshold) = Threshold
        BY FS_Interval, BreakerAssumption
  <2>3. /\ IsFiniteSet({now} \X (1 .. Threshold))
        /\ Cardinality({now} \X (1 .. Threshold))
              = Cardinality({now}) * Cardinality(1 .. Threshold)
        BY <2>1, <2>2, FS_Product, Zenon
  <2> QED
      BY <2>1, <2>2, <2>3, BreakerAssumption
<1>2. Members({now}) \in SUBSET ({now} \X (1 .. Threshold))
      BY DEF Members, TypeOK
<1>3. Cardinality(Members({now})) <= Threshold
      BY <1>1, <1>2, FS_Subset
<1>4. Cardinality(Members({now})) \in Nat
      BY Counted
<1> QED
    BY <1>3, <1>4, BreakerAssumption DEF Saturated, TypeOK, Time

LEMMA WorkerTyped ==
    ASSUME TypeOK, NEW w \in Worker, Step(w) \/ Lose(w) \/ LoseReply(w)
    PROVE  TypeOK'
<1> USE DEF TypeOK, Goto, See, breaker, locals
<1>1. CASE Permit(w)
      BY <1>1 DEF Permit, Place, State
<1>2. CASE Refuse(w)
      BY <1>2 DEF Refuse, vars
<1>3. CASE CallOk(w) \/ CallFails(w) \/ Unrecorded(w)
      BY <1>3 DEF CallOk, CallFails, Unrecorded, Place
<1>4. CASE SuccessGet(w) \/ SuccessDel(w) \/ SuccessSet(w)
      BY <1>4 DEF SuccessGet, SuccessDel, SuccessSet, Place, State
<1>5. CASE FailureAdd(w)
  <2>1. failures' \subseteq Time \X (1 .. Threshold)
        BY <1>5, NumbersTyped DEF FailureAdd, Added
  <2> QED
      BY <1>5, <2>1 DEF FailureAdd, Place
<1>6. CASE FailureRemove(w)
      BY <1>6 DEF FailureRemove, Kept, Place
<1>7. CASE FailureCount(w)
  <2>1. Enough(Card) \in BOOLEAN
        BY DEF Enough
  <2> QED
      BY <1>7, <2>1 DEF FailureCount, Place
<1>8. CASE FailureGet(w) \/ FailureSet(w)
      BY <1>8 DEF FailureGet, FailureSet, Opened, Place, State
<1>9. CASE Lose(w)
  <2>1. excused' \in BOOLEAN
        BY <1>9 DEF Lose
  <2> QED
      BY <1>9, <2>1, NumbersTyped DEF Lose, Place, State
<1>10. CASE LoseReply(w)
  <2>1. failures' \subseteq Time \X (1 .. Threshold)
    <3>1. Added \subseteq Time \X (1 .. Threshold) /\ Kept(w) \subseteq Time \X (1 .. Threshold)
          BY NumbersTyped DEF Added, Kept
    <3> QED
        BY <1>10, <3>1 DEF LoseReply
  <2>2. excused' \in BOOLEAN /\ lost' \in 0 .. MaxLost
        BY <1>10, NumbersTyped DEF LoseReply
  <2> QED
      BY <1>10, <2>1, <2>2 DEF LoseReply, Place
<1> QED
    BY <1>1, <1>2, <1>3, <1>4, <1>5, <1>6, <1>7, <1>8, <1>9, <1>10
    DEF Step, RecordSuccess, RecordFailure

LEMMA OthersTyped ==
    ASSUME TypeOK, AttemptHalfOpen \/ ProbeLost \/ Tick \/ Health
    PROVE  TypeOK'
<1>1. CASE Health
      BY <1>1 DEF Health, TypeOK, breaker, locals
<1>2. CASE AttemptHalfOpen \/ ProbeLost \/ Tick
      BY <1>2, NumbersTyped
      DEF AttemptHalfOpen, ProbeGet, ProbeSet, ProbeLost, Tick, TypeOK, breaker, locals, State
<1> QED
    BY <1>1, <1>2

LEMMA StutterTyped == TypeOK /\ UNCHANGED vars => TypeOK'
BY DEF TypeOK, vars, breaker, locals

LEMMA TypedSteps == TypeOK /\ [Next]_vars => TypeOK'
BY WorkerTyped, OthersTyped, StutterTyped DEF Next

-----------------------------------------------------------------------------
(* Enough members of the last Window, nobody having passed them over.      *)
Tripped == Cardinality(Members(Recent)) >= Threshold /\ state = "closed" /\ ~excused

(* A step that adds no recent failure, does not write CLOSED, does not     *)
(* clear excused and takes nobody off the way keeps the accounting.        *)
LEMMA StaysAccounted ==
    ASSUME TripAccounted,
           Tripped' => Tripped,
           \A w \in Worker : Tripped' /\ OnTheWay(w) => OnTheWay(w)'
    PROVE  TripAccounted'
BY DEF TripAccounted, Tripped

LEMMA SameTrip ==
    ASSUME UNCHANGED <<failures, now>>
    PROVE  Cardinality(Members(Recent))' = Cardinality(Members(Recent))
BY DEF Members, Recent, Time

LEMMA SuccessAccounted ==
    ASSUME IInv, NEW w \in Worker, SuccessDel(w) \/ SuccessSet(w)
    PROVE  TripAccounted'
<1>1. CASE SuccessDel(w)
  <2>1. Members(Recent)' = {}
        BY <1>1 DEF SuccessDel, Members
  <2>2. Cardinality(Members(Recent))' = 0
        BY <2>1, FS_EmptySet
  <2> QED
      BY <2>2, BreakerAssumption DEF TripAccounted
<1>2. CASE SuccessSet(w)
  <2>1. Cardinality(Members(Recent)) <= Cardinality(failures)
        /\ Cardinality(Members(Recent)) \in Nat /\ Cardinality(failures) \in Nat
        BY Counted DEF IInv
  <2>2. Cardinality(Members(Recent))' = Cardinality(Members(Recent))
        BY <1>2, SameTrip DEF SuccessSet
  <2>3. Cardinality(Members(Recent)) >= Threshold => Card >= Threshold
        BY <2>1, BreakerAssumption DEF Card
  <2>4. Card >= Threshold => excused'
        BY <1>2, Zenon DEF SuccessSet
  <2> QED
      BY <2>2, <2>3, <2>4 DEF TripAccounted
<1> QED
    BY <1>1, <1>2

(* record_failure: whoever adds is on its way and stays so until it opens. *)
LEMMA FailureAccounted ==
    ASSUME IInv, NEW w \in Worker, RecordFailure(w)
    PROVE  TripAccounted'
<1> USE DEF Goto, IInv, TypeOK
<1>1. CASE FailureAdd(w)
  <2>1. pc'[w] = "f_rem"
        BY <1>1 DEF FailureAdd
  <2> QED
      BY <2>1 DEF TripAccounted, OnTheWay
<1>2. CASE FailureRemove(w)
  <2>1. pc'[w] = "f_card"
        BY <1>2 DEF FailureRemove
  <2> QED
      BY <2>1 DEF TripAccounted, OnTheWay
<1>3. CASE FailureCount(w)
  <2>1. SUFFICES ASSUME Tripped' PROVE OnTheWay(w)'
        BY DEF TripAccounted, Tripped
  <2>2. Cardinality(Members(Recent))' = Cardinality(Members(Recent))
        BY <1>3, SameTrip DEF FailureCount, breaker
  <2>3. Cardinality(failures) >= Threshold
        BY <2>1, <2>2, Counted, BreakerAssumption DEF Tripped
  <2>4. enough'[w] /\ pc'[w] = "f_get"
        BY <1>3, <2>3 DEF FailureCount, Enough, Card
  <2> QED
      BY <2>4 DEF OnTheWay
<1>4. CASE FailureGet(w)
  <2>1. Tripped' => Tripped
        BY <1>4, SameTrip DEF FailureGet, Tripped, breaker
  <2>2. \A v \in Worker : OnTheWay(v) => OnTheWay(v)'
        BY <1>4 DEF FailureGet, OnTheWay, Reopens, locals
  <2> QED
      BY <2>1, <2>2, StaysAccounted
<1>5. CASE FailureSet(w)
      BY <1>5 DEF FailureSet, Opened, TripAccounted
<1> QED
    BY <1>1, <1>2, <1>3, <1>4, <1>5 DEF RecordFailure

LEMMA LoseAccounted ==
    ASSUME IInv, NEW w \in Worker, Lose(w)
    PROVE  TripAccounted'
<1> USE DEF Goto, See, IInv, TypeOK
<1>1. Tripped' => Tripped
      BY SameTrip DEF Lose, Tripped, breaker
<1>2. ASSUME NEW v \in Worker, Tripped', OnTheWay(v)
      PROVE  OnTheWay(v)'
  <2>1. ~excused' /\ enough' = enough
        BY <1>2 DEF Tripped, Lose
  <2>2. CASE v # w
        BY <1>2, <2>1, <2>2 DEF Lose, OnTheWay
  <2>3. CASE v = w
    <3>1. pc[w] = "f_get" /\ enough[w]
          BY <1>2, <2>1, <2>3 DEF Lose, OnTheWay
    <3>2. pc'[w] = "f_set"
          BY <3>1 DEF Lose, Reopens
    <3> QED
        BY <2>1, <2>3, <3>1, <3>2 DEF OnTheWay
  <2> QED
      BY <2>2, <2>3
<1> QED
    BY <1>1, <1>2, StaysAccounted

(* A command whose reply is lost emptied the set, or sets excused.         *)
LEMMA LoseReplyAccounted ==
    ASSUME IInv, NEW w \in Worker, LoseReply(w)
    PROVE  TripAccounted'
<1>1. CASE failures' = {}
  <2>1. Members(Recent)' = {}
        BY <1>1 DEF Members
  <2>2. Cardinality(Members(Recent))' = 0
        BY <2>1, FS_EmptySet
  <2> QED
      BY <2>2, BreakerAssumption DEF TripAccounted
<1>2. CASE excused'
      BY <1>2 DEF TripAccounted
<1> QED
    BY <1>1, <1>2 DEF LoseReply

(* The steps of a worker outside record_failure that leave the set alone.  *)
LEMMA CallAccounted ==
    ASSUME IInv, NEW w \in Worker,
           Permit(w) \/ Refuse(w) \/ CallOk(w) \/ CallFails(w) \/ Unrecorded(w)
             \/ SuccessGet(w)
    PROVE  TripAccounted'
<1>1. UNCHANGED <<failures, now, excused, enough, state>>
      BY DEF Permit, Refuse, CallOk, CallFails, Unrecorded, SuccessGet, vars, breaker, locals
<1>2. \A v \in Worker : OnTheWay(v) => OnTheWay(v)'
      BY <1>1 DEF Permit, Refuse, CallOk, CallFails, Unrecorded, SuccessGet, vars,
                  OnTheWay, Goto, IInv, TypeOK
<1>3. Tripped' => Tripped
      BY <1>1, SameTrip DEF Tripped
<1> QED
    BY <1>2, <1>3, StaysAccounted DEF IInv

(* The probe writes HALF_OPEN; time only takes failures out of the window. *)
LEMMA OthersAccounted ==
    ASSUME IInv, AttemptHalfOpen \/ ProbeLost \/ Tick \/ Health \/ UNCHANGED vars
    PROVE  TripAccounted'
<1>1. UNCHANGED <<failures, excused, enough, pc>>
      BY DEF AttemptHalfOpen, ProbeGet, ProbeSet, ProbeLost, Tick, Health, vars, breaker, locals
<1>2. state' = state \/ state' = "half_open"
      BY DEF AttemptHalfOpen, ProbeGet, ProbeSet, ProbeLost, Tick, Health, vars, breaker
<1>3. /\ Cardinality(Members(Recent)') <= Cardinality(Members(Recent))
      /\ Cardinality(Members(Recent)') \in Nat
  <2>1. now' = now \/ now' = now + 1
        BY DEF AttemptHalfOpen, ProbeGet, ProbeSet, ProbeLost, Tick, Health, vars
  <2>2. Recent' \in SUBSET Recent
        BY <2>1, BreakerAssumption DEF Recent, Time, IInv, TypeOK
  <2>3. Members(Recent)' = Members(Recent')
        BY <1>1 DEF Members
  <2> QED
      BY <2>2, <2>3, Counted DEF IInv
<1>4. Tripped' => Tripped
  <2>1. Cardinality(Members(Recent)) \in Nat
        BY Counted DEF IInv
  <2> QED
      BY <1>1, <1>2, <1>3, <2>1, BreakerAssumption DEF Tripped
<1>5. \A v \in Worker : OnTheWay(v) => OnTheWay(v)'
      BY <1>1 DEF OnTheWay
<1> QED
    BY <1>4, <1>5, StaysAccounted DEF IInv

LEMMA InvStep == IInv /\ [Next]_vars => IInv'
<1> SUFFICES ASSUME IInv, [Next]_vars PROVE IInv'
    OBVIOUS
<1>1. TypeOK'
      BY TypedSteps DEF IInv
<1>2. TripAccounted'
      BY CallAccounted, SuccessAccounted, FailureAccounted, LoseAccounted,
         LoseReplyAccounted, OthersAccounted
      DEF Next, Step, RecordSuccess
<1> QED
    BY <1>1, <1>2 DEF IInv

LEMMA Invariant == Spec => []IInv
BY InvInit, InvStep, PTL DEF Spec

-----------------------------------------------------------------------------
(* Every variable keeps its type.                                          *)
THEOREM TypeCorrect == Spec => []TypeOK
BY Invariant, PTL DEF IInv

(* With Threshold recent failures on record a CLOSED breaker is about to   *)
(* open, or a lost command or a late CLOSED passed them over.              *)
THEOREM TripsAreAccounted == Spec => []TripAccounted
BY Invariant, PTL DEF IInv
=============================================================================
