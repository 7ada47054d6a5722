----------------------------- MODULE SyncProofs -----------------------------
(***************************************************************************)
(* Proofs about Sync, for any number of departments, values and fields,    *)
(* and any number of changes and lost events.                              *)
(***************************************************************************)
EXTENDS Sync, WellFoundedInduction, TLAPS

(* Of the numbers of a set one is the least.                               *)
LEMMA LeastOfNat ==
    ASSUME NEW T \in SUBSET Nat, T # {}
    PROVE  \E n \in T : \A m \in T : n <= m
<1> DEFINE R == OpToRel(<, Nat)
<1>1. IsWellFoundedOn(R, Nat)
      BY NatLessThanWellFounded
<1>2. \A m, n \in Nat : m < n => <<m, n>> \in R
      BY DEF OpToRel
<1> HIDE DEF R
<1>3. PICK n \in T : \A m \in T : ~ (<<m, n>> \in R)
      BY <1>1, WFMin
<1>4. \A m \in T : ~(m < n)
      BY <1>2, <1>3
<1>5. \A m \in T : m \in Nat /\ n \in Nat
      OBVIOUS
<1> QED
    BY <1>4, <1>5

(* Induction, for a set of numbers in place of a predicate.                *)
LEMMA InductionOnNat ==
    ASSUME NEW T, 0 \in T, \A n \in Nat : n \in T => n + 1 \in T
    PROVE  \A n \in Nat : n \in T
<1> DEFINE U == {n \in Nat : n \notin T}
<1>1. SUFFICES ASSUME U # {} PROVE FALSE
      OBVIOUS
<1>2. PICK n \in U : \A m \in U : n <= m
      BY <1>1, LeastOfNat
<1>3. n \in Nat /\ n # 0
      BY <1>2
<1>4. n - 1 \in Nat /\ ~(n <= n - 1) /\ (n - 1) + 1 = n
      BY <1>3
<1>5. n - 1 \in T
      BY <1>2, <1>4
<1> QED
    BY <1>2, <1>4, <1>5

-----------------------------------------------------------------------------
(* The events of a poll: what the recursion of EventsOf says up to n.      *)
Step(h, f, S, n) ==
    IF n = 0 THEN <<>> ELSE IF n \in S THEN Append(h[n - 1], UserChange(f[n])) ELSE h[n - 1]

UpTo(h, f, S, n) == h = [k \in 0 .. n |-> Step(h, f, S, k)]

LEMMA UpToExists ==
    ASSUME NEW f, NEW S, NEW n \in Nat
    PROVE  \E h : UpTo(h, f, S, n)
<1> DEFINE T == {m \in Nat : \E h : UpTo(h, f, S, m)}
<1>1. 0 \in T
  <2> DEFINE h == [k \in 0 .. 0 |-> <<>>]
  <2>1. UpTo(h, f, S, 0)
        BY DEF UpTo, Step
  <2> QED
      BY <2>1
<1>2. ASSUME NEW m \in Nat, m \in T
      PROVE  m + 1 \in T
  <2>1. PICK h : UpTo(h, f, S, m)
        BY <1>2
  <2> DEFINE new == IF m + 1 \in S THEN Append(h[m], UserChange(f[m + 1])) ELSE h[m]
  <2> DEFINE u == [k \in 0 .. m + 1 |-> IF k = m + 1 THEN new ELSE h[k]]
  <2>2. \A k \in 0 .. m : h[k] = Step(h, f, S, k)
        BY <2>1 DEF UpTo
  <2>3. u[m + 1] = new /\ \A k \in 0 .. m : u[k] = h[k]
        OBVIOUS
  <2>4. u = [k \in 0 .. m + 1 |-> u[k]]
        OBVIOUS
  <2> HIDE DEF u
  <2>5. ASSUME NEW k \in 0 .. m + 1
        PROVE  u[k] = Step(u, f, S, k)
    <3>1. CASE k = m + 1
      <4>1. k # 0 /\ k - 1 = m /\ m \in 0 .. m
            BY <3>1
      <4>2. u[k - 1] = h[m]
            BY <2>3, <4>1
      <4> QED
          BY <2>3, <3>1, <4>1, <4>2 DEF Step
    <3>2. CASE k # m + 1
      <4>1. k \in 0 .. m /\ u[k] = Step(h, f, S, k)
            BY <2>2, <2>3, <3>2
      <4>2. CASE k = 0
            BY <4>1, <4>2 DEF Step
      <4>3. CASE k # 0
        <5>1. k - 1 \in 0 .. m
              BY <4>1, <4>3
        <5>2. u[k - 1] = h[k - 1]
              BY <2>3, <5>1
        <5> QED
            BY <4>1, <5>2 DEF Step
      <4> QED
          BY <4>2, <4>3
    <3> QED
        BY <3>1, <3>2
  <2>6. UpTo(u, f, S, m + 1)
        BY <2>4, <2>5 DEF UpTo
  <2> QED
      BY <2>6
<1> HIDE DEF T
<1>3. n \in T
      BY <1>1, <1>2, InductionOnNat
<1> QED
    BY <1>3 DEF T

LEMMA EventsUpTo ==
    ASSUME NEW f, NEW S, Len(f) \in Nat
    PROVE  \E h : UpTo(h, f, S, Len(f)) /\ EventsOf(f, S) = h[Len(f)]
<1> DEFINE h == CHOOSE g : UpTo(g, f, S, Len(f))
<1>1. UpTo(h, f, S, Len(f))
      BY UpToExists
<1>2. EventsOf(f, S) = h[Len(f)]
      BY DEF EventsOf, UpTo, Step
<1> QED
    BY <1>1, <1>2

(* They are changes at the positions taken, and one at least if there is   *)
(* such a position.                                                        *)
LEMMA EventsTyped ==
    ASSUME NEW V, NEW f \in Seq(V), NEW S \in SUBSET DOMAIN f
    PROVE  /\ EventsOf(f, S) \in Seq({UserChange(f[i]) : i \in S})
           /\ S # {} => EventsOf(f, S) # <<>>
<1> DEFINE E == {UserChange(f[i]) : i \in S}
           Has(n) == \E i \in S : i <= n
<1>1. Len(f) \in Nat /\ DOMAIN f = 1 .. Len(f)
      OBVIOUS
<1>2. PICK h : UpTo(h, f, S, Len(f)) /\ EventsOf(f, S) = h[Len(f)]
      BY <1>1, EventsUpTo
<1>3. \A k \in 0 .. Len(f) : h[k] = Step(h, f, S, k)
      BY <1>2 DEF UpTo
<1> DEFINE T == {n \in Nat : n <= Len(f) => h[n] \in Seq(E) /\ (Has(n) => h[n] # <<>>)}
<1>4. 0 \in T
  <2>1. h[0] = <<>>
        BY <1>1, <1>3 DEF Step
  <2>2. <<>> \in Seq(E)
        OBVIOUS
  <2>3. ~Has(0)
        BY <1>1
  <2> QED
      BY <2>1, <2>2, <2>3
<1>5. ASSUME NEW n \in Nat, n \in T
      PROVE  n + 1 \in T
  <2>1. SUFFICES ASSUME n + 1 <= Len(f)
                 PROVE  h[n + 1] \in Seq(E) /\ (Has(n + 1) => h[n + 1] # <<>>)
        OBVIOUS
  <2>2. n <= Len(f) /\ n + 1 \in 0 .. Len(f) /\ n + 1 # 0 /\ (n + 1) - 1 = n
        BY <1>1, <2>1
  <2>3. h[n] \in Seq(E) /\ (Has(n) => h[n] # <<>>)
        BY <1>5, <2>2
  <2>4. h[n + 1] = IF n + 1 \in S THEN Append(h[n], UserChange(f[n + 1])) ELSE h[n]
        BY <1>3, <2>2 DEF Step
  <2>5. CASE n + 1 \in S
    <3>1. UserChange(f[n + 1]) \in E
          BY <2>5
    <3>2. \A s \in Seq(E), e \in E : Append(s, e) \in Seq(E) /\ Append(s, e) # <<>>
          OBVIOUS
    <3> QED
        BY <2>3, <2>4, <2>5, <3>1, <3>2
  <2>6. CASE n + 1 \notin S
    <3>1. Has(n + 1) => Has(n)
      <4>1. \A i \in S : i \in Nat /\ i # n + 1
            BY <1>1, <2>6
      <4> QED
          BY <4>1
    <3> QED
        BY <2>3, <2>4, <2>6, <3>1
  <2> QED
      BY <2>5, <2>6
<1> HIDE DEF T
<1>6. Len(f) \in T
      BY <1>1, <1>4, <1>5, InductionOnNat
<1>7. h[Len(f)] \in Seq(E) /\ (Has(Len(f)) => h[Len(f)] # <<>>)
      BY <1>1, <1>6 DEF T
<1>8. S # {} => Has(Len(f))
      BY <1>1
<1> QED
    BY <1>2, <1>7, <1>8

LEMMA EventsOfOne ==
    ASSUME NEW v
    PROVE  EventsOf(<<v>>, {1}) = <<UserChange(v)>>
<1>1. Len(<<v>>) = 1 /\ 1 \in Nat
      OBVIOUS
<1>2. PICK h : UpTo(h, <<v>>, {1}, 1) /\ EventsOf(<<v>>, {1}) = h[1]
      BY <1>1, EventsUpTo
<1>3. 0 \in 0 .. 1 /\ 1 \in 0 .. 1 /\ 1 - 1 = 0 /\ 1 # 0
      OBVIOUS
<1>4. \A k \in 0 .. 1 : h[k] = Step(h, <<v>>, {1}, k)
      BY <1>2 DEF UpTo
<1>5. h[0] = <<>>
      BY <1>3, <1>4 DEF Step
<1>6. h[1] = Append(h[0], UserChange(v))
      BY <1>3, <1>4 DEF Step
<1> QED
    BY <1>2, <1>5, <1>6

-----------------------------------------------------------------------------
(* Types.                                                                  *)
Event == [value : Value, correction : BOOLEAN]

LEMMA Systems ==
    /\ "sws" \in System /\ Department \subseteq System
    /\ \A s \in System : Targets(s) \subseteq System /\ (s # "sws" => s \in Department)
    /\ Len(Departments) \in Nat /\ Len(Departments) > 0
    /\ \A i \in 1 .. Len(Departments) : Departments[i] \in Department
    /\ KeyNights \in Nat /\ MaxEdits \in Nat /\ MaxLosses \in Nat
BY SyncAssumption DEF System, Targets, Department

LEMMA FieldTyped ==
    ASSUME TypeOK
    PROVE  /\ Rendered \in [System -> [Value -> Value]]
           /\ \A v \in Value : Rendered["sws"][v] = v
           /\ Policy \in {"SWS_WINS", "DEPT_WINS"}
           /\ Canonical \in Names
<1>1. field \in Fields /\ field \in Mapped
      BY SyncAssumption DEF TypeOK
<1> QED
    BY <1>1, SyncAssumption, Systems DEF Mapped, Rendered, Policy, Canonical, Names

LEMMA EventTyped ==
    ASSUME NEW v \in Value
    PROVE  /\ UserChange(v) \in Event /\ UserChange(v).value = v
           /\ Correction(v) \in Event /\ Correction(v).value = v
           /\ ~UserChange(v).correction /\ Correction(v).correction
BY DEF UserChange, Correction, Event

LEMMA InSeq ==
    ASSUME NEW S, NEW s \in Seq(S)
    PROVE  /\ \A e \in S : Append(s, e) \in Seq(S)
           /\ \A t \in Seq(S) : s \o t \in Seq(S)
           /\ s # <<>> => Head(s) \in S /\ Tail(s) \in Seq(S)
           /\ \A m \in DOMAIN s : SubSeq(s, m + 1, Len(s)) \in Seq(S)
           /\ DOMAIN s = 1 .. Len(s) /\ Len(s) \in Nat
           /\ \A i \in DOMAIN s : s[i] \in S
OBVIOUS

LEMMA PutTyped ==
    ASSUME TypeOK, NEW new, DOMAIN new \subseteq System,
           \A s \in DOMAIN new : new[s] \in Value, Put(new)
    PROVE  value' \in [System -> Value] /\ feed' \in [System -> Seq(Value)]
BY InSeq DEF Put, TypeOK

LEMMA TypeInit == Init => TypeOK
<1> SUFFICES ASSUME Init PROVE TypeOK
    OBVIOUS
<1>1. PICK v \in Value : value = [s \in System |-> Rendered[s][v]]
      BY DEF Init
<1>2. field \in Mapped
      BY SyncAssumption DEF Init
<1>3. Rendered \in [System -> [Value -> Value]]
      BY <1>2 DEF Mapped, Rendered
<1>4. value \in [System -> Value]
      BY <1>1, <1>3
<1>5. <<>> \in Seq(Value) /\ <<>> \in Seq([value : Value, correction : BOOLEAN])
      OBVIOUS
<1>6. 0 \in 0 .. KeyNights /\ 0 \in 0 .. Len(Departments) /\ 0 \in 0 .. MaxEdits /\ 0 \in 0 .. MaxLosses
      BY Systems
<1> QED
    BY <1>4, <1>5, <1>6 DEF Init, TypeOK

LEMMA TypeEdit ==
    ASSUME TypeOK, NEW s \in Editors, NEW v \in Value, Edit(s, v)
    PROVE  TypeOK'
<1>1. s \in System
      BY SyncAssumption
<1>2. /\ edits < MaxEdits /\ edits' = edits + 1 /\ last' = [source |-> s, value |-> v]
      /\ Put([t \in {s} |-> v])
      /\ UNCHANGED <<field, guard, topic, window, completed, due, checking, reading, losses>>
      BY DEF Edit, reconcile
<1>3. value' \in [System -> Value] /\ feed' \in [System -> Seq(Value)]
      BY <1>1, <1>2, PutTyped
<1>4. edits' \in 0 .. MaxEdits
      BY <1>2, Systems DEF TypeOK
<1>99. Names' = Names
      BY <1>2 DEF Names, FieldName
<1> QED
    BY <1>1, <1>2, <1>3, <1>4, <1>99 DEF TypeOK

LEMMA TypePoll ==
    ASSUME TypeOK, NEW s \in System, Poll(s)
    PROVE  TypeOK'
<1>1. UNCHANGED <<field, value, guard, window, completed, due, checking, reading, last, edits, losses>>
      BY DEF Poll, reconcile, history
<1>2. feed \in [System -> Seq(Value)] /\ feed[s] \in Seq(Value) /\ Unguarded(s) \subseteq DOMAIN feed[s]
      BY DEF TypeOK, Unguarded
<1>3. PICK m \in Unguarded(s) : feed' = [feed EXCEPT ![s] = Rest(s, m)]
      BY DEF Poll
<1>4. Rest(s, m) \in Seq(Value)
      BY <1>2, InSeq DEF Rest
<1>5. feed' \in [System -> Seq(Value)]
      BY <1>2, <1>3, <1>4
<1>6. EventsOf(feed[s], Unguarded(s)) \in Seq(Event)
  <2>1. {UserChange(feed[s][i]) : i \in Unguarded(s)} \subseteq Event
        BY <1>2, EventTyped, InSeq
  <2>2. \A A : A \subseteq Event => Seq(A) \subseteq Seq(Event)
        OBVIOUS
  <2> QED
      BY <1>2, <2>1, <2>2, EventsTyped
<1>7. topic' \in [System -> Seq(Event)]
  <2>1. topic \in [System -> Seq(Event)] /\ topic[s] \in Seq(Event)
        BY DEF TypeOK, Event
  <2>2. topic[s] \o EventsOf(feed[s], Unguarded(s)) \in Seq(Event)
        BY <1>6, <2>1, InSeq
  <2>3. topic' = [topic EXCEPT ![s] = topic[s] \o EventsOf(feed[s], Unguarded(s))]
        BY DEF Poll
  <2> QED
      BY <2>1, <2>2, <2>3
<1>99. Names' = Names
      BY <1>1 DEF Names, FieldName
<1> QED
    BY <1>1, <1>5, <1>7, <1>99 DEF TypeOK, Event

LEMMA TypeOvertake ==
    ASSUME TypeOK, NEW s \in System, Overtake(s)
    PROVE  TypeOK'
<1>1. /\ losses < MaxLosses /\ losses' = losses + 1 /\ feed' = [feed EXCEPT ![s] = <<>>]
      /\ UNCHANGED <<field, value, guard, topic, window, completed, due, checking, reading, last, edits>>
      BY DEF Overtake, reconcile
<1>2. losses' \in 0 .. MaxLosses
      BY <1>1, Systems DEF TypeOK
<1>3. feed' \in [System -> Seq(Value)]
  <2>1. <<>> \in Seq(Value) /\ feed \in [System -> Seq(Value)]
        BY DEF TypeOK
  <2> QED
      BY <1>1, <2>1
<1>99. Names' = Names
      BY <1>1 DEF Names, FieldName
<1> QED
    BY <1>1, <1>2, <1>3, <1>99 DEF TypeOK

(* The head of a topic leaves it.                                          *)
LEMMA TopicTail ==
    ASSUME TypeOK, NEW s \in System, topic[s] # <<>>
    PROVE  /\ Head(topic[s]) \in Event /\ Head(topic[s]).value \in Value
           /\ [topic EXCEPT ![s] = Tail(@)] \in [System -> Seq(Event)]
<1>1. topic \in [System -> Seq(Event)] /\ topic[s] \in Seq(Event)
      BY DEF TypeOK, Event
<1>2. Head(topic[s]) \in Event /\ Tail(topic[s]) \in Seq(Event)
      BY <1>1, InSeq
<1>3. Head(topic[s]).value \in Value
      BY <1>2 DEF Event
<1> QED
    BY <1>1, <1>2, <1>3

(* What Dispatch writes, without its LET.                                  *)
LEMMA DispatchStep ==
    ASSUME NEW s \in System, Dispatch(s)
    PROVE  /\ checking = 0 /\ topic[s] # <<>>
           /\ Put([t \in Written(s, Head(topic[s])) |-> Rendered[t][Head(topic[s]).value]])
           /\ guard' = guard \cup {Mark(t, Head(topic[s])) : t \in Written(s, Head(topic[s]))}
           /\ window' = IF Conflict(s) THEN window
                        ELSE [source |-> s, value |-> Head(topic[s]).value]
           /\ completed' = [t \in Department |-> [v \in Value |->
                 IF Head(topic[s]).correction /\ t \in Written(s, Head(topic[s]))
                    /\ v = Head(topic[s]).value
                 THEN KeyNights ELSE completed[t][v]]]
           /\ topic' = [topic EXCEPT ![s] = Tail(@)]
           /\ UNCHANGED <<field, due, checking, reading, last, edits, losses>>
BY DEF Dispatch, InNative, reconcile, history

LEMMA TypeDispatch ==
    ASSUME TypeOK, NEW s \in System, Dispatch(s)
    PROVE  TypeOK'
<1> DEFINE e == Head(topic[s])
           W == Written(s, e)
<1>1. e \in Event /\ e.value \in Value /\ topic' \in [System -> Seq(Event)]
      BY DispatchStep, TopicTail
<1>2. W \subseteq System
      BY Systems DEF Written
<1> HIDE DEF e, W
<1>3. /\ Put([t \in W |-> Rendered[t][e.value]])
      /\ guard' = guard \cup {Mark(t, e) : t \in W}
      /\ window' \in {window, [source |-> s, value |-> e.value]}
      /\ completed' = [t \in Department |-> [v \in Value |->
            IF e.correction /\ t \in W /\ v = e.value THEN KeyNights ELSE completed[t][v]]]
      /\ UNCHANGED <<field, due, checking, reading, last, edits, losses>>
      BY DispatchStep DEF e, W
<1>4. \A t \in W : Rendered[t][e.value] \in Value
      BY <1>1, <1>2, FieldTyped
<1>5. value' \in [System -> Value] /\ feed' \in [System -> Seq(Value)]
      BY <1>2, <1>3, <1>4, PutTyped
<1>6. guard' \subseteq System \X Names \X Value
  <2>1. \A t \in W : Mark(t, e) \in System \X Names \X Value
        BY <1>1, <1>2, FieldTyped DEF Mark
  <2>2. guard \subseteq System \X Names \X Value
        BY DEF TypeOK
  <2> QED
      BY <1>3, <2>1, <2>2
<1>7. completed' \in [Department -> [Value -> 0 .. KeyNights]]
  <2>1. KeyNights \in 0 .. KeyNights
        BY Systems
  <2> QED
      BY <1>3, <2>1 DEF TypeOK
<1>8. window' \in [source : System, value : Value] \cup {NoEntry}
      BY <1>1, <1>3 DEF TypeOK
<1>99. Names' = Names
      BY <1>3 DEF Names, FieldName
<1> QED
    BY <1>1, <1>3, <1>5, <1>6, <1>7, <1>8, <1>99 DEF TypeOK, Event

LEMMA TypeGiveUp ==
    ASSUME TypeOK, NEW s \in System, GiveUp(s)
    PROVE  TypeOK'
<1>1. /\ topic[s] # <<>> /\ losses < MaxLosses /\ losses' = losses + 1
      /\ topic' = [topic EXCEPT ![s] = Tail(@)]
      /\ UNCHANGED <<field, value, feed, guard, window, completed, due, checking, reading, last, edits>>
      BY DEF GiveUp, systems, reconcile
<1>2. losses' \in 0 .. MaxLosses
      BY <1>1, Systems DEF TypeOK
<1>3. topic' \in [System -> Seq(Event)]
      BY <1>1, TopicTail
<1>99. Names' = Names
      BY <1>1 DEF Names, FieldName
<1> QED
    BY <1>1, <1>2, <1>3, <1>99 DEF TypeOK, Event

LEMMA TypeReconcile ==
    ASSUME TypeOK, StartReconcile \/ Compare
    PROVE  TypeOK'
<1>1. CASE StartReconcile
  <2>1. /\ checking' = 1 /\ reading' = value["sws"] /\ due' = FALSE
        /\ UNCHANGED <<field, value, feed, guard, topic, window, completed, last, edits, losses>>
        BY <1>1 DEF StartReconcile, systems, history
  <2>2. 1 \in 0 .. Len(Departments) /\ value["sws"] \in Value
        BY Systems DEF TypeOK
  <2>3. reading' \in Value /\ (checking' = 0 <=> reading' = NoValue)
        BY <2>1, <2>2, SyncAssumption
  <2>99. Names' = Names
        BY <2>1 DEF Names, FieldName
  <2> QED
      BY <2>1, <2>2, <2>3, <2>99 DEF TypeOK
<1>2. CASE Compare
  <2> DEFINE d == Departments[checking]
  <2>1. /\ checking > 0
        /\ \/ /\ topic' = [topic EXCEPT !["sws"] = Append(@, Correction(reading))]
              /\ guard' = guard \cup {Mark(d, Correction(reading))}
           \/ UNCHANGED <<topic, guard>>
        /\ \/ checking < Len(Departments) /\ checking' = checking + 1 /\ reading' = reading
           \/ checking' = 0 /\ reading' = NoValue
        /\ UNCHANGED <<field, value, feed, window, completed, due, last, edits, losses>>
        BY <1>2 DEF Compare, systems, history
  <2>2. checking \in 1 .. Len(Departments) /\ reading \in Value /\ reading # NoValue
    <3>1. checking \in 0 .. Len(Departments) /\ reading # NoValue
          BY <2>1, Systems DEF TypeOK
    <3> QED
        BY <2>1, <3>1, Systems DEF TypeOK
  <2>3. d \in System
        BY <2>2, Systems
  <2>4. Correction(reading) \in Event /\ Correction(reading).value = reading
        BY <2>2, EventTyped
  <2>5. topic' \in [System -> Seq(Event)]
    <3>1. topic \in [System -> Seq(Event)] /\ topic["sws"] \in Seq(Event)
          BY Systems DEF TypeOK, Event
    <3>2. Append(topic["sws"], Correction(reading)) \in Seq(Event)
          BY <2>4, <3>1, InSeq
    <3> QED
        BY <2>1, <3>1, <3>2
  <2>6. guard' \subseteq System \X Names \X Value
    <3>1. Mark(d, Correction(reading)) \in System \X Names \X Value
          BY <2>2, <2>3, <2>4, FieldTyped DEF Mark
    <3>2. guard \subseteq System \X Names \X Value
          BY DEF TypeOK
    <3> QED
        BY <2>1, <3>1, <3>2
  <2>7. checking' \in 0 .. Len(Departments) /\ ((checking' = 0) = (reading' = NoValue))
        BY <2>1, <2>2, Systems
  <2>8. reading' \in Value \cup {NoValue}
        BY <2>1, <2>2
  <2>99. Names' = Names
        BY <2>1 DEF Names, FieldName
  <2> QED
      BY <2>1, <2>5, <2>6, <2>7, <2>8, <2>99 DEF TypeOK, Event
<1> QED
    BY <1>1, <1>2

LEMMA TypeExpire ==
    ASSUME TypeOK, Expire
    PROVE  TypeOK'
<1>1. /\ guard' \subseteq guard /\ window' \in {window, NoEntry}
      /\ UNCHANGED <<field, value, feed, topic, completed, due, checking, reading, last, edits, losses>>
      BY DEF Expire, systems, reconcile, history
<1>99. Names' = Names
      BY <1>1 DEF Names, FieldName
<1> QED
    BY <1>1, <1>99 DEF TypeOK

LEMMA TypeLapse ==
    ASSUME TypeOK, Lapse
    PROVE  TypeOK'
<1>1. /\ due' = TRUE
      /\ completed' = [d \in Department |-> [v \in Value |-> Aged(completed[d][v])]]
      /\ UNCHANGED <<field, value, feed, guard, topic, window, checking, reading, last, edits, losses>>
      BY DEF Lapse, systems, history
<1>2. \A n \in 0 .. KeyNights : Aged(n) \in 0 .. KeyNights
      BY Systems DEF Aged
<1>3. completed' \in [Department -> [Value -> 0 .. KeyNights]]
      BY <1>1, <1>2 DEF TypeOK
<1>99. Names' = Names
      BY <1>1 DEF Names, FieldName
<1> QED
    BY <1>1, <1>3, <1>99 DEF TypeOK

LEMMA TypeStep ==
    ASSUME TypeOK, [Next]_vars
    PROVE  TypeOK'
<1>1. CASE UNCHANGED vars
      BY <1>1 DEF TypeOK, Names, FieldName, vars, systems, reconcile, history
<1> QED
    BY <1>1, TypeEdit, TypePoll, TypeOvertake, TypeDispatch, TypeGiveUp, TypeReconcile, TypeExpire, TypeLapse
    DEF Next

LEMMA TypeAlways == Spec => []TypeOK
BY TypeInit, TypeStep, PTL DEF Spec

-----------------------------------------------------------------------------
(* Feeds and topics, element by element.                                   *)
LEMMA AppendedTo ==
    ASSUME NEW S, NEW s \in Seq(S), NEW t \in Seq(S)
    PROVE  /\ DOMAIN s \subseteq DOMAIN (s \o t)
           /\ \A i \in DOMAIN s : (s \o t)[i] = s[i]
           /\ \A i \in DOMAIN (s \o t) :
                 \/ i \in DOMAIN s /\ (s \o t)[i] = s[i]
                 \/ \E j \in DOMAIN t : (s \o t)[i] = t[j]
           /\ t # <<>> => \E i \in DOMAIN (s \o t) : \E j \in DOMAIN t : (s \o t)[i] = t[j]
<1>1. /\ Len(s \o t) = Len(s) + Len(t) /\ Len(s) \in Nat /\ Len(t) \in Nat
      /\ DOMAIN s = 1 .. Len(s) /\ DOMAIN t = 1 .. Len(t)
      /\ DOMAIN (s \o t) = 1 .. Len(s) + Len(t)
      /\ \A i \in 1 .. Len(s) + Len(t) :
            (s \o t)[i] = IF i <= Len(s) THEN s[i] ELSE t[i - Len(s)]
      OBVIOUS
<1>2. ASSUME NEW i \in DOMAIN (s \o t)
      PROVE  \/ i \in DOMAIN s /\ (s \o t)[i] = s[i]
             \/ \E j \in DOMAIN t : (s \o t)[i] = t[j]
  <2>1. CASE i <= Len(s)
        BY <1>1, <2>1
  <2>2. CASE i > Len(s)
    <3>1. i - Len(s) \in DOMAIN t /\ (s \o t)[i] = t[i - Len(s)]
          BY <1>1, <2>2
    <3> QED
        BY <3>1
  <2> QED
      BY <1>1, <2>1, <2>2
<1>3. ASSUME t # <<>>
      PROVE  \E i \in DOMAIN (s \o t) : \E j \in DOMAIN t : (s \o t)[i] = t[j]
  <2>1. Len(t) > 0
        BY <1>1, <1>3
  <2>2. Len(s) + 1 \in DOMAIN (s \o t) /\ 1 \in DOMAIN t /\ (s \o t)[Len(s) + 1] = t[1]
        BY <1>1, <2>1
  <2> QED
      BY <2>2
<1> QED
    BY <1>1, <1>2, <1>3

LEMMA Parts ==
    ASSUME NEW S, NEW s \in Seq(S)
    PROVE  /\ DOMAIN s = {} => s = <<>>
           /\ s # <<>> => /\ 1 \in DOMAIN s /\ Head(s) = s[1]
                          /\ \A i \in DOMAIN Tail(s) : i + 1 \in DOMAIN s /\ Tail(s)[i] = s[i + 1]
                          /\ \A i \in DOMAIN s : i # 1 => i - 1 \in DOMAIN Tail(s)
                                                          /\ Tail(s)[i - 1] = s[i]
           /\ \A m \in DOMAIN s : \A i \in DOMAIN SubSeq(s, m + 1, Len(s)) :
                 m + i \in DOMAIN s /\ SubSeq(s, m + 1, Len(s))[i] = s[m + i]
           /\ \A e \in S : /\ DOMAIN s \subseteq DOMAIN Append(s, e)
                           /\ \A i \in DOMAIN s : Append(s, e)[i] = s[i]
                           /\ \A i \in DOMAIN Append(s, e) : (i \in DOMAIN s /\ Append(s, e)[i] = s[i])
                                                             \/ Append(s, e)[i] = e
OBVIOUS

LEMMA Topics ==
    ASSUME TypeOK, NEW s \in System
    PROVE  /\ topic[s] \in Seq(Event) /\ feed[s] \in Seq(Value) /\ value[s] \in Value
           /\ topic \in [System -> Seq(Event)] /\ feed \in [System -> Seq(Value)]
BY DEF TypeOK, Event

(* A poll appends changes of users to the topic of its system.             *)
LEMMA PollEvents ==
    ASSUME TypeOK, NEW s \in System, Poll(s)
    PROVE  /\ \A t \in System \ {s} : topic'[t] = topic[t] /\ feed'[t] = feed[t]
           /\ DOMAIN topic[s] \subseteq DOMAIN topic'[s]
           /\ \A i \in DOMAIN topic[s] : topic'[s][i] = topic[s][i]
           /\ \A i \in DOMAIN topic'[s] :
                 \/ i \in DOMAIN topic[s] /\ topic'[s][i] = topic[s][i]
                 \/ \E j \in DOMAIN feed[s] : topic'[s][i] = UserChange(feed[s][j])
           /\ \E i \in DOMAIN topic'[s], j \in DOMAIN feed[s] :
                 topic'[s][i] = UserChange(feed[s][j])
           /\ \A i \in DOMAIN feed'[s] : \E j \in DOMAIN feed[s] : feed'[s][i] = feed[s][j]
           /\ feed[s] # <<>>
<1> DEFINE U == Unguarded(s)
           new == EventsOf(feed[s], U)
<1>1. PICK m \in U : feed' = [feed EXCEPT ![s] = Rest(s, m)]
      BY DEF Poll
<1>2. /\ topic' = [topic EXCEPT ![s] = topic[s] \o new]
      /\ U \subseteq DOMAIN feed[s] /\ U # {}
      BY <1>1 DEF Poll, Unguarded
<1>3. {UserChange(feed[s][i]) : i \in U} \subseteq Event
      BY <1>2, Topics, EventTyped, InSeq
<1>4. new \in Seq({UserChange(feed[s][i]) : i \in U}) /\ new # <<>>
      BY <1>2, Topics, EventsTyped
<1>5. new \in Seq(Event) /\ \A j \in DOMAIN new : \E i \in U : new[j] = UserChange(feed[s][i])
  <2>1. \A A : A \subseteq Event => Seq(A) \subseteq Seq(Event)
        OBVIOUS
  <2>2. \A j \in DOMAIN new : new[j] \in {UserChange(feed[s][i]) : i \in U}
        BY <1>4, InSeq
  <2> QED
      BY <1>3, <1>4, <2>1, <2>2
<1> HIDE DEF new
<1>6. /\ DOMAIN topic[s] \subseteq DOMAIN (topic[s] \o new)
      /\ \A i \in DOMAIN topic[s] : (topic[s] \o new)[i] = topic[s][i]
      /\ \A i \in DOMAIN (topic[s] \o new) :
            \/ i \in DOMAIN topic[s] /\ (topic[s] \o new)[i] = topic[s][i]
            \/ \E j \in DOMAIN new : (topic[s] \o new)[i] = new[j]
      /\ \E i \in DOMAIN (topic[s] \o new) : \E j \in DOMAIN new : (topic[s] \o new)[i] = new[j]
  <2>1. topic[s] \in Seq(Event) /\ new \in Seq(Event) /\ new # <<>>
        BY <1>4, <1>5, Topics
  <2>2. PICK a \in Seq(Event) : a = topic[s]
        BY <2>1
  <2>3. PICK b \in Seq(Event) : b = new
        BY <2>1
  <2>4. /\ DOMAIN a \subseteq DOMAIN (a \o b)
        /\ \A i \in DOMAIN a : (a \o b)[i] = a[i]
        /\ \A i \in DOMAIN (a \o b) :
              (i \in DOMAIN a /\ (a \o b)[i] = a[i]) \/ \E j \in DOMAIN b : (a \o b)[i] = b[j]
        /\ b # <<>> => \E i \in DOMAIN (a \o b) : \E j \in DOMAIN b : (a \o b)[i] = b[j]
        BY SMTT(30), AppendedTo
  <2> QED
      BY <2>1, <2>2, <2>3, <2>4, ZenonT(30)
<1>7. /\ \A t \in System \ {s} : topic'[t] = topic[t] /\ feed'[t] = feed[t]
      /\ topic'[s] = topic[s] \o new /\ feed'[s] = Rest(s, m)
      BY <1>1, <1>2, Topics
<1>8. \A i \in DOMAIN feed'[s] : \E j \in DOMAIN feed[s] : feed'[s][i] = feed[s][j]
  <2>1. \A i \in DOMAIN Rest(s, m) :
            m + i \in DOMAIN feed[s] /\ Rest(s, m)[i] = feed[s][m + i]
    <3>1. feed[s] \in Seq(Value) /\ m \in DOMAIN feed[s]
          BY <1>2, Topics
    <3>2. \A n \in DOMAIN feed[s] : \A i \in DOMAIN SubSeq(feed[s], n + 1, Len(feed[s])) :
              n + i \in DOMAIN feed[s]
              /\ SubSeq(feed[s], n + 1, Len(feed[s]))[i] = feed[s][n + i]
          BY <3>1, Parts
    <3> QED
        BY <3>1, <3>2 DEF Rest
  <2> QED
      BY <1>7, <2>1
<1>9. feed[s] # <<>>
      BY <1>2
<1> QED
    BY <1>2, <1>5, <1>6, <1>7, <1>8, <1>9

-----------------------------------------------------------------------------
(* Agreement at rest.                                                      *)
LEMMA GoalTyped ==
    ASSUME TypeOK
    PROVE  /\ Goal \in Value
           /\ last # NoEntry => last.source \in System /\ last.value \in Value /\ Goal = last.value
           /\ window # NoEntry => window.source \in System /\ window.value \in Value
           /\ Rendered["sws"][Goal] = Goal
           /\ losses \in Nat
<1>1. Goal \in Value
      BY Systems DEF TypeOK, Goal
<1>2. losses \in Nat
      BY Systems DEF TypeOK
<1> QED
    BY <1>1, <1>2, FieldTyped DEF TypeOK, Goal

LEMMA Single == \A v : <<v>> # <<>> /\ Append(<<>>, v) = <<v>>
OBVIOUS

LEMMA Kinds ==
    ASSUME NEW s \in System, NEW v \in Value
    PROVE  [source |-> s, value |-> v] # NoEntry
BY SyncAssumption DEF NoEntry

(* The state after a step that keeps the goal g, conjunct by conjunct.     *)
LEMMA ReportedNext ==
    ASSUME field' = field, NEW g, Goal' = g, value'["sws"] = g,
           \A s \in System : \A i \in DOMAIN feed'[s]  : feed'[s][i] = Rendered[s][g],
           \A s \in System : \A i \in DOMAIN topic'[s] : topic'[s][i].value = Rendered[s][g],
           checking' > 0 => reading' = g,
           \A k \in guard' : k[3] = g,
           window' # NoEntry => window'.value = g /\ Rendered[window'.source][g] = g,
           \A d \in Department :
               Rendered[d][g] # g /\ (feed'[d] # <<>> \/ topic'[d] # <<>>) => window' # NoEntry,
           \/ \A s \in System : value'[s] = Rendered[s][g]
           \/ feed'["sws"] # <<>>
           \/ \E i \in DOMAIN topic'["sws"] : topic'["sws"][i] = UserChange(g)
    PROVE  Reported'
<1>1. \A s, v : Rendered[s][v]' = Rendered[s][v]
      BY DEF Rendered
<1>2. \A s \in System : Carries(s, Rendered[s][Goal])'
      BY DEF Carries, Rendered
<1>3. \A d \in Department : Odd(d)' => window' # NoEntry
      BY DEF Odd, Rendered
<1>4. Agreed' \/ Pending'
      BY DEF Agreed, Pending, Rendered
<1> QED
    BY <1>2, <1>3, <1>4 DEF Reported, Rendered

LEMMA AgreeInit == Init => Reported
<1> SUFFICES ASSUME Init PROVE Reported
    OBVIOUS
<1>1. TypeOK
      BY TypeInit
<1>2. PICK v \in Value : value = [s \in System |-> Rendered[s][v]]
      BY DEF Init
<1>3. value["sws"] = v /\ Goal = v
      BY <1>1, <1>2, FieldTyped, Systems DEF Goal, Init
<1> QED
    BY <1>2, <1>3, Systems DEF Init, Reported, Carries, Odd, Agreed

(* At rest nothing is on its way.                                          *)
LEMMA SettledIsEmpty ==
    ASSUME TypeOK, guard = {}, Quiet
    PROVE  \A s \in System : feed[s] = <<>> /\ topic[s] = <<>>
<1> SUFFICES ASSUME NEW s \in System
             PROVE  feed[s] = <<>> /\ topic[s] = <<>>
    OBVIOUS
<1>1. topic[s] = <<>> /\ Unguarded(s) = {}
      BY DEF Quiet
<1>2. DOMAIN feed[s] = {}
      BY <1>1 DEF Unguarded, Recent
<1> QED
    BY <1>1, <1>2, Topics, Parts

LEMMA EnteredIsBusy ==
    ASSUME TypeOK, Entered
    PROVE  ~Quiet
<1>1. /\ guard = {} /\ last.source \in System
      /\ feed[last.source] # <<>> \/ topic[last.source] # <<>>
      BY GoalTyped, Single DEF Entered
<1> QED
    BY <1>1, SettledIsEmpty

LEMMA RestLemma ==
    ASSUME TypeOK, AgreeInv, losses = 0, Settled
    PROVE  Agreed /\ Reported /\ \A s \in System : feed[s] = <<>> /\ topic[s] = <<>>
<1>1. \A s \in System : feed[s] = <<>> /\ topic[s] = <<>>
      BY SettledIsEmpty DEF Settled
<1>2. Reported
      BY EnteredIsBusy DEF AgreeInv, Settled
<1>3. ~Pending
      BY <1>1, Systems DEF Pending
<1> QED
    BY <1>1, <1>2, <1>3 DEF Reported

(* Another value than before differs from the goal: SWS will report it.    *)
LEMMA AgreeEdit ==
    ASSUME Apart, TypeOK, AgreeInv, losses = 0,
           NEW s \in Editors, NEW v \in Value, Edit(s, v)
    PROVE  Entered'
<1>1. s \in System
      BY SyncAssumption
<1>2. /\ Settled /\ window = NoEntry /\ v # value[s] /\ Rendered[s][v] = v
      /\ last' = [source |-> s, value |-> v]
      /\ Put([t \in {s} |-> v])
      /\ UNCHANGED <<field, guard, topic, window, checking>>
      BY DEF Edit, reconcile
<1>3. /\ guard = {} /\ checking = 0 /\ window = NoEntry
      /\ Agreed /\ value["sws"] = Goal
      /\ \A t \in System : feed[t] = <<>> /\ topic[t] = <<>>
      BY <1>2, RestLemma DEF Settled, Reported
<1>4. /\ value'[s] = v /\ \A t \in System \ {s} : value'[t] = value[t] /\ feed'[t] = feed[t]
      /\ feed'[s] = Append(feed[s], v)
      BY <1>1, <1>2 DEF Put, Differs
<1>5. feed'[s] = <<v>>
      BY <1>1, <1>3, <1>4, Single
<1>6. last' # NoEntry /\ last'.source = s /\ last'.value = v
      BY <1>1, <1>2, Kinds
<1>7. s # "sws" => value'["sws"] # v
      BY <1>1, <1>2, <1>3, <1>4, Systems DEF Agreed
<1>8. Rendered'[s][v] = v
      BY <1>2 DEF Rendered
<1> QED
    BY <1>1, <1>2, <1>3, <1>4, <1>5, <1>6, <1>7, <1>8 DEF Entered

LEMMA EnteredPoll ==
    ASSUME TypeOK, Entered, NEW s \in System, Poll(s)
    PROVE  Entered'
<1>1. UNCHANGED <<field, value, guard, window, checking, last>>
      BY DEF Poll, reconcile, history
<1>2. feed[s] # <<>>
      BY PollEvents
<1>3. s = last.source /\ feed[s] = <<last.value>> /\ topic[s] = <<>> /\ guard = {}
      BY <1>2 DEF Entered
<1>4. Unguarded(s) = {1}
      BY <1>3 DEF Unguarded, Recent
<1>5. feed' = [feed EXCEPT ![s] = Rest(s, 1)]
      BY <1>4 DEF Poll
<1>6. Rest(s, 1) = <<>>
      BY <1>3, GoalTyped DEF Entered, Rest
<1>7. topic'[s] = topic[s] \o <<UserChange(last.value)>>
      BY <1>3, <1>4, Topics, EventsOfOne DEF Poll
<1>8. <<>> \o <<UserChange(last.value)>> = <<UserChange(last.value)>>
      OBVIOUS
<1>9. feed'[s] = <<>> /\ topic'[s] = <<UserChange(last.value)>>
      BY <1>3, <1>5, <1>6, <1>7, <1>8, Topics
<1>10. \A t \in System \ {s} : topic'[t] = topic[t] /\ feed'[t] = feed[t]
      BY PollEvents
<1>11. Rendered' = Rendered
      BY <1>1 DEF Rendered
<1> QED
    BY <1>1, <1>3, <1>9, <1>10, <1>11, Systems DEF Entered

LEMMA ReportedPoll ==
    ASSUME TypeOK, Reported, NEW s \in System, Poll(s)
    PROVE  Reported'
<1> DEFINE g == Goal
<1>1. UNCHANGED <<field, value, guard, window, checking, reading, last>> /\ Goal' = g
      BY DEF Poll, reconcile, history, Goal
<1>2. /\ \A t \in System \ {s} : topic'[t] = topic[t] /\ feed'[t] = feed[t]
      /\ \A i \in DOMAIN feed'[s] : \E j \in DOMAIN feed[s] : feed'[s][i] = feed[s][j]
      /\ \A i \in DOMAIN topic'[s] :
            \/ i \in DOMAIN topic[s] /\ topic'[s][i] = topic[s][i]
            \/ \E j \in DOMAIN feed[s] : topic'[s][i] = UserChange(feed[s][j])
      /\ feed[s] # <<>>
      BY PollEvents
<1>3. \A t \in System : \A i \in DOMAIN feed'[t] : feed'[t][i] = Rendered[t][g]
      BY <1>2 DEF Reported, Carries
<1>4. \A t \in System : \A i \in DOMAIN topic'[t] : topic'[t][i].value = Rendered[t][g]
  <2>1. \A v : UserChange(v).value = v
        BY DEF UserChange
  <2>2. \A i \in DOMAIN topic'[s] : topic'[s][i].value = Rendered[s][g]
        BY <1>2, <2>1 DEF Reported, Carries
  <2> QED
      BY <1>2, <2>2 DEF Reported, Carries
<1>5. \A d \in Department :
          Rendered[d][g] # g /\ (feed'[d] # <<>> \/ topic'[d] # <<>>) => window' # NoEntry
  <2>1. \A d \in Department : feed'[d] # <<>> \/ topic'[d] # <<>> => feed[d] # <<>> \/ topic[d] # <<>>
        BY <1>2, Systems
  <2> QED
      BY <1>1, <2>1 DEF Reported, Odd
<1>6. \/ \A t \in System : value'[t] = Rendered[t][g]
      \/ feed'["sws"] # <<>>
      \/ \E i \in DOMAIN topic'["sws"] : topic'["sws"][i] = UserChange(g)
  <2>1. CASE Agreed
        BY <1>1, <2>1 DEF Agreed
  <2>2. CASE Pending /\ s # "sws"
        BY <1>2, <2>2, Systems DEF Pending
  <2>3. CASE s = "sws"
    <3>1. PICK i \in DOMAIN topic'[s], j \in DOMAIN feed[s] : topic'[s][i] = UserChange(feed[s][j])
          BY PollEvents
    <3>2. feed[s][j] = g
          BY <2>3, GoalTyped DEF Reported, Carries
    <3> QED
        BY <2>3, <3>1, <3>2
  <2> QED
      BY <2>1, <2>2, <2>3 DEF Reported
<1> HIDE DEF g
<1>7. /\ value'["sws"] = g /\ (checking' > 0 => reading' = g) /\ \A k \in guard' : k[3] = g
      /\ window' # NoEntry => window'.value = g /\ Rendered[window'.source][g] = g
      BY <1>1 DEF Reported, g
<1> QED
    BY <1>1, <1>3, <1>4, <1>5, <1>6, <1>7, ReportedNext

(* The change reaches the dispatcher: from SWS it goes to every            *)
(* department, from a department to SWS, where it differs.                 *)
LEMMA EnteredDispatch ==
    ASSUME TypeOK, Entered, NEW s \in System, Dispatch(s)
    PROVE  Reported'
<1> DEFINE g == last.value
           e == UserChange(g)
<1>1. /\ s = last.source /\ topic[s] = <<e>> /\ feed[s] = <<>> /\ g \in Value /\ Goal = g
      /\ \A t \in System : feed[t] = <<>>
      /\ \A t \in System \ {s} : topic[t] = <<>>
      /\ value[s] = g /\ Rendered[s][g] = g /\ Rendered["sws"][g] = g
      /\ s # "sws" => value["sws"] # g
      /\ guard = {} /\ window = NoEntry /\ checking = 0
  <2>1. topic[s] # <<>>
        BY DispatchStep
  <2>2. s = last.source /\ topic[s] = <<e>>
        BY <2>1 DEF Entered
  <2>3. feed[s] = <<>>
        BY <2>2, Single DEF Entered
  <2> QED
      BY <2>2, <2>3, GoalTyped DEF Entered
<1>2. Head(topic[s]) = e /\ Tail(topic[s]) = <<>> /\ e.value = g /\ ~e.correction
      BY <1>1 DEF UserChange
<1>3. Written(s, e) = Targets(s)
      BY <1>1, <1>2 DEF Written, GoesOn, Conflict
<1> HIDE DEF e
<1>4. /\ Put([t \in Targets(s) |-> Rendered[t][g]])
      /\ guard' = guard \cup {Mark(t, e) : t \in Targets(s)}
      /\ window' = [source |-> s, value |-> g]
      /\ topic' = [topic EXCEPT ![s] = Tail(@)]
      /\ UNCHANGED <<field, checking, last>>
  <2>1. /\ Put([t \in Written(s, Head(topic[s])) |-> Rendered[t][Head(topic[s]).value]])
        /\ guard' = guard \cup {Mark(t, Head(topic[s])) : t \in Written(s, Head(topic[s]))}
        /\ window' = IF Conflict(s) THEN window
                     ELSE [source |-> s, value |-> Head(topic[s]).value]
        /\ topic' = [topic EXCEPT ![s] = Tail(@)]
        /\ UNCHANGED <<field, checking, last>>
        BY DispatchStep
  <2>2. ~Conflict(s)
        BY <1>1 DEF Conflict
  <2> QED
      BY <1>2, <1>3, <2>1, <2>2
<1> HIDE DEF g
<1>5. /\ \A t \in System : value'[t] = IF t \in Targets(s) THEN Rendered[t][g] ELSE value[t]
      /\ \A t \in System : feed'[t] = IF t \in Targets(s) /\ Rendered[t][g] # value[t]
                                      THEN <<Rendered[t][g]>> ELSE <<>>
      BY <1>1, <1>4, Single DEF Put, Differs
<1>6. Goal' = g
      BY <1>1, <1>4, GoalTyped DEF Goal, Entered, g
<1>7. value'["sws"] = g
      BY <1>1, <1>5, Systems, SyncAssumption DEF Targets
<1>8. \A t \in System : \A i \in DOMAIN feed'[t] : feed'[t][i] = Rendered[t][g]
  <2>1. \A v : \A i \in DOMAIN <<v>> : <<v>>[i] = v
        OBVIOUS
  <2>2. DOMAIN <<>> = {}
        OBVIOUS
  <2>3. \A t \in System : feed'[t] = <<Rendered[t][g]>> \/ feed'[t] = <<>>
        BY <1>5
  <2> QED
      BY <2>1, <2>2, <2>3, Zenon
<1>9. \A t \in System : topic'[t] = <<>>
      BY <1>1, <1>2, <1>4, Topics
<1>10. \A k \in guard' : k[3] = g
      BY <1>1, <1>2, <1>4 DEF Mark
<1>11. window' # NoEntry /\ window'.value = g /\ Rendered[window'.source][g] = g
      BY <1>1, <1>4, Kinds
<1>12. \/ \A t \in System : value'[t] = Rendered[t][g]
       \/ feed'["sws"] # <<>>
  <2>1. CASE s = "sws"
    <3>1. \A t \in System : t \in Targets(s) \/ t = "sws"
          BY <2>1 DEF Targets, System
    <3> QED
        BY <1>1, <1>5, <1>7, <3>1
  <2>2. CASE s # "sws"
    <3>1. "sws" \in Targets(s)
          BY <2>2 DEF Targets
    <3> QED
      <4>1. feed'["sws"] = <<Rendered["sws"][g]>>
            BY <1>1, <1>5, <2>2, <3>1, Systems
      <4> QED
          BY <4>1, Single
  <2> QED
      BY <2>1, <2>2
<1>13. /\ \A t \in System : \A i \in DOMAIN topic'[t] : topic'[t][i].value = Rendered[t][g]
       /\ ~(checking' > 0)
      BY <1>1, <1>4, <1>9
<1> QED
    BY <1>4, <1>6, <1>7, <1>8, <1>10, <1>11, <1>12, <1>13, ReportedNext

(* A department that reports its own rendering loses to the window.        *)
LEMMA OddLoses ==
    ASSUME DeptWinsAsIs, TypeOK, Reported, NEW s \in Department, topic[s] # <<>>,
           GoesOn(s, Head(topic[s]))
    PROVE  Rendered[s][Goal] = Goal
<1>1. s \in System /\ s # "sws" /\ Head(topic[s]).value = Rendered[s][Goal]
      BY Systems, SyncAssumption, Topics, Parts DEF Reported, Carries
<1>2. CASE ~Conflict(s)
      BY <1>2 DEF Conflict, Reported, Odd
<1>3. CASE Conflict(s) /\ window.value = Head(topic[s]).value
      BY <1>1, <1>3 DEF Conflict, Reported
<1>4. CASE Wins(s)
  <2>1. field \in Fields /\ field.policy = "DEPT_WINS"
        BY <1>1, <1>4, FieldTyped DEF TypeOK, Wins, Policy
  <2> QED
      BY <1>1, <2>1, GoalTyped DEF DeptWinsAsIs, Rendered
<1> QED
    BY <1>2, <1>3, <1>4 DEF GoesOn

(* What SWS has goes on to the departments.                                *)
LEMMA SwsGoesOn ==
    ASSUME TypeOK, Reported, topic["sws"] # <<>>
    PROVE  Head(topic["sws"]).value = Goal /\ GoesOn("sws", Head(topic["sws"]))
<1>1. Head(topic["sws"]).value = Goal
      BY Systems, Topics, Parts, GoalTyped DEF Reported, Carries
<1>2. Conflict("sws") => window.value = Goal
      BY DEF Conflict, Reported
<1> QED
    BY <1>1, <1>2 DEF GoesOn

(* What a dispatch leaves in the topics.                                   *)
LEMMA TopicsLeft ==
    ASSUME TypeOK, Reported, NEW s \in System, topic[s] # <<>>,
           topic' = [topic EXCEPT ![s] = Tail(@)]
    PROVE  /\ \A t \in System : \A i \in DOMAIN topic'[t] : topic'[t][i].value = Rendered[t][Goal]
           /\ \A t \in System : topic'[t] # <<>> => topic[t] # <<>>
           /\ \A i \in DOMAIN topic[s] : i # 1 => i - 1 \in DOMAIN topic'[s]
                                                  /\ topic'[s][i - 1] = topic[s][i]
           /\ \A t \in System \ {s} : topic'[t] = topic[t]
<1>1. /\ topic'[s] = Tail(topic[s]) /\ \A t \in System \ {s} : topic'[t] = topic[t]
      /\ topic[s] \in Seq(Event)
      BY Topics
<1>2. /\ \A i \in DOMAIN topic'[s] : i + 1 \in DOMAIN topic[s] /\ topic'[s][i] = topic[s][i + 1]
      /\ \A i \in DOMAIN topic[s] : i # 1 => i - 1 \in DOMAIN topic'[s] /\ topic'[s][i - 1] = topic[s][i]
  <2>1. PICK q \in Seq(Event) : q = topic[s] /\ q # <<>>
        BY <1>1
  <2>2. /\ \A i \in DOMAIN Tail(q) : i + 1 \in DOMAIN q /\ Tail(q)[i] = q[i + 1]
        /\ \A i \in DOMAIN q : i # 1 => i - 1 \in DOMAIN Tail(q) /\ Tail(q)[i - 1] = q[i]
        BY <2>1, Parts
  <2>3. topic'[s] = Tail(q)
        BY <1>1, <2>1
  <2> QED
      BY <2>1, <2>2, <2>3, Zenon
<1> QED
    BY <1>1, <1>2 DEF Reported, Carries

LEMMA SwsDispatch ==
    ASSUME TypeOK, Reported, Dispatch("sws")
    PROVE  Reported'
<1> DEFINE g == Goal
           e == Head(topic["sws"])
           W == Written("sws", e)
<1>1. /\ topic["sws"] # <<>> /\ e.value = g /\ GoesOn("sws", e) /\ e = topic["sws"][1]
      /\ 1 \in DOMAIN topic["sws"] /\ "sws" \in System /\ g \in Value
  <2>1. "sws" \in System /\ g \in Value
        BY Systems, GoalTyped
  <2>2. topic["sws"] # <<>> /\ topic["sws"] \in Seq(Event)
        BY <2>1, DispatchStep, Topics
  <2>3. e.value = g /\ GoesOn("sws", e)
        BY <2>2, SwsGoesOn
  <2>4. e = topic["sws"][1] /\ 1 \in DOMAIN topic["sws"]
        BY <2>2, Parts
  <2> QED
      BY <2>1, <2>2, <2>3, <2>4
<1>2. /\ W \subseteq Department /\ "sws" \notin Department
      /\ ~e.correction => W = Department
      BY <1>1, SyncAssumption DEF Written, Targets
<1>3. /\ Put([t \in W |-> Rendered[t][g]])
      /\ guard' = guard \cup {Mark(t, e) : t \in W}
      /\ window' = IF Conflict("sws") THEN window ELSE [source |-> "sws", value |-> g]
      /\ topic' = [topic EXCEPT !["sws"] = Tail(@)]
      /\ UNCHANGED <<field, checking, reading, last>>
      BY <1>1, DispatchStep
<1> HIDE DEF e, W
<1>4. /\ \A t \in System : value'[t] = IF t \in W THEN Rendered[t][g] ELSE value[t]
      /\ \A t \in System : feed'[t] = IF t \in W /\ Rendered[t][g] # value[t]
                                      THEN Append(feed[t], Rendered[t][g]) ELSE feed[t]
      BY <1>3 DEF Put, Differs
<1>5. value'["sws"] = g /\ feed'["sws"] = feed["sws"] /\ Goal' = g
      BY <1>1, <1>2, <1>3, <1>4 DEF Reported, Goal
<1>6. \A t \in System : \A i \in DOMAIN feed'[t] : feed'[t][i] = Rendered[t][g]
  <2> SUFFICES ASSUME NEW t \in System, NEW i \in DOMAIN feed'[t]
               PROVE  feed'[t][i] = Rendered[t][g]
      OBVIOUS
  <2>1. Rendered[t][g] \in Value /\ feed[t] \in Seq(Value)
        BY <1>1, FieldTyped, Topics
  <2>2. \A j \in DOMAIN feed[t] : feed[t][j] = Rendered[t][g]
        BY DEF Reported, Carries
  <2>3. CASE feed'[t] = feed[t]
        BY <2>2, <2>3
  <2>4. CASE feed'[t] = Append(feed[t], Rendered[t][g])
    <3>1. (i \in DOMAIN feed[t] /\ feed'[t][i] = feed[t][i]) \/ feed'[t][i] = Rendered[t][g]
          BY <2>1, <2>4, Parts
    <3> QED
        BY <2>2, <3>1
  <2> QED
      BY <1>4, <2>3, <2>4
<1>7. /\ \A t \in System : \A i \in DOMAIN topic'[t] : topic'[t][i].value = Rendered[t][g]
      /\ \A i \in DOMAIN topic["sws"] : i # 1 => i - 1 \in DOMAIN topic'["sws"]
                                                 /\ topic'["sws"][i - 1] = topic["sws"][i]
      BY <1>1, <1>3, TopicsLeft
<1>8. \A k \in guard' : k[3] = g
      BY <1>1, <1>3 DEF Mark, Reported
<1>9. window' # NoEntry /\ window'.value = g /\ Rendered[window'.source][g] = g
  <2>1. CASE Conflict("sws")
        BY <1>3, <2>1 DEF Conflict, Reported
  <2>2. CASE ~Conflict("sws")
        BY <1>1, <1>3, <2>2, Kinds, GoalTyped
  <2> QED
      BY <2>1, <2>2
<1>10. \/ \A t \in System : value'[t] = Rendered[t][g]
       \/ feed'["sws"] # <<>>
       \/ \E i \in DOMAIN topic'["sws"] : topic'["sws"][i] = UserChange(g)
  <2>1. CASE Agreed
        BY <1>4, <2>1 DEF Agreed
  <2>2. CASE feed["sws"] # <<>>
        BY <1>5, <2>2
  <2>3. ASSUME NEW i \in DOMAIN topic["sws"], topic["sws"][i] = UserChange(g)
        PROVE  \/ \A t \in System : value'[t] = Rendered[t][g]
               \/ \E j \in DOMAIN topic'["sws"] : topic'["sws"][j] = UserChange(g)
    <3>1. CASE i # 1
          BY <1>7, <2>3, <3>1
    <3>2. CASE i = 1
      <4>1. W = Department
            BY <1>1, <1>2, <2>3, <3>2 DEF UserChange
      <4>2. \A t \in System : t \in W \/ t = "sws"
            BY <4>1 DEF System
      <4> QED
          BY <1>1, <1>4, <1>5, <4>2, GoalTyped
    <3> QED
        BY <3>1, <3>2
  <2> QED
      BY <2>1, <2>2, <2>3 DEF Reported, Pending
<1> HIDE DEF g
<1>11. checking' > 0 => reading' = g
      BY <1>3 DEF Reported, g
<1> QED
    BY <1>3, <1>5, <1>6, <1>7, <1>8, <1>9, <1>10, <1>11, ReportedNext

LEMMA DepartmentDispatch ==
    ASSUME DeptWinsAsIs, TypeOK, Reported, NEW s \in Department, Dispatch(s)
    PROVE  Reported'
<1> DEFINE g == Goal
           e == Head(topic[s])
           W == Written(s, e)
<1>1. /\ s \in System /\ s # "sws" /\ topic[s] # <<>> /\ e.value = Rendered[s][g]
      /\ Targets(s) = {"sws"} /\ g \in Value
  <2>1. s \in System /\ s # "sws" /\ Targets(s) = {"sws"} /\ g \in Value
        BY Systems, SyncAssumption, GoalTyped DEF Targets
  <2>2. topic[s] # <<>>
        BY <2>1, DispatchStep
  <2>3. e = topic[s][1] /\ 1 \in DOMAIN topic[s]
        BY <2>1, <2>2, Topics, Parts
  <2> QED
      BY <2>1, <2>2, <2>3 DEF Reported, Carries
<1>2. /\ Put([t \in W |-> Rendered[t][e.value]])
      /\ guard' = guard \cup {Mark(t, e) : t \in W}
      /\ window' = IF Conflict(s) THEN window ELSE [source |-> s, value |-> e.value]
      /\ topic' = [topic EXCEPT ![s] = Tail(@)]
      /\ UNCHANGED <<field, checking, reading, last>>
      BY <1>1, DispatchStep
<1>3. W \subseteq {"sws"} /\ (W # {} => e.value = g) /\ (~Conflict(s) => e.value = g)
      BY <1>1, OddLoses DEF Written, GoesOn
<1> HIDE DEF e, W
<1>4. \A t \in System : value'[t] = value[t] /\ feed'[t] = feed[t]
  <2>1. \A t \in W : Rendered[t][e.value] = value[t]
        BY <1>3, GoalTyped DEF Reported
  <2> QED
      BY <1>2, <2>1 DEF Put, Differs
<1>5. value'["sws"] = g /\ Goal' = g
      BY <1>2, <1>4, Systems DEF Reported, Goal
<1>6. \A t \in System : \A i \in DOMAIN feed'[t] : feed'[t][i] = Rendered[t][g]
      BY <1>4 DEF Reported, Carries
<1>7. /\ \A t \in System : \A i \in DOMAIN topic'[t] : topic'[t][i].value = Rendered[t][g]
      /\ \A t \in System : topic'[t] # <<>> => topic[t] # <<>>
      /\ topic'["sws"] = topic["sws"]
      BY <1>1, <1>2, TopicsLeft, Systems
<1>8. \A k \in guard' : k[3] = g
      BY <1>2, <1>3 DEF Mark, Reported
<1>9. window' # NoEntry /\ window'.value = g /\ Rendered[window'.source][g] = g
  <2>1. CASE Conflict(s)
        BY <1>2, <2>1 DEF Conflict, Reported
  <2>2. CASE ~Conflict(s)
        BY <1>1, <1>2, <1>3, <2>2, Kinds
  <2> QED
      BY <2>1, <2>2
<1>10. \/ \A t \in System : value'[t] = Rendered[t][g]
       \/ feed'["sws"] # <<>>
       \/ \E i \in DOMAIN topic'["sws"] : topic'["sws"][i] = UserChange(g)
      BY <1>4, <1>7, Systems DEF Reported, Agreed, Pending
<1> HIDE DEF g
<1>11. checking' > 0 => reading' = g
      BY <1>2 DEF Reported, g
<1> QED
    BY <1>2, <1>5, <1>6, <1>7, <1>8, <1>9, <1>10, <1>11, ReportedNext

(* The nightly run reads the goal from SWS and corrects towards it.        *)
LEMMA ReportedReconcile ==
    ASSUME TypeOK, Reported, StartReconcile \/ Compare
    PROVE  Reported'
<1> DEFINE g == Goal
<1>1. /\ UNCHANGED <<field, value, feed, window, last>> /\ Goal' = g
      /\ \A t \in System \ {"sws"} : topic'[t] = topic[t]
      BY Topics DEF StartReconcile, Compare, systems, history, Goal
<1>2. CASE StartReconcile
  <2>1. UNCHANGED <<guard, topic>> /\ reading' = g
        BY <1>2 DEF StartReconcile, Reported
  <2> QED
      BY <1>1, <2>1 DEF Reported, Carries, Odd, Agreed, Pending, Rendered
<1>3. CASE Compare
  <2>1. checking > 0 /\ reading = g /\ g \in Value /\ "sws" \in System
        BY <1>3, GoalTyped, Systems DEF Compare, Reported
  <2>2. checking' > 0 => reading' = g
        BY <1>3, <2>1 DEF Compare
  <2>3. \/ UNCHANGED <<topic, guard>>
        \/ /\ topic'["sws"] = Append(topic["sws"], Correction(g))
           /\ guard' = guard \cup {Mark(Departments[checking], Correction(g))}
        BY <1>3, <2>1, Topics DEF Compare
  <2>4. /\ topic["sws"] \in Seq(Event) /\ Correction(g) \in Event /\ Correction(g).value = g
        BY <2>1, Topics, EventTyped
  <2>5. /\ DOMAIN topic["sws"] \subseteq DOMAIN topic'["sws"]
        /\ \A i \in DOMAIN topic["sws"] : topic'["sws"][i] = topic["sws"][i]
        /\ \A i \in DOMAIN topic'["sws"] :
              (i \in DOMAIN topic["sws"] /\ topic'["sws"][i] = topic["sws"][i])
              \/ topic'["sws"][i] = Correction(g)
        BY <2>3, <2>4, Parts
  <2>6. \A t \in System : \A i \in DOMAIN topic'[t] : topic'[t][i].value = Rendered[t][g]
    <3>1. \A i \in DOMAIN topic'["sws"] : topic'["sws"][i].value = Rendered["sws"][g]
          BY <2>1, <2>4, <2>5, GoalTyped DEF Reported, Carries
    <3> QED
        BY <1>1, <3>1 DEF Reported, Carries
  <2>7. \A k \in guard' : k[3] = g
        BY <2>3, <2>4 DEF Reported, Mark
  <2>8. \A t \in System : \A i \in DOMAIN feed'[t] : feed'[t][i] = Rendered[t][g]
        BY <1>1 DEF Reported, Carries
  <2>9. /\ value'["sws"] = g
        /\ window' # NoEntry => window'.value = g /\ Rendered[window'.source][g] = g
        BY <1>1 DEF Reported
  <2>10. \A d \in Department :
            Rendered[d][g] # g /\ (feed'[d] # <<>> \/ topic'[d] # <<>>) => window' # NoEntry
        BY <1>1, Systems, SyncAssumption DEF Reported, Odd
  <2>11. \/ \A t \in System : value'[t] = Rendered[t][g]
         \/ feed'["sws"] # <<>>
         \/ \E i \in DOMAIN topic'["sws"] : topic'["sws"][i] = UserChange(g)
        BY <1>1, <2>5 DEF Reported, Agreed, Pending
  <2> HIDE DEF g
  <2> QED
      BY <1>1, <2>2, <2>6, <2>7, <2>8, <2>9, <2>10, <2>11, ReportedNext
<1> QED
    BY <1>2, <1>3

(* The window closes only when no department's own rendering is left.      *)
LEMMA ReportedExpire ==
    ASSUME TypeOK, Reported, Expire
    PROVE  Reported'
<1>1. /\ guard' \subseteq guard /\ window' \in {window, NoEntry} /\ Quiet
      /\ UNCHANGED <<field, value, feed, topic, checking, reading, last>>
      BY DEF Expire, systems, reconcile, history
<1>2. ASSUME NEW d \in Department
      PROVE  ~Odd(d)
  <2>1. SUFFICES ASSUME Odd(d) PROVE FALSE
        OBVIOUS
  <2>2. d \in System /\ topic[d] = <<>> /\ Unguarded(d) = {}
        BY <1>1, Systems DEF Quiet
  <2>3. 1 \in DOMAIN feed[d] /\ feed[d][1] = Rendered[d][Goal] /\ Rendered[d][Goal] # Goal
        BY <2>1, <2>2, Topics, Parts DEF Odd, Reported, Carries
  <2>4. Recent(d, feed[d][1])
        BY <2>2, <2>3 DEF Unguarded
  <2>5. <<d, FieldName[d], feed[d][1]>>[3] = Goal
        BY <2>4 DEF Recent, Reported
  <2> QED
      BY <2>3, <2>5
<1> QED
    BY <1>1, <1>2 DEF Reported, Carries, Odd, Agreed, Pending, Rendered, Goal

LEMMA ReportedLapse ==
    ASSUME Reported, Lapse
    PROVE  Reported'
BY DEF Lapse, systems, history, Reported, Carries, Odd, Agreed, Pending, Rendered, Goal

LEMMA AgreeStep ==
    ASSUME Apart, DeptWinsAsIs, TypeOK, AgreeInv, [Next]_vars
    PROVE  AgreeInv'
<1>1. losses \in Nat
      BY GoalTyped
<1>2. ASSUME losses' = losses, Entered => Entered' \/ Reported', Reported => Entered' \/ Reported'
      PROVE  AgreeInv'
      BY <1>2 DEF AgreeInv
<1>3. CASE UNCHANGED vars
      BY <1>3 DEF AgreeInv, Entered, Reported, Carries, Odd, Agreed, Pending, Rendered, Goal,
         vars, systems, reconcile, history
<1>4. ASSUME NEW s \in Editors, NEW v \in Value, Edit(s, v)
      PROVE  AgreeInv'
      BY <1>4, AgreeEdit DEF AgreeInv, Edit
<1>5. ASSUME NEW s \in System, Overtake(s) \/ GiveUp(s)
      PROVE  AgreeInv'
      BY <1>1, <1>5 DEF AgreeInv, Overtake, GiveUp
<1>6. ASSUME NEW s \in System, Poll(s)
      PROVE  AgreeInv'
      BY <1>2, <1>6, EnteredPoll, ReportedPoll DEF Poll, history
<1>7. ASSUME NEW s \in System, Dispatch(s)
      PROVE  AgreeInv'
  <2>1. losses' = losses
        BY <1>7 DEF Dispatch, history
  <2>2. Reported => Reported'
        BY <1>7, SwsDispatch, DepartmentDispatch, Systems
  <2> QED
      BY <1>2, <1>7, <2>1, <2>2, EnteredDispatch
<1>8. ASSUME StartReconcile \/ Compare \/ Expire \/ Lapse
      PROVE  AgreeInv'
  <2>1. losses' = losses
        BY <1>8 DEF StartReconcile, Compare, Expire, Lapse, history
  <2>2. ~Entered
        BY <1>8, EnteredIsBusy DEF StartReconcile, Compare, Expire, Lapse, Entered
  <2> QED
      BY <1>2, <1>8, <2>1, <2>2, ReportedReconcile, ReportedExpire, ReportedLapse
<1> QED
    BY <1>3, <1>4, <1>5, <1>6, <1>7, <1>8 DEF Next

-----------------------------------------------------------------------------
(* Every variable keeps its type, and no idempotency key outlives its      *)
(* nights, also with the events of a poll built one by one (the pollers,   *)
(* dispatcher and nightly run).                                            *)
THEOREM TypeCorrect == Spec => []TypeOK
BY TypeAlways

(* SyncKar comes to rest only with the last change of a user in every      *)
(* system, in its rendering, and nothing that is read back, loses late or  *)
(* is corrected at night undoes it: for any number of departments, values  *)
(* and fields, as long as users wait for one another, no event is given up *)
(* and what departments decide is handed over as it is, as in the mapping  *)
(* files (the pollers, loop guard, conflict window, dispatcher and         *)
(* reconcile_sample).                                                      *)
THEOREM AgreementAtRest ==
    ASSUME Apart, DeptWinsAsIs
    PROVE  Spec => []RestsInAgreement
<1>1. Init => AgreeInv
      BY AgreeInit DEF AgreeInv
<1>2. TypeOK /\ AgreeInv /\ [Next]_vars => AgreeInv'
      BY AgreeStep
<1>3. TypeOK /\ AgreeInv => RestsInAgreement
      BY RestLemma DEF RestsInAgreement
<1> QED
    BY <1>1, <1>2, <1>3, TypeAlways, PTL DEF Spec
=============================================================================
