--------------------------- MODULE ConflictProofs ---------------------------
(***************************************************************************)
(* Proofs about Conflict, for any departments, values, policies, number of *)
(* workers, changes and failures.                                          *)
(***************************************************************************)
EXTENDS Conflict, TLAPS

ChangeRecord == [source : System, value : Value]

LEMMA Routes ==
    ASSUME TypeOK, NEW e \in 1 .. Len(changes)
    PROVE  /\ Source(e) \in System /\ NewValue(e) \in Value /\ changes[e] \in ChangeRecord
           /\ e \in Event /\ e # NoEvent
           /\ Targets(e) \in Seq(System) /\ Len(Targets(e)) \in Nat \ {0}
           /\ DOMAIN Targets(e) = 1 .. Len(Targets(e))
           /\ \A i \in DOMAIN Targets(e) :
                 /\ Targets(e)[i] \in System
                 /\ Source(e) = "sws" <=> Targets(e)[i] # "sws"
<1>1. changes \in Seq(ChangeRecord) /\ Len(changes) <= MaxChanges
      BY DEF TypeOK, ChangeRecord
<1>2. changes[e] \in ChangeRecord
      BY <1>1
<1>3. Source(e) \in System /\ NewValue(e) \in Value
      BY <1>2 DEF ChangeRecord, Source, NewValue
<1>4. e \in Event /\ e # NoEvent
      BY <1>1, ConflictAssumption DEF Event, NoEvent
<1>5. CASE Source(e) = "sws"
  <2>1. Targets(e) = Departments
        BY <1>5 DEF Targets
  <2>2. Departments \in Seq(Department) /\ Departments # <<>>
        BY ConflictAssumption
  <2>3. \A i \in DOMAIN Departments : Departments[i] \in Department /\ Departments[i] # "sws"
        BY ConflictAssumption DEF Department
  <2>4. Len(Departments) \in Nat \ {0} /\ DOMAIN Departments = 1 .. Len(Departments)
        BY <2>2
  <2>5. Departments \in Seq(System)
        BY <2>2, <2>3, <2>4 DEF System
  <2> QED
      BY <1>2, <1>3, <1>4, <1>5, <2>1, <2>3, <2>4, <2>5 DEF System
<1>6. CASE Source(e) # "sws"
  <2>1. Targets(e) = <<"sws">>
        BY <1>6 DEF Targets
  <2> QED
      BY <1>2, <1>3, <1>4, <1>6, <2>1 DEF System
<1> QED
    BY <1>5, <1>6

LEMMA InvInit == Init => IInv
<1> SUFFICES ASSUME Init PROVE IInv
    OBVIOUS
<1>1. TypeOK
  <2>1. policy \in Policy
        BY ConflictAssumption DEF Init
  <2>2. base \in [System -> Nat]
        BY ConflictAssumption DEF Init
  <2>3. <<>> \in Seq(ChangeRecord) /\ Len(<<>>) = 0
        OBVIOUS
  <2>4. value \in [System -> Value]
        BY DEF Init
  <2>5. changes = <<>> /\ changes \in Seq(ChangeRecord) /\ 0 \in 0 .. Len(changes)
        /\ Len(changes) <= MaxChanges /\ 0 \in 0 .. MaxFaults
        BY <2>3, ConflictAssumption DEF Init
  <2> QED
      BY <2>1, <2>2, <2>4, <2>5 DEF Init, TypeOK, NoEvent, ChangeRecord
<1> QED
    BY <1>1 DEF Init, IInv, OneHolder, RoundOpen, SeenOwn, WritesEarned, NoEvent

(* The end of a turn: the worker goes to its next target or lets go of the *)
(* event; nobody else is affected.                                         *)
LEMMA TurnEnds ==
    ASSUME IInv, NEW w \in Worker, wpc[w] # "idle", NEW fails \in BOOLEAN, EndTurn(w, fails)
    PROVE  /\ stage' \in [Event -> {"none", "fresh", "taken", "retry", "done"}]
           /\ event' \in [Worker -> 0 .. Len(changes)]
           /\ turn' \in [Worker -> Nat] /\ failed' \in [Worker -> BOOLEAN]
           /\ wpc' \in [Worker -> {"idle", "look", "register", "write"}]
           /\ wpc'[w] \in {"idle", "look"}
           /\ event'[w] \in {event[w], NoEvent}
           /\ \A v \in Worker : v # w => event'[v] = event[v] /\ wpc'[v] = wpc[v]
                                         /\ turn'[v] = turn[v]
           /\ \A e \in Event : e # event[w] => stage'[e] = stage[e]
           /\ stage'[event[w]] \in {"taken", "retry", "done"}
           /\ IF event'[w] = NoEvent THEN wpc'[w] = "idle"
              ELSE /\ wpc'[w] # "idle" /\ stage'[event[w]] = "taken"
                   /\ turn'[w] \in DOMAIN Targets(event[w])
<1>1. event[w] \in 1 .. Len(changes) /\ stage[event[w]] = "taken"
      /\ turn[w] \in DOMAIN Targets(event[w])
      BY DEF IInv, TypeOK, NoEvent
<1>2. event[w] \in Event /\ event[w] # NoEvent /\ Len(Targets(event[w])) \in Nat
      /\ DOMAIN Targets(event[w]) = 1 .. Len(Targets(event[w]))
      BY <1>1, Routes DEF IInv
<1> USE DEF IInv, TypeOK, Goto
<1>3. CASE turn[w] < Len(Targets(event[w]))
  <2>1. /\ turn' = [turn EXCEPT ![w] = @ + 1]
        /\ failed' = [failed EXCEPT ![w] = @ \/ fails]
        /\ wpc' = [wpc EXCEPT ![w] = "look"] /\ UNCHANGED <<stage, event>>
        BY <1>3 DEF EndTurn
  <2>2. failed' \in [Worker -> BOOLEAN]
        BY <2>1, Zenon
  <2>3. turn'[w] = turn[w] + 1 /\ turn'[w] \in DOMAIN Targets(event[w])
        BY <1>1, <1>2, <1>3, <2>1
  <2> QED
      BY <1>1, <1>2, <2>1, <2>2, <2>3
<1>4. CASE ~(turn[w] < Len(Targets(event[w])))
  <2>1. PICK s \in {"retry", "done"} :
           /\ stage' = [stage EXCEPT ![event[w]] = s]
           /\ event' = [event EXCEPT ![w] = NoEvent]
           /\ turn' = [turn EXCEPT ![w] = 1]
           /\ failed' = [failed EXCEPT ![w] = FALSE]
           /\ wpc' = [wpc EXCEPT ![w] = "idle"]
        BY <1>4 DEF EndTurn
  <2> QED
      BY <1>1, <1>2, <2>1 DEF NoEvent
<1> QED
    BY <1>3, <1>4

LEMMA Faulted == TypeOK /\ Fault => faults' \in 0 .. MaxFaults
BY ConflictAssumption DEF Fault, TypeOK

(* What the other workers need when one ends its turn or moves on with its *)
(* event: the same events, sources, values and round.                      *)
LEMMA SameRound ==
    ASSUME UNCHANGED <<changes, policy, settled>>
    PROVE  /\ Round' = Round /\ Authority' = Authority
           /\ \A e : /\ Source(e)' = Source(e) /\ NewValue(e)' = NewValue(e)
                     /\ Targets(e)' = Targets(e)
           /\ \A s : Changed(s)' = Changed(s)
BY DEF Round, Authority, Source, NewValue, Targets, Changed

(* A step after which the worker has ended its turn.                       *)
LEMMA EndPreserves ==
    ASSUME IInv, NEW w \in Worker, wpc[w] # "idle", NEW fails \in BOOLEAN, EndTurn(w, fails),
           UNCHANGED <<kept, changes, window, seen, settled>>,
           escaped' \in BOOLEAN, escaped => escaped',
           value' \in [System -> Value], completed' \subseteq Event \X System,
           log' \subseteq Event \X Event, faults' \in 0 .. MaxFaults
    PROVE  IInv'
<1>1. UNCHANGED <<changes, policy, settled, base>>
      BY DEF kept
<1>2. event[w] \in 1 .. Len(changes) /\ event[w] \in Event
  <2>1. event[w] \in 1 .. Len(changes)
        BY DEF IInv, TypeOK, NoEvent
  <2> QED
      BY <2>1, Routes DEF IInv
<1>3. TypeOK'
  <2>1. \A v \in Worker : IF event'[v] = NoEvent THEN wpc'[v] = "idle"
          ELSE wpc'[v] # "idle" /\ stage'[event'[v]] = "taken" /\ turn'[v] \in DOMAIN Targets(event'[v])
    <3>1. ASSUME NEW v \in Worker, v # w, event'[v] # NoEvent
          PROVE  wpc'[v] # "idle" /\ stage'[event'[v]] = "taken" /\ turn'[v] \in DOMAIN Targets(event'[v])
      <4>1. event'[v] = event[v] /\ wpc'[v] = wpc[v] /\ turn'[v] = turn[v] /\ event[v] # event[w]
            BY <3>1, TurnEnds DEF IInv, OneHolder
      <4>2. event[v] \in 1 .. Len(changes)
            BY <3>1, <4>1 DEF IInv, TypeOK, NoEvent
      <4>3. event[v] \in Event
            BY <4>2, Routes DEF IInv
      <4>4. stage'[event[v]] = stage[event[v]]
            BY <4>1, <4>3, TurnEnds
      <4> QED
          BY <3>1, <4>1, <4>4 DEF IInv, TypeOK
    <3>2. ASSUME NEW v \in Worker, v # w, event'[v] = NoEvent
          PROVE  wpc'[v] = "idle"
          BY <3>2, TurnEnds DEF IInv, TypeOK
    <3> QED
        BY <3>1, <3>2, TurnEnds
  <2>2. \A v \in Worker : IF event'[v] = NoEvent THEN wpc'[v] = "idle"
          ELSE wpc'[v] # "idle" /\ stage'[event'[v]] = "taken" /\ turn'[v] \in DOMAIN Targets(event[v])'
        BY <2>1, <1>1 DEF Targets, Source
  <2>3. /\ stage' \in [Event -> {"none", "fresh", "taken", "retry", "done"}]
        /\ event' \in [Worker -> 0 .. Len(changes)]
        /\ turn' \in [Worker -> Nat] /\ failed' \in [Worker -> BOOLEAN]
        /\ wpc' \in [Worker -> {"idle", "look", "register", "write"}]
        BY TurnEnds
  <2>4. UNCHANGED <<policy, base, changes, window, seen, settled>> /\ Event' = Event
        BY <1>1 DEF Event
  <2> QED
      BY <2>2, <2>3, <2>4 DEF IInv, TypeOK
<1>4. OneHolder'
      BY TurnEnds DEF IInv, OneHolder
<1>5. RoundOpen'
  <2>1. \A e \in Event : stage'[e] = stage[e] \/ e = event[w]
        BY TurnEnds
  <2>2. event[w] \in Round
        BY <1>2 DEF IInv, TypeOK, RoundOpen
  <2>3. Event' = Event
        BY DEF Event
  <2>4. ASSUME NEW e \in 1 .. Len(changes) PROVE stage'[e] # "none"
    <3>1. e \in Event /\ stage[e] # "none"
          BY Routes DEF IInv, RoundOpen
    <3> QED
        BY <2>1, <3>1, TurnEnds
  <2>5. \A e \in Event : stage'[e] \in {"fresh", "taken", "retry"} => e \in Round
        BY <2>1, <2>2 DEF IInv, RoundOpen
  <2>6. Round' = Round
        BY <1>1, SameRound
  <2>7. window' # NoEvent => window' \in Round'
        BY <1>1, <2>6 DEF IInv, RoundOpen
  <2>8. \A e \in Event' : stage'[e] \in {"fresh", "taken", "retry"} => e \in Round'
        BY <2>3, <2>5, <2>6
  <2>9. \A e \in 1 .. Len(changes') : stage'[e] # "none"
        BY <1>1, <2>4
  <2> QED
      BY <2>7, <2>8, <2>9 DEF RoundOpen
<1>6. SeenOwn'
  <2> SUFFICES ASSUME NEW v \in Worker, wpc'[v] = "register", seen'[v] # NoEvent
               PROVE  Source(seen[v])' = Source(event[v])'
      BY DEF SeenOwn
  <2>1. v # w /\ wpc[v] = "register" /\ event'[v] = event[v] /\ seen' = seen
        BY TurnEnds
  <2>2. Source(seen[v]) = Source(event[v])
        BY <2>1 DEF IInv, SeenOwn
  <2> QED
      BY <1>1, <2>1, <2>2 DEF Source
<1>7. WritesEarned'
  <2> SUFFICES ASSUME NEW v \in Worker, wpc'[v] = "write", ~escaped'
               PROVE  Earned(v)'
      BY DEF WritesEarned
  <2>1. v # w /\ wpc[v] = "write" /\ event'[v] = event[v] /\ ~escaped
        BY TurnEnds
  <2>2. Earned(v)
        BY <2>1 DEF IInv, WritesEarned
  <2> QED
      BY <1>1, <2>1, <2>2, SameRound DEF Earned
<1> QED
    BY <1>3, <1>4, <1>5, <1>6, <1>7 DEF IInv

-----------------------------------------------------------------------------
(* A worker that looked, or lost the connection, goes on with its event.   *)
LEMMA MovePreserves ==
    ASSUME IInv, NEW w \in Worker, event[w] # NoEvent,
           NEW place \in {"look", "register", "write"}, wpc' = [wpc EXCEPT ![w] = place],
           UNCHANGED <<kept, changes, value, stage, event, turn, failed, completed, settled>>,
           window' \in {window, event[w]},
           window # NoEvent => escaped' \/ window' = window
                                 \/ Source(window') = Source(window),
           escaped' \in BOOLEAN, escaped => escaped',
           log' \subseteq Event \X Event, faults' \in 0 .. MaxFaults,
           NEW s \in 0 .. Len(changes), seen' = [seen EXCEPT ![w] = s],
           place = "register" /\ s # NoEvent => Source(s) = Source(event[w]),
           place = "write" => escaped' \/ Earned(w)'
    PROVE  IInv'
<1>1. UNCHANGED <<changes, policy, settled, base>> /\ Event' = Event
      BY DEF kept, Event
<1>2. event[w] \in 1 .. Len(changes)
      BY DEF IInv, TypeOK, NoEvent
<1>3. TypeOK'
  <2>1. wpc' \in [Worker -> {"idle", "look", "register", "write"}]
        /\ seen' \in [Worker -> 0 .. Len(changes)] /\ window' \in 0 .. Len(changes)
        BY <1>2 DEF IInv, TypeOK
  <2>2. \A v \in Worker : IF event[v] = NoEvent THEN wpc'[v] = "idle"
          ELSE wpc'[v] # "idle" /\ stage[event[v]] = "taken" /\ turn[v] \in DOMAIN Targets(event[v])
        BY DEF IInv, TypeOK
  <2>3. \A v \in Worker : Targets(event[v])' = Targets(event[v])
        BY <1>1, SameRound
  <2> QED
      BY <1>1, <2>1, <2>2, <2>3 DEF IInv, TypeOK
<1>4. OneHolder'
      BY DEF IInv, OneHolder
<1>5. RoundOpen'
  <2>1. event[w] \in Round
        BY <1>2, Routes DEF IInv, TypeOK, RoundOpen
  <2>2. Round' = Round
        BY <1>1, SameRound
  <2>3. window' # NoEvent => window' \in Round
        BY <2>1 DEF IInv, RoundOpen
  <2> QED
      BY <1>1, <2>2, <2>3 DEF IInv, RoundOpen
<1>6. SeenOwn'
      BY <1>1, SameRound DEF IInv, SeenOwn, TypeOK
<1>7. WritesEarned'
  <2> SUFFICES ASSUME NEW v \in Worker, wpc'[v] = "write", ~escaped', v # w
               PROVE  Earned(v)'
      BY DEF WritesEarned, IInv, TypeOK
  <2>1. wpc[v] = "write" /\ event'[v] = event[v] /\ ~escaped
        BY DEF IInv, TypeOK
  <2>2. Earned(v)
        BY <2>1 DEF IInv, WritesEarned
  <2>3. window' # NoEvent /\ Source(window') = Source(window)
        BY <1>2, <2>2 DEF Earned, NoEvent
  <2>4. Source(window)' = Source(window')
        BY <1>1 DEF Source
  <2> QED
      BY <1>1, <2>1, <2>2, <2>3, <2>4, SameRound DEF Earned
<1> QED
    BY <1>3, <1>4, <1>5, <1>6, <1>7 DEF IInv


-----------------------------------------------------------------------------
(* A user's change extends the round.                                      *)
LEMMA ChangePreserves ==
    ASSUME IInv, NEW s \in System, NEW v \in Value, Change(s, v)
    PROVE  IInv'
<1> DEFINE n == Len(changes) + 1
           c == [source |-> s, value |-> v]
<1>1. /\ changes' = Append(changes, c) /\ stage' = [stage EXCEPT ![n] = "fresh"]
      /\ value' = [value EXCEPT ![s] = v]
      /\ UNCHANGED <<policy, base, window, workers, completed, log, settled, escaped, faults>>
      BY DEF Change, kept, history
<1>2. changes \in Seq(ChangeRecord) /\ c \in ChangeRecord /\ Len(changes) < MaxChanges
      /\ Len(changes) \in Nat
      BY DEF IInv, TypeOK, ChangeRecord, Change
<1>3. /\ changes' \in Seq(ChangeRecord) /\ Len(changes') = n
      /\ \A e \in 1 .. Len(changes) : changes'[e] = changes[e]
      BY <1>1, <1>2
<1>4. \A e \in 1 .. Len(changes) : /\ Source(e)' = Source(e) /\ NewValue(e)' = NewValue(e)
                                   /\ Targets(e)' = Targets(e)
      BY <1>3 DEF Source, NewValue, Targets
<1>5. \A w \in Worker : event[w] # NoEvent => event[w] \in 1 .. Len(changes) /\ event[w] # n
      BY <1>2 DEF IInv, TypeOK, NoEvent
<1>6. n \in Event /\ n \in Round' /\ Round \subseteq Round' /\ Event' = Event
      BY <1>1, <1>2, <1>3, ConflictAssumption DEF Event, Round, IInv, TypeOK
<1>7. TypeOK'
  <2>1. ASSUME NEW w \in Worker, event[w] # NoEvent
        PROVE  stage'[event[w]] = "taken" /\ turn[w] \in DOMAIN Targets(event[w])'
    <3>1. event[w] \in 1 .. Len(changes) /\ event[w] # n
          BY <1>5, <2>1
    <3>2. event[w] \in Event
          BY <3>1, Routes DEF IInv
    <3>3. changes'[event[w]] = changes[event[w]] /\ event' = event
          BY <1>1, <1>3, <3>1 DEF workers
    <3>4. Targets(event[w])' = Targets(event[w])
          BY <3>3 DEF Targets, Source
    <3> QED
        BY <1>1, <2>1, <3>1, <3>2, <3>4 DEF IInv, TypeOK
  <2>2. Len(changes') <= MaxChanges /\ 0 .. Len(changes) \subseteq 0 .. Len(changes')
        BY <1>2, <1>3, ConflictAssumption
  <2>3. stage' \in [Event -> {"none", "fresh", "taken", "retry", "done"}]
        /\ value' \in [System -> Value]
        BY <1>1 DEF IInv, TypeOK
  <2>4. \A w \in Worker : IF event[w] = NoEvent THEN wpc[w] = "idle"
             ELSE wpc[w] # "idle" /\ stage'[event[w]] = "taken"
                  /\ turn[w] \in DOMAIN Targets(event[w])'
        BY <2>1 DEF IInv, TypeOK
  <2>5. event' = event
        BY <1>1 DEF workers
  <2> QED
      BY <1>1, <1>3, <1>6, <2>2, <2>3, <2>4, <2>5 DEF IInv, TypeOK, workers, ChangeRecord
<1>8. OneHolder'
      BY <1>1 DEF IInv, OneHolder, workers
<1>9. RoundOpen'
  <2>1. \A e \in Event : stage'[e] = stage[e] \/ e = n
        BY <1>1 DEF IInv, TypeOK
  <2>2. stage'[n] = "fresh"
        BY <1>1, <1>6 DEF IInv, TypeOK
  <2>3. ASSUME NEW e \in 1 .. Len(changes') PROVE stage'[e] # "none"
    <3>1. CASE e = n
          BY <2>2, <3>1
    <3>2. CASE e # n
      <4>1. e \in 1 .. Len(changes)
            BY <1>2, <1>3, <3>2
      <4>2. e \in Event /\ stage[e] # "none"
            BY <4>1, Routes DEF IInv, RoundOpen
      <4> QED
          BY <2>1, <3>2, <4>2
    <3> QED
        BY <3>1, <3>2
  <2>4. window' # NoEvent => window' \in Round'
        BY <1>1, <1>6 DEF IInv, RoundOpen
  <2>5. \A e \in Event : stage'[e] \in {"fresh", "taken", "retry"} => e \in Round'
        BY <1>6, <2>1 DEF IInv, RoundOpen
  <2> QED
      BY <1>6, <2>3, <2>4, <2>5 DEF RoundOpen
<1>10. SeenOwn'
  <2> SUFFICES ASSUME NEW w \in Worker, wpc[w] = "register", seen[w] # NoEvent
               PROVE  Source(seen[w])' = Source(event[w])'
      BY <1>1 DEF SeenOwn, workers
  <2>1. seen[w] \in 1 .. Len(changes) /\ event[w] \in 1 .. Len(changes)
        BY DEF IInv, TypeOK, NoEvent
  <2>2. Source(seen[w]) = Source(event[w])
        BY DEF IInv, SeenOwn
  <2>3. seen'[w] = seen[w] /\ event'[w] = event[w]
        BY <1>1 DEF workers
  <2> QED
      BY <1>3, <2>1, <2>2, <2>3 DEF Source
<1>11. WritesEarned'
  <2> SUFFICES ASSUME NEW w \in Worker, wpc[w] = "write", ~escaped
               PROVE  Earned(w)'
      BY <1>1 DEF WritesEarned, workers
  <2>1. Earned(w)
        BY DEF IInv, WritesEarned
  <2>2. window \in 1 .. Len(changes) /\ event[w] \in 1 .. Len(changes)
        /\ window' = window /\ event'[w] = event[w] /\ Authority' = Authority
        BY <1>1, <2>1 DEF IInv, TypeOK, NoEvent, Earned, Authority, workers
  <2>3. Source(window)' = Source(window) /\ Source(event[w])' = Source(event[w])
        /\ NewValue(event[w])' = NewValue(event[w])
        BY <1>3, <2>2 DEF Source, NewValue
  <2>4. ASSUME NEW d \in Changed(Source(window))
        PROVE  d \in Changed(Source(window))' /\ NewValue(d)' = NewValue(d)
    <3>1. d \in 1 .. Len(changes) /\ d \in Round /\ Source(d) = Source(window)
          BY DEF Changed, Round, IInv, TypeOK
    <3>2. d \in Round' /\ Source(d)' = Source(window)'
          BY <1>4, <1>6, <2>3, <3>1
    <3> QED
        BY <1>4, <3>1, <3>2 DEF Changed
  <2>5. Source(window) \in Authority /\ Source(event[w]) \notin Authority
          => \E d \in Changed(Source(window))' : NewValue(d)' = NewValue(event[w])
        BY <2>1, <2>4 DEF Earned
  <2>6. window # NoEvent
        BY <2>1 DEF Earned
  <2> QED
      BY <2>2, <2>3, <2>5, <2>6 DEF Earned
<1> QED
    BY <1>7, <1>8, <1>9, <1>10, <1>11 DEF IInv

-----------------------------------------------------------------------------
(* A worker takes an event nobody holds.                                   *)
LEMMA TakePreserves ==
    ASSUME IInv, NEW w \in Worker, NEW e \in 1 .. Len(changes), Take(w, e)
    PROVE  IInv'
<1>1. /\ stage' = [stage EXCEPT ![e] = "taken"] /\ event' = [event EXCEPT ![w] = e]
      /\ turn' = [turn EXCEPT ![w] = 1] /\ failed' = [failed EXCEPT ![w] = FALSE]
      /\ wpc' = [wpc EXCEPT ![w] = "look"] /\ wpc[w] = "idle"
      /\ stage[e] \in {"fresh", "retry"}
      /\ UNCHANGED <<policy, base, changes, value, window, seen, completed, log,
                     settled, escaped, faults>>
      BY DEF Take, Goto, kept, history
<1>2. e \in Event /\ e # NoEvent /\ 1 \in DOMAIN Targets(e) /\ e \in 0 .. Len(changes)
      BY Routes DEF IInv
<1>3. \A v \in Worker : event[v] # e
      BY <1>1, <1>2 DEF IInv, TypeOK
<1>4. Event' = Event /\ Round' = Round
      BY <1>1, SameRound DEF Event
<1>5. TypeOK'
  <2>1. ASSUME NEW v \in Worker
        PROVE  IF event'[v] = NoEvent THEN wpc'[v] = "idle"
               ELSE wpc'[v] # "idle" /\ stage'[event'[v]] = "taken"
                    /\ turn'[v] \in DOMAIN Targets(event[v])'
    <3>1. CASE v = w
      <4>1. event'[w] = e /\ wpc'[w] = "look" /\ turn'[w] = 1 /\ stage'[e] = "taken"
            BY <1>1, <1>2 DEF IInv, TypeOK
      <4>2. Targets(event[w])' = Targets(e)
            BY <1>1, <4>1 DEF Targets, Source
      <4> QED
          BY <1>2, <3>1, <4>1, <4>2
    <3>2. CASE v # w
      <4>1. event'[v] = event[v] /\ wpc'[v] = wpc[v] /\ turn'[v] = turn[v] /\ event[v] # e
            BY <1>1, <1>3, <3>2 DEF IInv, TypeOK
      <4>2. Targets(event[v])' = Targets(event[v])
            BY <1>1, <4>1 DEF Targets, Source
      <4>3. event[v] # NoEvent => stage'[event[v]] = stage[event[v]]
            BY <1>1, <4>1
      <4> QED
          BY <4>1, <4>2, <4>3 DEF IInv, TypeOK
    <3> QED
        BY <3>1, <3>2
  <2>2. stage' \in [Event -> {"none", "fresh", "taken", "retry", "done"}]
        /\ event' \in [Worker -> 0 .. Len(changes)] /\ turn' \in [Worker -> Nat]
        /\ wpc' \in [Worker -> {"idle", "look", "register", "write"}]
        BY <1>1, <1>2 DEF IInv, TypeOK
  <2>3. failed' \in [Worker -> BOOLEAN]
        BY <1>1 DEF IInv, TypeOK
  <2> QED
      BY <1>1, <1>4, <2>1, <2>2, <2>3 DEF IInv, TypeOK
<1>6. OneHolder'
      BY <1>1, <1>3 DEF IInv, OneHolder, TypeOK
<1>7. RoundOpen'
  <2>1. \A d \in Event : stage'[d] = IF d = e THEN "taken" ELSE stage[d]
        BY <1>1 DEF IInv, TypeOK
  <2>2. e \in Round
        BY <1>1, <1>2 DEF IInv, RoundOpen
  <2>3. ASSUME NEW d \in 1 .. Len(changes) PROVE stage'[d] # "none"
        BY <2>1, Routes DEF IInv, RoundOpen
  <2> QED
      BY <1>1, <1>4, <2>1, <2>2, <2>3 DEF IInv, RoundOpen
<1>8. SeenOwn'
  <2> SUFFICES ASSUME NEW v \in Worker, wpc'[v] = "register", seen[v] # NoEvent
               PROVE  Source(seen[v])' = Source(event[v])'
      BY <1>1 DEF SeenOwn
  <2>1. wpc[v] = "register" /\ event'[v] = event[v]
        BY <1>1 DEF IInv, TypeOK
  <2>2. Source(seen[v]) = Source(event[v])
        BY <2>1 DEF IInv, SeenOwn
  <2> QED
      BY <1>1, <2>1, <2>2 DEF Source
<1>9. WritesEarned'
  <2> SUFFICES ASSUME NEW v \in Worker, wpc'[v] = "write", ~escaped
               PROVE  Earned(v)'
      BY <1>1 DEF WritesEarned
  <2>1. wpc[v] = "write" /\ event'[v] = event[v]
        BY <1>1 DEF IInv, TypeOK
  <2>2. Earned(v)
        BY <2>1 DEF IInv, WritesEarned
  <2> QED
      BY <1>1, <2>1, <2>2, SameRound DEF Earned
<1> QED
    BY <1>5, <1>6, <1>7, <1>8, <1>9 DEF IInv

(* The key expires: at rest nobody holds an event, and every event so far  *)
(* is done; otherwise events got past the window.                          *)
LEMMA ExpirePreserves == IInv /\ Expire => IInv'
<1> SUFFICES ASSUME IInv, Expire PROVE IInv'
    OBVIOUS
<1>1. /\ window' = NoEvent /\ settled' = (IF AtRest THEN Len(changes) ELSE settled)
      /\ escaped' = ~AtRest
      /\ UNCHANGED <<policy, base, changes, value, stage, wpc, event, turn, seen, failed,
                     completed, log>>
      BY DEF Expire, kept, workers
<1>2. escaped' \in BOOLEAN /\ faults' \in 0 .. MaxFaults
      BY <1>1, Faulted DEF Expire, IInv, TypeOK
<1>3. settled' \in 0 .. Len(changes)
      BY <1>1 DEF IInv, TypeOK
<1>4. Event' = Event /\ (\A v \in Worker : Targets(event[v])' = Targets(event[v]))
      BY <1>1 DEF Event, Targets, Source
<1>5. TypeOK'
      BY <1>1, <1>2, <1>3, <1>4 DEF IInv, TypeOK, NoEvent
<1>6. OneHolder' /\ SeenOwn'
      BY <1>1 DEF IInv, OneHolder, SeenOwn, Source
<1>7. RoundOpen'
  <2>1. CASE AtRest
    <3>1. \A e \in Event : stage[e] \in {"fresh", "taken", "retry"} => FALSE
          BY <2>1 DEF AtRest, IInv, RoundOpen, Round, TypeOK
    <3> QED
        BY <1>1, <1>4, <3>1 DEF IInv, RoundOpen
  <2>2. CASE ~AtRest
        BY <1>1, <1>4, <2>2 DEF IInv, RoundOpen, Round
  <2> QED
      BY <2>1, <2>2
<1>8. WritesEarned'
  <2> SUFFICES ASSUME NEW w \in Worker, wpc[w] = "write", AtRest
               PROVE  FALSE
      BY <1>1 DEF WritesEarned
  <2>1. event[w] \in 1 .. Len(changes) /\ stage[event[w]] = "taken"
        BY DEF IInv, TypeOK, NoEvent
  <2> QED
      BY <2>1 DEF AtRest
<1> QED
    BY <1>5, <1>6, <1>7, <1>8 DEF IInv

-----------------------------------------------------------------------------
LEMMA Busy ==
    ASSUME IInv, NEW w \in Worker, wpc[w] # "idle"
    PROVE  /\ event[w] # NoEvent /\ event[w] \in 1 .. Len(changes) /\ event[w] \in Event
           /\ TargetOf(w) \in System /\ NewValue(event[w]) \in Value
           /\ (Source(event[w]) = "sws" <=> TargetOf(w) # "sws")
           /\ window \in Event \cup {NoEvent}
<1>1. event[w] # NoEvent /\ event[w] \in 1 .. Len(changes)
      /\ turn[w] \in DOMAIN Targets(event[w])
      BY DEF IInv, TypeOK, NoEvent
<1>2. window # NoEvent => window \in 1 .. Len(changes)
      BY DEF IInv, TypeOK, NoEvent
<1> QED
    BY <1>1, <1>2, Routes DEF IInv, TargetOf

(* Turns that end: refused, logged in vain, written, failed.               *)
LEMMA EndingPreserves ==
    ASSUME IInv, NEW w \in Worker,
           Refused(w) \/ LogFails(w) \/ Write(w) \/ WriteFails(w)
    PROVE  IInv'
<1>1. CASE Refused(w)
  <2>1. wpc[w] # "idle" /\ (EndTurn(w, TRUE) \/ EndTurn(w, FALSE))
        /\ UNCHANGED <<kept, changes, window, seen, settled, value, completed, log>>
        /\ (escaped' = escaped \/ escaped' = TRUE)
        BY <1>1, Zenon DEF Refused
  <2>2. escaped' \in BOOLEAN /\ (escaped => escaped')
    <3>1. escaped \in BOOLEAN
          BY DEF IInv, TypeOK
    <3>2. CASE escaped' = escaped
          BY <3>1, <3>2
    <3>3. CASE escaped' = TRUE
          BY <3>3
    <3> QED
        BY <2>1, <3>2, <3>3
  <2>3. faults' \in 0 .. MaxFaults
        BY <1>1, Faulted DEF Refused, IInv
  <2>4. value' \in [System -> Value] /\ completed' \subseteq Event \X System
        /\ log' \subseteq Event \X Event
        BY <2>1 DEF IInv, TypeOK
  <2> QED
      BY <2>1, <2>2, <2>3, <2>4, EndPreserves
<1>2. CASE LogFails(w)
  <2>1. wpc[w] # "idle" /\ EndTurn(w, FALSE)
        /\ UNCHANGED <<kept, changes, window, seen, settled, value, completed, log>>
        /\ escaped' /\ escaped' \in BOOLEAN /\ faults' \in 0 .. MaxFaults
        BY <1>2, Faulted DEF LogFails, IInv
  <2>2. value' \in [System -> Value] /\ completed' \subseteq Event \X System
        /\ log' \subseteq Event \X Event
        BY <2>1 DEF IInv, TypeOK
  <2> QED
      BY <2>1, <2>2, EndPreserves
<1>3. CASE Write(w)
  <2>1. wpc[w] # "idle" /\ EndTurn(w, FALSE)
        /\ UNCHANGED <<kept, changes, window, seen, settled, escaped, log, faults>>
        BY <1>3 DEF Write, history
  <2>4. TargetOf(w) \in System /\ event[w] \in Event /\ NewValue(event[w]) \in Value
        BY <2>1, Busy
  <2>5. value' = value \/ value' = [value EXCEPT ![TargetOf(w)] = NewValue(event[w])]
        BY <1>3, Zenon DEF Write
  <2>6. completed' = completed \cup {<<event[w], TargetOf(w)>>}
        BY <1>3 DEF Write
  <2>7. value' \in [System -> Value]
        BY <2>4, <2>5 DEF IInv, TypeOK
  <2>2. completed' \subseteq Event \X System
        BY <2>4, <2>6 DEF IInv, TypeOK
  <2>3. escaped' \in BOOLEAN /\ (escaped => escaped') /\ faults' \in 0 .. MaxFaults
        /\ log' \subseteq Event \X Event
        BY <2>1 DEF IInv, TypeOK
  <2> QED
      BY <2>1, <2>2, <2>3, <2>7, EndPreserves
<1>4. CASE WriteFails(w)
  <2>1. wpc[w] # "idle" /\ (\E fails \in BOOLEAN : EndTurn(w, fails))
        /\ UNCHANGED <<kept, changes, window, seen, settled, escaped, value, completed, log>>
        /\ faults' \in 0 .. MaxFaults
        BY <1>4, Faulted DEF WriteFails, IInv, history
  <2>2. value' \in [System -> Value] /\ completed' \subseteq Event \X System
        /\ log' \subseteq Event \X Event /\ escaped' \in BOOLEAN /\ (escaped => escaped')
        BY <2>1 DEF IInv, TypeOK
  <2> QED
      BY <2>1, <2>2, EndPreserves
<1> QED
    BY <1>1, <1>2, <1>3, <1>4

(* An event that may go on against the window has the authority's value.   *)
LEMMA GoingOnIsEarned ==
    ASSUME IInv, NEW w \in Worker, wpc[w] # "idle", window # NoEvent,
           Conflicts(event[w], window) => GoesOn(event[w], window)
    PROVE  Earned(w)
<1> SUFFICES ASSUME Source(window) \in Authority, Source(event[w]) \notin Authority
             PROVE  \E d \in Changed(Source(window)) : NewValue(d) = NewValue(event[w])
    BY DEF Earned
<1>1. Source(event[w]) \in System
      BY Busy, Routes DEF IInv
<1>2. policy \in {"SWS_WINS", "DEPT_WINS"} /\ ~Wins(event[w], window)
      BY <1>1 DEF Authority, Wins
<1>3. NewValue(window) = NewValue(event[w])
      BY <1>2 DEF Conflicts, GoesOn
<1>4. window \in Changed(Source(window))
      BY DEF Changed, IInv, RoundOpen
<1> QED
    BY <1>3, <1>4

LEMMA SameEarned ==
    ASSUME NEW w \in Worker, Earned(w), UNCHANGED <<kept, changes, window, event, settled>>
    PROVE  Earned(w)'
BY SameRound DEF Earned, kept

(* Steps after which the worker goes on with its event.                    *)
LEMMA LookPreserves ==
    ASSUME IInv, NEW w \in Worker, LookClear(w) \/ LookConflict(w)
    PROVE  IInv'
<1>1. wpc[w] # "idle"
      BY DEF LookClear, LookConflict
<1>2. seen[w] \in 0 .. Len(changes) /\ window \in 0 .. Len(changes)
      /\ seen = [seen EXCEPT ![w] = seen[w]]
      /\ escaped \in BOOLEAN /\ faults \in 0 .. MaxFaults /\ log \subseteq Event \X Event
      BY DEF IInv, TypeOK
<1>3. CASE LookClear(w)
  <2>1. /\ ~Conflicts(event[w], window)
        /\ UNCHANGED <<kept, changes, value, stage, window, event, turn, failed,
                       completed, log, settled, escaped, faults>>
        BY <1>3 DEF LookClear, history
  <2>2. CASE window # NoEvent /\ NewValue(window) = NewValue(event[w])
    <3>1. wpc' = [wpc EXCEPT ![w] = "write"] /\ seen' = seen
          BY <1>3, <2>2 DEF LookClear, Goto
    <3>2. Earned(w)'
          BY <1>1, <2>1, <2>2, GoingOnIsEarned, SameEarned
    <3> QED
        BY <1>1, <1>2, <2>1, <3>1, <3>2, Busy, MovePreserves
  <2>3. CASE ~(window # NoEvent /\ NewValue(window) = NewValue(event[w]))
    <3>1. wpc' = [wpc EXCEPT ![w] = "register"] /\ seen' = [seen EXCEPT ![w] = window]
          BY <1>3, <2>3 DEF LookClear, Goto
    <3>2. window # NoEvent => Source(window) = Source(event[w])
          BY <2>1 DEF Conflicts
    <3> QED
        BY <1>1, <1>2, <2>1, <3>1, <3>2, Busy, MovePreserves
  <2> QED
      BY <2>2, <2>3
<1>4. CASE LookConflict(w)
  <2>1. /\ Conflicts(event[w], window) /\ window # NoEvent
        /\ UNCHANGED <<kept, changes, value, window, seen, completed, settled, escaped, faults>>
        /\ log' = log \cup LoggedPair(event[w], window)
        BY <1>4 DEF LookConflict, history, Conflicts
  <2>2. log' \subseteq Event \X Event
        BY <1>1, <1>2, <2>1, Busy DEF LoggedPair
  <2>3. CASE GoesOn(event[w], window)
    <3>1. wpc' = [wpc EXCEPT ![w] = "write"] /\ UNCHANGED <<stage, event, turn, failed>>
          BY <1>4, <2>3 DEF LookConflict, Goto
    <3>2. Earned(w)'
          BY <1>1, <2>1, <2>3, <3>1, GoingOnIsEarned, SameEarned
    <3> QED
        BY <1>1, <1>2, <2>1, <2>2, <3>1, <3>2, Busy, MovePreserves
  <2>4. CASE ~GoesOn(event[w], window)
    <3>1. EndTurn(w, FALSE)
          BY <1>4, <2>4 DEF LookConflict
    <3>2. value' \in [System -> Value] /\ completed' \subseteq Event \X System
          BY <2>1 DEF IInv, TypeOK
    <3> QED
        BY <1>1, <1>2, <2>1, <2>2, <3>1, <3>2, EndPreserves
  <2> QED
      BY <2>3, <2>4
<1> QED
    BY <1>3, <1>4

LEMMA RegisterPreserves ==
    ASSUME IInv, NEW w \in Worker, Register(w) \/ Blind(w)
    PROVE  IInv'
<1>1. wpc[w] # "idle" /\ wpc' = [wpc EXCEPT ![w] = "write"]
      /\ seen' = [seen EXCEPT ![w] = NoEvent] /\ NoEvent \in 0 .. Len(changes)
      /\ UNCHANGED <<kept, changes, value, stage, event, turn, failed, completed, log, settled>>
      BY DEF Register, Blind, Goto, IInv, TypeOK, NoEvent
<1>2. log' \subseteq Event \X Event
      BY <1>1 DEF IInv, TypeOK
<1>3. CASE Register(w)
  <2>1. window' = event[w] /\ escaped' = (escaped \/ window # seen[w]) /\ faults' = faults
        /\ wpc[w] = "register"
        BY <1>3 DEF Register
  <2>2. escaped' \in BOOLEAN /\ (escaped => escaped') /\ (window # seen[w] => escaped')
        BY <2>1, Zenon
  <2>3. window # NoEvent /\ ~escaped' => Source(window') = Source(window)
        BY <2>1, <2>2 DEF IInv, SeenOwn
  <2>4. Source(window)' = Source(event[w])' /\ event[w] # NoEvent /\ event'[w] = event[w]
        BY <1>1, <2>1, Busy DEF Source
  <2>5. Earned(w)'
        BY <2>1, <2>4 DEF Earned, NoEvent
  <2>6. faults' \in 0 .. MaxFaults
        BY <2>1 DEF IInv, TypeOK
  <2> QED
      BY <1>1, <1>2, <2>1, <2>2, <2>3, <2>5, <2>6, Busy, MovePreserves
<1>4. CASE Blind(w)
  <2>1. escaped' = TRUE /\ window' = window /\ faults' \in 0 .. MaxFaults
        BY <1>4, Faulted DEF Blind, IInv
  <2> QED
      BY <1>1, <1>2, <2>1, Busy, MovePreserves
<1> QED
    BY <1>3, <1>4

LEMMA StutterPreserves == IInv /\ UNCHANGED vars => IInv'
<1> SUFFICES ASSUME IInv, UNCHANGED vars PROVE IInv'
    OBVIOUS
<1>1. UNCHANGED <<policy, base, changes, value, stage, window, wpc, event, turn, seen, failed,
                 completed, log, settled, escaped, faults>>
      BY DEF vars, kept, workers, history
<1>2. TypeOK' /\ OneHolder' /\ RoundOpen'
      BY <1>1 DEF IInv, TypeOK, OneHolder, RoundOpen, Event, Targets, Source, Round
<1>3. SeenOwn'
      BY <1>1 DEF IInv, SeenOwn, Source
<1>4. WritesEarned'
      BY <1>1, SameRound DEF IInv, WritesEarned, Earned
<1> QED
    BY <1>2, <1>3, <1>4 DEF IInv

LEMMA InvStep == IInv /\ [Next]_vars => IInv'
<1> SUFFICES ASSUME IInv, [Next]_vars PROVE IInv'
    OBVIOUS
<1>1. ASSUME NEW w \in Worker, Propagate(w) PROVE IInv'
      BY <1>1, EndingPreserves, LookPreserves, RegisterPreserves DEF Propagate
<1> QED
    BY <1>1, ChangePreserves, TakePreserves, ExpirePreserves, StutterPreserves DEF Next, Over

LEMMA Invariant == Spec => []IInv
BY InvInit, InvStep, PTL DEF Spec

-----------------------------------------------------------------------------
(* Only a write changes a field without being a user's change.             *)
LEMMA OnlyWritesPropagate ==
    ASSUME IInv, [Next]_vars, changes' = changes, value' # value
    PROVE  \E w \in Worker : Write(w)
<1>1. CASE \E s \in System, v \in Value : Change(s, v)
  <2>1. PICK s \in System, v \in Value : Change(s, v)
        BY <1>1
  <2>2. changes' = Append(changes, [source |-> s, value |-> v]) /\ changes \in Seq(ChangeRecord)
        /\ [source |-> s, value |-> v] \in ChangeRecord
        BY <2>1 DEF Change, IInv, TypeOK, ChangeRecord
  <2>3. Len(changes') = Len(changes) + 1 /\ Len(changes) \in Nat
        BY <2>2
  <2> QED
      BY <2>3
<1>2. CASE ~\E s \in System, v \in Value : Change(s, v)
      BY <1>2 DEF Next, Over, vars, Propagate, Take, Expire, Refused, LookClear, LookConflict,
                  LogFails, Blind, Register, WriteFails
<1> QED
    BY <1>1, <1>2

LEMMA AuthorityStep ==
    ASSUME IInv, [Next]_vars, NEW s \in Authority, window # NoEvent, Source(window) = s,
           ~escaped, changes' = changes
    PROVE  value'[s] \in {value[s]} \cup {NewValue(e) : e \in Changed(s)}
<1>1. CASE value' = value
      BY <1>1
<1>2. CASE value' # value
  <2>1. PICK w \in Worker : Write(w)
        BY <1>2, OnlyWritesPropagate
  <2>2. Earned(w) /\ wpc[w] # "idle"
        BY <2>1 DEF Write, IInv, WritesEarned
  <2>3. CASE TargetOf(w) = s
    <3>1. Source(event[w]) \notin Authority
          BY <2>2, <2>3, Busy DEF Authority
    <3>2. PICK d \in Changed(s) : NewValue(d) = NewValue(event[w])
          BY <2>2, <3>1 DEF Earned
    <3>3. value'[s] \in {value[s], NewValue(event[w])}
          BY <2>1 DEF Write, IInv, TypeOK
    <3> QED
        BY <3>2, <3>3
  <2>4. CASE TargetOf(w) # s
        BY <2>1, <2>4 DEF Write, IInv, TypeOK
  <2> QED
      BY <2>3, <2>4
<1> QED
    BY <1>1, <1>2

-----------------------------------------------------------------------------
(* What a step keeps while nothing escapes and the round goes on: the      *)
(* sources of events and of the window, and the log.                       *)
LEMMA RoundKept ==
    ASSUME IInv, [Next]_vars, ~escaped', ~(Expire /\ AtRest)
    PROVE  /\ ~escaped /\ settled' = settled /\ log \subseteq log' /\ policy' = policy
           /\ Len(changes) <= Len(changes')
           /\ \A e \in 1 .. Len(changes) : changes'[e] = changes[e]
           /\ window # NoEvent => /\ window' # NoEvent
                                 /\ Source(window') = Source(window)
                                 /\ window' \in 1 .. Len(changes)
<1>1. window # NoEvent => window \in 1 .. Len(changes)
      BY DEF IInv, TypeOK, NoEvent
<1>2. CASE \E s \in System, v \in Value : Change(s, v)
  <2>1. PICK s \in System, v \in Value : Change(s, v)
        BY <1>2
  <2>2. changes' = Append(changes, [source |-> s, value |-> v]) /\ changes \in Seq(ChangeRecord)
        /\ [source |-> s, value |-> v] \in ChangeRecord
        BY <2>1 DEF Change, IInv, TypeOK, ChangeRecord
  <2>3. Len(changes) <= Len(changes') /\ \A e \in 1 .. Len(changes) : changes'[e] = changes[e]
        BY <2>2
  <2>4. UNCHANGED <<policy, window, log, settled, escaped>>
        BY <2>1 DEF Change, kept, history
  <2> QED
      BY <1>1, <2>3, <2>4
<1>3. CASE Expire
      BY <1>3 DEF Expire
<1>4. ASSUME NEW w \in Worker, Register(w)
      PROVE  /\ ~escaped /\ UNCHANGED <<policy, changes, settled, log>>
             /\ window # NoEvent => /\ window' # NoEvent
                                   /\ Source(window') = Source(window)
                                   /\ window' \in 1 .. Len(changes)
  <2>1. ~escaped /\ window = seen[w] /\ UNCHANGED <<policy, changes, settled, log>>
        /\ window' = event[w] /\ wpc[w] = "register"
        BY <1>4 DEF Register, kept
  <2>2. event[w] # NoEvent /\ event[w] \in 1 .. Len(changes)
        BY <2>1, Busy
  <2>3. seen[w] # NoEvent => Source(seen[w]) = Source(event[w])
        BY <2>1 DEF IInv, SeenOwn
  <2> QED
      BY <2>1, <2>2, <2>3
<1>5. ASSUME NEW w \in Worker,
             Refused(w) \/ LookClear(w) \/ LookConflict(w) \/ LogFails(w) \/ Blind(w)
               \/ Write(w) \/ WriteFails(w)
      PROVE  ~escaped /\ UNCHANGED <<policy, changes, settled, window>> /\ log \subseteq log'
  <2>1. CASE Refused(w)
    <3>1. UNCHANGED <<policy, changes, settled, window, log>>
          BY <2>1 DEF Refused, kept
    <3>2. escaped' = escaped \/ escaped' = TRUE
          BY <2>1, Zenon DEF Refused
    <3> QED
        BY <3>1, <3>2
  <2>2. CASE LookClear(w) \/ LookConflict(w)
    <3>1. UNCHANGED <<policy, changes, settled, window, escaped>>
          BY <2>2 DEF LookClear, LookConflict, kept, history
    <3>2. log \subseteq log'
          BY <2>2 DEF LookClear, LookConflict
    <3> QED
        BY <3>1, <3>2
  <2>3. CASE LogFails(w) \/ Blind(w)
        BY <2>3 DEF LogFails, Blind
  <2>4. CASE Write(w) \/ WriteFails(w)
    <3>1. UNCHANGED <<policy, changes, settled, window, escaped, log>>
          BY <2>4 DEF Write, WriteFails, kept, history
    <3> QED
        BY <3>1
  <2> QED
      BY <1>5, <2>1, <2>2, <2>3, <2>4
<1>6. ASSUME NEW w \in Worker, NEW e \in 1 .. Len(changes), Take(w, e)
      PROVE  ~escaped /\ UNCHANGED <<policy, changes, settled, window, log>>
      BY <1>6 DEF Take, kept, history
<1>7. CASE Over \/ UNCHANGED vars
      BY <1>1, <1>7 DEF Over, vars, kept, history
<1>8. Len(changes) \in Nat
      BY DEF IInv, TypeOK
<1> QED
    BY <1>1, <1>2, <1>3, <1>4, <1>5, <1>6, <1>7, <1>8 DEF Next, Propagate

LEMMA NoticedStays ==
    ASSUME IInv, IInv', [Next]_vars, ~escaped', ~(Expire /\ AtRest),
           NEW e \in 1 .. Len(changes), Noticed(e)
    PROVE  Noticed(e)'
<1>1. ASSUME NEW s, InConflict(s) PROVE InConflict(s)'
  <2>1. PICK pair \in log : \E i \in {1, 2} : pair[i] \in Round /\ Source(pair[i]) = s
        BY <1>1 DEF InConflict
  <2>2. PICK i \in {1, 2} : pair[i] \in Round /\ Source(pair[i]) = s
        BY <2>1
  <2>5. settled \in Nat /\ Len(changes) \in Nat
        BY DEF IInv, TypeOK
  <2>6. Len(changes') \in Nat
        BY DEF IInv, TypeOK
  <2>3. pair[i] \in 1 .. Len(changes)
        BY <2>2, <2>5 DEF Round
  <2>4. pair[i] \in Round' /\ Source(pair[i])' = s
        BY <2>2, <2>3, <2>5, <2>6, RoundKept DEF Round, Source
  <2> QED
      BY <2>1, <2>4, RoundKept DEF InConflict
<1>2. window # NoEvent /\ window \in 1 .. Len(changes)
      BY DEF Noticed, IInv, TypeOK, NoEvent
<1>3. window' # NoEvent /\ Source(window)' = Source(window) /\ Source(e)' = Source(e)
      BY <1>2, RoundKept DEF Source
<1>4. Source(window) # Source(e) => InConflict(Source(e))' /\ InConflict(Source(window))'
  <2> SUFFICES ASSUME Source(window) # Source(e)
               PROVE  InConflict(Source(e))' /\ InConflict(Source(window))'
      OBVIOUS
  <2>1. InConflict(Source(e)) /\ InConflict(Source(window))
        BY DEF Noticed
  <2> DEFINE a == Source(e)
             b == Source(window)
  <2>2. \A s : InConflict(s) => InConflict(s)'
        BY <1>1
  <2> QED
      BY <1>3, <2>1, <2>2 DEF InConflict
<1> QED
    BY <1>3, <1>4 DEF Noticed

LEMMA TakenInRound ==
    ASSUME IInv, NEW w \in Worker, wpc[w] # "idle"
    PROVE  event[w] \in Round /\ stage[event[w]] = "taken"
BY Busy DEF IInv, TypeOK, RoundOpen

(* A look at another system's entry leaves both in the log.                *)
LEMMA LookNotices ==
    ASSUME IInv, NEW w \in Worker, LookConflict(w), NEW e, e = event[w]
    PROVE  Noticed(e)'
<1>1. /\ Conflicts(e, window) /\ wpc[w] # "idle" /\ <<window, e>> \in log'
      /\ UNCHANGED <<changes, window, settled>>
      BY DEF LookConflict, LoggedPair, history
<1>2. e \in Round /\ window \in Round /\ window # NoEvent
      BY <1>1, TakenInRound DEF Conflicts, IInv, RoundOpen
<1>3. Round' = Round /\ Source(e)' = Source(e) /\ Source(window)' = Source(window)
      BY <1>1 DEF Round, Source
<1>4. \E pair \in log' : \E i \in {1, 2} : pair[i] \in Round' /\ Source(pair[i])' = Source(e)'
  <2>1. <<window, e>>[2] = e
        OBVIOUS
  <2> QED
      BY <1>1, <1>2, <1>3, <2>1
<1>5. \E pair \in log' : \E i \in {1, 2} : pair[i] \in Round' /\ Source(pair[i])' = Source(window)'
  <2>1. <<window, e>>[1] = window /\ window' = window
        BY <1>1
  <2> QED
      BY <1>1, <1>2, <1>3, <2>1 DEF Source
<1>6. InConflict(Source(e))' /\ InConflict(Source(window))'
      BY <1>4, <1>5 DEF InConflict
<1> QED
    BY <1>1, <1>2, <1>6 DEF Noticed

(* An event is done after its last target was written or lost a conflict.  *)
LEMMA DoneByNotice ==
    ASSUME IInv, [Next]_vars, ~escaped', NEW e \in Event, stage[e] # "done", stage'[e] = "done"
    PROVE  \E w \in Worker : e = event[w] /\ (wpc[w] = "write" \/ LookConflict(w))
<1>1. CASE \E s \in System, v \in Value : Change(s, v)
      BY <1>1 DEF Change, IInv, TypeOK
<1>2. CASE \E w \in Worker : \E d \in 1 .. Len(changes) : Take(w, d)
      BY <1>2 DEF Take, IInv, TypeOK
<1>3. CASE \E w \in Worker : LookClear(w) \/ Blind(w) \/ Register(w)
      BY <1>3 DEF LookClear, Blind, Register
<1>4. ASSUME NEW w \in Worker, NEW fails \in BOOLEAN, EndTurn(w, fails), wpc[w] # "idle"
      PROVE  e = event[w]
      BY <1>4, TurnEnds
<1>5. ASSUME NEW w \in Worker, Refused(w) PROVE FALSE
  <2>1. escaped' = TRUE \/ EndTurn(w, TRUE)
        BY <1>5, Zenon DEF Refused
  <2>2. EndTurn(w, TRUE) /\ wpc[w] # "idle"
        BY <1>5, <2>1 DEF Refused
  <2>3. e = event[w]
        BY <1>4, <2>2
  <2>4. stage'[event[w]] # "done"
        BY <2>2, <2>3 DEF EndTurn, IInv, TypeOK
  <2> QED
      BY <2>3, <2>4
<1>6. ASSUME NEW w \in Worker, LookConflict(w) PROVE e = event[w]
  <2>1. wpc[w] # "idle" /\ (EndTurn(w, FALSE) \/ stage' = stage)
        BY <1>6 DEF LookConflict
  <2> QED
      BY <1>4, <2>1
<1>7. ASSUME NEW w \in Worker, LogFails(w) PROVE FALSE
      BY <1>7 DEF LogFails
<1>8. ASSUME NEW w \in Worker, Write(w) \/ WriteFails(w)
      PROVE  e = event[w] /\ wpc[w] = "write"
  <2>1. wpc[w] = "write" /\ \E fails \in BOOLEAN : EndTurn(w, fails)
        BY <1>8 DEF Write, WriteFails
  <2> QED
      BY <1>4, <2>1
<1>9. CASE Expire \/ Over \/ UNCHANGED vars
      BY <1>9 DEF Expire, Over, vars
<1> QED
    BY <1>1, <1>2, <1>3, <1>5, <1>6, <1>7, <1>8, <1>9 DEF Next, Propagate

(* A worker about to write has looked.                                     *)
LEMMA WriteByNotice ==
    ASSUME IInv, IInv', [Next]_vars, ~escaped', ~(Expire /\ AtRest), NoticedInv,
           NEW w \in Worker, wpc'[w] = "write"
    PROVE  Noticed(event[w])'
<1>1. CASE wpc[w] = "write" /\ event'[w] = event[w]
  <2>1. Noticed(event[w]) /\ event[w] \in 1 .. Len(changes)
        BY <1>1, RoundKept, Busy DEF NoticedInv
  <2>2. \A e : e = event[w] => Noticed(e)'
        BY <2>1, NoticedStays
  <2> QED
      BY <1>1, <2>2 DEF Noticed
<1>2. CASE LookConflict(w)
  <2>1. event'[w] = event[w]
        BY <1>2, TurnEnds DEF LookConflict
  <2>2. \A e : e = event[w] => Noticed(e)'
        BY <1>2, LookNotices
  <2> QED
      BY <2>1, <2>2 DEF Noticed
<1>3. CASE LookClear(w)
  <2>1. window # NoEvent /\ ~Conflicts(event[w], window) /\ UNCHANGED <<changes, window, event>>
        BY <1>3 DEF LookClear, Goto, IInv, TypeOK
  <2>2. Source(window) = Source(event[w])
        BY <2>1 DEF Conflicts
  <2> QED
      BY <2>1, <2>2 DEF Noticed, Source
<1>4. CASE Register(w)
  <2>1. window' = event[w] /\ event' = event /\ event[w] # NoEvent
        BY <1>4, Busy DEF Register
  <2> QED
      BY <2>1 DEF Noticed
<1>5. \/ wpc[w] = "write" /\ event'[w] = event[w]
      \/ LookConflict(w) \/ LookClear(w) \/ Register(w)
  <2>1. CASE \E s \in System, v \in Value : Change(s, v)
        BY <2>1 DEF Change, workers
  <2>2. CASE Expire \/ Over \/ UNCHANGED vars
        BY <2>2 DEF Expire, Over, vars, workers
  <2>3. ASSUME NEW v \in Worker, NEW d \in 1 .. Len(changes), Take(v, d)
        PROVE  wpc[w] = "write" /\ event'[w] = event[w]
        BY <2>3 DEF Take, Goto, IInv, TypeOK
  <2>4. ASSUME NEW v \in Worker, NEW fails \in BOOLEAN, EndTurn(v, fails), wpc[v] # "idle"
        PROVE  wpc[w] = "write" /\ event'[w] = event[w]
        BY <2>4, TurnEnds
  <2>5. ASSUME NEW v \in Worker, Refused(v) \/ LogFails(v) \/ Write(v) \/ WriteFails(v)
        PROVE  wpc[w] = "write" /\ event'[w] = event[w]
    <3>1. wpc[v] # "idle" /\ \E fails \in BOOLEAN : EndTurn(v, fails)
          BY <2>5 DEF Refused, LogFails, Write, WriteFails
    <3> QED
        BY <2>4, <3>1
  <2>6. ASSUME NEW v \in Worker, Blind(v) PROVE FALSE
        BY <2>6 DEF Blind
  <2>7. ASSUME NEW v \in Worker, v # w, LookClear(v) \/ Register(v)
        PROVE  wpc[w] = "write" /\ event'[w] = event[w]
        BY <2>7 DEF LookClear, Register, Goto, IInv, TypeOK
  <2>8. ASSUME NEW v \in Worker, v # w, LookConflict(v)
        PROVE  wpc[w] = "write" /\ event'[w] = event[w]
    <3>1. CASE EndTurn(v, FALSE)
          BY <2>4, <2>8, <3>1 DEF LookConflict
    <3>2. CASE ~EndTurn(v, FALSE)
          BY <2>8, <3>2 DEF LookConflict, Goto, IInv, TypeOK
    <3> QED
        BY <3>1, <3>2
  <2> QED
      BY <2>1, <2>2, <2>3, <2>5, <2>6, <2>7, <2>8 DEF Next, Propagate
<1> QED
    BY <1>1, <1>2, <1>3, <1>4, <1>5

LEMMA Lengths ==
    IInv => /\ settled \in Nat /\ Len(changes) \in Nat /\ settled <= Len(changes)
            /\ Len(changes) <= MaxChanges
BY DEF IInv, TypeOK

LEMMA LengthsNext == IInv' => Len(changes') \in Nat /\ Len(changes') <= MaxChanges
BY DEF IInv, TypeOK

(* A system loses the value it was given last only to a write.             *)
LEMMA LossByNotice ==
    ASSUME IInv, IInv', [Next]_vars, ~escaped', ~(Expire /\ AtRest), NoticedInv,
           NEW e \in Round', Latest(e)', value'[Source(e)'] # NewValue(e)'
    PROVE  \E d \in Round : Source(d) # Source(e)' /\ Noticed(d)
<1>1. settled' = settled /\ settled \in Nat /\ Len(changes) \in Nat /\ Len(changes') \in Nat
      /\ settled <= Len(changes) /\ Len(changes) <= Len(changes')
      BY RoundKept, Lengths, LengthsNext
<1>2. CASE \E s \in System, v \in Value : Change(s, v)
  <2>1. PICK s \in System, v \in Value : Change(s, v)
        BY <1>2
  <2>0. PICK n \in Nat : n = Len(changes) + 1
        BY <1>1
  <2> DEFINE c == [source |-> s, value |-> v]
  <2>2. changes' = Append(changes, c) /\ changes \in Seq(ChangeRecord) /\ c \in ChangeRecord
        BY <2>1 DEF Change, IInv, TypeOK, ChangeRecord
  <2>3. Len(changes') = n /\ changes'[n] = c
        /\ \A d \in 1 .. Len(changes) : changes'[d] = changes[d]
        BY <2>0, <2>2
  <2>4. value' = [value EXCEPT ![s] = v] /\ value \in [System -> Value]
        BY <2>1 DEF Change, IInv, TypeOK
  <2>5. n \in Round' /\ Source(n)' = s /\ NewValue(n)' = v /\ value'[s] = v
        BY <1>1, <2>0, <2>3, <2>4 DEF Round, Source, NewValue
  <2>6. e # n
        BY <2>5
  <2>7. e \in Round /\ e \in 1 .. Len(changes)
        BY <1>1, <2>0, <2>3, <2>6 DEF Round
  <2>8. Source(e)' = Source(e) /\ NewValue(e)' = NewValue(e)
        BY <2>3, <2>7 DEF Source, NewValue
  <2>9. Source(e) # s
    <3>1. SUFFICES ASSUME Source(e) = s PROVE FALSE
          OBVIOUS
    <3>2. n \in Changed(Source(e))'
          BY <2>5, <2>8, <3>1 DEF Changed
    <3>3. n <= e
          BY <3>2 DEF Latest
    <3> QED
        BY <1>1, <2>0, <2>7, <3>3
  <2>10. value'[Source(e)] = value[Source(e)]
        BY <2>4, <2>9
  <2>11. Latest(e)
    <3> SUFFICES ASSUME NEW d \in Changed(Source(e)) PROVE d <= e
        BY DEF Latest
    <3>1. d \in Round /\ Source(d) = Source(e) /\ d \in 1 .. Len(changes)
          BY <1>1 DEF Changed, Round
    <3>2. d \in Round' /\ Source(d)' = Source(e)'
          BY <1>1, <2>3, <2>8, <3>1 DEF Round, Source
    <3> QED
        BY <3>2 DEF Latest, Changed
  <2>12. ~escaped
        BY RoundKept
  <2> QED
      BY <2>7, <2>8, <2>10, <2>11, <2>12 DEF NoticedInv
<1>3. CASE ~\E s \in System, v \in Value : Change(s, v)
  <2>1. changes' = changes
        BY <1>3 DEF Next, Over, vars, Propagate, Take, Expire, Refused, LookClear,
                    LookConflict, LogFails, Blind, Register, Write, WriteFails
  <2>2. Round' = Round /\ Source(e)' = Source(e) /\ NewValue(e)' = NewValue(e)
        BY <1>1, <2>1 DEF Round, Source, NewValue
  <2>3. Latest(e)
        BY <2>1, <2>2 DEF Latest, Changed, Source
  <2>4. CASE value'[Source(e)] = value[Source(e)]
        BY <2>2, <2>3, <2>4, RoundKept DEF NoticedInv
  <2>5. CASE value'[Source(e)] # value[Source(e)]
    <3>1. PICK w \in Worker : Write(w)
          BY <2>1, <2>5, OnlyWritesPropagate
    <3>2. wpc[w] = "write" /\ TargetOf(w) = Source(e)
          BY <2>5, <3>1 DEF Write, IInv, TypeOK
    <3>3. Source(event[w]) # Source(e)
          BY <3>2, Busy
    <3>4. event[w] \in Round /\ Noticed(event[w])
          BY <3>2, RoundKept, TakenInRound DEF NoticedInv
    <3> QED
        BY <2>2, <3>3, <3>4
  <2> QED
      BY <2>4, <2>5
<1> QED
    BY <1>2, <1>3

LEMMA NoticedStep == IInv /\ IInv' /\ NoticedInv /\ [Next]_vars => NoticedInv'
<1> SUFFICES ASSUME IInv, IInv', NoticedInv, [Next]_vars, ~escaped' PROVE NoticedInv'
    BY DEF NoticedInv
<1>1. CASE Expire /\ AtRest
  <2>1. Round' = {}
        BY <1>1 DEF Expire, Round, IInv, TypeOK
  <2>2. \A w \in Worker : wpc'[w] # "write"
    <3>1. \A w \in Worker : wpc[w] # "idle" => stage[event[w]] = "taken" /\ event[w] \in 1 .. Len(changes)
          BY Busy, TakenInRound
    <3> QED
        BY <1>1, <3>1 DEF Expire, AtRest, workers
  <2> QED
      BY <2>1, <2>2 DEF NoticedInv
<1>2. CASE ~(Expire /\ AtRest)
  <2>1. ~escaped /\ settled' = settled /\ settled \in Nat /\ Len(changes) \in Nat
        /\ Len(changes') \in Nat /\ Len(changes) <= Len(changes') /\ Len(changes') <= MaxChanges
        BY <1>2, RoundKept, Lengths, LengthsNext
  <2>2. ASSUME NEW e \in Round', stage'[e] = "done" PROVE Noticed(e)'
    <3>1. e \in Event
          BY <2>1, <2>2, ConflictAssumption DEF Round, Event
    <3>2. CASE stage[e] = "done"
      <4>1. e \in 1 .. Len(changes) /\ e \in Round
        <5>1. CASE e \in 1 .. Len(changes)
              BY <2>1, <2>2, <5>1 DEF Round
        <5>2. CASE e \notin 1 .. Len(changes)
          <6>1. changes' # changes
                BY <2>1, <2>2, <5>2 DEF Round
          <6>2. PICK s \in System, v \in Value : Change(s, v)
                BY <6>1 DEF Next, Over, vars, Propagate, Take, Expire, Refused, LookClear,
                    LookConflict, LogFails, Blind, Register, Write, WriteFails
          <6>3. changes' = Append(changes, [source |-> s, value |-> v])
                /\ [source |-> s, value |-> v] \in ChangeRecord /\ changes \in Seq(ChangeRecord)
                BY <6>2 DEF Change, ChangeRecord, IInv, TypeOK
          <6>4. Len(changes') = Len(changes) + 1
                BY <6>3
          <6>5. e = Len(changes) + 1
                BY <2>1, <2>2, <5>2, <6>4 DEF Round
          <6>6. stage'[e] = "fresh"
                BY <3>1, <6>2, <6>5 DEF Change, IInv, TypeOK
          <6> QED
              BY <2>2, <6>6
        <5> QED
            BY <5>1, <5>2
      <4> QED
          BY <1>2, <2>1, <3>2, <4>1, NoticedStays DEF NoticedInv
    <3>3. CASE stage[e] # "done"
      <4>1. PICK w \in Worker : e = event[w] /\ (wpc[w] = "write" \/ LookConflict(w))
            BY <2>2, <3>1, <3>3, DoneByNotice
      <4>2. CASE wpc[w] = "write"
            BY <1>2, <2>1, <4>1, <4>2, NoticedStays, Busy DEF NoticedInv
      <4>3. CASE LookConflict(w)
            BY <4>1, <4>3, LookNotices
      <4> QED
          BY <4>1, <4>2, <4>3
    <3> QED
        BY <3>2, <3>3
  <2>3. \A w \in Worker : wpc'[w] = "write" => Noticed(event[w])'
        BY <1>2, WriteByNotice
  <2>4. ASSUME NEW e \in Round', Latest(e)', value'[Source(e)'] # NewValue(e)'
        PROVE  \E d \in Round' : Source(d)' # Source(e)' /\ Noticed(d)'
    <3>1. PICK d \in Round : Source(d) # Source(e)' /\ Noticed(d)
          BY <1>2, <2>4, LossByNotice
    <3>2. d \in 1 .. Len(changes) /\ d \in Round'
          BY <2>1 DEF Round
    <3>3. Noticed(d)' /\ Source(d)' = Source(d)
          BY <1>2, <3>1, <3>2, NoticedStays, RoundKept DEF Source
    <3> QED
        BY <3>1, <3>2, <3>3
  <2> QED
      BY <2>2, <2>3, <2>4 DEF NoticedInv
<1> QED
    BY <1>1, <1>2

LEMMA NoticedInit == Init => NoticedInv
BY InvInit DEF Init, NoticedInv, Round, NoEvent

LEMMA NoticedAtRest == IInv /\ NoticedInv => ConflictNoticed
<1> SUFFICES ASSUME IInv, NoticedInv, AtRest, ~escaped, NEW e \in Round,
                    Latest(e), value[Source(e)] # NewValue(e)
             PROVE  InConflict(Source(e))
    BY DEF ConflictNoticed
<1>1. stage[e] = "done"
      BY DEF AtRest, Round, IInv, TypeOK
<1>2. Noticed(e)
      BY <1>1 DEF NoticedInv
<1>3. PICK d \in Round : Source(d) # Source(e) /\ Noticed(d)
      BY DEF NoticedInv
<1> QED
    BY <1>2, <1>3 DEF Noticed

(* Every variable keeps its type; a worker holds the event it took and     *)
(* stays within the fan-out of its source.                                 *)
THEOREM TypeCorrect == Spec => []TypeOK
BY Invariant, PTL DEF IInv

(* While the window names an event of the policy's authority, no           *)
(* propagation gives that system a value it did not have itself in this    *)
(* round, unless window or log failed.                                     *)
THEOREM AuthorityIsKept == Spec => AuthorityKept
<1>1. IInv /\ [Next]_vars =>
        [\A s \in Authority :
          /\ window # NoEvent /\ Source(window) = s
          /\ ~escaped
          /\ changes' = changes
          => value'[s] \in {value[s]} \cup {NewValue(e) : e \in Changed(s)}]_vars
      BY AuthorityStep
<1> QED
    BY <1>1, Invariant, PTL DEF Spec, AuthorityKept

(* No silent overwrite: at the end of a round without escapes a system     *)
(* that lost its latest value took part in a conflict on record.           *)
THEOREM ConflictsAreNoticed == Spec => []ConflictNoticed
<1>1. Spec => []NoticedInv
      BY NoticedInit, NoticedStep, Invariant, PTL DEF Spec
<1> QED
    BY <1>1, Invariant, NoticedAtRest, PTL
=============================================================================
