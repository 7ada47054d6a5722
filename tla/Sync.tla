-------------------------------- MODULE Sync --------------------------------
(***************************************************************************)
(* The closed loop of SyncKar for one field of one business: what SyncKar  *)
(* writes to a system appears in that system's change feed, is polled like *)
(* a change of its users, and would go round for ever without the loop     *)
(* guard (pipeline/loop_guard.py).  Pollers, dispatcher, conflict window,  *)
(* the systems' own PUT and change feed, and the nightly reconciliation    *)
(* (workers/reconciliation.py) are composed; outbox, Kafka and Celery are  *)
(* one queue per source, since the embedded worker runs one task at a time *)
(* (--pool=solo --concurrency=1 in api/main.py) and no call fails here.    *)
(***************************************************************************)
EXTENDS Integers, Sequences

CONSTANTS
    Departments,  \* sequence of the departments, in fan-out order
    Value,        \* values of the field, none of them empty
    Fields,       \* the fields considered: their name in each system, what
                  \* the mapping makes of a value for it, their policy
    Editors,      \* systems whose users change the field
    Apart,        \* changes, guard lifetimes and nightly runs do not overlap
    KeyNights,    \* nights an idempotency key outlives its write (72 hours)
    MaxEdits,     \* bound: changes made by users
    MaxLosses     \* bound: events given up on their way

Department == {Departments[i] : i \in DOMAIN Departments}
System     == {"sws"} \cup Department
NoValue    == "none"

(* The policies of the fields that have an authority: a field resolved by  *)
(* LAST_WRITE_WINS is left out, for its verdict needs sequence numbers.    *)
Mapped == [name : [System -> STRING], rendered : [System -> [Value -> Value]],
           policy : {"SWS_WINS", "DEPT_WINS"}]

ASSUME SyncAssumption ==
    /\ Departments \in Seq(Department) \ {<<>>}
    /\ "sws" \notin Department
    /\ NoValue \notin Value
    /\ Fields \subseteq Mapped
    /\ \A f \in Fields, v \in Value : f.rendered["sws"][v] = v
    /\ Editors \subseteq System
    /\ Apart \in BOOLEAN
    /\ KeyNights \in Nat /\ MaxEdits \in Nat /\ MaxLosses \in Nat

VARIABLES
    field,      \* the field, one of Fields
    value,      \* value[s]: the field in system s
    feed,       \* feed[s]: changes of s above its watermark, oldest first
    guard,      \* live loop-guard keys: system, field name, value
    topic,      \* topic[s]: events of s in outbox, Kafka or Celery
    window,     \* the entry of conflict_window
    completed,  \* completed[d][v]: nights for which the idempotency key of the
                \* correction of department d to v is still COMPLETED
    due,        \* the nightly run of today is still to come
    checking,   \* reconcile_sample: the department it compares next, or 0
    reading,    \* reconcile_sample: what it read from SWS
    last,       \* history: the last change made by a user
    edits,
    losses

systems   == <<field, value, feed>>
reconcile == <<due, checking, reading>>
history   == <<last, edits, losses>>
vars      == <<systems, guard, topic, window, completed, reconcile, history>>

Rendered  == field.rendered
FieldName == field.name
Policy    == field.policy
Canonical == FieldName["sws"]

NoEntry == [source |-> "none", value |-> NoValue]

Targets(s) == IF s = "sws" THEN Department ELSE {"sws"}

Init ==
    /\ field     \in Fields
    /\ value     \in {[s \in System |-> Rendered[s][v]] : v \in Value}
    /\ feed      = [s \in System |-> <<>>]
    /\ guard     = {}
    /\ topic     = [s \in System |-> <<>>]
    /\ window    = NoEntry
    /\ completed = [d \in Department |-> [v \in Value |-> 0]]
    /\ due       = TRUE
    /\ checking  = 0
    /\ reading   = NoValue
    /\ last      = NoEntry
    /\ edits     = 0
    /\ losses    = 0

-----------------------------------------------------------------------------
(* is_recent_write: asked with the name and the value the system reports.  *)
Recent(s, v) == <<s, FieldName[s], v>> \in guard
Unguarded(s) == {i \in DOMAIN feed[s] : ~Recent(s, feed[s][i])}
Quiet        == \A s \in System : topic[s] = <<>> /\ Unguarded(s) = {}
Settled      == Quiet /\ guard = {} /\ checking = 0

Differs(s, v) == v # value[s]

(* The PUT of a system: only a value that differs becomes a change.        *)
Put(new) ==
    /\ value' = [s \in System |-> IF s \in DOMAIN new THEN new[s] ELSE value[s]]
    /\ feed'  = [s \in System |-> IF s \in DOMAIN new /\ Differs(s, new[s])
                                  THEN Append(feed[s], new[s]) ELSE feed[s]]

(* A user of system s enters a value as the system stores it.              *)
Edit(s, v) ==
    /\ edits < MaxEdits
    /\ Apart => Settled /\ window = NoEntry
    /\ v # value[s] /\ Rendered[s][v] = v
    /\ Put([t \in {s} |-> v])
    /\ last'  = [source |-> s, value |-> v]
    /\ edits' = edits + 1
    /\ UNCHANGED <<field, guard, topic, window, completed, reconcile, losses>>

-----------------------------------------------------------------------------
Rest(s, m) == SubSeq(feed[s], m + 1, Len(feed[s]))

UserChange(v) == [value |-> v, correction |-> FALSE]
Correction(v) == [value |-> v, correction |-> TRUE]

(* The events of the changes at the positions S of feed f, in its order.   *)
EventsOf(f, S) ==
    LET upTo[n \in 0 .. Len(f)] ==
            IF n = 0 THEN <<>>
            ELSE IF n \in S THEN Append(upTo[n - 1], UserChange(f[n]))
            ELSE upTo[n - 1]
    IN  upTo[Len(f)]

(* A poll: guarded changes are skipped, the others become events, and the  *)
(* watermark moves to the latest of those, so that skipped ones behind it  *)
(* are read again.                                                         *)
Poll(s) ==
    /\ checking = 0
    /\ \E m \in Unguarded(s) :
          /\ \A n \in Unguarded(s) : n <= m
          /\ feed' = [feed EXCEPT ![s] = Rest(s, m)]
    /\ topic' = [topic EXCEPT ![s] = @ \o EventsOf(feed[s], Unguarded(s))]
    /\ UNCHANGED <<field, value, guard, window, completed, reconcile, history>>

(* A change of another business or field moves the watermark past guarded  *)
(* ones: nobody reads them again.                                          *)
Overtake(s) ==
    /\ checking = 0
    /\ feed[s] # <<>> /\ Unguarded(s) = {}
    /\ losses < MaxLosses
    /\ losses' = losses + 1
    /\ feed'   = [feed EXCEPT ![s] = <<>>]
    /\ UNCHANGED <<field, value, guard, topic, window, completed, reconcile, last, edits>>

-----------------------------------------------------------------------------
(* check_and_register and resolve_conflict: an entry of another system is  *)
(* a conflict and stays; a loser with the winner's value goes on.          *)
Conflict(s) == window # NoEntry /\ window.source # s

WinsSwapped(s) ==                \* seeded bug: the two policies are swapped
    CASE Policy = "SWS_WINS"  -> s # "sws"
      [] Policy = "DEPT_WINS" -> s = "sws"
Wins(s) == CASE Policy = "SWS_WINS"  -> s = "sws"
             [] Policy = "DEPT_WINS" -> s # "sws"

GoesOnAlways(s, e) == TRUE       \* seeded bug: conflicts are only logged
GoesOn(s, e) == ~Conflict(s) \/ Wins(s) \/ window.value = e.value

(* mark_write: the canonical name and the value before translation.        *)
Mark(t, e) == <<t, Canonical, e.value>>

(* The event goes to its targets unless it loses; a correction whose key   *)
(* is COMPLETED is skipped, for its event_id has no time in it.  The id of *)
(* a user's change has, so its key is new.                                 *)
Written(s, e) ==
    {t \in Targets(s) : GoesOn(s, e) /\ ~(e.correction /\ completed[t][e.value] > 0)}

NativeLookup(t, v) ==            \* seeded bug: the value of the payload is
                                 \* looked up under the target's own name
    IF FieldName[t] = Canonical THEN Rendered[t][v] ELSE NoValue
InNative(t, v) == Rendered[t][v]

Dispatch(s) ==
    /\ checking = 0
    /\ topic[s] # <<>>
    /\ LET e == Head(topic[s])
           W == Written(s, e)
       IN  /\ Put([t \in W |-> InNative(t, e.value)])
           /\ guard'  = guard \cup {Mark(t, e) : t \in W}
           /\ window' = IF Conflict(s) THEN window ELSE [source |-> s, value |-> e.value]
           /\ completed' = [t \in Department |-> [v \in Value |->
                 IF e.correction /\ t \in W /\ v = e.value THEN KeyNights ELSE completed[t][v]]]
    /\ topic' = [topic EXCEPT ![s] = Tail(@)]
    /\ UNCHANGED <<field, reconcile, history>>

(* A task gives an event up: a 4xx, an unknown business, a payload that    *)
(* does not parse, or the last retry.                                      *)
GiveUp(s) ==
    /\ checking = 0
    /\ topic[s] # <<>>
    /\ losses < MaxLosses
    /\ losses' = losses + 1
    /\ topic'  = [topic EXCEPT ![s] = Tail(@)]
    /\ UNCHANGED <<systems, guard, window, completed, reconcile, last, edits>>

-----------------------------------------------------------------------------
(* The nightly run reads SWS, then compares one department after another;  *)
(* users go on meanwhile.                                                  *)
StartReconcile ==
    /\ due
    /\ checking = 0
    /\ Apart => Quiet
    /\ checking' = 1
    /\ reading'  = value["sws"]
    /\ due'      = FALSE
    /\ UNCHANGED <<systems, guard, topic, window, completed, history>>

Authoritative == Policy = "SWS_WINS"

(* A department that differs from the authority gets a correction event,   *)
(* marked at once as written; an empty value, which is passed over, does   *)
(* not occur.                                                              *)
Compare ==
    /\ checking > 0
    /\ LET d == Departments[checking]
       IN  IF Authoritative /\ reading # value[d]
           THEN /\ topic' = [topic EXCEPT !["sws"] = Append(@, Correction(reading))]
                /\ guard' = guard \cup {Mark(d, Correction(reading))}
           ELSE UNCHANGED <<topic, guard>>
    /\ IF checking < Len(Departments)
       THEN checking' = checking + 1 /\ UNCHANGED reading
       ELSE checking' = 0 /\ reading' = NoValue
    /\ UNCHANGED <<systems, window, completed, due, history>>

-----------------------------------------------------------------------------
Untimed(keys) == {}              \* seeded bug: guard keys without a TTL
Timed(keys)   == keys

(* Guard keys and window have a TTL each, all of 900 seconds but from      *)
(* different starts (an event of the same source leaves the window what is *)
(* left of its time): any of them run out first.  None does while an event *)
(* is on its way, which takes far less.                                    *)
Expire ==
    /\ Quiet
    /\ checking = 0
    /\ \E keys \in SUBSET Timed(guard) : guard' = guard \ keys
    /\ window' \in {window, NoEntry}
    /\ <<guard, window>>' # <<guard, window>>
    /\ UNCHANGED <<systems, topic, completed, reconcile, history>>

Ageless(n) == n                  \* seeded bug: keys without a TTL
Aged(n)    == IF n = 0 THEN 0 ELSE n - 1

(* A day passes, longer than guard keys and window live: idempotency keys  *)
(* age, and the next night comes.                                          *)
Lapse ==
    /\ Quiet
    /\ checking = 0
    /\ Timed(guard) = {} /\ window = NoEntry
    /\ ~due
    /\ due'       = TRUE
    /\ completed' = [d \in Department |-> [v \in Value |-> Aged(completed[d][v])]]
    /\ UNCHANGED <<systems, guard, topic, window, checking, reading, history>>

Next ==
    \/ \E s \in Editors, v \in Value : Edit(s, v)
    \/ \E s \in System : Poll(s) \/ Overtake(s) \/ Dispatch(s) \/ GiveUp(s)
    \/ StartReconcile
    \/ Compare
    \/ Expire
    \/ Lapse

(* Beat starts every poll and the nightly run, the worker goes on, time    *)
(* passes.                                                                 *)
Fairness ==
    /\ \A s \in System : WF_vars(Poll(s)) /\ WF_vars(Dispatch(s))
    /\ WF_vars(StartReconcile) /\ WF_vars(Compare)
    /\ WF_vars(Expire) /\ WF_vars(Lapse)

Spec == Init /\ [][Next]_vars /\ Fairness

-----------------------------------------------------------------------------
Names == {FieldName[s] : s \in System}

(* Every variable has its type, and no key outlives its nights.            *)
TypeOK ==
    /\ field \in Fields
    /\ value \in [System -> Value]
    /\ feed \in [System -> Seq(Value)]
    /\ guard \subseteq System \X Names \X Value
    /\ topic \in [System -> Seq([value : Value, correction : BOOLEAN])]
    /\ window \in [source : System, value : Value] \cup {NoEntry}
    /\ completed \in [Department -> [Value -> 0 .. KeyNights]]
    /\ due \in BOOLEAN
    /\ checking \in 0 .. Len(Departments)
    /\ reading \in Value \cup {NoValue}
    /\ checking = 0 <=> reading = NoValue
    /\ last \in [source : System, value : Value] \cup {NoEntry}
    /\ edits \in 0 .. MaxEdits
    /\ losses \in 0 .. MaxLosses

(* "Loop guard to prevent echo propagation" (loop_guard.py:1): once users  *)
(* stop, every feed is read to its end and stays so.  What SyncKar writes  *)
(* to a system is a change of that system, and only guard keys, the        *)
(* conflict window and systems that ignore equal values keep it from going *)
(* round: a department's own field name is not the name in the key, and a  *)
(* guarded change that outlives its key is read after all.                 *)
EchoDies == <>[](\A s \in System : feed[s] = <<>>)

(* The last change of a user reaches every system, as the mapping renders  *)
(* it, and nothing undoes it, although the feeds report it back from each  *)
(* system and the nightly run may revert it; given that no event was given *)
(* up and no guarded change overtaken.                                     *)
LastEditArrives ==
    <>[](losses = 0 /\ last # NoEntry =>
            \A s \in System : value[s] = Rendered[s][last.value])

(* The nightly run heals what was lost: where SWS is the authority every   *)
(* department agrees with it in the end, although a correction has the     *)
(* same idempotency key every time, COMPLETED for three nights.            *)
Reconciled ==
    <>[](Authoritative => \A d \in Department : value[d] = Rendered[d][value["sws"]])

(* SyncKar comes to rest only in agreement: when nothing is on its way, no *)
(* guard key is live and the nightly run is not at work, every system has  *)
(* the last change of a user as the mapping renders it, unless an event    *)
(* was given up; between two changes no echo, late loser or correction     *)
(* leaves a system with anything else.                                     *)
Goal   == IF last = NoEntry THEN value["sws"] ELSE last.value
Agreed == \A s \in System : value[s] = Rendered[s][Goal]

RestsInAgreement == losses = 0 /\ Settled => Agreed

(* What makes RestsInAgreement inductive, when users wait for one another: *)
(* a change is still with the system where it was made, or SWS has it, all *)
(* that is on its way carries it, and either it is everywhere or SWS is    *)
(* still to report it.  A department that renders it in its own way        *)
(* reports that, and then the conflict window stands.                      *)
Entered ==
    /\ last # NoEntry /\ guard = {} /\ window = NoEntry /\ checking = 0
    /\ value[last.source] = last.value
    /\ Rendered[last.source][last.value] = last.value
    /\ last.source # "sws" => value["sws"] # last.value
    /\ \A s \in System \ {last.source} : feed[s] = <<>> /\ topic[s] = <<>>
    /\ \/ feed[last.source] = <<last.value>> /\ topic[last.source] = <<>>
       \/ feed[last.source] = <<>> /\ topic[last.source] = <<UserChange(last.value)>>

Carries(s, v) ==
    /\ \A i \in DOMAIN feed[s]  : feed[s][i] = v
    /\ \A i \in DOMAIN topic[s] : topic[s][i].value = v

Pending ==
    feed["sws"] # <<>> \/ \E i \in DOMAIN topic["sws"] : topic["sws"][i] = UserChange(Goal)

Odd(d) == Rendered[d][Goal] # Goal /\ (feed[d] # <<>> \/ topic[d] # <<>>)

Reported ==
    /\ value["sws"] = Goal
    /\ \A s \in System : Carries(s, Rendered[s][Goal])
    /\ checking > 0 => reading = Goal
    /\ \A k \in guard : k[3] = Goal
    /\ window # NoEntry => window.value = Goal /\ Rendered[window.source][Goal] = Goal
    /\ \A d \in Department : Odd(d) => window # NoEntry
    /\ Agreed \/ Pending

AgreeInv == losses = 0 => Entered \/ Reported

(* The mapping files hand over as it is what departments decide: all three *)
(* such fields in that of factories; that of the shop has license_status   *)
(* only, and the adapter hands over what it does not map.                  *)
DeptWinsAsIs ==
    \A f \in Fields : f.policy = "DEPT_WINS" =>
        \A s \in System, v \in Value : f.rendered[s][v] = v
=============================================================================
