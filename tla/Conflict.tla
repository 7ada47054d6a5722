------------------------------ MODULE Conflict ------------------------------
(***************************************************************************)
(* Conflict detection and resolution for one field of one business         *)
(* (pipeline/conflict.py, and steps 2 and 5 of _propagate_to_adapter in    *)
(* pipeline/dispatcher.py).  Users change the field in SWS or in a         *)
(* department; each change is an event that a dispatcher writes to the     *)
(* other side, once per target.  Before each write it looks into the       *)
(* sliding window, a Redis key holding one event, and applies the policy   *)
(* of the field's category when that event is of another system.           *)
(*                                                                         *)
(* An event is its number in the order of the changes.  SWS events go to   *)
(* every department, department events to SWS only.                        *)
(***************************************************************************)
EXTENDS Integers, Sequences, FiniteSets

CONSTANTS
    Departments,   \* sequence of the departments, in fan-out order
    Value,         \* values of the field
    Policies,      \* policies of the fields considered
    Worker,        \* dispatchers that run at the same time
    MaxBase,       \* bound: how far the topics are apart at the start
    MaxChanges,    \* bound: changes made by users
    MaxFaults      \* bound: failing writes, database faults, lost connections,
                   \* entries that expire under events on their way

Policy     == {"SWS_WINS", "DEPT_WINS", "LAST_WRITE_WINS", "DLQ"}
Department == {Departments[i] : i \in DOMAIN Departments}

ASSUME ConflictAssumption ==
    /\ Departments \in Seq(Department) \ {<<>>}
    /\ "sws" \notin Department
    /\ Policies \subseteq Policy
    /\ MaxBase \in Nat /\ MaxChanges \in Nat /\ MaxFaults \in Nat

System     == {"sws"} \cup Department
Event      == 1 .. MaxChanges
NoEvent    == 0

VARIABLES
    policy,     \* the policy of the field's category
    base,       \* base[s]: offset of the first event in the topic of system s
                \* (only LAST_WRITE_WINS reads it)
    changes,    \* the changes so far: source system and new value
    value,      \* value[s]: the field in system s
    stage,      \* stage[e]: none, fresh, taken, retry, done
    window,     \* the event registered under conflict_window, or none
    wpc,        \* wpc[w]: idle, look, register, write
    event,      \* event[w]: the event a worker has
    turn,       \* turn[w]: position of the target in its fan-out
    seen,       \* seen[w]: what its GET returned, until its SET
    failed,     \* failed[w]: a target of this attempt has to be retried
    completed,  \* pairs of event and target whose idempotency key is COMPLETED
    log,        \* conflict_log: pairs of existing and incoming event
    settled,    \* history: the changes before this round
    escaped,    \* history: an event got past window and log in this round
    faults

workers == <<wpc, event, turn, seen, failed>>
kept    == <<policy, base>>
history == <<settled, escaped>>
vars    == <<kept, changes, value, stage, window, workers, completed, log, history, faults>>

Source(e)   == changes[e].source
NewValue(e) == changes[e].value

(* broker_sequence is the offset in the topic of the source: offsets of    *)
(* different systems count different messages.                             *)
Sequence(e) ==
    base[Source(e)] + Cardinality({d \in 1 .. e - 1 : Source(d) = Source(e)})

Targets(e)  == IF Source(e) = "sws" THEN Departments ELSE <<"sws">>
TargetOf(w) == Targets(event[w])[turn[w]]

Init ==
    /\ policy    \in Policies
    /\ base      \in [System -> IF policy = "LAST_WRITE_WINS" THEN 0 .. MaxBase ELSE {0}]
    /\ changes   = <<>>
    /\ value     \in {[s \in System |-> v] : v \in Value}
    /\ stage     = [e \in Event |-> "none"]
    /\ window    = NoEvent
    /\ wpc       = [w \in Worker |-> "idle"]
    /\ event     = [w \in Worker |-> NoEvent]
    /\ turn      = [w \in Worker |-> 1]
    /\ seen      = [w \in Worker |-> NoEvent]
    /\ failed    = [w \in Worker |-> FALSE]
    /\ completed = {}
    /\ log       = {}
    /\ settled   = 0
    /\ escaped   = FALSE
    /\ faults    = 0

Goto(w, place) == wpc' = [wpc EXCEPT ![w] = place]
Fault == faults < MaxFaults /\ faults' = faults + 1

-----------------------------------------------------------------------------
(* A user changes the field in a system; poller and outbox make an event.  *)
Change(s, v) ==
    /\ Len(changes) < MaxChanges
    /\ v # value[s]
    /\ value'   = [value EXCEPT ![s] = v]
    /\ changes' = Append(changes, [source |-> s, value |-> v])
    /\ stage'   = [stage EXCEPT ![Len(changes) + 1] = "fresh"]
    /\ UNCHANGED <<kept, window, workers, completed, log, history, faults>>

(* A worker takes an event: fresh ones in the order of their topic.        *)
Take(w, e) ==
    /\ wpc[w] = "idle"
    /\ \/ stage[e] = "retry"
       \/ /\ stage[e] = "fresh"
          /\ \A d \in 1 .. e - 1 : Source(d) = Source(e) => stage[d] # "fresh"
    /\ stage'  = [stage  EXCEPT ![e] = "taken"]
    /\ event'  = [event  EXCEPT ![w] = e]
    /\ turn'   = [turn   EXCEPT ![w] = 1]
    /\ failed' = [failed EXCEPT ![w] = FALSE]
    /\ Goto(w, "look")
    /\ UNCHANGED <<kept, changes, value, window, seen, completed, log, history, faults>>

EndTurnPast(w, fails) ==          \* seeded bug: one target too many
    IF turn[w] <= Len(Targets(event[w]))
    THEN /\ turn'   = [turn   EXCEPT ![w] = @ + 1]
         /\ failed' = [failed EXCEPT ![w] = @ \/ fails]
         /\ Goto(w, "look")
         /\ UNCHANGED <<stage, event>>
    ELSE /\ stage'  = [stage EXCEPT ![event[w]] = IF failed[w] \/ fails THEN "retry" ELSE "done"]
         /\ event'  = [event EXCEPT ![w] = NoEvent]
         /\ turn'   = [turn  EXCEPT ![w] = 1]
         /\ failed' = [failed EXCEPT ![w] = FALSE]
         /\ Goto(w, "idle")

(* The turn of a target is over; after the last one the event is retried   *)
(* if a target failed in this attempt.                                     *)
EndTurn(w, fails) ==
    IF turn[w] < Len(Targets(event[w]))
    THEN /\ turn'   = [turn   EXCEPT ![w] = @ + 1]
         /\ failed' = [failed EXCEPT ![w] = @ \/ fails]
         /\ Goto(w, "look")
         /\ UNCHANGED <<stage, event>>
    ELSE /\ stage'  = [stage EXCEPT ![event[w]] = IF failed[w] \/ fails THEN "retry" ELSE "done"]
         /\ event'  = [event EXCEPT ![w] = NoEvent]
         /\ turn'   = [turn  EXCEPT ![w] = 1]
         /\ failed' = [failed EXCEPT ![w] = FALSE]
         /\ Goto(w, "idle")

-----------------------------------------------------------------------------
WinsSwapped(e, d) ==              \* seeded bug: the two priorities exchanged
    CASE policy = "SWS_WINS"        -> Source(e) # "sws"
      [] policy = "DEPT_WINS"       -> Source(e) = "sws"
      [] policy = "LAST_WRITE_WINS" -> Sequence(e) >= Sequence(d)
      [] policy = "DLQ"             -> FALSE

(* resolve_conflict: whether the incoming event wins over the one in the   *)
(* window.                                                                 *)
Wins(e, d) ==
    CASE policy = "SWS_WINS"        -> Source(e) = "sws"
      [] policy = "DEPT_WINS"       -> Source(e) # "sws"
      [] policy = "LAST_WRITE_WINS" -> Sequence(e) >= Sequence(d)
      [] policy = "DLQ"             -> FALSE

(* The dispatcher compares values: a loser with the winner's value goes on *)
(* too.                                                                    *)
GoesOn(e, d) ==
    \/ Wins(e, d)
    \/ policy # "DLQ" /\ NewValue(e) = NewValue(d)

Conflicts(e, d) == d # NoEvent /\ Source(d) # Source(e)

LoggedIfLost(e, d) == IF Wins(e, d) THEN {} ELSE {<<d, e>>}   \* seeded bug
LoggedPair(e, d)   == {<<d, e>>}

(* check_and_register, GET: no entry, or a newer value of the same system, *)
(* is registered next; the same value again is not; another system's entry *)
(* is a conflict, which is logged and decided.                             *)
LookClear(w) ==
    /\ wpc[w] = "look"
    /\ ~Conflicts(event[w], window)
    /\ IF window # NoEvent /\ NewValue(window) = NewValue(event[w])
       THEN Goto(w, "write")    /\ UNCHANGED seen
       ELSE Goto(w, "register") /\ seen' = [seen EXCEPT ![w] = window]
    /\ UNCHANGED <<kept, changes, value, stage, window, event, turn, failed,
                   completed, log, history, faults>>

LookConflict(w) ==
    /\ wpc[w] = "look"
    /\ Conflicts(event[w], window)
    /\ log' = log \cup LoggedPair(event[w], window)
    /\ IF GoesOn(event[w], window)
       THEN Goto(w, "write") /\ UNCHANGED <<stage, event, turn, failed>>
       ELSE EndTurn(w, FALSE)
    /\ UNCHANGED <<kept, changes, value, window, seen, completed, history, faults>>

(* Rate limiter or breaker refuse the turn before it looks.  After the     *)
(* last retry the event was never compared with anything.                  *)
Refused(w) ==
    /\ wpc[w] = "look"
    /\ Fault
    /\ \/ EndTurn(w, TRUE)  /\ UNCHANGED escaped
       \/ EndTurn(w, FALSE) /\ escaped' = TRUE
    /\ UNCHANGED <<kept, changes, value, window, seen, completed, log, settled>>

(* The conflict_log row cannot be written: the dispatcher swallows the     *)
(* error and the target is skipped.                                        *)
LogFails(w) ==
    /\ wpc[w] = "look"
    /\ Conflicts(event[w], window)
    /\ Fault
    /\ escaped' = TRUE
    /\ EndTurn(w, FALSE)
    /\ UNCHANGED <<kept, changes, value, window, seen, completed, log, settled>>

(* A lost Redis connection reads as "no conflict".                         *)
Blind(w) ==
    /\ wpc[w] \in {"look", "register"}
    /\ Fault
    /\ escaped' = TRUE
    /\ seen' = [seen EXCEPT ![w] = NoEvent]
    /\ Goto(w, "write")
    /\ UNCHANGED <<kept, changes, value, stage, window, event, turn, failed,
                   completed, log, settled>>

(* check_and_register, SET.                                                *)
Register(w) ==
    /\ wpc[w] = "register"
    /\ window' = event[w]
    /\ escaped' = (escaped \/ window # seen[w])
    /\ seen' = [seen EXCEPT ![w] = NoEvent]
    /\ Goto(w, "write")
    /\ UNCHANGED <<kept, changes, value, stage, event, turn, failed,
                   completed, log, settled, faults>>

-----------------------------------------------------------------------------
(* The write, unless the idempotency key of the target is COMPLETED.       *)
Write(w) ==
    /\ wpc[w] = "write"
    /\ completed' = completed \cup {<<event[w], TargetOf(w)>>}
    /\ value' = IF <<event[w], TargetOf(w)>> \in completed
                THEN value
                ELSE [value EXCEPT ![TargetOf(w)] = NewValue(event[w])]
    /\ EndTurn(w, FALSE)
    /\ UNCHANGED <<kept, changes, window, seen, log, history, faults>>

(* The write fails: retried after a transport error, given up after a 4xx, *)
(* an unknown business or the last retry.                                  *)
WriteFails(w) ==
    /\ wpc[w] = "write"
    /\ <<event[w], TargetOf(w)>> \notin completed
    /\ Fault
    /\ \E fails \in BOOLEAN : EndTurn(w, fails)
    /\ UNCHANGED <<kept, changes, value, window, seen, completed, log, history>>

AtRest == \A e \in 1 .. Len(changes) : stage[e] = "done"

(* The key expires.  At rest this ends a round; otherwise an event comes   *)
(* later than the window allows for.                                       *)
Expire ==
    /\ window # NoEvent
    /\ window'  = NoEvent
    /\ settled' = IF AtRest THEN Len(changes) ELSE settled
    /\ escaped' = ~AtRest
    /\ IF AtRest THEN UNCHANGED faults ELSE Fault
    /\ UNCHANGED <<kept, changes, value, stage, workers, completed, log>>

Propagate(w) ==
    \/ Refused(w)  \/ LookClear(w) \/ LookConflict(w) \/ LogFails(w)
    \/ Blind(w)    \/ Register(w)  \/ Write(w)        \/ WriteFails(w)

Over == AtRest /\ Len(changes) = MaxChanges /\ window = NoEvent /\ UNCHANGED vars

Next ==
    \/ \E s \in System, v \in Value : Change(s, v)
    \/ \E w \in Worker : Propagate(w) \/ \E e \in 1 .. Len(changes) : Take(w, e)
    \/ Expire
    \/ Over

Spec == Init /\ [][Next]_vars

-----------------------------------------------------------------------------
(* Every variable has its type, a worker holds the event it took and never *)
(* goes past the fan-out of its source.                                    *)
TypeOK ==
    /\ policy \in Policy
    /\ base \in [System -> Nat]
    /\ changes \in Seq([source : System, value : Value]) /\ Len(changes) <= MaxChanges
    /\ value \in [System -> Value]
    /\ stage \in [Event -> {"none", "fresh", "taken", "retry", "done"}]
    /\ window \in 0 .. Len(changes)
    /\ wpc \in [Worker -> {"idle", "look", "register", "write"}]
    /\ event \in [Worker -> 0 .. Len(changes)]
    /\ turn \in [Worker -> Nat]
    /\ seen \in [Worker -> 0 .. Len(changes)]
    /\ failed \in [Worker -> BOOLEAN]
    /\ completed \subseteq Event \X System
    /\ log \subseteq Event \X Event
    /\ settled \in 0 .. Len(changes)
    /\ escaped \in BOOLEAN
    /\ faults \in 0 .. MaxFaults
    /\ \A w \in Worker :
          IF event[w] = NoEvent THEN wpc[w] = "idle"
          ELSE wpc[w] # "idle" /\ stage[event[w]] = "taken" /\ turn[w] \in DOMAIN Targets(event[w])

Round      == settled + 1 .. Len(changes)
Changed(s) == {e \in Round : Source(e) = s}
Latest(e)  == \A d \in Changed(Source(e)) : d <= e

InConflict(s) ==
    \E pair \in log : \E i \in {1, 2} : pair[i] \in Round /\ Source(pair[i]) = s

(* No silent overwrite: once all events of a round are done, a system that *)
(* no longer has the value it was last given itself took part in a logged  *)
(* conflict of the round.  The window entry, one per field, never names    *)
(* the winner of a conflict, and still no source gets past it unnoticed,   *)
(* unless Redis or the log failed, an event was given up before it looked, *)
(* a worker registered over another, or an event outlived the window.      *)
ConflictNoticed ==
    AtRest /\ ~escaped =>
        \A e \in Round :
            Latest(e) /\ value[Source(e)] # NewValue(e) => InConflict(Source(e))

(* The authority keeps its field: while the window names an event of the   *)
(* policy's authority, no propagation gives that system a value it did not *)
(* have itself in this round, whatever the others send and in what order.  *)
Authority == {s \in System : \/ policy = "SWS_WINS"  /\ s = "sws"
                             \/ policy = "DEPT_WINS" /\ s # "sws"}

AuthorityKept ==
    [][\A s \in Authority :
          /\ window # NoEvent /\ Source(window) = s
          /\ ~escaped
          /\ changes' = changes
          => value'[s] \in {value[s]} \cup {NewValue(e) : e \in Changed(s)}]_vars

(* SyncKar_Final_Solution.md:466, of a field with source priority: the     *)
(* value of SWS is propagated, the department's is logged but discarded.   *)
SwsPrevails ==
    AtRest /\ ~escaped /\ policy = "SWS_WINS" =>
        \A e \in Changed("sws") : Latest(e) => value["sws"] = NewValue(e)

-----------------------------------------------------------------------------
(* The inductive invariant.  An event is held by one worker and belongs to *)
(* the round until it is done; the window names an event of the round.     *)
OneHolder == \A v, w \in Worker : event[v] = event[w] /\ event[v] # NoEvent => v = w

RoundOpen ==
    /\ \A e \in Event : stage[e] \in {"fresh", "taken", "retry"} => e \in Round
    /\ \A e \in 1 .. Len(changes) : stage[e] # "none"
    /\ window # NoEvent => window \in Round

SeenOwn ==
    \A w \in Worker : wpc[w] = "register" /\ seen[w] # NoEvent
                          => Source(seen[w]) = Source(event[w])

(* A write that goes ahead against the authority carries its value.        *)
Earned(w) ==
    /\ window # NoEvent
    /\ Source(window) \in Authority /\ Source(event[w]) \notin Authority
          => \E d \in Changed(Source(window)) : NewValue(d) = NewValue(event[w])

WritesEarned == \A w \in Worker : wpc[w] = "write" /\ ~escaped => Earned(w)

IInv == TypeOK /\ OneHolder /\ RoundOpen /\ SeenOwn /\ WritesEarned

(* An event that looked has the source of the window or is in a conflict   *)
(* with it: so has every event that is written or done, and a system does  *)
(* not lose its value but to such an event.                                *)
Noticed(e) ==
    /\ window # NoEvent
    /\ Source(window) # Source(e) => InConflict(Source(e)) /\ InConflict(Source(window))

NoticedInv ==
    ~escaped =>
        /\ \A e \in Round : stage[e] = "done" => Noticed(e)
        /\ \A w \in Worker : wpc[w] = "write" => Noticed(event[w])
        /\ \A e \in Round : Latest(e) /\ value[Source(e)] # NewValue(e)
              => \E d \in Round : Source(d) # Source(e) /\ Noticed(d)
=============================================================================
