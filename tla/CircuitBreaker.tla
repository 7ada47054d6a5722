--------------------------- MODULE CircuitBreaker ---------------------------
(***************************************************************************)
(* The circuit breaker of one adapter (pipeline/circuit_breaker.py): a     *)
(* state and a sorted set of failure times in Redis, shared by every       *)
(* Celery worker.  record_success, record_failure and attempt_half_open    *)
(* are sequences of Redis commands with no transaction around them, so the *)
(* commands of several workers and of the probe interleave; each command   *)
(* is an action here.  The dispatcher calls the target between             *)
(* is_call_permitted and record_success or record_failure.                 *)
(***************************************************************************)
EXTENDS Integers, FiniteSets

CONSTANTS
    Worker,      \* dispatchers that propagate to this adapter
    Threshold,   \* failure_threshold
    Window,      \* window_seconds, in ticks
    MaxClock,    \* bound: ticks
    MaxLost      \* bound: Redis commands that end in a ConnectionError, done or not

ASSUME BreakerAssumption ==
    /\ Threshold \in Nat \ {0} /\ Window \in Nat \ {0}
    /\ MaxClock \in Nat /\ MaxLost \in Nat

Time  == 0 .. MaxClock
State == {"closed", "open", "half_open"}

VARIABLES
    state,      \* circuit:{adapter}:state, an absent key reading as closed
    failures,   \* circuit:{adapter}:failures: members <<score, number>>
    now,        \* time.time()
    up,         \* whether the target answers
    pc,         \* pc[w]: the next Redis command of the worker, or its call
    seen,       \* seen[w]: what is_call_permitted, then record_success read
    at,         \* at[w]: the time record_failure took
    enough,     \* enough[w]: whether its zcard reached the threshold
    probe,      \* idle, or set when attempt_half_open has read OPEN
    excused,    \* history: the failures in the set were passed over, see below
    lost        \* Redis commands lost so far

breaker == <<state, failures>>
locals  == <<seen, at, enough>>
vars    == <<breaker, now, up, pc, locals, probe, excused, lost>>

Place == {"idle", "call", "s_get", "s_del", "s_set",
          "f_add", "f_rem", "f_card", "f_get", "f_set"}

(* Failures with a score in S are numbered as they come.                   *)
Members(S) == {m \in failures : m[1] \in S}
Card       == Cardinality(failures)

Init ==
    /\ state    = "closed"
    /\ failures = {}
    /\ now      = 0
    /\ up       = TRUE
    /\ pc       = [w \in Worker |-> "idle"]
    /\ seen     = [w \in Worker |-> "closed"]
    /\ at       = [w \in Worker |-> 0]
    /\ enough   = [w \in Worker |-> FALSE]
    /\ probe    = "idle"
    /\ excused  = FALSE
    /\ lost     = 0

Goto(w, place) == pc' = [pc EXCEPT ![w] = place]
See(w, s)      == seen' = [seen EXCEPT ![w] = s]

-----------------------------------------------------------------------------
(* is_call_permitted: get_state, then the call unless it is OPEN.          *)
Permitted(s) == s # "open"

Permit(w) ==
    /\ pc[w] = "idle"
    /\ Permitted(state)
    /\ See(w, state)
    /\ Goto(w, "call")
    /\ UNCHANGED <<breaker, now, up, at, enough, probe, excused, lost>>

Refuse(w) ==
    /\ pc[w] = "idle"
    /\ ~Permitted(state)
    /\ UNCHANGED vars

(* The target answers the write, or refuses the connection or answers 5xx. *)
CallOk(w) ==
    /\ pc[w] = "call" /\ up
    /\ Goto(w, "s_get")
    /\ UNCHANGED <<breaker, now, up, locals, probe, excused, lost>>

CallFails(w) ==
    /\ pc[w] = "call" /\ ~up
    /\ Goto(w, "f_add")
    /\ UNCHANGED <<breaker, now, up, locals, probe, excused, lost>>

(* The turn ends without a record: the event was a duplicate or lost a     *)
(* conflict, the target answered 404 or 4xx, or the call timed out.        *)
Unrecorded(w) ==
    /\ pc[w] = "call"
    /\ Goto(w, "idle")
    /\ UNCHANGED <<breaker, now, up, locals, probe, excused, lost>>

-----------------------------------------------------------------------------
(* record_success                                                          *)
SuccessGet(w) ==
    /\ pc[w] = "s_get"
    /\ See(w, state)
    /\ Goto(w, "s_del")
    /\ UNCHANGED <<breaker, now, up, at, enough, probe, excused, lost>>

ClosesFromOpen(s) == s = "open"                  \* seeded bug
ClosesFrom(s)     == s \in {"half_open", "open"}

SuccessDel(w) ==
    /\ pc[w] = "s_del"
    /\ failures' = {}
    /\ excused' = FALSE
    /\ Goto(w, IF ClosesFrom(seen[w]) THEN "s_set" ELSE "idle")
    /\ UNCHANGED <<state, now, up, locals, probe, lost>>

(* A CLOSED written over failures that had reached the threshold since the *)
(* DEL undoes the OPEN of the workers that counted them.                   *)
SuccessSet(w) ==
    /\ pc[w] = "s_set"
    /\ state' = "closed"
    /\ excused' = (excused \/ Card >= Threshold)
    /\ Goto(w, "idle")
    /\ UNCHANGED <<failures, now, up, locals, probe, lost>>

-----------------------------------------------------------------------------
(* record_failure                                                          *)
(* The sorted set has no limit.  The model keeps at most Threshold members *)
(* of a score, a bound of its own: the code compares nothing but the       *)
(* cardinality with the threshold, so more make no difference.             *)
Saturated(n) == IF n < Threshold THEN n + 1 ELSE n

Added   == failures \cup {<<now, Saturated(Cardinality(Members({now})))>>}
Kept(w) == {m \in failures : m[1] > at[w] - Window}

FailureAdd(w) ==
    /\ pc[w] = "f_add"
    /\ at' = [at EXCEPT ![w] = now]
    /\ failures' = Added
    /\ Goto(w, "f_rem")
    /\ UNCHANGED <<state, now, up, seen, enough, probe, excused, lost>>

FailureRemove(w) ==
    /\ pc[w] = "f_rem"
    /\ failures' = Kept(w)
    /\ Goto(w, "f_card")
    /\ UNCHANGED <<state, now, up, locals, probe, excused, lost>>

MoreThanEnough(n) == n > Threshold     \* seeded bug: off by one
Enough(n)         == n >= Threshold

FailureCount(w) ==
    /\ pc[w] = "f_card"
    /\ enough' = [enough EXCEPT ![w] = Enough(Card)]
    /\ Goto(w, "f_get")
    /\ UNCHANGED <<breaker, now, up, seen, at, probe, excused, lost>>

(* Any failure in HALF_OPEN reopens.                                       *)
Reopens(w, s) == s = "half_open" \/ enough[w]

FailureGet(w) ==
    /\ pc[w] = "f_get"
    /\ Goto(w, IF Reopens(w, state) THEN "f_set" ELSE "idle")
    /\ UNCHANGED <<breaker, now, up, locals, probe, excused, lost>>

MisspeltOpen == "opened"     \* seeded bug: a value CircuitState does not know
Opened       == "open"

FailureSet(w) ==
    /\ pc[w] = "f_set"
    /\ state' = Opened
    /\ Goto(w, "idle")
    /\ UNCHANGED <<failures, now, up, locals, probe, excused, lost>>

-----------------------------------------------------------------------------
(* A command of a worker is lost before it took effect.  get_state answers *)
(* CLOSED then and the method goes on; any other command ends the method.  *)
Lose(w) ==
    /\ lost < MaxLost
    /\ lost' = lost + 1
    /\ \/ /\ pc[w] = "idle" /\ Goto(w, "call") /\ See(w, "closed")
          /\ UNCHANGED excused
       \/ /\ pc[w] = "s_get" /\ Goto(w, "s_del") /\ See(w, "closed")
          /\ UNCHANGED excused
       \/ /\ pc[w] = "f_get"
          /\ Goto(w, IF Reopens(w, "closed") THEN "f_set" ELSE "idle")
          /\ UNCHANGED <<seen, excused>>
       \/ /\ pc[w] \in {"s_del", "s_set", "f_add", "f_rem", "f_card", "f_set"}
          /\ Goto(w, "idle")
          /\ excused' = (excused \/ pc[w] \in {"f_rem", "f_card", "f_set"})
          /\ UNCHANGED seen
    /\ UNCHANGED <<breaker, now, up, at, enough, probe>>

(* The command took effect and its reply was lost, which ends the method   *)
(* all the same.  After a SET the method ends anyway, and a ZCARD or GET   *)
(* without its reply is a lost one.                                        *)
LoseReply(w) ==
    /\ lost < MaxLost
    /\ lost' = lost + 1
    /\ \/ pc[w] = "s_del" /\ failures' = {}      /\ excused' = FALSE
       \/ pc[w] = "f_add" /\ failures' = Added   /\ excused' = TRUE
       \/ pc[w] = "f_rem" /\ failures' = Kept(w) /\ excused' = TRUE
    /\ Goto(w, "idle")
    /\ UNCHANGED <<state, now, up, locals, probe>>

-----------------------------------------------------------------------------
(* probe_circuit_breakers_task, every 60 seconds: attempt_half_open.       *)
Probes(s) == s = "open"

ProbeGet ==
    /\ probe = "idle"
    /\ Probes(state)
    /\ probe' = "set"
    /\ UNCHANGED <<breaker, now, up, pc, locals, excused, lost>>

ProbeSet ==
    /\ probe = "set"
    /\ state' = "half_open"
    /\ probe' = "idle"
    /\ UNCHANGED <<failures, now, up, pc, locals, excused, lost>>

ProbeLost ==
    /\ probe = "set"
    /\ lost < MaxLost
    /\ lost' = lost + 1
    /\ probe' = "idle"
    /\ UNCHANGED <<breaker, now, up, pc, locals, excused>>

(* Time passes; the target goes down or comes back.                        *)
Tick ==
    /\ now < MaxClock
    /\ now' = now + 1
    /\ UNCHANGED <<breaker, up, pc, locals, probe, excused, lost>>

Health ==
    /\ up' = ~up
    /\ UNCHANGED <<breaker, now, pc, locals, probe, excused, lost>>

-----------------------------------------------------------------------------
RecordSuccess(w) == SuccessGet(w) \/ SuccessDel(w) \/ SuccessSet(w)
RecordFailure(w) ==
    FailureAdd(w) \/ FailureRemove(w) \/ FailureCount(w) \/ FailureGet(w) \/ FailureSet(w)

Step(w) ==
    Permit(w) \/ Refuse(w) \/ CallOk(w) \/ CallFails(w) \/ Unrecorded(w)
    \/ RecordSuccess(w) \/ RecordFailure(w)

AttemptHalfOpen == ProbeGet \/ ProbeSet

Next ==
    \/ \E w \in Worker : Step(w) \/ Lose(w) \/ LoseReply(w)
    \/ AttemptHalfOpen \/ ProbeLost
    \/ Tick \/ Health

Spec == Init /\ [][Next]_vars

(* Workers run, calls end, events for the adapter keep coming, and beat    *)
(* keeps starting the probe; not every turn ends unrecorded for ever.      *)
FairSpec ==
    /\ Spec
    /\ WF_vars(AttemptHalfOpen)
    /\ \A w \in Worker : WF_vars(Step(w)) /\ SF_vars(CallOk(w))

-----------------------------------------------------------------------------
(* Type invariant.                                                         *)
TypeOK ==
    /\ state    \in State
    /\ failures \subseteq Time \X (1 .. Threshold)
    /\ now      \in Time
    /\ up       \in BOOLEAN
    /\ pc       \in [Worker -> Place]
    /\ seen     \in [Worker -> State]
    /\ at       \in [Worker -> Time]
    /\ enough   \in [Worker -> BOOLEAN]
    /\ probe    \in {"idle", "set"}
    /\ excused  \in BOOLEAN
    /\ lost     \in 0 .. MaxLost

(* "OPEN trigger: 5 consecutive failures in 2 minutes": a breaker with     *)
(* Threshold failures of the last Window on record is not CLOSED, unless a *)
(* worker is on its way to open it, which has yet to count or has counted  *)
(* enough, or a lost command or a late CLOSED passed the failures over:    *)
(* whatever the interleaving of workers that count, remove and reset.      *)
Recent == {t \in Time : t > now - Window}

OnTheWay(w) ==
    \/ pc[w] \in {"f_rem", "f_card"}
    \/ pc[w] \in {"f_get", "f_set"} /\ enough[w]

TripAccounted ==
    (Cardinality(Members(Recent)) >= Threshold /\ state = "closed")
        => excused \/ \E w \in Worker : OnTheWay(w)

(* The breaker is never stuck OPEN, also for a target that stays down, and *)
(* once the target is up for good it closes for good, whatever failures,   *)
(* probes and half-finished updates are under way (attempt_half_open).     *)
RecoversForGood ==
    /\ []<>(state # "open")
    /\ <>[]up => <>[](state = "closed")
=============================================================================
