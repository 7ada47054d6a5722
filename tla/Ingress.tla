------------------------------ MODULE Ingress ------------------------------
(***************************************************************************)
(* How the changes of one system enter SyncKar: its change feed, the       *)
(* poller with its watermark in Redis and PostgreSQL (pipeline/watermark), *)
(* the poll task that writes the events of a poll to the outbox one by one *)
(* after the watermark has moved, and the webhook, which knows neither.    *)
(*                                                                         *)
(* A change is the time stamp its PUT took before it committed, so a       *)
(* change may become visible after one with a later stamp.  Tasks run one  *)
(* at a time (--concurrency=1), webhooks beside them.                      *)
(***************************************************************************)
EXTENDS Integers, Sequences, FiniteSets

CONSTANTS
    MaxChanges,   \* bound: changes of the system
    MaxPushes,    \* bound: webhook calls
    MaxFaults     \* bound: crashes, lost memory, failing calls

ASSUME IngressAssumption ==
    MaxChanges \in Nat /\ MaxPushes \in Nat /\ MaxFaults \in Nat

Change == 1 .. MaxChanges
Kind   == {"plain", "echo", "unusable"}   \* unusable: no UBID, or not translatable

VARIABLES
    kind,      \* kind[c]: what the change is
    begun,     \* stamps taken so far
    feed,      \* committed changes, by id
    live,      \* echoes whose loop-guard key is live
    redis,     \* the watermark in Redis, 0 if there is none
    db,        \* the watermark in poller_state, 0 if there is none
    pc,        \* look, fetch, remember, persist, write
    since,     \* the watermark the poll asks with
    batch,     \* positions in feed of the events it still has to write
    latest,    \* the watermark it sets
    outbox,    \* the events written, in order
    dropped,   \* history: events dropped behind the watermark
    setbacks,  \* history: SETs of the watermark that failed
    pushes,    \* history: webhook calls per change
    wiped,     \* history: Redis lost its memory
    faults

source  == <<kind, begun, feed>>
marks   == <<redis, db>>
poll    == <<pc, since, batch, latest>>
history == <<dropped, setbacks, pushes, wiped>>
vars    == <<source, live, marks, poll, outbox, history, faults>>

Init ==
    /\ kind     \in [Change -> Kind]
    /\ begun    = 0
    /\ feed     = <<>>
    /\ live     = {}
    /\ redis    = 0
    /\ db       = 0
    /\ pc       = "look"
    /\ since    = 0
    /\ batch    = {}
    /\ latest   = 0
    /\ outbox   = <<>>
    /\ dropped  = {}
    /\ setbacks = 0
    /\ pushes   = [c \in Change |-> 0]
    /\ wiped    = FALSE
    /\ faults   = 0

Fault == faults < MaxFaults /\ faults' = faults + 1

-----------------------------------------------------------------------------
(* The PUT of the system: it takes the time, then commits the change.  An  *)
(* echo is a write of SyncKar, which has just marked it.  Stamps are       *)
(* distinct: of two changes with the same one, the second either is read   *)
(* with the first or becomes visible behind the watermark, as one with an  *)
(* older stamp does.                                                       *)
Visible == {feed[i] : i \in DOMAIN feed}

Begin ==
    /\ begun < MaxChanges
    /\ begun' = begun + 1
    /\ UNCHANGED <<kind, feed, live, marks, poll, outbox, history, faults>>

Commit(c) ==
    /\ c <= begun /\ c \notin Visible
    /\ feed' = Append(feed, c)
    /\ live' = IF kind[c] = "echo" THEN live \cup {c} ELSE live
    /\ UNCHANGED <<kind, begun, marks, poll, outbox, history, faults>>

(* A loop-guard key expires.                                               *)
Expire(c) ==
    /\ c \in live
    /\ live' = live \ {c}
    /\ UNCHANGED <<source, marks, poll, outbox, history, faults>>

-----------------------------------------------------------------------------
(* get_watermark: Redis, else PostgreSQL, whose value goes to Redis.       *)
Look ==
    /\ pc = "look"
    /\ since' = IF redis # 0 THEN redis ELSE db
    /\ redis' = IF redis # 0 THEN redis ELSE db
    /\ pc' = "fetch"
    /\ UNCHANGED <<source, live, db, batch, latest, outbox, history, faults>>

LookBlind ==
    /\ pc = "look"
    /\ Fault
    /\ since' = db
    /\ pc' = "fetch"
    /\ UNCHANGED <<source, live, marks, batch, latest, outbox, history>>

NewerOrEqual(c) == c >= since    \* seeded bug: the feed includes the watermark
Newer(c)        == c > since

(* The changes of the feed that become events: echoes with a live key are  *)
(* skipped, and so are unusable changes.                                   *)
Events ==
    {i \in DOMAIN feed : /\ Newer(feed[i])
                         /\ kind[feed[i]] # "unusable"
                         /\ feed[i] \notin live}

AllOrNothing ==                  \* seeded bug: an unusable change ends the poll
    IF \E i \in DOMAIN feed : Newer(feed[i]) /\ kind[feed[i]] = "unusable"
    THEN {} ELSE Events
Polled == Events

(* poll: the events, and their latest stamp as the next watermark; without *)
(* an event the watermark stays.                                           *)
Stamps == {feed[i] : i \in Polled}

Fetch ==
    /\ pc = "fetch"
    /\ IF Polled = {}
       THEN pc' = "look" /\ UNCHANGED <<batch, latest>>
       ELSE /\ \E m \in Stamps : (\A n \in Stamps : n <= m) /\ latest' = m
            /\ batch' = Polled
            /\ pc' = "remember"
    /\ since' = 0
    /\ UNCHANGED <<source, live, marks, outbox, history, faults>>

(* set_watermark: Redis first, where a lost connection is swallowed, then  *)
(* PostgreSQL.                                                             *)
RememberTooFar == latest + 1     \* seeded bug: past the last change read
Remembered     == latest

Remember ==
    /\ pc = "remember"
    /\ redis' = Remembered
    /\ pc' = "persist"
    /\ UNCHANGED <<source, live, db, since, batch, latest, outbox, history, faults>>

RememberFails ==
    /\ pc = "remember"
    /\ Fault
    /\ setbacks' = setbacks + 1
    /\ pc' = "persist"
    /\ UNCHANGED <<source, live, marks, since, batch, latest, outbox,
                   dropped, pushes, wiped>>

Persist ==
    /\ pc = "persist"
    /\ db' = latest
    /\ latest' = 0
    /\ pc' = "write"
    /\ UNCHANGED <<source, live, redis, since, batch, outbox, history, faults>>

-----------------------------------------------------------------------------
(* poll_sws_task and its two siblings: each event in a transaction of its  *)
(* own, in the order of the feed.                                          *)
FirstStamped(i) == \A j \in batch : feed[i] <= feed[j]   \* seeded bug: by stamp
First(i)        == \A j \in batch : i <= j

WriteEvent(i) ==
    /\ pc = "write"
    /\ i \in batch /\ First(i)
    /\ outbox' = Append(outbox, feed[i])
    /\ batch'  = batch \ {i}
    /\ pc'     = IF batch = {i} THEN "look" ELSE "write"
    /\ UNCHANGED <<source, live, marks, since, latest, history, faults>>

(* The feed cannot be read, poller_state or the outbox cannot be written,  *)
(* which the task only logs, or the worker is lost at any place.           *)
Behind(c) == c <= redis \/ c <= db

Break ==
    /\ pc # "look"
    /\ Fault
    /\ dropped' = dropped \cup {c \in {feed[i] : i \in batch} : Behind(c)}
    /\ batch'   = {}
    /\ since'   = 0
    /\ latest'  = 0
    /\ pc'      = "look"
    /\ UNCHANGED <<source, live, marks, outbox, setbacks, pushes, wiped>>

(* Redis restarts empty, or evicts: keys of the loop guard go too.         *)
Wipe ==
    /\ Fault
    /\ redis' = 0
    /\ live'  = {}
    /\ wiped' = TRUE
    /\ UNCHANGED <<source, db, poll, outbox, dropped, setbacks, pushes>>

-----------------------------------------------------------------------------
(* receive_webhook: what can be translated is written to the outbox; loop  *)
(* guard and watermark are not asked.  A refused call changes nothing.     *)
Calls == {c \in Change : pushes[c] > 0}

Push(c) ==
    /\ c \in Visible /\ kind[c] # "unusable"
    /\ Cardinality(Calls) < MaxPushes /\ pushes[c] = 0
    /\ outbox' = Append(outbox, c)
    /\ pushes' = [pushes EXCEPT ![c] = @ + 1]
    /\ UNCHANGED <<source, live, marks, poll, dropped, setbacks, wiped, faults>>

PollStep ==
    Look \/ Fetch \/ Remember \/ Persist \/ \E i \in batch : WriteEvent(i)

Next ==
    \/ Begin
    \/ \E c \in Change : Commit(c) \/ Expire(c) \/ Push(c)
    \/ PollStep
    \/ LookBlind \/ RememberFails
    \/ Break
    \/ Wipe

(* Beat starts the poll again and again.                                   *)
Spec == Init /\ [][Next]_vars /\ WF_vars(PollStep)

-----------------------------------------------------------------------------
(* Type invariant.                                                         *)
TypeOK ==
    /\ kind     \in [Change -> Kind]
    /\ begun    \in 0 .. MaxChanges
    /\ feed     \in Seq(Change)
    /\ live     \subseteq Change
    /\ redis    \in 0 .. MaxChanges
    /\ db       \in 0 .. MaxChanges
    /\ pc       \in {"look", "fetch", "remember", "persist", "write"}
    /\ since    \in 0 .. MaxChanges
    /\ batch    \subseteq DOMAIN feed
    /\ latest   \in 0 .. MaxChanges
    /\ outbox   \in Seq(Change)
    /\ dropped  \subseteq Change
    /\ setbacks \in Nat
    /\ pushes   \in [Change -> Nat]
    /\ wiped    \in BOOLEAN
    /\ faults   \in 0 .. MaxFaults

Ingested(c)  == \E k \in DOMAIN outbox : outbox[k] = c
InHand(c)    == pc \in {"persist", "write"} /\ \E i \in batch : feed[i] = c
Overtaken(c) == \E i, j \in DOMAIN feed : j < i /\ feed[i] = c /\ feed[j] > c

(* No change is passed over in silence: a user's change that the watermark *)
(* has left behind, in Redis or in PostgreSQL, is in the outbox or on its  *)
(* way there, or was dropped by a failure after the watermark had moved,   *)
(* or it became visible after a change with a later stamp.                 *)
Accounted ==
    \A c \in Visible :
        kind[c] = "plain" /\ Behind(c) =>
            Ingested(c) \/ InHand(c) \/ c \in dropped \/ Overtaken(c)

(* A change is written to the outbox again only because a webhook brought  *)
(* it too, or because Redis still had an old watermark when a SET failed:  *)
(* crashes and the loss of Redis' memory repeat nothing.                   *)
Times(s, c) == Cardinality({k \in DOMAIN s : s[k] = c})
Written(c)  == Times(outbox, c)

OncePerSetback == \A c \in Change : Written(c) <= 1 + pushes[c] + setbacks

(* The changes of users enter the outbox in the order in which the system  *)
(* committed them, which broker_sequence stands for later, unless dropped  *)
(* changes came back since Redis lost its memory or lagged behind twice,   *)
(* or a webhook was faster.                                                *)
FirstWritten(c, d) ==
    \E k \in DOMAIN outbox : outbox[k] = c /\ \A m \in 1 .. k : outbox[m] # d

CommitOrder ==
    ~wiped /\ setbacks <= 1 /\ Calls = {} =>
        \A i, j \in DOMAIN feed :
            /\ i < j
            /\ kind[feed[i]] = "plain" /\ kind[feed[j]] = "plain"
            /\ Ingested(feed[i]) /\ Ingested(feed[j])
            => FirstWritten(feed[i], feed[j])

(* Every change of a user reaches the outbox, past unusable changes and    *)
(* skipped echoes before it, unless a failure dropped it or it became      *)
(* visible late.                                                           *)
EventuallyIngested ==
    \A c \in Change :
        (c \in Visible /\ kind[c] = "plain") ~>
            (Ingested(c) \/ c \in dropped \/ Overtaken(c))

(* What makes Accounted inductive: no mark stands past what is visible,    *)
(* only echoes are guarded, and a poll has all it passes over in its batch.*)
Marked == Visible \cup {0}

MarksVisible ==
    /\ redis \in Marked /\ db \in Marked
    /\ since \in Marked /\ latest \in Marked
    /\ \A c \in live : kind[c] = "echo"

Safe(c)    == Ingested(c) \/ c \in dropped \/ Overtaken(c)
InBatch(c) == \E i \in batch : feed[i] = c

FetchSafe ==
    pc = "fetch" => \A c \in Visible : kind[c] = "plain" /\ c <= since => Safe(c)

BatchComplete ==
    pc \in {"remember", "persist"} =>
        \A c \in Visible : kind[c] = "plain" /\ c <= latest => Safe(c) \/ InBatch(c)

BatchShape == pc \in {"look", "fetch"} => batch = {}

IInv == TypeOK /\ MarksVisible /\ FetchSafe /\ BatchComplete /\ BatchShape /\ Accounted

(* What makes OncePerSetback inductive: the watermark in PostgreSQL only   *)
(* grows, since a poll that starts behind it reads the change it stands at *)
(* once more, and a change behind it is read again only while Redis lags.  *)
FeedOnce == \A i, j \in DOMAIN feed : feed[i] = feed[j] => i = j

Readable(m) == m = 0 \/ (m \in Visible /\ kind[m] # "unusable" /\ m \notin live)

DbGrows ==
    /\ Readable(db)
    /\ pc \in {"remember", "persist"} =>
           Readable(latest) /\ db <= latest /\ \A i \in batch : feed[i] <= latest
    /\ pc = "write" => \A i \in batch : feed[i] <= db

Lagging(c) == redis # 0 /\ redis < c
One(b)     == IF b THEN 1 ELSE 0

Due(c) ==
    IF pc \in {"persist", "write"}
    THEN One(InBatch(c)) + One(Lagging(c))
    ELSE One(InBatch(c) \/ Lagging(c) \/ (pc = "fetch" /\ since < c))

Counted ==
    \A c \in Change :
        /\ c > db  => Written(c) <= pushes[c]
        /\ c <= db => Written(c) + Due(c) <= 1 + pushes[c] + setbacks
        /\ pc = "persist" /\ c <= latest /\ Lagging(c) => setbacks > 0

CountInv == FeedOnce /\ DbGrows /\ Counted

(* What makes CommitOrder inductive: with its memory the watermark in      *)
(* Redis only grows too, and lags behind the one in PostgreSQL only after  *)
(* a setback; so a change that a batch passes over while it takes a later  *)
(* commit is behind both watermarks when the batch is written, and no      *)
(* later poll asks from before it.                                         *)
RedisGrows ==
    ~wiped =>
        /\ Readable(redis)
        /\ pc = "remember" => redis <= latest
        /\ setbacks = 0 =>
               /\ db <= redis
               /\ pc = "persist" => latest <= redis
               /\ pc = "fetch"   => since <= redis

Gone(c) == c <= db /\ c <= redis /\ (pc = "fetch" => c <= since)

Passed(c) ==
    /\ pc = "remember" => c <= latest /\ (setbacks = 0 => c <= redis)
    /\ pc = "persist"  => c <= latest /\ c <= redis
    /\ pc = "write"    => Gone(c)

Orderly == ~wiped /\ setbacks <= 1 /\ Calls = {}

PlainPair(i, j) == i < j /\ kind[feed[i]] = "plain" /\ kind[feed[j]] = "plain"

PassedOver ==
    Orderly =>
        \A i, j \in DOMAIN feed :
            PlainPair(i, j) /\ j \in batch /\ i \notin batch /\ ~Ingested(feed[i])
                => Passed(feed[i])

FirstOrNever ==
    Orderly =>
        \A i, j \in DOMAIN feed :
            PlainPair(i, j) /\ Ingested(feed[j])
                => \/ FirstWritten(feed[i], feed[j])
                   \/ ~Ingested(feed[i]) /\ i \notin batch /\ Gone(feed[i])

OutboxVisible == \A k \in DOMAIN outbox : outbox[k] \in Visible

OrderInv == OutboxVisible /\ RedisGrows /\ PassedOver /\ FirstOrNever
=============================================================================
