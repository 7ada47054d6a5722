--------------------------- MODULE IngressProofs ---------------------------
(***************************************************************************)
(* Proofs about Ingress, for any number of changes, webhook calls and      *)
(* failures.                                                               *)
(***************************************************************************)
EXTENDS Ingress, FiniteSetTheorems, TLAPS

LEMMA Appended ==
    ASSUME NEW S, NEW s \in Seq(S), NEW e \in S
    PROVE  /\ Append(s, e) \in Seq(S)
           /\ DOMAIN s \subseteq DOMAIN Append(s, e)
           /\ \A i \in DOMAIN s : Append(s, e)[i] = s[i]
           /\ Len(s) + 1 \in DOMAIN Append(s, e)
           /\ Append(s, e)[Len(s) + 1] = e
           /\ \A i \in DOMAIN Append(s, e) : i \in DOMAIN s \/ i = Len(s) + 1
           /\ \A i \in DOMAIN s : i < Len(s) + 1
OBVIOUS

LEMMA InvInit == Init => IInv
<1> SUFFICES ASSUME Init PROVE IInv
    OBVIOUS
<1>1. TypeOK
  <2>1. <<>> \in Seq(Change)
        OBVIOUS
  <2>2. 0 \in 0 .. MaxChanges /\ 0 \in 0 .. MaxFaults
        BY IngressAssumption
  <2>3. [c \in Change |-> 0] \in [Change -> Nat]
        OBVIOUS
  <2> QED
      BY <2>1, <2>2, <2>3 DEF Init, TypeOK
<1>2. Visible = {}
      BY DEF Init, Visible
<1> QED
    BY <1>1, <1>2 DEF Init, IInv, MarksVisible, FetchSafe, BatchComplete, BatchShape,
       Accounted, Marked

LEMMA BeginStep ==
    ASSUME IInv, Begin
    PROVE  IInv'
<1>1. TypeOK'
      BY IngressAssumption DEF IInv, TypeOK, Begin, Change, marks, poll, history
<1> QED
    BY <1>1 DEF IInv, Begin, MarksVisible, FetchSafe, BatchComplete, BatchShape,
       Accounted, Marked, Visible, Safe, Ingested, InHand, Overtaken, InBatch, Behind,
       marks, poll, history

(* A change that commits behind a mark has been overtaken.                 *)
LEMMA CommitStep ==
    ASSUME IInv, NEW c \in Change, Commit(c)
    PROVE  IInv'
<1> USE DEF IInv
<1>1. /\ feed \in Seq(Change) /\ c \notin Visible
      /\ feed' = Append(feed, c)
      /\ live' = IF kind[c] = "echo" THEN live \cup {c} ELSE live
      /\ UNCHANGED <<kind, begun, redis, db, pc, since, batch, latest, outbox,
                     dropped, setbacks, pushes, wiped, faults>>
      BY DEF Commit, TypeOK, marks, poll, history
<1>2. /\ feed' \in Seq(Change)
      /\ DOMAIN feed \subseteq DOMAIN feed'
      /\ \A i \in DOMAIN feed : feed'[i] = feed[i] /\ i < Len(feed) + 1
      /\ Len(feed) + 1 \in DOMAIN feed' /\ feed'[Len(feed) + 1] = c
      /\ \A i \in DOMAIN feed' : i \in DOMAIN feed \/ i = Len(feed) + 1
      BY <1>1, Appended
<1>3. Visible' = Visible \cup {c}
      BY <1>2 DEF Visible
<1>4. TypeOK'
      BY <1>1, <1>2 DEF TypeOK
<1>5. MarksVisible'
      BY <1>1, <1>3 DEF MarksVisible, Marked
<1>6. \A d \in Visible : (Safe(d) => Safe(d)') /\ (InBatch(d) => InBatch(d)')
                         /\ (InHand(d) => InHand(d)')
      BY <1>1, <1>2 DEF Safe, Ingested, Overtaken, InBatch, InHand, TypeOK
<1>7. ASSUME NEW m \in Marked, c <= m
      PROVE  Overtaken(c)'
      <2>1. m \in Visible /\ m # c /\ c \in Nat /\ m \in Nat
            BY SMTT(30), <1>1, <1>7, IngressAssumption DEF Marked, Visible, TypeOK, Change
      <2>2. PICK j \in DOMAIN feed : feed[j] = m
            BY <2>1 DEF Visible
      <2>3. /\ j \in DOMAIN feed' /\ Len(feed) + 1 \in DOMAIN feed'
            /\ j < Len(feed) + 1 /\ feed'[Len(feed) + 1] = c /\ feed'[j] > c
            BY <1>2, <1>7, <2>1, <2>2
      <2> QED
          BY <2>3 DEF Overtaken
<1>8. FetchSafe'
      BY <1>1, <1>3, <1>6, <1>7 DEF FetchSafe, MarksVisible, Safe
<1>9. BatchComplete'
      BY <1>1, <1>3, <1>6, <1>7 DEF BatchComplete, MarksVisible, Safe
<1>10. Accounted'
      BY <1>1, <1>3, <1>6, <1>7 DEF Accounted, MarksVisible, Safe, Behind
<1> QED
    BY <1>1, <1>4, <1>5, <1>8, <1>9, <1>10 DEF BatchShape

LEMMA ExpireStep ==
    ASSUME IInv, NEW c \in Change, Expire(c)
    PROVE  IInv'
<1> USE DEF IInv
<1>1. /\ live' = live \ {c}
      /\ UNCHANGED <<kind, begun, feed, redis, db, pc, since, batch, latest, outbox,
                     dropped, setbacks, pushes, wiped, faults>>
      BY DEF Expire, source, marks, poll, history
<1>2. TypeOK'
      BY <1>1 DEF TypeOK
<1>3. MarksVisible'
      BY <1>1 DEF MarksVisible, Marked, Visible
<1> QED
    BY <1>1, <1>2, <1>3 DEF FetchSafe, BatchComplete, BatchShape, Accounted, Visible,
       Safe, Ingested, InHand, Overtaken, InBatch, Behind

(* With nothing in hand, what a mark has left behind is safe.              *)
LEMMA BehindIsSafe ==
    ASSUME IInv, pc \in {"look", "fetch", "remember"},
           NEW c \in Visible, kind[c] = "plain", Behind(c)
    PROVE  Safe(c)
BY DEF IInv, Accounted, InHand, Safe

LEMMA LookStep ==
    ASSUME IInv, Look \/ LookBlind
    PROVE  IInv'
<1> USE DEF IInv
<1>1. /\ pc = "look" /\ pc' = "fetch"
      /\ since' \in {redis, db} /\ redis' \in {redis, db}
      /\ faults' \in 0 .. MaxFaults
      /\ UNCHANGED <<kind, begun, feed, live, db, batch, latest, outbox,
                     dropped, setbacks, pushes, wiped>>
      BY IngressAssumption DEF Look, LookBlind, Fault, TypeOK, source, marks, history
<1>2. Visible' = Visible /\ Visible \subseteq Change
      BY <1>1 DEF Visible, TypeOK
<1>3. TypeOK'
      BY <1>1 DEF TypeOK
<1>4. MarksVisible'
      BY <1>1, <1>2 DEF MarksVisible, Marked
<1>5. \A c \in Visible : /\ c <= since' \/ c <= redis' => Behind(c)
                         /\ Safe(c)' <=> Safe(c)
      BY <1>1 DEF Behind, Safe, Ingested, Overtaken
<1>6. \A c \in Visible : kind[c] = "plain" /\ Behind(c) => Safe(c)
      BY <1>1, BehindIsSafe
<1>7. FetchSafe'
      BY <1>1, <1>2, <1>5, <1>6 DEF FetchSafe
<1>8. Accounted'
      BY <1>1, <1>2, <1>5, <1>6 DEF Accounted, Behind, Safe
<1> QED
    BY <1>1, <1>3, <1>4, <1>7, <1>8 DEF BatchComplete, BatchShape

(* The batch holds all that the new watermark will leave behind.           *)
LEMMA FetchStep ==
    ASSUME IInv, Fetch
    PROVE  IInv'
<1> USE DEF IInv
<1>1. /\ pc = "fetch" /\ since' = 0 /\ batch = {}
      /\ UNCHANGED <<kind, begun, feed, live, redis, db, outbox,
                     dropped, setbacks, pushes, wiped, faults>>
      BY DEF Fetch, BatchShape, source, marks, history
<1>2. /\ Visible' = Visible /\ Visible \subseteq Change
      /\ \A c \in Visible : (Safe(c)' <=> Safe(c)) /\ (Behind(c)' <=> Behind(c))
      BY <1>1 DEF Visible, TypeOK, Safe, Ingested, Overtaken, Behind
<1>3. \A c \in Visible : kind[c] = "plain" /\ Behind(c) => Safe(c)
      BY <1>1, BehindIsSafe
<1>4. Accounted'
      BY <1>1, <1>2, <1>3 DEF Accounted, Safe
<1>5. CASE Polled = {}
      <2>1. pc' = "look" /\ batch' = batch /\ latest' = latest
            BY <1>5 DEF Fetch
      <2>2. TypeOK' /\ MarksVisible'
            BY <1>1, <1>2, <2>1, IngressAssumption DEF TypeOK, MarksVisible, Marked
      <2> QED
          BY <1>1, <1>4, <2>1, <2>2 DEF FetchSafe, BatchComplete, BatchShape
<1>6. CASE Polled # {}
      <2>1. /\ pc' = "remember" /\ batch' = Polled
            /\ latest' \in Stamps /\ \A n \in Stamps : n <= latest'
            BY <1>6 DEF Fetch
      <2>2. Polled \subseteq DOMAIN feed /\ Stamps \subseteq Visible
            BY DEF Polled, Events, Stamps, Visible
      <2>3. Visible \subseteq 0 .. MaxChanges
            BY <1>2, IngressAssumption DEF Change
      <2>4. TypeOK' /\ MarksVisible'
            BY SMTT(30), <1>1, <1>2, <2>1, <2>2, <2>3, IngressAssumption DEF TypeOK, MarksVisible, Marked
      <2>5. ASSUME NEW c \in Visible, kind[c] = "plain"
            PROVE  Safe(c)' \/ InBatch(c)'
            <3>1. CASE c <= since
                  BY <1>1, <1>2, <2>5, <3>1 DEF FetchSafe
            <3>2. CASE c > since
                  <4>1. PICK i \in DOMAIN feed : feed[i] = c
                        BY DEF Visible
                  <4>2. i \in Polled
                        BY <2>5, <3>2, <4>1 DEF Polled, Events, Newer, MarksVisible
                  <4> QED
                      BY <1>1, <2>1, <4>1, <4>2 DEF InBatch
            <3> QED
                BY <1>2, <3>1, <3>2 DEF TypeOK, Change
      <2> QED
          BY <1>1, <1>2, <1>4, <2>1, <2>4, <2>5 DEF FetchSafe, BatchComplete, BatchShape
<1> QED
    BY <1>5, <1>6

LEMMA RememberStep ==
    ASSUME IInv, Remember \/ RememberFails
    PROVE  IInv'
<1> USE DEF IInv
<1>1. /\ pc = "remember" /\ pc' = "persist"
      /\ redis' \in {redis, latest}
      /\ setbacks' \in Nat /\ faults' \in 0 .. MaxFaults
      /\ UNCHANGED <<kind, begun, feed, live, db, since, batch, latest, outbox,
                     dropped, pushes, wiped>>
      BY IngressAssumption
      DEF Remember, Remembered, RememberFails, Fault, TypeOK, source, marks, history
<1>2. /\ Visible' = Visible
      /\ \A c \in Visible : (Safe(c)' <=> Safe(c)) /\ (InBatch(c)' <=> InBatch(c))
      BY <1>1 DEF Visible, Safe, Ingested, Overtaken, InBatch
<1>3. TypeOK'
      BY <1>1 DEF TypeOK
<1>4. MarksVisible'
      BY <1>1, <1>2 DEF MarksVisible, Marked
<1>5. BatchComplete'
      BY <1>1, <1>2 DEF BatchComplete
<1>6. ASSUME NEW c \in Visible, kind[c] = "plain", Behind(c)'
      PROVE  Safe(c)' \/ InHand(c)'
      <2>1. CASE c <= latest
            BY <1>1, <1>2, <1>6, <2>1 DEF BatchComplete, InBatch, InHand
      <2>2. CASE Behind(c)
            BY <1>1, <1>2, <1>6, <2>2, BehindIsSafe
      <2> QED
          BY <1>1, <1>6, <2>1, <2>2 DEF Behind
<1>7. Accounted'
      BY <1>1, <1>2, <1>6 DEF Accounted, Safe
<1> QED
    BY <1>1, <1>3, <1>4, <1>5, <1>7 DEF FetchSafe, BatchShape

LEMMA PersistStep ==
    ASSUME IInv, Persist
    PROVE  IInv'
<1> USE DEF IInv
<1>1. /\ pc = "persist" /\ pc' = "write" /\ db' = latest /\ latest' = 0
      /\ UNCHANGED <<kind, begun, feed, live, redis, since, batch, outbox,
                     dropped, setbacks, pushes, wiped, faults>>
      BY DEF Persist, source, history
<1>2. /\ Visible' = Visible
      /\ \A c \in Visible : /\ (Safe(c) => Safe(c)')
                             /\ (InBatch(c) => InHand(c)')
                             /\ (InHand(c) => InHand(c)')
      BY <1>1 DEF Visible, Safe, Ingested, Overtaken, InBatch, InHand
<1>3. TypeOK'
      BY <1>1, IngressAssumption DEF TypeOK
<1>4. MarksVisible'
      BY <1>1, <1>2 DEF MarksVisible, Marked
<1>5. ASSUME NEW c \in Visible, kind[c] = "plain", Behind(c)'
      PROVE  Safe(c)' \/ InHand(c)'
      <2>1. CASE c <= latest
            BY <1>1, <1>5, <2>1 DEF BatchComplete, InBatch, InHand, Safe, Ingested, Overtaken
      <2>2. CASE Behind(c)
            BY <1>1, <1>5, <2>2 DEF Accounted, Safe, InHand, Ingested, Overtaken
      <2> QED
          BY <1>1, <1>5, <2>1, <2>2 DEF Behind
<1>6. Accounted'
      BY <1>1, <1>2, <1>5 DEF Accounted, Safe
<1> QED
    BY <1>1, <1>3, <1>4, <1>6 DEF FetchSafe, BatchComplete, BatchShape

LEMMA WriteStep ==
    ASSUME IInv, NEW i \in batch, WriteEvent(i)
    PROVE  IInv'
<1> USE DEF IInv
<1>1. /\ pc = "write" /\ i \in DOMAIN feed /\ feed[i] \in Change
      /\ outbox \in Seq(Change) /\ outbox' = Append(outbox, feed[i])
      /\ batch' = batch \ {i}
      /\ pc' = IF batch = {i} THEN "look" ELSE "write"
      /\ UNCHANGED <<kind, begun, feed, live, redis, db, since, latest,
                     dropped, setbacks, pushes, wiped, faults>>
      BY DEF WriteEvent, TypeOK, source, marks, history
<1>2. /\ outbox' \in Seq(Change)
      /\ DOMAIN outbox \subseteq DOMAIN outbox'
      /\ \A k \in DOMAIN outbox : outbox'[k] = outbox[k]
      /\ \E k \in DOMAIN outbox' : outbox'[k] = feed[i]
      BY <1>1, Appended
<1>3. Visible' = Visible /\ Ingested(feed[i])'
      BY <1>1, <1>2 DEF Visible, Ingested
<1>4. ASSUME NEW c \in Visible
      PROVE  /\ Safe(c) => Safe(c)'
             /\ Behind(c)' <=> Behind(c)
             /\ InHand(c) => Safe(c)' \/ InHand(c)'
      <2>1. Safe(c) => Safe(c)'
            BY <1>1, <1>2 DEF Safe, Ingested, Overtaken
      <2>2. Behind(c)' <=> Behind(c)
            BY <1>1 DEF Behind
      <2>3. InHand(c) => Ingested(c)' \/ InHand(c)'
            BY <1>1, <1>2 DEF InHand, Ingested
      <2> QED
          BY <2>1, <2>2, <2>3 DEF Safe
<1>5. TypeOK'
      BY <1>1, <1>2 DEF TypeOK
<1>6. MarksVisible'
      BY <1>1, <1>3 DEF MarksVisible, Marked
<1>7. Accounted'
      BY <1>1, <1>3, <1>4 DEF Accounted, Safe
<1> QED
    BY <1>1, <1>5, <1>6, <1>7 DEF FetchSafe, BatchComplete, BatchShape

(* What a failure takes out of the batch behind the watermark is dropped.  *)
LEMMA BreakStep ==
    ASSUME IInv, Break
    PROVE  IInv'
<1> USE DEF IInv
<1>1. /\ dropped' = dropped \cup {c \in {feed[i] : i \in batch} : Behind(c)}
      /\ batch' = {} /\ since' = 0 /\ latest' = 0 /\ pc' = "look"
      /\ faults' \in 0 .. MaxFaults
      /\ UNCHANGED <<kind, begun, feed, live, redis, db, outbox, setbacks, pushes, wiped>>
      BY IngressAssumption DEF Break, Fault, TypeOK, source, marks
<1>2. Visible' = Visible /\ \A i \in batch : feed[i] \in Change
      BY <1>1 DEF Visible, TypeOK
<1>3. TypeOK'
      BY <1>1, <1>2, IngressAssumption DEF TypeOK
<1>4. MarksVisible'
      BY <1>1, <1>2 DEF MarksVisible, Marked
<1>5. \A c \in Visible : /\ Safe(c) => Safe(c)'
                         /\ Behind(c)' => Behind(c)
                         /\ InHand(c) /\ Behind(c) => Safe(c)'
      BY <1>1 DEF Safe, Ingested, Overtaken, InHand, Behind
<1>6. Accounted'
      BY <1>1, <1>2, <1>5 DEF Accounted, Safe
<1> QED
    BY <1>1, <1>3, <1>4, <1>6 DEF FetchSafe, BatchComplete, BatchShape

LEMMA WipeStep ==
    ASSUME IInv, Wipe
    PROVE  IInv'
<1> USE DEF IInv
<1>1. /\ redis' = 0 /\ live' = {} /\ wiped' = TRUE /\ faults' \in 0 .. MaxFaults
      /\ UNCHANGED <<kind, begun, feed, db, pc, since, batch, latest, outbox,
                     dropped, setbacks, pushes>>
      BY IngressAssumption DEF Wipe, Fault, TypeOK, source, poll
<1>2. Visible' = Visible /\ Visible \subseteq Change
      BY <1>1 DEF Visible, TypeOK
<1>3. TypeOK'
      BY <1>1, IngressAssumption DEF TypeOK
<1>4. \A c \in Visible : /\ (Safe(c)' <=> Safe(c)) /\ (InBatch(c)' <=> InBatch(c))
                         /\ (InHand(c)' <=> InHand(c)) /\ (Behind(c)' => Behind(c))
      BY <1>1, <1>2 DEF Safe, Ingested, Overtaken, InBatch, InHand, Behind, Change
<1>5. Accounted'
      BY <1>1, <1>2, <1>4 DEF Accounted, Safe
<1> QED
    BY <1>1, <1>2, <1>3, <1>4, <1>5
    DEF MarksVisible, Marked, FetchSafe, BatchComplete, BatchShape

LEMMA PushStep ==
    ASSUME IInv, NEW c \in Change, Push(c)
    PROVE  IInv'
<1> USE DEF IInv
<1>1. /\ outbox \in Seq(Change) /\ outbox' = Append(outbox, c)
      /\ pushes' = [pushes EXCEPT ![c] = @ + 1]
      /\ UNCHANGED <<kind, begun, feed, live, redis, db, pc, since, batch, latest,
                     dropped, setbacks, wiped, faults>>
      BY DEF Push, TypeOK, source, marks, poll
<1>2. /\ outbox' \in Seq(Change)
      /\ DOMAIN outbox \subseteq DOMAIN outbox'
      /\ \A k \in DOMAIN outbox : outbox'[k] = outbox[k]
      BY <1>1, Appended
<1>3. TypeOK'
      BY <1>1, <1>2 DEF TypeOK
<1>4. Visible' = Visible
      BY <1>1 DEF Visible
<1>5. \A d \in Visible : /\ (Safe(d) => Safe(d)') /\ (InBatch(d)' <=> InBatch(d))
                         /\ (InHand(d)' <=> InHand(d)) /\ (Behind(d)' <=> Behind(d))
      BY <1>1, <1>2 DEF Safe, Ingested, Overtaken, InBatch, InHand, Behind
<1>6. Accounted'
      BY <1>1, <1>4, <1>5 DEF Accounted, Safe
<1> QED
    BY <1>1, <1>3, <1>4, <1>5, <1>6
    DEF MarksVisible, Marked, FetchSafe, BatchComplete, BatchShape

LEMMA InvStep ==
    ASSUME IInv, [Next]_vars
    PROVE  IInv'
<1>1. CASE UNCHANGED vars
      BY <1>1 DEF IInv, TypeOK, vars, source, marks, poll, history, MarksVisible, FetchSafe,
         BatchComplete, BatchShape, Accounted, Marked, Visible, Safe, Ingested, InHand,
         Overtaken, InBatch, Behind
<1> QED
    BY <1>1, BeginStep, CommitStep, ExpireStep, PushStep, LookStep, FetchStep, RememberStep,
       PersistStep, WriteStep, BreakStep, WipeStep
    DEF Next, PollStep

LEMMA InvAlways == Spec => []IInv
BY InvInit, InvStep, PTL DEF Spec

-----------------------------------------------------------------------------
(* How often a change has been written.                                    *)
LEMMA WrittenTwice ==
    ASSUME NEW s \in Seq(Change), NEW d \in Change, NEW c \in Change
    PROVE  /\ Times(s, c) \in Nat
           /\ Times(Append(s, d), c) = IF c = d THEN Times(s, c) + 1 ELSE Times(s, c)
<1> USE DEF Times
<1> DEFINE at(t) == {k \in DOMAIN t : t[k] = c}
<1>1. /\ DOMAIN s = 1 .. Len(s) /\ Len(s) \in Nat
      /\ DOMAIN Append(s, d) = 1 .. Len(s) + 1
      /\ \A k \in 1 .. Len(s) : Append(s, d)[k] = s[k]
      /\ Append(s, d)[Len(s) + 1] = d
      OBVIOUS
<1>2. IsFiniteSet(at(s))
  <2>1. IsFiniteSet(1 .. Len(s))
        BY <1>1, FS_Interval
  <2> QED
      BY <1>1, <2>1, FS_Subset
<1>3. Cardinality(at(s)) \in Nat
      BY <1>2, FS_CardinalityType
<1>4. CASE c = d
  <2>1. at(Append(s, d)) = at(s) \cup {Len(s) + 1} /\ Len(s) + 1 \notin at(s)
        BY <1>1, <1>4
  <2>2. Cardinality(at(Append(s, d))) = Cardinality(at(s)) + 1
        BY <1>2, <2>1, FS_AddElement
  <2> QED
      BY <1>3, <1>4, <2>2
<1>5. CASE c # d
  <2>1. at(Append(s, d)) = at(s)
        BY <1>1, <1>5
  <2> QED
      BY <1>3, <1>5, <2>1
<1> QED
    BY <1>4, <1>5

LEMMA WrittenStep ==
    ASSUME TypeOK, NEW d \in Change, outbox' = Append(outbox, d), NEW c \in Change
    PROVE  /\ Written(c) \in Nat
           /\ Written(c)' = IF c = d THEN Written(c) + 1 ELSE Written(c)
<1>1. outbox \in Seq(Change)
      BY DEF TypeOK
<1> QED
    BY <1>1, WrittenTwice DEF Written

LEMMA WrittenType == TypeOK => \A c \in Change : Written(c) \in Nat
<1> SUFFICES ASSUME TypeOK, NEW c \in Change PROVE Written(c) \in Nat
    OBVIOUS
<1> QED
    BY WrittenTwice DEF Written, TypeOK

LEMMA DueType == \A c \in Change : Due(c) \in 0 .. 2 /\ Due(c)' \in 0 .. 2
BY DEF Due, One

LEMMA CountTypes ==
    ASSUME TypeOK, NEW c \in Change
    PROVE  /\ c \in Nat /\ db \in Nat /\ latest \in Nat /\ redis \in Nat /\ since \in Nat
           /\ pushes[c] \in Nat /\ setbacks \in Nat
           /\ Written(c) \in Nat /\ Due(c) \in 0 .. 2 /\ Due(c)' \in 0 .. 2
<1>1. Change \subseteq Nat /\ 0 .. MaxChanges \subseteq Nat
      BY IngressAssumption DEF Change
<1>2. Written(c) \in Nat /\ Due(c) \in 0 .. 2 /\ Due(c)' \in 0 .. 2
      BY WrittenType, DueType
<1> QED
    BY <1>1, <1>2 DEF TypeOK

(* Counted, as it is proved change by change.                              *)
LEMMA CountEach ==
    ASSUME \A c \in Change :
               /\ c > db' => Written(c)' <= pushes'[c]
               /\ c <= db' => Written(c)' + Due(c)' <= 1 + pushes'[c] + setbacks'
               /\ pc' = "persist" /\ c <= latest' /\ Lagging(c)' => setbacks' > 0
    PROVE  Counted'
BY DEF Counted

LEMMA CountInit == Init => CountInv
<1> SUFFICES ASSUME Init PROVE CountInv
    OBVIOUS
<1>1. TypeOK
      BY InvInit DEF IInv
<1>2. ASSUME NEW c \in Change
      PROVE  Written(c) = 0
  <2>1. {k \in DOMAIN outbox : outbox[k] = c} = {}
        BY DEF Init
  <2> QED
      BY <2>1, FS_EmptySet DEF Written, Times
<1>3. Counted
      BY <1>1, <1>2, IngressAssumption DEF Init, Counted, Change
<1> QED
    BY <1>3, IngressAssumption DEF Init, CountInv, FeedOnce, DbGrows, Readable

(* Steps that neither write nor move a mark or the batch.                  *)
LEMMA CountSame ==
    ASSUME TypeOK, CountInv, UNCHANGED <<db, pc, since, batch, latest, outbox, pushes>>,
           FeedOnce', \A i \in DOMAIN feed : i \in DOMAIN feed' /\ feed'[i] = feed[i],
           Readable(db)', pc \in {"remember", "persist"} => Readable(latest)',
           redis' \in {redis, 0}, setbacks' = setbacks
    PROVE  CountInv'
<1>1. batch \subseteq DOMAIN feed
      BY DEF TypeOK
<1>2. DbGrows'
      BY <1>1 DEF CountInv, DbGrows
<1>3. ASSUME NEW c \in Change
      PROVE  Written(c)' = Written(c) /\ Due(c)' <= Due(c) /\ (Lagging(c)' => Lagging(c))
      BY <1>1, <1>3 DEF Written, Times, Due, One, InBatch, Lagging
<1>4. Counted'
  <2> SUFFICES ASSUME NEW c \in Change
               PROVE  /\ c > db' => Written(c)' <= pushes'[c]
                      /\ c <= db' => Written(c)' + Due(c)' <= 1 + pushes'[c] + setbacks'
                      /\ pc' = "persist" /\ c <= latest' /\ Lagging(c)' => setbacks' > 0
      BY CountEach
  <2> QED
      BY <1>3, CountTypes DEF CountInv, Counted
<1> QED
    BY <1>2, <1>4 DEF CountInv

LEMMA CountBegin ==
    ASSUME IInv, CountInv, Begin
    PROVE  CountInv'
BY CountSame DEF IInv, CountInv, FeedOnce, DbGrows, Readable, Visible, Begin, marks, poll, history

LEMMA CountExpire ==
    ASSUME IInv, CountInv, NEW c \in Change, Expire(c)
    PROVE  CountInv'
<1>1. /\ live' \subseteq live
      /\ UNCHANGED <<kind, feed, redis, db, pc, since, batch, latest, outbox, pushes, setbacks>>
      BY DEF Expire, source, marks, poll, history
<1>2. FeedOnce' /\ Readable(db)' /\ (pc \in {"remember", "persist"} => Readable(latest)')
      BY <1>1 DEF CountInv, FeedOnce, DbGrows, Readable, Visible
<1> QED
    BY <1>1, <1>2, CountSame DEF IInv

LEMMA CountWipe ==
    ASSUME IInv, CountInv, Wipe
    PROVE  CountInv'
<1>1. /\ live' = {} /\ redis' = 0
      /\ UNCHANGED <<kind, feed, db, pc, since, batch, latest, outbox, pushes, setbacks>>
      BY DEF Wipe, source, poll
<1>2. FeedOnce' /\ Readable(db)' /\ (pc \in {"remember", "persist"} => Readable(latest)')
      BY <1>1 DEF CountInv, FeedOnce, DbGrows, Readable, Visible
<1> QED
    BY <1>1, <1>2, CountSame DEF IInv

(* A change is committed once, and no mark stands at it yet.               *)
LEMMA CountCommit ==
    ASSUME IInv, CountInv, NEW c \in Change, Commit(c)
    PROVE  CountInv'
<1>1. /\ feed \in Seq(Change) /\ c \notin Visible /\ feed' = Append(feed, c)
      /\ live' \subseteq live \cup {c}
      /\ UNCHANGED <<kind, redis, db, pc, since, batch, latest, outbox, pushes, setbacks>>
      BY DEF IInv, TypeOK, Commit, marks, poll, history
<1>2. /\ DOMAIN feed \subseteq DOMAIN feed'
      /\ \A i \in DOMAIN feed : feed'[i] = feed[i] /\ feed[i] # c
      /\ \A i \in DOMAIN feed' : i \in DOMAIN feed \/ (i = Len(feed) + 1 /\ feed'[i] = c)
      BY <1>1, Appended DEF Visible
<1>3. FeedOnce'
      BY <1>2 DEF CountInv, FeedOnce
<1>4. \A m \in Change \cup {0} : Readable(m) => Readable(m)'
      BY <1>1, <1>2 DEF Readable, Visible
<1>5. db \in Change \cup {0} /\ latest \in Change \cup {0}
      BY IngressAssumption DEF IInv, TypeOK, Change
<1> QED
    BY <1>1, <1>2, <1>3, <1>4, <1>5, CountSame DEF IInv, CountInv, DbGrows

LEMMA CountLook ==
    ASSUME IInv, CountInv, Look \/ LookBlind
    PROVE  CountInv'
<1>1. /\ pc = "look" /\ pc' = "fetch"
      /\ \/ redis # 0 /\ since' = redis /\ redis' = redis
         \/ since' = db /\ redis' \in {db, redis} /\ (redis # 0 => redis' = redis)
      /\ UNCHANGED <<kind, feed, live, db, batch, latest, outbox, pushes, setbacks>>
      BY DEF Look, LookBlind, source, marks, history
<1>2. FeedOnce' /\ DbGrows'
      BY <1>1 DEF CountInv, FeedOnce, DbGrows, Readable, Visible
<1>3. ASSUME NEW c \in Change
      PROVE  Written(c)' = Written(c) /\ (c <= db => Due(c)' <= Due(c))
  <2>1. c \in Nat /\ db \in Nat /\ redis \in Nat
        BY CountTypes DEF IInv
  <2> QED
      BY <1>1, <2>1 DEF Written, Times, Due, One, InBatch, Lagging
<1>4. Counted'
  <2> SUFFICES ASSUME NEW c \in Change
               PROVE  /\ c > db' => Written(c)' <= pushes'[c]
                      /\ c <= db' => Written(c)' + Due(c)' <= 1 + pushes'[c] + setbacks'
                      /\ pc' = "persist" /\ c <= latest' /\ Lagging(c)' => setbacks' > 0
      BY CountEach
  <2> QED
      BY <1>1, <1>3, CountTypes DEF IInv, CountInv, Counted
<1> QED
    BY <1>2, <1>4 DEF CountInv

(* A poll from behind the watermark of PostgreSQL reads as far as it.      *)
LEMMA CountFetch ==
    ASSUME IInv, CountInv, Fetch
    PROVE  CountInv'
<1>1. /\ pc = "fetch" /\ since' = 0 /\ batch = {}
      /\ UNCHANGED <<kind, feed, live, redis, db, outbox, pushes, setbacks>>
      BY DEF IInv, BatchShape, Fetch, source, marks, history
<1>2. /\ pc' = "look" /\ batch' = {}
      \/ /\ pc' = "remember" /\ batch' = Polled
         /\ latest' \in Stamps /\ \A n \in Stamps : n <= latest'
      BY <1>1 DEF Fetch
<1>3. FeedOnce' /\ Readable(db)'
      BY <1>1 DEF CountInv, FeedOnce, DbGrows, Readable, Visible
<1>4. DbGrows'
  <2>1. CASE pc' = "look"
        BY <1>3, <2>1 DEF DbGrows
  <2>2. CASE pc' = "remember"
    <3>1. latest' \in Stamps /\ (\A n \in Stamps : n <= latest') /\ batch' = Polled
          BY <1>2, <2>2
    <3>2. Readable(latest)'
          BY <1>1, <3>1 DEF Stamps, Polled, Events, Readable, Visible
    <3>3. \A i \in batch' : feed'[i] <= latest'
          BY <1>1, <3>1 DEF Stamps
    <3>4. \A n \in Stamps : n \in Nat /\ n > since /\ since \in Nat /\ db \in Nat
          BY IngressAssumption DEF Stamps, Polled, Events, Newer, IInv, TypeOK, Change
    <3>5. db <= latest'
      <4>1. CASE db <= since
            BY <3>1, <3>4, <4>1
      <4>2. CASE db > since
        <5>1. db # 0 /\ db \in Visible /\ kind[db] # "unusable" /\ db \notin live
              BY <3>1, <3>4, <4>2 DEF CountInv, DbGrows, Readable
        <5>2. db \in Stamps
              BY <4>2, <5>1 DEF Visible, Stamps, Polled, Events, Newer
        <5> QED
            BY <3>1, <5>2
      <4> QED
          BY <3>1, <3>4, <4>1, <4>2
    <3> QED
        BY <1>1, <1>3, <2>2, <3>2, <3>3, <3>5 DEF DbGrows
  <2> QED
      BY <1>2, <2>1, <2>2
<1>5. ASSUME NEW c \in Change
      PROVE  Written(c)' = Written(c) /\ Due(c)' <= Due(c)
  <2>1. InBatch(c)' => since < c
        BY <1>1, <1>2 DEF InBatch, Polled, Events, Newer
  <2> QED
      BY <1>1, <1>2, <2>1 DEF Written, Times, Due, One, Lagging
<1>6. Counted'
  <2> SUFFICES ASSUME NEW c \in Change
               PROVE  /\ c > db' => Written(c)' <= pushes'[c]
                      /\ c <= db' => Written(c)' + Due(c)' <= 1 + pushes'[c] + setbacks'
                      /\ pc' = "persist" /\ c <= latest' /\ Lagging(c)' => setbacks' > 0
      BY CountEach
  <2> QED
      BY <1>1, <1>2, <1>5, CountTypes DEF IInv, CountInv, Counted
<1> QED
    BY <1>3, <1>4, <1>6 DEF CountInv

(* Redis has caught up, or a setback is on record.                         *)
LEMMA CountRemember ==
    ASSUME IInv, CountInv, Remember \/ RememberFails
    PROVE  CountInv'
<1>1. /\ pc = "remember" /\ pc' = "persist"
      /\ \/ redis' = latest /\ setbacks' = setbacks
         \/ redis' = redis /\ setbacks' = setbacks + 1
      /\ UNCHANGED <<kind, feed, live, db, since, batch, latest, outbox, pushes>>
      BY DEF Remember, Remembered, RememberFails, source, marks, history
<1>2. FeedOnce' /\ DbGrows' /\ db <= latest
      BY <1>1 DEF CountInv, FeedOnce, DbGrows, Readable, Visible
<1>3. ASSUME NEW c \in Change
      PROVE  /\ Written(c)' = Written(c)
             /\ redis' = latest /\ c <= latest => ~Lagging(c)' /\ Due(c)' <= Due(c)
             /\ redis' = redis => Due(c)' <= Due(c) + 1
  <2>1. c \in Nat /\ latest \in Nat /\ redis \in Nat
        BY CountTypes DEF IInv
  <2> QED
      BY <1>1, <2>1 DEF Written, Times, Due, One, InBatch, Lagging
<1>4. Counted'
  <2> SUFFICES ASSUME NEW c \in Change
               PROVE  /\ c > db' => Written(c)' <= pushes'[c]
                      /\ c <= db' => Written(c)' + Due(c)' <= 1 + pushes'[c] + setbacks'
                      /\ pc' = "persist" /\ c <= latest' /\ Lagging(c)' => setbacks' > 0
      BY CountEach
  <2>1. /\ c \in Nat /\ db \in Nat /\ latest \in Nat /\ pushes[c] \in Nat /\ setbacks \in Nat
        /\ Written(c) \in Nat /\ Due(c) \in 0 .. 2 /\ Due(c)' \in 0 .. 2
        BY CountTypes DEF IInv
  <2>2. CASE redis' = latest /\ setbacks' = setbacks
        BY <1>1, <1>2, <1>3, <2>1, <2>2 DEF CountInv, Counted
  <2>3. CASE redis' = redis /\ setbacks' = setbacks + 1
        BY <1>1, <1>3, <2>1, <2>3 DEF CountInv, Counted
  <2> QED
      BY <1>1, <2>2, <2>3
<1> QED
    BY <1>2, <1>4 DEF CountInv

LEMMA CountPersist ==
    ASSUME IInv, CountInv, Persist
    PROVE  CountInv'
<1>1. /\ pc = "persist" /\ pc' = "write" /\ db' = latest /\ latest' = 0
      /\ UNCHANGED <<kind, feed, live, redis, since, batch, outbox, pushes, setbacks>>
      BY DEF Persist, source, history
<1>2. FeedOnce' /\ DbGrows' /\ db <= latest
      BY <1>1 DEF CountInv, FeedOnce, DbGrows, Readable, Visible
<1>3. ASSUME NEW c \in Change
      PROVE  /\ Written(c)' = Written(c) /\ Due(c)' = Due(c)
             /\ Due(c) <= 1 + One(Lagging(c))
      BY <1>1 DEF Written, Times, Due, One, InBatch, Lagging
<1>4. Counted'
  <2> SUFFICES ASSUME NEW c \in Change
               PROVE  /\ c > db' => Written(c)' <= pushes'[c]
                      /\ c <= db' => Written(c)' + Due(c)' <= 1 + pushes'[c] + setbacks'
                      /\ pc' = "persist" /\ c <= latest' /\ Lagging(c)' => setbacks' > 0
      BY CountEach
  <2>1. /\ c \in Nat /\ db \in Nat /\ latest \in Nat /\ pushes[c] \in Nat /\ setbacks \in Nat
        /\ Written(c) \in Nat /\ Due(c) \in 0 .. 2 /\ Due(c)' \in 0 .. 2
        BY CountTypes DEF IInv
  <2>2. CASE c <= db
        BY <1>1, <1>2, <1>3, <2>1, <2>2 DEF CountInv, Counted
  <2>3. CASE c > db
        BY <1>1, <1>3, <2>1, <2>3 DEF CountInv, Counted, One
  <2> QED
      BY <2>1, <2>2, <2>3
<1> QED
    BY <1>2, <1>4 DEF CountInv

LEMMA CountWrite ==
    ASSUME IInv, CountInv, NEW i \in batch, WriteEvent(i)
    PROVE  CountInv'
<1>1. /\ pc = "write" /\ i \in DOMAIN feed /\ feed[i] \in Change
      /\ outbox' = Append(outbox, feed[i]) /\ batch' = batch \ {i}
      /\ pc' \in {"look", "write"} /\ (pc' = "look" => batch' = {})
      /\ UNCHANGED <<kind, feed, live, redis, db, since, latest, pushes, setbacks>>
      BY DEF IInv, TypeOK, WriteEvent, source, marks, history
<1>2. FeedOnce' /\ DbGrows' /\ feed[i] <= db
      BY <1>1 DEF CountInv, FeedOnce, DbGrows, Readable, Visible
<1>3. \A j \in batch : feed[j] = feed[i] => j = i
      BY <1>1 DEF CountInv, FeedOnce, IInv, TypeOK
<1>4. ASSUME NEW c \in Change
      PROVE  Written(c)' + Due(c)' <= Written(c) + Due(c)
             /\ (c # feed[i] => Written(c)' = Written(c))
  <2>1. /\ Written(c) \in Nat
        /\ Written(c)' = IF c = feed[i] THEN Written(c) + 1 ELSE Written(c)
        BY <1>1, WrittenStep DEF IInv
  <2>2. Due(c)' \in 0 .. 2 /\ Due(c) \in 0 .. 2
        BY DueType
  <2>3. CASE c = feed[i]
    <3>1. InBatch(c) /\ ~InBatch(c)'
          BY <1>1, <1>3, <2>3 DEF InBatch
    <3>2. Due(c) = 1 + Due(c)'
          BY <1>1, <3>1 DEF Due, One, Lagging
    <3> QED
        BY <2>1, <2>2, <2>3, <3>2
  <2>4. CASE c # feed[i]
    <3>1. InBatch(c)' => InBatch(c)
          BY <1>1 DEF InBatch
    <3>2. pc' = "look" => ~InBatch(c)'
          BY <1>1 DEF InBatch
    <3>3. Due(c)' <= Due(c)
          BY <1>1, <3>1, <3>2 DEF Due, One, Lagging
    <3> QED
        BY <2>1, <2>2, <2>4, <3>3
  <2> QED
      BY <2>3, <2>4
<1>5. Counted'
  <2> SUFFICES ASSUME NEW c \in Change
               PROVE  /\ c > db' => Written(c)' <= pushes'[c]
                      /\ c <= db' => Written(c)' + Due(c)' <= 1 + pushes'[c] + setbacks'
                      /\ pc' = "persist" /\ c <= latest' /\ Lagging(c)' => setbacks' > 0
      BY CountEach
  <2>1. /\ c \in Nat /\ db \in Nat /\ feed[i] \in Nat /\ pushes[c] \in Nat /\ setbacks \in Nat
        /\ Written(c) \in Nat /\ Due(c) \in 0 .. 2 /\ Due(c)' \in 0 .. 2
        BY <1>1, CountTypes DEF IInv
  <2>2. Written(c)' \in Nat
        BY <1>1, <2>1, WrittenStep DEF IInv
  <2>3. CASE c <= db
    <3>1. Written(c) + Due(c) <= 1 + pushes[c] + setbacks
          BY <2>3 DEF CountInv, Counted
    <3>2. Written(c)' + Due(c)' <= 1 + pushes[c] + setbacks
          BY <1>4, <2>1, <2>2, <3>1
    <3> QED
        BY <1>1, <2>1, <2>3, <3>2
  <2>4. CASE c > db
    <3>1. c # feed[i] /\ Written(c) <= pushes[c]
          BY <1>1, <1>2, <2>1, <2>4 DEF CountInv, Counted
    <3> QED
        BY <1>1, <1>4, <2>1, <2>4, <3>1
  <2> QED
      BY <2>1, <2>3, <2>4
<1> QED
    BY <1>2, <1>5 DEF CountInv

LEMMA CountBreak ==
    ASSUME IInv, CountInv, Break
    PROVE  CountInv'
<1>1. /\ batch' = {} /\ pc' = "look"
      /\ UNCHANGED <<kind, feed, live, redis, db, outbox, pushes, setbacks>>
      BY DEF Break, source, marks
<1>2. FeedOnce' /\ DbGrows'
      BY <1>1 DEF CountInv, FeedOnce, DbGrows, Readable, Visible
<1>3. ASSUME NEW c \in Change
      PROVE  Written(c)' = Written(c) /\ Due(c)' <= Due(c)
      BY <1>1 DEF Written, Times, Due, One, InBatch, Lagging
<1>4. Counted'
  <2> SUFFICES ASSUME NEW c \in Change
               PROVE  /\ c > db' => Written(c)' <= pushes'[c]
                      /\ c <= db' => Written(c)' + Due(c)' <= 1 + pushes'[c] + setbacks'
                      /\ pc' = "persist" /\ c <= latest' /\ Lagging(c)' => setbacks' > 0
      BY CountEach
  <2> QED
      BY <1>1, <1>3, CountTypes DEF IInv, CountInv, Counted
<1> QED
    BY <1>2, <1>4 DEF CountInv

LEMMA CountPush ==
    ASSUME IInv, CountInv, NEW d \in Change, Push(d)
    PROVE  CountInv'
<1>1. /\ outbox' = Append(outbox, d) /\ pushes' = [pushes EXCEPT ![d] = @ + 1]
      /\ pushes \in [Change -> Nat]
      /\ UNCHANGED <<kind, feed, live, redis, db, pc, since, batch, latest, setbacks>>
      BY DEF IInv, TypeOK, Push, source, marks, poll
<1>2. FeedOnce' /\ DbGrows'
      BY <1>1 DEF CountInv, FeedOnce, DbGrows, Readable, Visible
<1>3. ASSUME NEW c \in Change
      PROVE  /\ Due(c)' = Due(c) /\ (Lagging(c)' <=> Lagging(c))
             /\ Written(c) \in Nat
             /\ Written(c)' = IF c = d THEN Written(c) + 1 ELSE Written(c)
             /\ pushes'[c] = IF c = d THEN pushes[c] + 1 ELSE pushes[c]
  <2>1. Due(c)' = Due(c) /\ (Lagging(c)' <=> Lagging(c))
        BY <1>1 DEF Due, One, InBatch, Lagging
  <2>2. /\ Written(c) \in Nat
        /\ Written(c)' = IF c = d THEN Written(c) + 1 ELSE Written(c)
        BY <1>1, WrittenStep DEF IInv
  <2> QED
      BY <1>1, <2>1, <2>2
<1>4. Counted'
  <2> SUFFICES ASSUME NEW c \in Change
               PROVE  /\ c > db' => Written(c)' <= pushes'[c]
                      /\ c <= db' => Written(c)' + Due(c)' <= 1 + pushes'[c] + setbacks'
                      /\ pc' = "persist" /\ c <= latest' /\ Lagging(c)' => setbacks' > 0
      BY CountEach
  <2>1. pushes[c] \in Nat /\ setbacks \in Nat /\ Due(c) \in 0 .. 2
        BY CountTypes DEF IInv
  <2> QED
      BY SMTT(30), <1>1, <1>3, <2>1 DEF CountInv, Counted
<1> QED
    BY <1>2, <1>4 DEF CountInv

LEMMA CountStep ==
    ASSUME IInv, CountInv, [Next]_vars
    PROVE  CountInv'
<1>1. CASE UNCHANGED vars
      BY <1>1, CountSame DEF IInv, CountInv, FeedOnce, DbGrows, Readable, Visible,
         vars, source, marks, poll, history
<1> QED
    BY <1>1, CountBegin, CountCommit, CountExpire, CountPush, CountLook, CountFetch,
       CountRemember, CountPersist, CountWrite, CountBreak, CountWipe
    DEF Next, PollStep

LEMMA CountAlways == Spec => []CountInv
BY CountInit, CountStep, InvAlways, PTL DEF Spec

-----------------------------------------------------------------------------
(* The order of the commits.                                               *)
LEMMA VisibleInit == Init => OrderInv
<1> SUFFICES ASSUME Init PROVE OrderInv
    OBVIOUS
<1>1. DOMAIN feed = {} /\ DOMAIN outbox = {}
      BY DEF Init
<1> QED
    BY <1>1 DEF Init, OrderInv, OutboxVisible, RedisGrows, Readable, PassedOver, FirstOrNever

(* What is in the outbox was committed before.                             *)
LEMMA VisibleStep ==
    ASSUME IInv, OutboxVisible, [Next]_vars
    PROVE  OutboxVisible'
<1>1. Visible \subseteq Visible'
  <2>1. ASSUME NEW c \in Change, Commit(c)
        PROVE  Visible \subseteq Visible'
        BY <2>1, Appended DEF Commit, IInv, TypeOK, Visible
  <2> QED
      BY <2>1 DEF Next, vars, Begin, Expire, Push, PollStep, Look, Fetch, Remember, Persist,
         WriteEvent, LookBlind, RememberFails, Break, Wipe, source, Visible
<1>2. CASE outbox' = outbox
      BY <1>1, <1>2 DEF OutboxVisible
<1>3. CASE \E c \in Visible : outbox' = Append(outbox, c)
  <2>1. PICK c \in Visible : outbox' = Append(outbox, c)
        BY <1>3
  <2>2. c \in Change /\ outbox \in Seq(Change)
        BY DEF IInv, TypeOK, Visible
  <2>3. \A k \in DOMAIN outbox' : outbox'[k] = c \/ (k \in DOMAIN outbox /\ outbox'[k] = outbox[k])
        BY <2>1, <2>2, Appended
  <2> QED
      BY <1>1, <2>3 DEF OutboxVisible
<1>4. outbox' = outbox \/ \E c \in Visible : outbox' = Append(outbox, c)
  <2>1. ASSUME NEW i \in batch, WriteEvent(i)
        PROVE  \E c \in Visible : outbox' = Append(outbox, c)
        BY <2>1 DEF WriteEvent, IInv, TypeOK, Visible
  <2>2. ASSUME NEW c \in Change, Push(c)
        PROVE  \E d \in Visible : outbox' = Append(outbox, d)
        BY <2>2 DEF Push
  <2> QED
      BY <2>1, <2>2 DEF Next, vars, Begin, Commit, Expire, PollStep, Look, Fetch, Remember,
         Persist, LookBlind, RememberFails, Break, Wipe
<1> QED
    BY <1>2, <1>3, <1>4

(* A change stays readable: only its own commit could guard it.            *)
LEMMA ReadableStays ==
    ASSUME IInv, [Next]_vars, NEW m \in 0 .. MaxChanges, Readable(m)
    PROVE  Readable(m)'
<1>1. ASSUME NEW c \in Change, Commit(c)
      PROVE  Readable(m)'
  <2>1. /\ c \notin Visible /\ kind' = kind /\ live' \subseteq live \cup {c}
        /\ Visible \subseteq Visible'
        BY <1>1, Appended DEF Commit, IInv, TypeOK, Visible
  <2> QED
      BY <2>1 DEF Readable
<1>2. ASSUME UNCHANGED <<kind, feed>>, live' \subseteq live
      PROVE  Readable(m)'
      BY <1>2 DEF Readable, Visible
<1> QED
    BY <1>1, <1>2 DEF Next, vars, Begin, Expire, Push, PollStep, Look, Fetch, Remember, Persist,
       WriteEvent, LookBlind, RememberFails, Break, Wipe, source

(* A poll that read with the older mark of PostgreSQL read past the one in *)
(* Redis, so that the mark it sets is no smaller.                          *)
LEMMA RedisFetch ==
    ASSUME IInv, CountInv, RedisGrows, Fetch
    PROVE  RedisGrows'
<1>1. /\ pc = "fetch" /\ pc' \in {"look", "remember"}
      /\ UNCHANGED <<kind, feed, live, redis, db, setbacks, wiped>>
      BY DEF Fetch, source, marks, history
<1>2. Readable(redis)' = Readable(redis)
      BY <1>1 DEF Readable, Visible
<1>3. ASSUME ~wiped, pc' = "remember"
      PROVE  redis <= latest'
  <2>1. latest' \in Stamps /\ \A n \in Stamps : n <= latest'
        BY <1>3 DEF Fetch
  <2>2. \A n \in Stamps : n \in Nat /\ n > since /\ since \in Nat /\ redis \in Nat
        BY IngressAssumption DEF Stamps, Polled, Events, Newer, IInv, TypeOK, Change
  <2>3. CASE redis <= since
        BY <2>1, <2>2, <2>3
  <2>4. CASE redis > since
    <3>1. redis # 0 /\ redis \in Visible /\ kind[redis] # "unusable" /\ redis \notin live
          BY <1>3, <2>1, <2>2, <2>4 DEF RedisGrows, Readable
    <3>2. redis \in Stamps
          BY <2>4, <3>1 DEF Visible, Stamps, Polled, Events, Newer
    <3> QED
        BY <2>1, <3>2
  <2> QED
      BY <2>1, <2>2, <2>3, <2>4
<1> QED
    BY <1>1, <1>2, <1>3 DEF RedisGrows

LEMMA RedisStep ==
    ASSUME IInv, CountInv, RedisGrows, [Next]_vars
    PROVE  RedisGrows'
<1>1. /\ redis \in 0 .. MaxChanges /\ db \in 0 .. MaxChanges /\ latest \in 0 .. MaxChanges
      /\ since \in 0 .. MaxChanges /\ setbacks \in Nat /\ MaxChanges \in Nat
      BY IngressAssumption DEF IInv, TypeOK
<1>2. ASSUME UNCHANGED <<redis, db, pc, since, latest, setbacks, wiped>>
      PROVE  RedisGrows'
      BY <1>1, <1>2, ReadableStays DEF RedisGrows
<1>3. CASE \/ UNCHANGED vars \/ Begin
           \/ \E c \in Change : Commit(c) \/ Expire(c) \/ Push(c)
      BY <1>2, <1>3 DEF vars, Begin, Commit, Expire, Push, marks, poll, history
<1>4. CASE Look \/ LookBlind
  <2>1. /\ pc' = "fetch"
        /\ \/ since' = redis' /\ redis' = (IF redis # 0 THEN redis ELSE db)
           \/ since' = db /\ redis' = redis
        /\ UNCHANGED <<kind, feed, live, db, setbacks, wiped>>
        BY <1>4 DEF Look, LookBlind, source, marks, history
  <2>2. Readable(db)
        BY DEF CountInv, DbGrows
  <2>3. redis' \in {redis, db} /\ (~wiped => Readable(redis)')
        BY <2>1, <2>2 DEF RedisGrows, Readable, Visible
  <2> QED
      BY <1>1, <2>1, <2>3 DEF RedisGrows
<1>5. CASE Remember \/ RememberFails
  <2>1. /\ pc = "remember" /\ pc' = "persist"
        /\ \/ redis' = latest /\ setbacks' = setbacks
           \/ redis' = redis /\ setbacks' = setbacks + 1
        /\ UNCHANGED <<kind, feed, live, db, latest, wiped>>
        BY <1>5 DEF Remember, Remembered, RememberFails, source, marks, history
  <2>2. Readable(latest) /\ db <= latest
        BY <2>1 DEF CountInv, DbGrows
  <2>3. ~wiped => Readable(redis)'
        BY <2>1, <2>2 DEF RedisGrows, Readable, Visible
  <2> QED
      BY <1>1, <2>1, <2>2, <2>3 DEF RedisGrows
<1>6. CASE Persist
  <2>1. /\ pc = "persist" /\ pc' = "write" /\ db' = latest
        /\ UNCHANGED <<kind, feed, live, redis, setbacks, wiped>>
        BY <1>6 DEF Persist, source, history
  <2>2. ~wiped => Readable(redis)'
        BY <2>1 DEF RedisGrows, Readable, Visible
  <2> QED
      BY <2>1, <2>2 DEF RedisGrows
<1>7. CASE Break \/ \E i \in batch : WriteEvent(i)
  <2>1. /\ pc' \in {"look", "write"}
        /\ UNCHANGED <<kind, feed, live, redis, db, setbacks, wiped>>
        BY <1>7 DEF Break, WriteEvent, source, marks, history
  <2> QED
      BY <2>1 DEF RedisGrows, Readable, Visible
<1>8. CASE Wipe
      BY <1>8 DEF Wipe, RedisGrows
<1> QED
    BY <1>3, <1>4, <1>5, <1>6, <1>7, <1>8, RedisFetch DEF Next, PollStep

(* What was written first stays so.                                        *)
LEMMA FirstStays ==
    ASSUME TypeOK, NEW e \in Change, outbox' = Append(outbox, e), feed' = feed,
           NEW i \in DOMAIN feed, NEW j \in DOMAIN feed
    PROVE  /\ Ingested(feed[i]) => Ingested(feed[i])'
           /\ Ingested(feed[i])' => Ingested(feed[i]) \/ feed[i] = e
           /\ FirstWritten(feed[i], feed[j]) => FirstWritten(feed[i], feed[j])'
<1>1. /\ outbox \in Seq(Change) /\ DOMAIN outbox = 1 .. Len(outbox) /\ Len(outbox) \in Nat
      /\ \A k \in DOMAIN outbox : k \in DOMAIN outbox' /\ outbox'[k] = outbox[k]
      /\ \A k \in DOMAIN outbox' : k \in DOMAIN outbox \/ outbox'[k] = e
      BY SMTT(30), Appended DEF TypeOK
<1>2. Ingested(feed[i]) => Ingested(feed[i])'
      BY <1>1 DEF Ingested
<1>3. Ingested(feed[i])' => Ingested(feed[i]) \/ feed[i] = e
      BY <1>1 DEF Ingested
<1>4. FirstWritten(feed[i], feed[j]) => FirstWritten(feed[i], feed[j])'
  <2> SUFFICES ASSUME FirstWritten(feed[i], feed[j]) PROVE FirstWritten(feed[i], feed[j])'
      OBVIOUS
  <2>1. PICK k \in DOMAIN outbox : outbox[k] = feed[i] /\ \A m \in 1 .. k : outbox[m] # feed[j]
        BY DEF FirstWritten
  <2>2. \A m \in 1 .. k : m \in DOMAIN outbox
        BY <1>1
  <2> QED
      BY <1>1, <2>1, <2>2 DEF FirstWritten
<1> QED
    BY <1>2, <1>3, <1>4

LEMMA FirstAlone ==
    ASSUME TypeOK, NEW c, NEW d, Ingested(c), ~Ingested(d)
    PROVE  FirstWritten(c, d)
<1>1. DOMAIN outbox = 1 .. Len(outbox) /\ Len(outbox) \in Nat
      BY DEF TypeOK
<1>2. PICK k \in DOMAIN outbox : outbox[k] = c
      BY DEF Ingested
<1>3. \A m \in 1 .. k : m \in DOMAIN outbox
      BY <1>1
<1> QED
    BY <1>2, <1>3 DEF FirstWritten, Ingested

(* Steps that neither write nor change the batch: a change that commits    *)
(* comes after all that are ingested.                                      *)
LEMMA OrderSame ==
    ASSUME IInv, OrderInv, UNCHANGED <<kind, outbox, batch>>,
           \A i \in DOMAIN feed : i \in DOMAIN feed' /\ feed'[i] = feed[i],
           \A j \in DOMAIN feed' \ DOMAIN feed :
               feed'[j] \notin Visible /\ \A i \in DOMAIN feed' : ~(j < i),
           Orderly' => Orderly,
           Orderly' => \A c \in Change : (Passed(c) => Passed(c)') /\ (Gone(c) => Gone(c)')
    PROVE  PassedOver' /\ FirstOrNever'
<1>1. SUFFICES ASSUME Orderly', NEW i \in DOMAIN feed', NEW j \in DOMAIN feed', PlainPair(i, j)'
               PROVE  /\ j \in batch' /\ i \notin batch' /\ ~Ingested(feed[i])'
                             => Passed(feed[i])'
                      /\ Ingested(feed[j])'
                             => \/ FirstWritten(feed[i], feed[j])'
                                \/ ~Ingested(feed[i])' /\ i \notin batch' /\ Gone(feed[i])'
      BY DEF PassedOver, FirstOrNever
<1>2. i \in DOMAIN feed
      BY <1>1 DEF PlainPair
<1>3. \A p \in DOMAIN feed : Ingested(feed[p])' <=> Ingested(feed[p])
      BY DEF Ingested
<1>4. CASE j \in DOMAIN feed
  <2>1. PlainPair(i, j) /\ feed[i] \in Change
        BY <1>1, <1>2, <1>4 DEF PlainPair, IInv, TypeOK
  <2>2. feed'[i] = feed[i] /\ feed'[j] = feed[j]
        BY <1>2, <1>4
  <2>3. /\ Passed(feed[i]) => Passed(feed[i])'
        /\ Gone(feed[i]) => Gone(feed[i])'
    <3>1. PICK c \in Change : c = feed[i]
          BY <2>1
    <3>2. (Passed(c) => Passed(c)') /\ (Gone(c) => Gone(c)')
          BY <1>1
    <3> QED
        BY <2>2, <3>1, <3>2 DEF Passed, Gone
  <2>4. FirstWritten(feed[i], feed[j]) => FirstWritten(feed[i], feed[j])'
        BY <2>2 DEF FirstWritten
  <2> QED
      BY <1>1, <1>2, <1>3, <1>4, <2>1, <2>3, <2>4 DEF OrderInv, PassedOver, FirstOrNever
<1>5. CASE j \notin DOMAIN feed
  <2>1. j \notin batch' /\ feed'[j] \notin Visible
        BY <1>5 DEF IInv, TypeOK
  <2>2. ~Ingested(feed[j])'
        BY <2>1 DEF OrderInv, OutboxVisible, Ingested
  <2> QED
      BY <2>1, <2>2
<1> QED
    BY <1>4, <1>5

LEMMA OrderQuiet ==
    ASSUME IInv, OrderInv, UNCHANGED <<kind, outbox, batch, redis, db, pc, since, latest,
                                       setbacks, pushes, wiped>>,
           feed' = feed \/ \E c \in Change : Commit(c)
    PROVE  PassedOver' /\ FirstOrNever'
<1>1. Orderly' = Orderly /\ \A c \in Change : Passed(c)' = Passed(c) /\ Gone(c)' = Gone(c)
      BY DEF Orderly, Calls, Passed, Gone
<1>2. CASE feed' = feed
      BY <1>1, <1>2, OrderSame
<1>3. ASSUME NEW c \in Change, Commit(c)
      PROVE  PassedOver' /\ FirstOrNever'
  <2>1. feed \in Seq(Change) /\ feed' = Append(feed, c) /\ c \notin Visible
        BY <1>3 DEF Commit, IInv, TypeOK
  <2>2. \A i \in DOMAIN feed : i \in DOMAIN feed' /\ feed'[i] = feed[i]
        BY <2>1, Appended
  <2>3. ASSUME NEW j \in DOMAIN feed' \ DOMAIN feed
        PROVE  feed'[j] \notin Visible /\ \A i \in DOMAIN feed' : ~(j < i)
        BY <2>1, <2>3, Appended
  <2> QED
      BY <1>1, <2>2, <2>3, OrderSame
<1> QED
    BY <1>2, <1>3

(* The marks move on: what is behind them stays there.                     *)
LEMMA OrderMarks ==
    ASSUME IInv, CountInv, OrderInv, Look \/ LookBlind \/ Remember \/ RememberFails \/ Persist
    PROVE  PassedOver' /\ FirstOrNever'
<1>1. /\ redis \in Nat /\ db \in Nat /\ latest \in Nat /\ since \in Nat /\ setbacks \in Nat
      /\ \A c \in Change : c \in Nat /\ c > 0
      BY IngressAssumption DEF IInv, TypeOK, Change
<1>2. UNCHANGED <<kind, feed, outbox, batch, pushes, wiped>> /\ setbacks' \in {setbacks, setbacks + 1}
      BY DEF Look, LookBlind, Remember, RememberFails, Persist, source, marks, history
<1>3. Orderly' => Orderly
      BY <1>1, <1>2 DEF Orderly, Calls
<1>4. ASSUME Orderly', NEW c \in Change
      PROVE  (Passed(c) => Passed(c)') /\ (Gone(c) => Gone(c)')
  <2>1. ~wiped /\ RedisGrows /\ setbacks' <= 1
        BY <1>2, <1>4 DEF Orderly, OrderInv
  <2>2. CASE Look \/ LookBlind
    <3>1. /\ pc' = "fetch" /\ db' = db
          /\ \/ since' = redis' /\ redis' = (IF redis # 0 THEN redis ELSE db)
             \/ since' = db /\ redis' = redis
          BY <2>2 DEF Look, LookBlind, marks
    <3> QED
        BY <1>1, <3>1 DEF Passed, Gone
  <2>3. CASE Remember \/ RememberFails
    <3>1. /\ pc = "remember" /\ pc' = "persist" /\ db' = db /\ latest' = latest
          /\ \/ redis' = latest /\ setbacks' = setbacks
             \/ redis' = redis /\ setbacks' = setbacks + 1
          BY <2>3 DEF Remember, Remembered, RememberFails, marks, history
    <3>2. redis <= latest
          BY <2>1, <3>1 DEF RedisGrows
    <3>3. redis' = redis => setbacks = 0 \/ redis' = latest
          BY <1>1, <2>1, <3>1
    <3> QED
        BY <1>1, <3>1, <3>2, <3>3 DEF Passed, Gone
  <2>4. CASE Persist
    <3>1. pc = "persist" /\ pc' = "write" /\ db' = latest /\ redis' = redis
          BY <2>4 DEF Persist
    <3>2. db <= latest
          BY <3>1 DEF CountInv, DbGrows
    <3> QED
        BY <1>1, <3>1, <3>2 DEF Passed, Gone
  <2> QED
      BY <2>2, <2>3, <2>4
<1> QED
    BY <1>2, <1>3, <1>4, OrderSame

(* A poll leaves out a user's change only if it asks from past it.         *)
LEMMA OrderFetch ==
    ASSUME IInv, CountInv, OrderInv, Fetch
    PROVE  PassedOver' /\ FirstOrNever'
<1>1. /\ pc = "fetch" /\ batch = {} /\ pc' \in {"look", "remember"}
      /\ UNCHANGED <<kind, feed, live, redis, db, outbox, setbacks, pushes, wiped>>
      /\ \/ pc' = "look" /\ batch' = {}
         \/ /\ pc' = "remember" /\ batch' = Polled
            /\ latest' \in Stamps /\ \A n \in Stamps : n <= latest'
      BY DEF IInv, BatchShape, Fetch, source, marks, history
<1>2. /\ redis \in Nat /\ db \in Nat /\ since \in Nat /\ setbacks \in Nat
      /\ \A i \in DOMAIN feed : feed[i] \in Nat
      BY IngressAssumption DEF IInv, TypeOK, Change
<1>3. SUFFICES ASSUME Orderly', NEW i \in DOMAIN feed, NEW j \in DOMAIN feed, PlainPair(i, j)
               PROVE  /\ j \in batch' /\ i \notin batch' => Passed(feed[i])'
                      /\ Ingested(feed[j])
                             => \/ FirstWritten(feed[i], feed[j])
                                \/ ~Ingested(feed[i]) /\ i \notin batch' /\ Gone(feed[i])'
      BY <1>1 DEF PassedOver, FirstOrNever, PlainPair, Ingested, FirstWritten
<1>4. Orderly /\ ~wiped /\ RedisGrows
      BY <1>1, <1>3 DEF Orderly, Calls, OrderInv
<1>5. i \in Polled <=> feed[i] > since
      BY <1>3 DEF PlainPair, Polled, Events, Newer, IInv, MarksVisible
<1>6. ASSUME j \in batch', i \notin batch'
      PROVE  Passed(feed[i])'
  <2>1. pc' = "remember" /\ j \in Polled /\ i \notin Polled
        BY <1>1, <1>6
  <2>2. feed[j] \in Stamps /\ feed[j] <= latest' /\ feed[j] > since /\ feed[i] <= since
        BY <1>1, <1>2, <1>5, <2>1 DEF Stamps, Polled, Events, Newer
  <2>3. latest' \in Nat
        BY <1>1, <1>2, <2>1 DEF Stamps, Polled, Events
  <2>4. setbacks = 0 => since <= redis
        BY <1>1, <1>4 DEF RedisGrows
  <2> QED
      BY <1>1, <1>2, <2>1, <2>2, <2>3, <2>4 DEF Passed
<1>7. ASSUME Ingested(feed[j])
      PROVE  \/ FirstWritten(feed[i], feed[j])
             \/ ~Ingested(feed[i]) /\ i \notin batch' /\ Gone(feed[i])'
  <2>1. CASE FirstWritten(feed[i], feed[j])
        BY <2>1
  <2>2. CASE ~Ingested(feed[i]) /\ Gone(feed[i])
    <3>1. feed[i] <= since /\ Gone(feed[i])'
          BY <1>1, <2>2 DEF Gone
    <3> QED
        BY <1>1, <1>2, <1>5, <2>2, <3>1
  <2> QED
      BY <1>3, <1>4, <1>7, <2>1, <2>2 DEF OrderInv, FirstOrNever
<1> QED
    BY <1>6, <1>7

(* A batch is written in the order of the feed, and what it passed over    *)
(* is gone.                                                                *)
LEMMA OrderWrite ==
    ASSUME IInv, CountInv, OrderInv, NEW k \in batch, WriteEvent(k)
    PROVE  PassedOver' /\ FirstOrNever'
<1>1. /\ pc = "write" /\ k \in DOMAIN feed /\ feed[k] \in Change
      /\ First(k) /\ outbox' = Append(outbox, feed[k]) /\ batch' = batch \ {k}
      /\ pc' \in {"look", "write"} /\ (pc' = "look" => batch' = {})
      /\ UNCHANGED <<kind, feed, live, redis, db, since, latest, setbacks, pushes, wiped>>
      BY DEF WriteEvent, IInv, TypeOK, source, marks, history
<1>2. SUFFICES ASSUME Orderly', NEW i \in DOMAIN feed, NEW j \in DOMAIN feed, PlainPair(i, j)
               PROVE  /\ j \in batch' /\ i \notin batch' /\ ~Ingested(feed[i])'
                             => Passed(feed[i])'
                      /\ Ingested(feed[j])'
                             => \/ FirstWritten(feed[i], feed[j])'
                                \/ ~Ingested(feed[i])' /\ i \notin batch' /\ Gone(feed[i])'
      BY <1>1 DEF PassedOver, FirstOrNever, PlainPair, Ingested, FirstWritten
<1>3. Orderly
      BY <1>1, <1>2 DEF Orderly, Calls
<1>4. i \in Int /\ j \in Int /\ k \in Int /\ i < j
      BY SMTT(30), <1>1, <1>2 DEF PlainPair, IInv, TypeOK
<1>5. TypeOK /\ Ingested(feed[k])'
  <2>1. outbox \in Seq(Change)
        BY DEF IInv, TypeOK
  <2> QED
      BY <1>1, <2>1, Appended DEF Ingested, IInv
<1>6. \A p, q \in DOMAIN feed :
          /\ Ingested(feed[p]) => Ingested(feed[p])'
          /\ Ingested(feed[p])' => Ingested(feed[p]) \/ feed[p] = feed[k]
          /\ FirstWritten(feed[p], feed[q]) => FirstWritten(feed[p], feed[q])'
      BY <1>1, <1>5, FirstStays
<1>7. Gone(feed[i]) => Gone(feed[i])'
      BY <1>1 DEF Gone
<1>8. feed[i] \in Change /\ \A p, q \in DOMAIN feed : feed[p] = feed[q] => p = q
      BY DEF IInv, TypeOK, CountInv, FeedOnce
<1>9. ASSUME j \in batch, i \notin batch, ~Ingested(feed[i])
      PROVE  Gone(feed[i])
      BY <1>1, <1>2, <1>3, <1>9 DEF OrderInv, PassedOver, Passed
<1>10. ASSUME j \in batch', i \notin batch', ~Ingested(feed[i])'
       PROVE  Passed(feed[i])'
  <2>1. i \notin batch /\ j \in batch /\ ~Ingested(feed[i])
        BY <1>1, <1>5, <1>6, <1>10
  <2> QED
      BY <1>1, <1>7, <1>8, <1>9, <1>10, <2>1 DEF Passed
<1>11. ASSUME Ingested(feed[j])'
       PROVE  \/ FirstWritten(feed[i], feed[j])'
              \/ ~Ingested(feed[i])' /\ i \notin batch' /\ Gone(feed[i])'
  <2>1. CASE Ingested(feed[j])
    <3>1. CASE FirstWritten(feed[i], feed[j])
          BY <1>6, <3>1
    <3>2. CASE ~Ingested(feed[i]) /\ i \notin batch /\ Gone(feed[i])
      <4>1. feed[i] # feed[k]
            BY <1>1, <1>8, <3>2
      <4> QED
          BY <1>1, <1>6, <1>7, <1>8, <3>2, <4>1
    <3> QED
        BY <1>2, <1>3, <2>1, <3>1, <3>2 DEF OrderInv, FirstOrNever
  <2>2. CASE ~Ingested(feed[j])
    <3>1. j = k
          BY <1>1, <1>6, <1>8, <1>11, <2>2
    <3>2. i \notin batch /\ feed[i] # feed[k]
          BY <1>1, <1>4, <1>8, <3>1 DEF First
    <3>3. CASE Ingested(feed[i])
      <4>1. FirstWritten(feed[i], feed[j])
            BY <1>5, <2>2, <3>3, FirstAlone
      <4> QED
          BY <1>6, <4>1
    <3>4. CASE ~Ingested(feed[i])
          BY <1>1, <1>6, <1>7, <1>8, <1>9, <3>1, <3>2, <3>4
    <3> QED
        BY <3>3, <3>4
  <2> QED
      BY <2>1, <2>2
<1> QED
    BY <1>10, <1>11

LEMMA OrderBreak ==
    ASSUME IInv, OrderInv, Break
    PROVE  PassedOver' /\ FirstOrNever'
<1>1. /\ batch' = {} /\ pc' = "look"
      /\ UNCHANGED <<kind, feed, live, redis, db, outbox, setbacks, pushes, wiped>>
      BY DEF Break, source, marks
<1>2. (Orderly' => Orderly) /\ \A c : Gone(c) => Gone(c)'
      BY <1>1 DEF Orderly, Calls, Gone
<1>3. PassedOver'
      BY <1>1 DEF PassedOver
<1>4. FirstOrNever'
      BY <1>1, <1>2 DEF OrderInv, FirstOrNever, PlainPair, Ingested, FirstWritten
<1> QED
    BY <1>3, <1>4

LEMMA OrderStep ==
    ASSUME IInv, CountInv, OrderInv, [Next]_vars
    PROVE  OrderInv'
<1>1. OutboxVisible' /\ RedisGrows'
      BY VisibleStep, RedisStep DEF OrderInv
<1>2. ASSUME UNCHANGED vars \/ Begin \/ \E c \in Change : Commit(c) \/ Expire(c)
      PROVE  PassedOver' /\ FirstOrNever'
      BY <1>2, OrderQuiet DEF vars, Begin, Commit, Expire, source, marks, poll, history
<1>3. ASSUME Wipe
      PROVE  PassedOver' /\ FirstOrNever'
      BY <1>3 DEF Wipe, Orderly, PassedOver, FirstOrNever
<1>4. ASSUME NEW c \in Change, Push(c)
      PROVE  PassedOver' /\ FirstOrNever'
  <2>1. pushes'[c] > 0
        BY <1>4 DEF Push, IInv, TypeOK
  <2> QED
      BY <2>1 DEF Calls, Orderly, PassedOver, FirstOrNever
<1>5. PassedOver' /\ FirstOrNever'
      BY <1>2, <1>3, <1>4, OrderMarks, OrderFetch, OrderWrite, OrderBreak DEF Next, PollStep
<1> QED
    BY <1>1, <1>5 DEF OrderInv

LEMMA OrderAlways == Spec => []OrderInv
BY VisibleInit, OrderStep, InvAlways, CountAlways, PTL DEF Spec

-----------------------------------------------------------------------------
(* Every variable keeps its type (watermark.py, celery_app.py).            *)
THEOREM TypeCorrect == Spec => []TypeOK
BY InvAlways, PTL DEF IInv

(* No user's change is left behind the watermark in silence, whatever      *)
(* fails, is lost or commits late (get_watermark, poll, set_watermark and  *)
(* the poll task).                                                         *)
THEOREM EverythingAccounted == Spec => []Accounted
BY InvAlways, PTL DEF IInv

(* Crashes and the loss of Redis' memory repeat no change: it is written   *)
(* again only after a webhook, or while Redis lags behind because a SET    *)
(* failed (set_watermark, get_watermark, receive_webhook).                 *)
THEOREM OncePerSetbackAlways == Spec => []OncePerSetback
<1>1. IInv /\ CountInv => OncePerSetback
  <2> SUFFICES ASSUME IInv, CountInv, NEW c \in Change
               PROVE  Written(c) <= 1 + pushes[c] + setbacks
      BY DEF OncePerSetback
  <2> QED
      BY CountTypes DEF IInv, CountInv, Counted
<1> QED
    BY <1>1, InvAlways, CountAlways, PTL

(* Users' changes enter the outbox in the order in which the system        *)
(* committed them, whatever fails, as long as Redis keeps its memory, no   *)
(* webhook is called and at most one SET of the watermark fails (poll,     *)
(* set_watermark and the loop of the poll task).                           *)
THEOREM CommitOrderKept == Spec => []CommitOrder
<1>1. OrderInv => CommitOrder
      BY DEF OrderInv, FirstOrNever, Orderly, PlainPair, CommitOrder
<1> QED
    BY <1>1, OrderAlways, PTL
=============================================================================
