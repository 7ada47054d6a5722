------------------------------ MODULE Channel ------------------------------
(***************************************************************************)
(* What the transactional outbox promises to the rest of SyncKar           *)
(* (pipeline/outbox.py, module docstring): an event accepted into the      *)
(* outbox reaches Kafka at least once, Kafka sees nothing that was not     *)
(* accepted, and an event counts as published only after it arrived.       *)
(* Order and the number of copies are not promised.                        *)
(***************************************************************************)
CONSTANT Msg

VARIABLES
    accepted,   \* committed to the outbox
    delivered,  \* in the Kafka log
    settled     \* counted as published, never to be sent again

vars == <<accepted, delivered, settled>>

Init ==
    /\ accepted  = {}
    /\ delivered = {}
    /\ settled   = {}

Accept(m) ==
    /\ m \notin accepted
    /\ accepted' = accepted \cup {m}
    /\ UNCHANGED <<delivered, settled>>

Deliver(m) ==
    /\ m \in accepted \ delivered
    /\ delivered' = delivered \cup {m}
    /\ UNCHANGED <<accepted, settled>>

Settle(S) ==
    /\ S \subseteq delivered
    /\ settled' = settled \cup S
    /\ UNCHANGED <<accepted, delivered>>

Next ==
    \/ \E m \in Msg : Accept(m) \/ Deliver(m)
    \/ \E S \in SUBSET Msg : Settle(S)

Spec == Init /\ [][Next]_vars
(* What was accepted arrives, and what arrived is not sent again for ever. *)
FairSpec == Spec /\ \A m \in Msg : WF_vars(Deliver(m)) /\ WF_vars(Settle({m}))
=============================================================================
