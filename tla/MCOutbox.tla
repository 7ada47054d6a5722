------------------------------ MODULE MCOutbox ------------------------------
(* Instances of Outbox for TLC.  Rows 1 and 3 are of one business.         *)
EXTENDS Outbox

Alternate == [r \in Row |-> r % 2]
=============================================================================
