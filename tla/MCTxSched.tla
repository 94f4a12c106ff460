------------------------------ MODULE MCTxSched -----------------------------
(* TLC instances of TxSched: the values of its function-valued constants.  *)
EXTENDS TxSched

\* Back offs on both sides of U8_RANGE (3 in these runs), as the EDCA parameters
\* of an access point may put them on both sides of 256.
MCWme == [q \in DataQs |-> IF q = 0 THEN 4 ELSE 2]

\* The highest queue sends bursts (VO_Q: 6 packets in the code).
MCBurst == [q \in DataQs |-> IF q = NUM_EDCA_QUEUES - 1 THEN 2 ELSE 0]
=============================================================================
