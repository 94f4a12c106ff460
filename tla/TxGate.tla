------------------------------- MODULE TxGate -------------------------------
(***************************************************************************)
(* What the tx-access handshake of rsi_91x_ps.c promises: a gate between   *)
(* the threads that write packets and the low-power firmware (LMAC).  The  *)
(* gate may close only while no thread is inside, and a thread may enter   *)
(* only while it is open.  How a thread waits, who wakes it and which      *)
(* message closes or opens the gate are left to TxAccess, which is shown   *)
(* to implement this module.                                               *)
(***************************************************************************)
CONSTANT Users          \* the threads that enter and leave the gate

VARIABLES inside,       \* the threads that hold tx access
          closed        \* TRUE from the sleep acknowledgement to the wake-up

vars == <<inside, closed>>

Init == inside = {} /\ closed = FALSE

Enter(u) == /\ ~closed
            /\ u \notin inside
            /\ inside' = inside \cup {u}
            /\ UNCHANGED closed

Leave(u) == /\ u \in inside
            /\ inside' = inside \ {u}
            /\ UNCHANGED closed

\* The last thread that leaves may close the gate in the same step.
LeaveAndClose(u) == /\ inside = {u}
                    /\ inside' = {}
                    /\ closed' = TRUE

Close == /\ inside = {}
         /\ closed' = TRUE
         /\ UNCHANGED inside

Open == /\ closed' = FALSE
        /\ UNCHANGED inside

Next == \/ \E u \in Users : Enter(u) \/ Leave(u) \/ LeaveAndClose(u)
        \/ Close
        \/ Open

Spec == Init /\ [][Next]_vars
=============================================================================
