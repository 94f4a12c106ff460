-------------------------------- MODULE MCTx --------------------------------
(* The transmit side: the scheduler of the soft queues, or the access handshake that
   its thread shares with the coex thread.  They share no variable (TxSched has access
   denied at any point), so a behaviour belongs to one. *)
EXTENDS TxAccess, MCTxSched

VARIABLE part

MCInit == Init /\ SchedInit /\ part \in {"access", "sched"}

MCNext ==
    \/ part = "access" /\ Next /\ UNCHANGED <<part, schedVars>>
    \/ part = "sched" /\ SchedNext /\ UNCHANGED <<part, vars>>

MCSpec == MCInit /\ [][MCNext]_<<part, vars, schedVars>>

MCFairSpec ==
    /\ MCSpec
    /\ \A t \in Threads : /\ WF_vars(part = "access" /\ AskStep(t))
                          /\ WF_vars(part = "access" /\ SendStep(t))
    /\ WF_vars(part = "access" /\ Rx) /\ WF_vars(part = "access" /\ LmacGetsAck)
    /\ WF_schedVars(part = "sched" /\ ThreadWakes) /\ WF_schedVars(part = "sched" /\ Turn)
    /\ WF_schedVars(part = "sched" /\ ScheduleThread) /\ WF_schedVars(part = "sched" /\ Interrupt)
    /\ \A q \in SoftQs : SF_schedVars(part = "sched" /\ CheckNotFull /\ q_num = q)
=============================================================================
