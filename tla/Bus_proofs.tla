----------------------------- MODULE Bus_proofs -----------------------------
(***************************************************************************)
(* Proofs about the busses: SdioBus, UsbBus and FwLoad.                    *)
(*                                                                         *)
(* SDIO: the handler touches the card only for a packet it holds; the      *)
(* copies of num_rx_pkts the two threads carry stay within the limit, and  *)
(* are consistent with the tests made before they were loaded; disconnect  *)
(* has taken the interrupt away, with the handler idle, before it frees    *)
(* the drop buffer.                                                        *)
(*                                                                         *)
(* USB: who holds tx_access_lock, that whoever writes keeps the device     *)
(* awake, and what each stage of probe and disconnect leaves at rest.      *)
(*                                                                         *)
(* Firmware: one command is under way between REGIN, the boot loader and   *)
(* REGOUT; of the chunks taken all but the last are in the flash, in       *)
(* order, and the last is there or in the buffer of its turn.              *)
(***************************************************************************)
EXTENDS SdioBus, UsbBus, FwLoad, SequenceTheorems, TLAPS

\* A packet the handler is about to read is still in the card.
CardInv == irq \in {"serve", "alloc", "drop"} => card > 0

\* What the unlocked copies of num_rx_pkts are good for.
CountInv ==
    /\ num_rx_pkts <= MAX_RX_PKTS
    /\ irq \in {"alloc", "load"} => num_rx_pkts < MAX_RX_PKTS
    /\ irq = "store" => irq_load < MAX_RX_PKTS
    /\ rx = "load" => num_rx_pkts > 0
    /\ rx = "store" => rx_load > 0 /\ rx_load <= MAX_RX_PKTS

\* The order of rsi_disconnect's last steps.
ReleaseInv ==
    /\ irq # "idle" => irq_claimed
    /\ irq_claimed => temp_rcv_buf
    /\ pm = "free" => ~irq_claimed

Inv == TypeOK /\ CardInv /\ CountInv /\ ReleaseInv

-----------------------------------------------------------------------------
\* A u8 keeps a value that fits, and wraps by its range.
LEMMA ByteTyped == \A n \in Nat : Byte(n) \in Bytes
  BY LimitsPositive, CountFitsInByte DEF Byte, Bytes

LEMMA ByteKeeps == \A n \in Bytes : Byte(n) = n /\ Byte(n + U8_RANGE) = n
  BY LimitsPositive, CountFitsInByte DEF Byte, Bytes

LEMMA InitInv == Init => Inv
<1>1. 0 \in Bytes /\ 0 \in 0 .. SUSPEND_TRIES
  BY LimitsPositive, CountFitsInByte, TriesNatural DEF Bytes
<1>2. Init => TypeOK
  <2> SUFFICES ASSUME Init PROVE TypeOK
    OBVIOUS
  <2>1. irq \in IrqPc /\ rx \in RxPc /\ pm \in PmPc
    BY DEF Init, IrqPc, RxPc, PmPc
  <2>2. /\ irq_claimed = TRUE /\ rx_in_prog = FALSE /\ suspend_in_prog = FALSE
        /\ event_set = FALSE /\ temp_rcv_buf = TRUE
    BY DEF Init
  <2>3. /\ card \in Nat /\ rx_q \in Nat /\ thread_done \in Nat
        /\ irq_load \in Bytes /\ num_rx_pkts \in Bytes /\ rx_load \in Bytes
        /\ tries \in 0 .. SUSPEND_TRIES /\ rx_lock \in {"free", "irq", "suspend"}
    BY <1>1 DEF Init
  <2>4. QED
    BY <2>1, <2>2, <2>3 DEF TypeOK
<1>3. Init => CardInv /\ CountInv /\ ReleaseInv
  BY LimitsPositive DEF Init, CardInv, CountInv, ReleaseInv
<1>4. QED
  BY <1>2, <1>3 DEF Inv

-----------------------------------------------------------------------------
\* The interrupt thread.
LEMMA HandleInv ==
    ASSUME Inv, PacketArrives \/ Interrupt \/ Handle PROVE Inv'
<1> USE LimitsPositive, CountFitsInByte
    DEF Inv, TypeOK, CardInv, CountInv, ReleaseInv, IrqPc, Bytes,
        irqVars, rxVars, pmVars, locking, queue, thread
<1>1. CASE PacketArrives
  BY <1>1 DEF PacketArrives
<1>2. CASE Interrupt
  BY <1>2 DEF Interrupt
<1>3. CASE MarkRx
  BY <1>3 DEF MarkRx
<1>4. CASE ReadStatus
  BY <1>4 DEF ReadStatus
<1>5. CASE ProcessPkt
  BY <1>5 DEF ProcessPkt, QueueFull
<1>6. CASE QueuePkt
  BY <1>6 DEF QueuePkt
<1>7. CASE DropPkt
  BY <1>7 DEF DropPkt
<1>8. CASE LoadCount
  BY <1>8 DEF LoadCount
<1>9. CASE StoreCount
  <2>1. num_rx_pkts' = irq_load + 1
    BY <1>9, ByteKeeps DEF StoreCount
  <2>2. QED
    BY <1>9, <2>1 DEF StoreCount
<1>10. CASE SignalRx
  BY <1>10 DEF SignalRx
<1>11. CASE UnlockRound \/ UnlockAtExit \/ LeaveHandler
  BY <1>11 DEF UnlockRound, UnlockAtExit, LeaveHandler
<1>12. QED
  BY <1>1, <1>2, <1>3, <1>4, <1>5, <1>6, <1>7, <1>8, <1>9, <1>10, <1>11 DEF Handle

\* The receive thread.
LEMMA ReceiveInv ==
    ASSUME Inv, Receive PROVE Inv'
<1> USE LimitsPositive, CountFitsInByte
    DEF Inv, TypeOK, CardInv, CountInv, ReleaseInv, RxPc, Bytes,
        irqVars, rxVars, pmVars, locking, queue, thread
<1>1. CASE RxWake \/ RxDequeue \/ RxRead
  BY <1>1 DEF RxWake, RxDequeue, RxRead
<1>2. CASE RxTest
  BY <1>2 DEF RxTest
<1>3. CASE RxLoadCount
  BY <1>3 DEF RxLoadCount
<1>4. CASE RxStoreCount
  <2>1. num_rx_pkts' = rx_load - 1
    <3>1. rx_load - 1 \in Bytes /\ (rx_load - 1) + U8_RANGE = rx_load + U8_RANGE - 1
      BY <1>4 DEF RxStoreCount
    <3>2. QED
      BY <1>4, <3>1, ByteKeeps DEF RxStoreCount
  <2>2. QED
    BY <1>4, <2>1 DEF RxStoreCount
<1>5. CASE RxCheckDone \/ RxReset \/ RxExit
  <2>1. CASE RxCheckDone
    BY <2>1 DEF RxCheckDone
  <2>2. CASE RxReset
    BY <2>2 DEF RxReset
  <2>3. CASE RxExit
    BY <2>3 DEF RxExit
  <2>4. QED
    BY <1>5, <2>1, <2>2, <2>3
<1>6. QED
  BY <1>1, <1>2, <1>3, <1>4, <1>5 DEF Receive

\* Suspend, resume and disconnect.
LEMMA PowerInv ==
    ASSUME Inv, Suspend \/ DisconnectStart \/ Disconnect PROVE Inv'
<1> USE TriesNatural
    DEF Inv, TypeOK, CardInv, CountInv, ReleaseInv, PmPc,
        irqVars, rxVars, locking, queue, thread
<1>1. CASE SuspendStart \/ SuspendLock
  BY <1>1 DEF SuspendStart, SuspendLock
<1>2. CASE SuspendCheck
  BY <1>2 DEF SuspendCheck
<1>3. CASE SuspendSet \/ SuspendSleep \/ Resume
  <2>1. CASE SuspendSet
    BY <2>1 DEF SuspendSet
  <2>2. CASE SuspendSleep
    BY <2>2 DEF SuspendSleep
  <2>3. CASE Resume
    BY <2>3 DEF Resume
  <2>4. QED
    BY <1>3, <2>1, <2>2, <2>3
<1>4. CASE DisconnectStart \/ KillMark \/ KillSet \/ StopReturns
  <2>1. CASE DisconnectStart
    BY <2>1 DEF DisconnectStart
  <2>2. CASE KillMark
    BY <2>2 DEF KillMark
  <2>3. CASE KillSet
    BY <2>3 DEF KillSet
  <2>4. CASE StopReturns
    BY <2>4 DEF StopReturns
  <2>5. QED
    BY <1>4, <2>1, <2>2, <2>3, <2>4
<1>5. CASE ReleaseIrq \/ FreeBuffer
  <2>1. CASE ReleaseIrq
    BY <2>1 DEF ReleaseIrq
  <2>2. CASE FreeBuffer
    BY <2>2 DEF FreeBuffer
  <2>3. QED
    BY <1>5, <2>1, <2>2
<1>6. QED
  BY <1>1, <1>2, <1>3, <1>4, <1>5 DEF Suspend, Disconnect

-----------------------------------------------------------------------------
\* The inductive invariant of the receive path.
THEOREM Invariance == Spec => []Inv
<1>1. Inv /\ [Next]_vars => Inv'
  <2>1. ASSUME Inv, Next PROVE Inv'
    BY <2>1, HandleInv, ReceiveInv, PowerInv DEF Next
  <2>2. ASSUME Inv, UNCHANGED vars PROVE Inv'
    BY <2>2 DEF Inv, TypeOK, CardInv, CountInv, ReleaseInv,
                vars, irqVars, rxVars, pmVars, locking, queue, thread
  <2>3. QED
    BY <2>1, <2>2
<1>2. QED
  BY InitInv, <1>1, PTL DEF Spec

\* Type correctness of the receive path: in particular rsi_suspend's count of
\* sleeps never passes zero, and the handler never reads a packet the card
\* does not hold.
THEOREM TypeCorrect == Spec => []TypeOK
<1>1. Inv => TypeOK
  BY DEF Inv
<1>2. QED
  BY <1>1, Invariance, PTL

\* num_rx_pkts never passes RSI_SDIO_MAX_RX_PKTS and never wraps below zero,
\* although two threads update it without a lock.
THEOREM CountStaysBounded == Spec => []CountBounded
<1>1. Inv => CountBounded
  BY DEF Inv, CountInv, CountBounded
<1>2. QED
  BY <1>1, Invariance, PTL

\* rsi_disconnect frees temp_rcv_buf only when no handler can use it.
THEOREM BufferOutlivesHandler == Spec => []TempBufAlive
<1>1. Inv => TempBufAlive
  BY DEF Inv, ReleaseInv, TempBufAlive
<1>2. QED
  BY <1>1, Invariance, PTL

-----------------------------------------------------------------------------
(* The USB transport *)
\* tx_access_lock belongs to whoever stands between its lock and its unlock.
LockInv ==
    /\ autopm \in {"read", "kill"} <=> locked = "suspend"
    /\ autopm \in {"resume", "submit"} => locked = "resume"
    /\ locked = "resume" /\ "submit" \notin usbUpset => autopm \in {"resume", "submit"}

\* Access is withdrawn as long as the device sleeps; whoever wants to write keeps it awake.
AccessInv ==
    /\ ps.access => ~ps.suspended
    /\ autopm \in {"time", "down", "resume", "submit"} => ps.suspended
    /\ autopm \in {"grant", "wake"} => ~ps.suspended
    /\ tx.at # "idle" => tx.intends = TRUE
    /\ autopm \in {"read", "kill"} => tx.at = "idle"

\* A write that ended has given its count back, unless it failed.
PendingInv ==
    /\ tx.at = "writing" => out.pending = 1 /\ out.failed = FALSE
    /\ tx.at # "writing" /\ out.failed = FALSE => out.pending = 0

\* The probe has submitted the URB where it says so; disconnect finds nobody at work.
StageInv ==
    /\ stage \in {"probe", "load", "failed"} => autopm = "up" /\ tx.at = "idle" /\ ~ps.suspended
    /\ stage = "probe" \/ (stage = "load" /\ ~early) => urb = "idle" /\ handler = "idle"
    /\ stage = "load" /\ early /\ usbUpset \cap {"receive", "submit"} = {} => urb = "flying" \/ handler # "idle"
    /\ stage \in {"leave", "kill", "gone"} => autopm = "up" /\ urb = "idle"
    /\ stage \in {"kill", "gone"} => handler = "idle" /\ tx.at = "idle"
    /\ stage = "gone" => rx_thread.at = "exit"
    /\ stage = "failed" /\ "freed" \notin usbUpset => urb = "idle" /\ handler = "idle"

\* The queue has room for the packet the handler holds.
RoomInv == handler = "queue" => rx_cb_q < MaxRx

UsbIInv ==
    /\ UsbTypeOK /\ LockInv /\ AccessInv /\ PendingInv /\ StageInv /\ RoomInv
    /\ ReceiveAlive /\ WritesAwake /\ SomebodyWakes

LEMMA UsbNamesTyped ==
    ASSUME UsbIInv, UsbNext
    PROVE  /\ stage' \in {"probe", "load", "late", "live", "leave", "kill", "gone", "failed"}
           /\ urb' \in {"idle", "flying"} /\ handler' \in {"idle", "queue", "signal", "submit"}
           /\ autopm' \in PmUp \union Resuming \union {"read", "kill", "time", "down"}
           /\ locked' \in {"nobody", "suspend", "resume"}
           /\ timer' \in {"unset", "off", "pending"}
<1> USE UsbAssumption DEF UsbAssumption, UsbIInv, UsbTypeOK, usbRxVars, PmUp, Resuming
<1>1. CASE ProbeEndpoint
  BY <1>1 DEF ProbeEndpoint, Submit, Goes, Fine
<1>2. CASE LoadFails
  BY <1>2 DEF LoadFails
<1>3. CASE ProbeEnds
  BY <1>3 DEF ProbeEnds, LateSubmit, Submit, Goes, Fine
<1>4. CASE UrbCompletes
  BY <1>4 DEF UrbCompletes, Goes, Fine
<1>5. CASE HandlerQueues
  BY <1>5 DEF HandlerQueues
<1>6. CASE HandlerSignals
  BY <1>6 DEF HandlerSignals
<1>7. CASE HandlerSubmits
  BY <1>7, ZenonT(60) DEF HandlerSubmits, Submit, Goes, Fine
<1>8. CASE RxThread
  BY <1>8, ZenonT(60) DEF RxThread, RxStep, RxResets, RxAt
<1>9. CASE SuspendTests
  BY <1>9 DEF SuspendTests, MaySuspend
<1>10. CASE SuspendReads
  BY <1>10, ZenonT(60) DEF SuspendReads
<1>11. CASE SuspendKills
  BY <1>11 DEF SuspendKills, Withdraws
<1>12. CASE SuspendTimes
  BY <1>12 DEF SuspendTimes
<1>13. CASE TimerExpires
  BY <1>13, ZenonT(60) DEF TimerExpires, Rearms, AsksResume
<1>14. CASE ResumeBegins
  BY <1>14 DEF ResumeBegins
<1>15. CASE ResumeReads
  BY <1>15, ZenonT(60) DEF ResumeReads, Goes, Fine
<1>16. CASE ResumeSubmits
  BY <1>16 DEF ResumeSubmits, Submit, Goes, Fine, ResumeUnlocks
<1>17. CASE ResumeGrants
  BY <1>17 DEF ResumeGrants
<1>18. CASE ResumeWakes
  BY <1>18 DEF ResumeWakes
<1>19. CASE TxAsks
  BY <1>19 DEF TxAsks, Goes, Fine
<1>20. CASE TxChecks
  BY <1>20, ZenonT(60) DEF TxChecks, TxAt, Goes, Fine
<1>21. CASE TxTimesOut
  BY <1>21, ZenonT(60) DEF TxTimesOut, TxAt
<1>22. CASE TxWrites
  BY <1>22, ZenonT(60) DEF TxWrites, TxAt
<1>23. CASE TxWritten
  BY <1>23, ZenonT(60) DEF TxWritten, TxAt, WriteFails, Goes, Fine
<1>24. CASE TxClears
  BY <1>24, ZenonT(60) DEF TxClears
<1>25. CASE UsbDisconnect
  BY <1>25 DEF UsbDisconnect
<1>26. CASE KillRxThread
  BY <1>26 DEF KillRxThread
<1>27. CASE FreeInterface
  BY <1>27 DEF FreeInterface, ThreadEnded
<1>28. QED
  BY <1>1, <1>2, <1>3, <1>4, <1>5, <1>6, <1>7, <1>8, <1>9, <1>10, <1>11, <1>12, <1>13, <1>14,
     <1>15, <1>16, <1>17, <1>18, <1>19, <1>20, <1>21, <1>22, <1>23, <1>24, <1>25, <1>26, <1>27
     DEF UsbNext, Handler, UsbSuspend, UsbResume, TxThread, Removal

LEMMA UsbFlagsTyped ==
    ASSUME UsbIInv, UsbNext
    PROVE  /\ early' \in BOOLEAN /\ wanted' \in BOOLEAN
           /\ ps' \in [access : BOOLEAN, suspended : BOOLEAN, deep : BOOLEAN]
<1> USE UsbAssumption DEF UsbAssumption, UsbIInv, UsbTypeOK, usbRxVars
<1>1. CASE ProbeEndpoint
  BY <1>1 DEF ProbeEndpoint, Submit, Goes, Fine
<1>2. CASE LoadFails
  BY <1>2 DEF LoadFails
<1>3. CASE ProbeEnds
  BY <1>3 DEF ProbeEnds, LateSubmit, Submit, Goes, Fine
<1>4. CASE UrbCompletes
  BY <1>4 DEF UrbCompletes, Goes, Fine
<1>5. CASE HandlerQueues
  BY <1>5 DEF HandlerQueues
<1>6. CASE HandlerSignals
  BY <1>6 DEF HandlerSignals
<1>7. CASE HandlerSubmits
  BY <1>7 DEF HandlerSubmits, Submit, Goes, Fine
<1>8. CASE RxThread
  BY <1>8 DEF RxThread, RxStep, RxResets, RxAt
<1>9. CASE SuspendTests
  BY <1>9 DEF SuspendTests, MaySuspend
<1>10. CASE SuspendReads
  BY <1>10 DEF SuspendReads
<1>11. CASE SuspendKills
  BY <1>11 DEF SuspendKills, Withdraws
<1>12. CASE SuspendTimes
  BY <1>12 DEF SuspendTimes
<1>13. CASE TimerExpires
  BY <1>13 DEF TimerExpires, Rearms, AsksResume
<1>14. CASE ResumeBegins
  BY <1>14 DEF ResumeBegins
<1>15. CASE ResumeReads
  BY <1>15 DEF ResumeReads, Goes, Fine
<1>16. CASE ResumeSubmits
  BY <1>16, ZenonT(60) DEF ResumeSubmits, Submit, Goes, Fine, ResumeUnlocks
<1>17. CASE ResumeGrants
  BY <1>17 DEF ResumeGrants
<1>18. CASE ResumeWakes
  BY <1>18 DEF ResumeWakes
<1>19. CASE TxAsks
  BY <1>19 DEF TxAsks, Goes, Fine
<1>20. CASE TxChecks
  BY <1>20 DEF TxChecks, TxAt, Goes, Fine
<1>21. CASE TxTimesOut
  BY <1>21 DEF TxTimesOut, TxAt
<1>22. CASE TxWrites
  BY <1>22 DEF TxWrites, TxAt
<1>23. CASE TxWritten
  BY <1>23 DEF TxWritten, TxAt, WriteFails, Goes, Fine
<1>24. CASE TxClears
  BY <1>24 DEF TxClears
<1>25. CASE UsbDisconnect
  BY <1>25 DEF UsbDisconnect
<1>26. CASE KillRxThread
  BY <1>26 DEF KillRxThread
<1>27. CASE FreeInterface
  BY <1>27 DEF FreeInterface, ThreadEnded
<1>28. QED
  BY <1>1, <1>2, <1>3, <1>4, <1>5, <1>6, <1>7, <1>8, <1>9, <1>10, <1>11, <1>12, <1>13, <1>14,
     <1>15, <1>16, <1>17, <1>18, <1>19, <1>20, <1>21, <1>22, <1>23, <1>24, <1>25, <1>26, <1>27
     DEF UsbNext, Handler, UsbSuspend, UsbResume, TxThread, Removal

LEMMA UsbThreadsTyped ==
    ASSUME UsbIInv, UsbNext
    PROVE  /\ rx_thread' \in [at : {"wait", "reset", "check", "drain", "exit"}, event : BOOLEAN, done : BOOLEAN]
           /\ tx' \in [at : {"idle", "check", "late", "waiting", "woken", "write", "writing", "clear"},
                      intends : BOOLEAN, waits : BOOLEAN]
<1> USE UsbAssumption DEF UsbAssumption, UsbIInv, UsbTypeOK, usbRxVars
<1>1. CASE ProbeEndpoint
  BY <1>1 DEF ProbeEndpoint, Submit, Goes, Fine
<1>2. CASE LoadFails
  BY <1>2 DEF LoadFails
<1>3. CASE ProbeEnds
  BY <1>3 DEF ProbeEnds, LateSubmit, Submit, Goes, Fine
<1>4. CASE UrbCompletes
  BY <1>4, ZenonT(60) DEF UrbCompletes, Goes, Fine
<1>5. CASE HandlerQueues
  BY <1>5 DEF HandlerQueues
<1>6. CASE HandlerSignals
  BY <1>6 DEF HandlerSignals
<1>7. CASE HandlerSubmits
  BY <1>7 DEF HandlerSubmits, Submit, Goes, Fine
<1>8. CASE RxThread
  BY <1>8, ZenonT(60) DEF RxThread, RxStep, RxResets, RxAt
<1>9. CASE SuspendTests
  BY <1>9 DEF SuspendTests, MaySuspend
<1>10. CASE SuspendReads
  BY <1>10, ZenonT(60) DEF SuspendReads
<1>11. CASE SuspendKills
  BY <1>11, ZenonT(60) DEF SuspendKills, Withdraws
<1>12. CASE SuspendTimes
  BY <1>12 DEF SuspendTimes
<1>13. CASE TimerExpires
  BY <1>13 DEF TimerExpires, Rearms, AsksResume
<1>14. CASE ResumeBegins
  BY <1>14, ZenonT(60) DEF ResumeBegins
<1>15. CASE ResumeReads
  BY <1>15, ZenonT(60) DEF ResumeReads, Goes, Fine
<1>16. CASE ResumeSubmits
  BY <1>16 DEF ResumeSubmits, Submit, Goes, Fine, ResumeUnlocks
<1>17. CASE ResumeGrants
  BY <1>17 DEF ResumeGrants
<1>18. CASE ResumeWakes
  BY <1>18 DEF ResumeWakes
<1>19. CASE TxAsks
  BY <1>19 DEF TxAsks, Goes, Fine
<1>20. CASE TxChecks
  BY <1>20, ZenonT(60) DEF TxChecks, TxAt, Goes, Fine
<1>21. CASE TxTimesOut
  BY <1>21 DEF TxTimesOut, TxAt
<1>22. CASE TxWrites
  BY <1>22, ZenonT(60) DEF TxWrites, TxAt
<1>23. CASE TxWritten
  BY <1>23 DEF TxWritten, TxAt, WriteFails, Goes, Fine
<1>24. CASE TxClears
  BY <1>24 DEF TxClears
<1>25. CASE UsbDisconnect
  BY <1>25 DEF UsbDisconnect
<1>26. CASE KillRxThread
  BY <1>26 DEF KillRxThread
<1>27. CASE FreeInterface
  BY <1>27 DEF FreeInterface, ThreadEnded
<1>28. QED
  BY <1>1, <1>2, <1>3, <1>4, <1>5, <1>6, <1>7, <1>8, <1>9, <1>10, <1>11, <1>12, <1>13, <1>14,
     <1>15, <1>16, <1>17, <1>18, <1>19, <1>20, <1>21, <1>22, <1>23, <1>24, <1>25, <1>26, <1>27
     DEF UsbNext, Handler, UsbSuspend, UsbResume, TxThread, Removal

LEMMA UsbUpsetTyped ==
    ASSUME UsbIInv, UsbNext
    PROVE  usbUpset' \subseteq UsbTroubles \union {"freed"}
<1> USE UsbAssumption DEF UsbAssumption, UsbIInv, UsbTypeOK, usbRxVars
<1>1. CASE ProbeEndpoint
  BY <1>1, ZenonT(60) DEF ProbeEndpoint, Submit, Goes, Fine
<1>2. CASE LoadFails
  BY <1>2 DEF LoadFails
<1>3. CASE ProbeEnds
  BY <1>3, ZenonT(60) DEF ProbeEnds, LateSubmit, Submit, Goes, Fine
<1>4. CASE UrbCompletes
  BY <1>4 DEF UrbCompletes, Goes, Fine
<1>5. CASE HandlerQueues
  BY <1>5 DEF HandlerQueues
<1>6. CASE HandlerSignals
  BY <1>6 DEF HandlerSignals
<1>7. CASE HandlerSubmits
  BY <1>7 DEF HandlerSubmits, Submit, Goes, Fine
<1>8. CASE RxThread
  BY <1>8 DEF RxThread, RxStep, RxResets, RxAt
<1>9. CASE SuspendTests
  BY <1>9 DEF SuspendTests, MaySuspend
<1>10. CASE SuspendReads
  BY <1>10 DEF SuspendReads
<1>11. CASE SuspendKills
  BY <1>11 DEF SuspendKills, Withdraws
<1>12. CASE SuspendTimes
  BY <1>12 DEF SuspendTimes
<1>13. CASE TimerExpires
  BY <1>13 DEF TimerExpires, Rearms, AsksResume
<1>14. CASE ResumeBegins
  BY <1>14 DEF ResumeBegins
<1>15. CASE ResumeReads
  BY <1>15, ZenonT(60) DEF ResumeReads, Goes, Fine
<1>16. CASE ResumeSubmits
  BY <1>16, ZenonT(60) DEF ResumeSubmits, Submit, Goes, Fine, ResumeUnlocks
<1>17. CASE ResumeGrants
  BY <1>17 DEF ResumeGrants
<1>18. CASE ResumeWakes
  BY <1>18 DEF ResumeWakes
<1>19. CASE TxAsks
  BY <1>19, ZenonT(60) DEF TxAsks, Goes, Fine
<1>20. CASE TxChecks
  BY <1>20, ZenonT(60) DEF TxChecks, TxAt, Goes, Fine
<1>21. CASE TxTimesOut
  BY <1>21 DEF TxTimesOut, TxAt
<1>22. CASE TxWrites
  BY <1>22 DEF TxWrites, TxAt
<1>23. CASE TxWritten
  BY <1>23 DEF TxWritten, TxAt, WriteFails, Goes, Fine
<1>24. CASE TxClears
  BY <1>24 DEF TxClears
<1>25. CASE UsbDisconnect
  BY <1>25 DEF UsbDisconnect
<1>26. CASE KillRxThread
  BY <1>26 DEF KillRxThread
<1>27. CASE FreeInterface
  BY <1>27 DEF FreeInterface, ThreadEnded
<1>28. QED
  BY <1>1, <1>2, <1>3, <1>4, <1>5, <1>6, <1>7, <1>8, <1>9, <1>10, <1>11, <1>12, <1>13, <1>14,
     <1>15, <1>16, <1>17, <1>18, <1>19, <1>20, <1>21, <1>22, <1>23, <1>24, <1>25, <1>26, <1>27
     DEF UsbNext, Handler, UsbSuspend, UsbResume, TxThread, Removal

LEMMA UsbCounts ==
    ASSUME UsbIInv, UsbNext
    PROVE  /\ rx_cb_q' \in 0 .. MaxRx /\ RoomInv'
<1>0. /\ rx_cb_q \in 0 .. MaxRx /\ RoomInv /\ MaxRx \in Nat
      /\ handler \in {"idle", "queue", "signal", "submit"}
  BY UsbAssumption DEF UsbAssumption, UsbIInv, UsbTypeOK
<1> USE <1>0 DEF RoomInv, usbRxVars
<1>1. CASE ProbeEndpoint
  BY <1>1 DEF ProbeEndpoint, Submit, Goes, Fine
<1>2. CASE LoadFails
  BY <1>2 DEF LoadFails
<1>3. CASE ProbeEnds
  BY <1>3 DEF ProbeEnds, LateSubmit, Submit, Goes, Fine
<1>4. CASE UrbCompletes
  BY <1>4 DEF UrbCompletes, Goes, Fine
<1>5. CASE HandlerQueues
  BY <1>5 DEF HandlerQueues
<1>6. CASE HandlerSignals
  BY <1>6 DEF HandlerSignals
<1>7. CASE HandlerSubmits
  BY <1>7 DEF HandlerSubmits, Submit, Goes, Fine
<1>8. CASE RxThread
  BY <1>8 DEF RxThread, RxStep, RxResets, RxAt
<1>9. CASE SuspendTests
  BY <1>9 DEF SuspendTests, MaySuspend
<1>10. CASE SuspendReads
  BY <1>10 DEF SuspendReads
<1>11. CASE SuspendKills
  BY <1>11 DEF SuspendKills, Withdraws
<1>12. CASE SuspendTimes
  BY <1>12 DEF SuspendTimes
<1>13. CASE TimerExpires
  BY <1>13 DEF TimerExpires, Rearms, AsksResume
<1>14. CASE ResumeBegins
  BY <1>14 DEF ResumeBegins
<1>15. CASE ResumeReads
  BY <1>15 DEF ResumeReads, Goes, Fine
<1>16. CASE ResumeSubmits
  BY <1>16 DEF ResumeSubmits, Submit, Goes, Fine, ResumeUnlocks
<1>17. CASE ResumeGrants
  BY <1>17 DEF ResumeGrants
<1>18. CASE ResumeWakes
  BY <1>18 DEF ResumeWakes
<1>19. CASE TxAsks
  BY <1>19 DEF TxAsks, Goes, Fine
<1>20. CASE TxChecks
  BY <1>20 DEF TxChecks, TxAt, Goes, Fine
<1>21. CASE TxTimesOut
  BY <1>21 DEF TxTimesOut, TxAt
<1>22. CASE TxWrites
  BY <1>22 DEF TxWrites, TxAt
<1>23. CASE TxWritten
  BY <1>23 DEF TxWritten, TxAt, WriteFails, Goes, Fine
<1>24. CASE TxClears
  BY <1>24 DEF TxClears
<1>25. CASE UsbDisconnect
  BY <1>25 DEF UsbDisconnect
<1>26. CASE KillRxThread
  BY <1>26 DEF KillRxThread
<1>27. CASE FreeInterface
  BY <1>27 DEF FreeInterface, ThreadEnded
<1>28. QED
  BY <1>1, <1>2, <1>3, <1>4, <1>5, <1>6, <1>7, <1>8, <1>9, <1>10, <1>11, <1>12, <1>13, <1>14,
     <1>15, <1>16, <1>17, <1>18, <1>19, <1>20, <1>21, <1>22, <1>23, <1>24, <1>25, <1>26, <1>27
     DEF UsbNext, Handler, UsbSuspend, UsbResume, TxThread, Removal

LEMMA CountsUp ==
    ASSUME NEW o \in [pending : 0 .. 1, failed : BOOLEAN]
    PROVE  /\ o.pending = 0 => [o EXCEPT !.pending = @ + 1] = [o EXCEPT !.pending = 1]
           /\ o.pending = 1 => [o EXCEPT !.pending = @ - 1] = [o EXCEPT !.pending = 0]
           /\ \A n \in 0 .. 1 : [o EXCEPT !.pending = n] \in [pending : 0 .. 1, failed : BOOLEAN]
           /\ 0 \in 0 .. 1 /\ 1 \in 0 .. 1
<1>1. 0 \in 0 .. 1 /\ 1 \in 0 .. 1
  OBVIOUS
<1>2. \A n \in 0 .. 1 : [o EXCEPT !.pending = n] \in [pending : 0 .. 1, failed : BOOLEAN]
  OBVIOUS
<1>3. QED
  BY <1>1, <1>2

LEMMA UsbPending ==
    ASSUME UsbIInv, UsbNext
    PROVE  /\ out' \in [pending : 0 .. 1, failed : BOOLEAN] /\ PendingInv'
<1> USE UsbAssumption DEF UsbAssumption, UsbIInv, UsbTypeOK, usbRxVars, PendingInv
<1>1. CASE ProbeEndpoint
  BY <1>1 DEF ProbeEndpoint, Submit, Goes, Fine
<1>2. CASE LoadFails
  BY <1>2 DEF LoadFails
<1>3. CASE ProbeEnds
  BY <1>3 DEF ProbeEnds, LateSubmit, Submit, Goes, Fine
<1>4. CASE UrbCompletes
  BY <1>4 DEF UrbCompletes, Goes, Fine
<1>5. CASE HandlerQueues
  BY <1>5 DEF HandlerQueues
<1>6. CASE HandlerSignals
  BY <1>6 DEF HandlerSignals
<1>7. CASE HandlerSubmits
  BY <1>7 DEF HandlerSubmits, Submit, Goes, Fine
<1>8. CASE RxThread
  BY <1>8 DEF RxThread, RxStep, RxResets, RxAt
<1>9. CASE SuspendTests
  BY <1>9 DEF SuspendTests, MaySuspend
<1>10. CASE SuspendReads
  BY <1>10 DEF SuspendReads
<1>11. CASE SuspendKills
  BY <1>11 DEF SuspendKills, Withdraws
<1>12. CASE SuspendTimes
  BY <1>12 DEF SuspendTimes
<1>13. CASE TimerExpires
  BY <1>13 DEF TimerExpires, Rearms, AsksResume
<1>14. CASE ResumeBegins
  BY <1>14 DEF ResumeBegins
<1>15. CASE ResumeReads
  BY <1>15 DEF ResumeReads, Goes, Fine
<1>16. CASE ResumeSubmits
  BY <1>16 DEF ResumeSubmits, Submit, Goes, Fine, ResumeUnlocks
<1>17. CASE ResumeGrants
  BY <1>17 DEF ResumeGrants
<1>18. CASE ResumeWakes
  BY <1>18 DEF ResumeWakes
<1>19. CASE TxAsks
  BY <1>19 DEF TxAsks, Goes, Fine
<1>20. CASE TxChecks
  BY <1>20 DEF TxChecks, TxAt, Goes, Fine
<1>21. CASE TxTimesOut
  BY <1>21 DEF TxTimesOut, TxAt
<1>22. CASE TxWrites
  <2>1. out \in [pending : 0 .. 1, failed : BOOLEAN]
    OBVIOUS
  <2>2. CASE out.failed
    BY <1>22, <2>1, <2>2 DEF TxWrites, TxAt
  <2>3. CASE ~out.failed
    <3>1. out.pending = 0
      BY <1>22, <2>3 DEF TxWrites
    <3>2. out' = [out EXCEPT !.pending = 1] /\ tx' = [tx EXCEPT !.at = "writing"]
      <4>1. out' = [out EXCEPT !.pending = @ + 1] /\ tx' = [tx EXCEPT !.at = "writing"]
        BY <1>22, <2>3 DEF TxWrites, TxAt
      <4>2. QED
        BY <3>1, <4>1, CountsUp
    <3>3. out.failed = FALSE
      BY <2>3
    <3>4. out' \in [pending : 0 .. 1, failed : BOOLEAN]
      BY <2>1, <3>2, CountsUp
    <3>5. out'.pending = 1 /\ out'.failed = out.failed /\ tx'.at = "writing"
      BY <2>1, <3>2
    <3>6. QED
      BY <3>3, <3>4, <3>5
  <2>4. QED
    BY <2>2, <2>3
<1>23. CASE TxWritten
  <2>1. out.pending = 1 /\ out.failed = FALSE
    BY <1>23 DEF TxWritten
  <2>2. tx' = [tx EXCEPT !.at = "clear"]
    BY <1>23 DEF TxWritten, TxAt
  <2>3. \/ out' = [out EXCEPT !.pending = 0] \/ out' = [out EXCEPT !.failed = TRUE]
    <3>1. \/ out' = [out EXCEPT !.pending = @ - 1] \/ out' = [out EXCEPT !.failed = TRUE]
      BY <1>23 DEF TxWritten, WriteFails
    <3>2. QED
      BY <2>1, <3>1, CountsUp
  <2>4. CASE out' = [out EXCEPT !.pending = 0]
    <3>1. out' \in [pending : 0 .. 1, failed : BOOLEAN]
      BY <2>4, CountsUp
    <3>2. out'.pending = 0 /\ tx'.at = "clear"
      BY <2>2, <2>4
    <3>3. QED
      BY <3>1, <3>2
  <2>5. CASE out' = [out EXCEPT !.failed = TRUE]
    BY <2>1, <2>2, <2>5
  <2>6. QED
    BY <2>3, <2>4, <2>5
<1>24. CASE TxClears
  BY <1>24 DEF TxClears
<1>25. CASE UsbDisconnect
  BY <1>25 DEF UsbDisconnect
<1>26. CASE KillRxThread
  BY <1>26 DEF KillRxThread
<1>27. CASE FreeInterface
  BY <1>27 DEF FreeInterface, ThreadEnded
<1>28. QED
  BY <1>1, <1>2, <1>3, <1>4, <1>5, <1>6, <1>7, <1>8, <1>9, <1>10, <1>11, <1>12, <1>13, <1>14,
     <1>15, <1>16, <1>17, <1>18, <1>19, <1>20, <1>21, <1>22, <1>23, <1>24, <1>25, <1>26, <1>27
     DEF UsbNext, Handler, UsbSuspend, UsbResume, TxThread, Removal

LEMMA UsbLock ==
    ASSUME UsbIInv, UsbNext
    PROVE  LockInv'
<1> USE UsbAssumption DEF UsbAssumption, UsbIInv, UsbTypeOK, usbRxVars, LockInv, StageInv
<1>1. CASE ProbeEndpoint
  BY <1>1, ZenonT(60) DEF ProbeEndpoint, Submit, Goes, Fine
<1>2. CASE LoadFails
  BY <1>2 DEF LoadFails
<1>3. CASE ProbeEnds
  BY <1>3, ZenonT(60) DEF ProbeEnds, LateSubmit, Submit, Goes, Fine
<1>4. CASE UrbCompletes
  BY <1>4 DEF UrbCompletes, Goes, Fine
<1>5. CASE HandlerQueues
  BY <1>5 DEF HandlerQueues
<1>6. CASE HandlerSignals
  BY <1>6 DEF HandlerSignals
<1>7. CASE HandlerSubmits
  BY <1>7, ZenonT(60) DEF HandlerSubmits, Submit, Goes, Fine
<1>8. CASE RxThread
  BY <1>8 DEF RxThread, RxStep, RxResets, RxAt
<1>9. CASE SuspendTests
  BY <1>9 DEF SuspendTests, MaySuspend
<1>10. CASE SuspendReads
  BY <1>10 DEF SuspendReads
<1>11. CASE SuspendKills
  BY <1>11 DEF SuspendKills, Withdraws
<1>12. CASE SuspendTimes
  BY <1>12 DEF SuspendTimes
<1>13. CASE TimerExpires
  BY <1>13 DEF TimerExpires, Rearms, AsksResume
<1>14. CASE ResumeBegins
  BY <1>14 DEF ResumeBegins
<1>15. CASE ResumeReads
  BY <1>15 DEF ResumeReads, Goes, Fine
<1>16. CASE ResumeSubmits
  BY <1>16 DEF ResumeSubmits, Submit, Goes, Fine, ResumeUnlocks
<1>17. CASE ResumeGrants
  BY <1>17 DEF ResumeGrants
<1>18. CASE ResumeWakes
  BY <1>18 DEF ResumeWakes
<1>19. CASE TxAsks
  BY <1>19 DEF TxAsks, Goes, Fine
<1>20. CASE TxChecks
  BY <1>20 DEF TxChecks, TxAt, Goes, Fine
<1>21. CASE TxTimesOut
  BY <1>21 DEF TxTimesOut, TxAt
<1>22. CASE TxWrites
  BY <1>22 DEF TxWrites, TxAt
<1>23. CASE TxWritten
  BY <1>23 DEF TxWritten, TxAt, WriteFails, Goes, Fine
<1>24. CASE TxClears
  BY <1>24 DEF TxClears
<1>25. CASE UsbDisconnect
  BY <1>25 DEF UsbDisconnect
<1>26. CASE KillRxThread
  BY <1>26 DEF KillRxThread
<1>27. CASE FreeInterface
  BY <1>27 DEF FreeInterface, ThreadEnded
<1>28. QED
  BY <1>1, <1>2, <1>3, <1>4, <1>5, <1>6, <1>7, <1>8, <1>9, <1>10, <1>11, <1>12, <1>13, <1>14,
     <1>15, <1>16, <1>17, <1>18, <1>19, <1>20, <1>21, <1>22, <1>23, <1>24, <1>25, <1>26, <1>27
     DEF UsbNext, Handler, UsbSuspend, UsbResume, TxThread, Removal

LEMMA UsbAccess ==
    ASSUME UsbIInv, UsbNext
    PROVE  AccessInv'
<1> USE UsbAssumption DEF UsbAssumption, UsbIInv, UsbTypeOK, usbRxVars, AccessInv, StageInv
<1>1. CASE ProbeEndpoint
  BY <1>1 DEF ProbeEndpoint, Submit, Goes, Fine
<1>2. CASE LoadFails
  BY <1>2 DEF LoadFails
<1>3. CASE ProbeEnds
  BY <1>3 DEF ProbeEnds, LateSubmit, Submit, Goes, Fine
<1>4. CASE UrbCompletes
  BY <1>4 DEF UrbCompletes, Goes, Fine
<1>5. CASE HandlerQueues
  BY <1>5 DEF HandlerQueues
<1>6. CASE HandlerSignals
  BY <1>6 DEF HandlerSignals
<1>7. CASE HandlerSubmits
  BY <1>7 DEF HandlerSubmits, Submit, Goes, Fine
<1>8. CASE RxThread
  BY <1>8 DEF RxThread, RxStep, RxResets, RxAt
<1>9. CASE SuspendTests
  BY <1>9 DEF SuspendTests, MaySuspend
<1>10. CASE SuspendReads
  BY <1>10, ZenonT(60) DEF SuspendReads
<1>11. CASE SuspendKills
  BY <1>11 DEF SuspendKills, Withdraws
<1>12. CASE SuspendTimes
  BY <1>12 DEF SuspendTimes
<1>13. CASE TimerExpires
  BY <1>13 DEF TimerExpires, Rearms, AsksResume
<1>14. CASE ResumeBegins
  BY <1>14 DEF ResumeBegins
<1>15. CASE ResumeReads
  BY <1>15 DEF ResumeReads, Goes, Fine
<1>16. CASE ResumeSubmits
  BY <1>16, ZenonT(60) DEF ResumeSubmits, Submit, Goes, Fine, ResumeUnlocks
<1>17. CASE ResumeGrants
  BY <1>17 DEF ResumeGrants
<1>18. CASE ResumeWakes
  BY <1>18 DEF ResumeWakes
<1>19. CASE TxAsks
  <2>1. UNCHANGED <<ps, autopm>> /\ locked = "nobody" /\ stage = "live"
    BY <1>19 DEF TxAsks
  <2>2. tx' = [tx EXCEPT !.intends = TRUE, !.at = "check"]
    BY <1>19 DEF TxAsks
  <2>3. autopm \notin {"read", "kill"}
    BY <2>1 DEF LockInv
  <2>4. tx'.intends = TRUE
    BY <2>2
  <2>5. QED
    BY <2>1, <2>3, <2>4
<1>20. CASE TxChecks
  BY <1>20, ZenonT(60) DEF TxChecks, TxAt, Goes, Fine
<1>21. CASE TxTimesOut
  BY <1>21 DEF TxTimesOut, TxAt
<1>22. CASE TxWrites
  BY <1>22 DEF TxWrites, TxAt
<1>23. CASE TxWritten
  BY <1>23 DEF TxWritten, TxAt, WriteFails, Goes, Fine
<1>24. CASE TxClears
  BY <1>24 DEF TxClears
<1>25. CASE UsbDisconnect
  BY <1>25 DEF UsbDisconnect
<1>26. CASE KillRxThread
  BY <1>26 DEF KillRxThread
<1>27. CASE FreeInterface
  BY <1>27 DEF FreeInterface, ThreadEnded
<1>28. QED
  BY <1>1, <1>2, <1>3, <1>4, <1>5, <1>6, <1>7, <1>8, <1>9, <1>10, <1>11, <1>12, <1>13, <1>14,
     <1>15, <1>16, <1>17, <1>18, <1>19, <1>20, <1>21, <1>22, <1>23, <1>24, <1>25, <1>26, <1>27
     DEF UsbNext, Handler, UsbSuspend, UsbResume, TxThread, Removal

LEMMA UsbStage ==
    ASSUME UsbIInv, UsbNext
    PROVE  StageInv'
<1> USE UsbAssumption DEF UsbAssumption, UsbIInv, UsbTypeOK, usbRxVars, StageInv, AccessInv
<1>1. CASE ProbeEndpoint
  BY <1>1 DEF ProbeEndpoint, Submit, Goes, Fine
<1>2. CASE LoadFails
  BY <1>2 DEF LoadFails
<1>3. CASE ProbeEnds
  BY <1>3 DEF ProbeEnds, LateSubmit, Submit, Goes, Fine
<1>4. CASE UrbCompletes
  BY <1>4 DEF UrbCompletes, Goes, Fine
<1>5. CASE HandlerQueues
  BY <1>5 DEF HandlerQueues
<1>6. CASE HandlerSignals
  BY <1>6 DEF HandlerSignals
<1>7. CASE HandlerSubmits
  BY <1>7 DEF HandlerSubmits, Submit, Goes, Fine
<1>8. CASE RxThread
  BY <1>8 DEF RxThread, RxStep, RxResets, RxAt
<1>9. CASE SuspendTests
  BY <1>9 DEF SuspendTests, MaySuspend
<1>10. CASE SuspendReads
  BY <1>10 DEF SuspendReads
<1>11. CASE SuspendKills
  BY <1>11 DEF SuspendKills, Withdraws
<1>12. CASE SuspendTimes
  BY <1>12 DEF SuspendTimes
<1>13. CASE TimerExpires
  BY <1>13 DEF TimerExpires, Rearms, AsksResume
<1>14. CASE ResumeBegins
  BY <1>14 DEF ResumeBegins
<1>15. CASE ResumeReads
  BY <1>15 DEF ResumeReads, Goes, Fine
<1>16. CASE ResumeSubmits
  BY <1>16 DEF ResumeSubmits, Submit, Goes, Fine, ResumeUnlocks
<1>17. CASE ResumeGrants
  BY <1>17 DEF ResumeGrants
<1>18. CASE ResumeWakes
  BY <1>18 DEF ResumeWakes
<1>19. CASE TxAsks
  BY <1>19 DEF TxAsks, Goes, Fine
<1>20. CASE TxChecks
  BY <1>20 DEF TxChecks, TxAt, Goes, Fine
<1>21. CASE TxTimesOut
  BY <1>21 DEF TxTimesOut, TxAt
<1>22. CASE TxWrites
  BY <1>22 DEF TxWrites, TxAt
<1>23. CASE TxWritten
  BY <1>23 DEF TxWritten, TxAt, WriteFails, Goes, Fine
<1>24. CASE TxClears
  BY <1>24 DEF TxClears
<1>25. CASE UsbDisconnect
  BY <1>25 DEF UsbDisconnect
<1>26. CASE KillRxThread
  BY <1>26 DEF KillRxThread
<1>27. CASE FreeInterface
  BY <1>27 DEF FreeInterface, ThreadEnded
<1>28. QED
  BY <1>1, <1>2, <1>3, <1>4, <1>5, <1>6, <1>7, <1>8, <1>9, <1>10, <1>11, <1>12, <1>13, <1>14,
     <1>15, <1>16, <1>17, <1>18, <1>19, <1>20, <1>21, <1>22, <1>23, <1>24, <1>25, <1>26, <1>27
     DEF UsbNext, Handler, UsbSuspend, UsbResume, TxThread, Removal

LEMMA UsbReceive ==
    ASSUME UsbIInv, UsbNext
    PROVE  ReceiveAlive'
<1> USE UsbAssumption DEF UsbAssumption, UsbIInv, UsbTypeOK, usbRxVars, ReceiveAlive, StageInv,
AccessInv, Without
<1>1. CASE ProbeEndpoint
  BY <1>1 DEF ProbeEndpoint, Submit, Goes, Fine
<1>2. CASE LoadFails
  BY <1>2 DEF LoadFails
<1>3. CASE ProbeEnds
  BY <1>3 DEF ProbeEnds, LateSubmit, Submit, Goes, Fine
<1>4. CASE UrbCompletes
  BY <1>4 DEF UrbCompletes, Goes, Fine
<1>5. CASE HandlerQueues
  BY <1>5 DEF HandlerQueues
<1>6. CASE HandlerSignals
  BY <1>6 DEF HandlerSignals
<1>7. CASE HandlerSubmits
  BY <1>7 DEF HandlerSubmits, Submit, Goes, Fine
<1>8. CASE RxThread
  BY <1>8 DEF RxThread, RxStep, RxResets, RxAt
<1>9. CASE SuspendTests
  BY <1>9 DEF SuspendTests, MaySuspend
<1>10. CASE SuspendReads
  BY <1>10 DEF SuspendReads
<1>11. CASE SuspendKills
  BY <1>11 DEF SuspendKills, Withdraws
<1>12. CASE SuspendTimes
  BY <1>12 DEF SuspendTimes
<1>13. CASE TimerExpires
  BY <1>13 DEF TimerExpires, Rearms, AsksResume
<1>14. CASE ResumeBegins
  BY <1>14 DEF ResumeBegins
<1>15. CASE ResumeReads
  BY <1>15 DEF ResumeReads, Goes, Fine
<1>16. CASE ResumeSubmits
  BY <1>16 DEF ResumeSubmits, Submit, Goes, Fine, ResumeUnlocks
<1>17. CASE ResumeGrants
  BY <1>17 DEF ResumeGrants
<1>18. CASE ResumeWakes
  BY <1>18 DEF ResumeWakes
<1>19. CASE TxAsks
  BY <1>19 DEF TxAsks, Goes, Fine
<1>20. CASE TxChecks
  BY <1>20 DEF TxChecks, TxAt, Goes, Fine
<1>21. CASE TxTimesOut
  BY <1>21 DEF TxTimesOut, TxAt
<1>22. CASE TxWrites
  BY <1>22 DEF TxWrites, TxAt
<1>23. CASE TxWritten
  BY <1>23 DEF TxWritten, TxAt, WriteFails, Goes, Fine
<1>24. CASE TxClears
  BY <1>24 DEF TxClears
<1>25. CASE UsbDisconnect
  BY <1>25 DEF UsbDisconnect
<1>26. CASE KillRxThread
  BY <1>26 DEF KillRxThread
<1>27. CASE FreeInterface
  BY <1>27 DEF FreeInterface, ThreadEnded
<1>28. QED
  BY <1>1, <1>2, <1>3, <1>4, <1>5, <1>6, <1>7, <1>8, <1>9, <1>10, <1>11, <1>12, <1>13, <1>14,
     <1>15, <1>16, <1>17, <1>18, <1>19, <1>20, <1>21, <1>22, <1>23, <1>24, <1>25, <1>26, <1>27
     DEF UsbNext, Handler, UsbSuspend, UsbResume, TxThread, Removal

LEMMA UsbWrites ==
    ASSUME UsbIInv, UsbNext
    PROVE  WritesAwake'
<1> USE UsbAssumption DEF UsbAssumption, UsbIInv, UsbTypeOK, usbRxVars, WritesAwake, AccessInv,
StageInv
<1>1. CASE ProbeEndpoint
  BY <1>1 DEF ProbeEndpoint, Submit, Goes, Fine
<1>2. CASE LoadFails
  BY <1>2 DEF LoadFails
<1>3. CASE ProbeEnds
  BY <1>3 DEF ProbeEnds, LateSubmit, Submit, Goes, Fine
<1>4. CASE UrbCompletes
  BY <1>4 DEF UrbCompletes, Goes, Fine
<1>5. CASE HandlerQueues
  BY <1>5 DEF HandlerQueues
<1>6. CASE HandlerSignals
  BY <1>6 DEF HandlerSignals
<1>7. CASE HandlerSubmits
  BY <1>7 DEF HandlerSubmits, Submit, Goes, Fine
<1>8. CASE RxThread
  BY <1>8 DEF RxThread, RxStep, RxResets, RxAt
<1>9. CASE SuspendTests
  BY <1>9 DEF SuspendTests, MaySuspend
<1>10. CASE SuspendReads
  BY <1>10 DEF SuspendReads
<1>11. CASE SuspendKills
  BY <1>11 DEF SuspendKills, Withdraws
<1>12. CASE SuspendTimes
  BY <1>12 DEF SuspendTimes
<1>13. CASE TimerExpires
  BY <1>13 DEF TimerExpires, Rearms, AsksResume
<1>14. CASE ResumeBegins
  BY <1>14 DEF ResumeBegins
<1>15. CASE ResumeReads
  BY <1>15 DEF ResumeReads, Goes, Fine
<1>16. CASE ResumeSubmits
  BY <1>16 DEF ResumeSubmits, Submit, Goes, Fine, ResumeUnlocks
<1>17. CASE ResumeGrants
  BY <1>17 DEF ResumeGrants
<1>18. CASE ResumeWakes
  BY <1>18 DEF ResumeWakes
<1>19. CASE TxAsks
  BY <1>19 DEF TxAsks, Goes, Fine
<1>20. CASE TxChecks
  BY <1>20, ZenonT(60) DEF TxChecks, TxAt, Goes, Fine
<1>21. CASE TxTimesOut
  BY <1>21 DEF TxTimesOut, TxAt
<1>22. CASE TxWrites
  BY <1>22 DEF TxWrites, TxAt
<1>23. CASE TxWritten
  BY <1>23 DEF TxWritten, TxAt, WriteFails, Goes, Fine
<1>24. CASE TxClears
  BY <1>24 DEF TxClears
<1>25. CASE UsbDisconnect
  BY <1>25 DEF UsbDisconnect
<1>26. CASE KillRxThread
  BY <1>26 DEF KillRxThread
<1>27. CASE FreeInterface
  BY <1>27 DEF FreeInterface, ThreadEnded
<1>28. QED
  BY <1>1, <1>2, <1>3, <1>4, <1>5, <1>6, <1>7, <1>8, <1>9, <1>10, <1>11, <1>12, <1>13, <1>14,
     <1>15, <1>16, <1>17, <1>18, <1>19, <1>20, <1>21, <1>22, <1>23, <1>24, <1>25, <1>26, <1>27
     DEF UsbNext, Handler, UsbSuspend, UsbResume, TxThread, Removal

LEMMA UsbWakes ==
    ASSUME UsbIInv, UsbNext
    PROVE  SomebodyWakes'
<1> USE UsbAssumption DEF UsbAssumption, UsbIInv, UsbTypeOK, usbRxVars, SomebodyWakes, AccessInv,
StageInv, Without
<1>1. CASE ProbeEndpoint
  BY <1>1 DEF ProbeEndpoint, Submit, Goes, Fine
<1>2. CASE LoadFails
  BY <1>2 DEF LoadFails
<1>3. CASE ProbeEnds
  BY <1>3 DEF ProbeEnds, LateSubmit, Submit, Goes, Fine
<1>4. CASE UrbCompletes
  BY <1>4 DEF UrbCompletes, Goes, Fine
<1>5. CASE HandlerQueues
  BY <1>5 DEF HandlerQueues
<1>6. CASE HandlerSignals
  BY <1>6 DEF HandlerSignals
<1>7. CASE HandlerSubmits
  BY <1>7 DEF HandlerSubmits, Submit, Goes, Fine
<1>8. CASE RxThread
  BY <1>8 DEF RxThread, RxStep, RxResets, RxAt
<1>9. CASE SuspendTests
  BY <1>9 DEF SuspendTests, MaySuspend
<1>10. CASE SuspendReads
  BY <1>10 DEF SuspendReads
<1>11. CASE SuspendKills
  BY <1>11 DEF SuspendKills, Withdraws
<1>12. CASE SuspendTimes
  BY <1>12 DEF SuspendTimes
<1>13. CASE TimerExpires
  BY <1>13 DEF TimerExpires, Rearms, AsksResume
<1>14. CASE ResumeBegins
  BY <1>14 DEF ResumeBegins
<1>15. CASE ResumeReads
  BY <1>15 DEF ResumeReads, Goes, Fine
<1>16. CASE ResumeSubmits
  BY <1>16 DEF ResumeSubmits, Submit, Goes, Fine, ResumeUnlocks
<1>17. CASE ResumeGrants
  BY <1>17 DEF ResumeGrants
<1>18. CASE ResumeWakes
  BY <1>18 DEF ResumeWakes
<1>19. CASE TxAsks
  BY <1>19 DEF TxAsks, Goes, Fine
<1>20. CASE TxChecks
  BY <1>20 DEF TxChecks, TxAt, Goes, Fine
<1>21. CASE TxTimesOut
  BY <1>21 DEF TxTimesOut, TxAt
<1>22. CASE TxWrites
  BY <1>22 DEF TxWrites, TxAt
<1>23. CASE TxWritten
  BY <1>23, ZenonT(60) DEF TxWritten, TxAt, WriteFails, Goes, Fine
<1>24. CASE TxClears
  BY <1>24 DEF TxClears
<1>25. CASE UsbDisconnect
  BY <1>25 DEF UsbDisconnect
<1>26. CASE KillRxThread
  BY <1>26 DEF KillRxThread
<1>27. CASE FreeInterface
  BY <1>27 DEF FreeInterface, ThreadEnded
<1>28. QED
  BY <1>1, <1>2, <1>3, <1>4, <1>5, <1>6, <1>7, <1>8, <1>9, <1>10, <1>11, <1>12, <1>13, <1>14,
     <1>15, <1>16, <1>17, <1>18, <1>19, <1>20, <1>21, <1>22, <1>23, <1>24, <1>25, <1>26, <1>27
     DEF UsbNext, Handler, UsbSuspend, UsbResume, TxThread, Removal

LEMMA UsbInitInv == UsbInit => UsbIInv
<1> SUFFICES ASSUME UsbInit PROVE UsbIInv
  OBVIOUS
<1>1. UsbTypeOK
  <2>1. rx_cb_q \in 0 .. MaxRx
    <3>1. rx_cb_q = 0 /\ MaxRx \in Nat
      BY UsbAssumption DEF UsbAssumption, UsbInit
    <3>2. QED
      BY <3>1
  <2>0. out \in [pending : 0 .. 1, failed : BOOLEAN]
    BY DEF UsbInit
  <2>2. /\ rx_thread \in [at : {"wait", "reset", "check", "drain", "exit"}, event : BOOLEAN, done : BOOLEAN]
        /\ ps \in [access : BOOLEAN, suspended : BOOLEAN, deep : BOOLEAN]
        /\ tx \in [at : {"idle", "check", "late", "waiting", "woken", "write", "writing", "clear"},
                   intends : BOOLEAN, waits : BOOLEAN]
    BY DEF UsbInit
  <2>3. QED
    BY <2>0, <2>1, <2>2 DEF UsbInit, UsbTypeOK, PmUp
<1>2. LockInv /\ AccessInv /\ StageInv
  BY DEF UsbInit, LockInv, AccessInv, StageInv
<1>3. PendingInv /\ RoomInv
  BY DEF UsbInit, PendingInv, RoomInv
<1>4. ReceiveAlive /\ WritesAwake /\ SomebodyWakes
  BY DEF UsbInit, ReceiveAlive, WritesAwake, SomebodyWakes
<1>5. QED
  BY <1>1, <1>2, <1>3, <1>4 DEF UsbIInv

LEMMA UsbStepKeepsInv ==
    ASSUME UsbIInv, [UsbNext]_usbVars PROVE UsbIInv'
<1>1. CASE UsbNext
  <2>1. UsbTypeOK'
    BY <1>1, UsbNamesTyped, UsbFlagsTyped, UsbThreadsTyped, UsbUpsetTyped, UsbCounts, UsbPending
       DEF UsbTypeOK
  <2>2. QED
    BY <1>1, <2>1, UsbCounts, UsbPending, UsbLock, UsbAccess, UsbStage, UsbReceive, UsbWrites,
       UsbWakes DEF UsbIInv
<1>2. CASE UNCHANGED usbVars
  <2>1. UsbTypeOK'
    BY <1>2 DEF usbVars, UsbIInv, UsbTypeOK
  <2>2. QED
    BY <1>2, <2>1 DEF usbVars, UsbIInv, LockInv, AccessInv, PendingInv, StageInv, RoomInv,
       ReceiveAlive, WritesAwake, SomebodyWakes, Without
<1>3. QED
  BY <1>1, <1>2

\* An awake USB device is listened to, no write meets a suspended one, the access lock is given
\* back, a suspended device has somebody to wake it, and what is freed is at rest, but for the
\* error paths named in each part (rsi_91x_usb.c, rsi_91x_usb_ops.c).
THEOREM UsbSafe == UsbSpec => []UsbInv
<1>1. UsbIInv => UsbInv
  <2>1. UsbIInv => LockReleased
    BY DEF UsbIInv, UsbTypeOK, LockInv, LockReleased, Without
  <2>2. UsbIInv => FreedIdle
    BY DEF UsbIInv, StageInv, FreedIdle, Without
  <2>3. QED
    BY <2>1, <2>2 DEF UsbIInv, UsbInv
<1>2. QED
  BY <1>1, UsbInitInv, UsbStepKeepsInv, PTL DEF UsbSpec

-----------------------------------------------------------------------------
(* The firmware's loading *)
\* Where the loading may stand, and what that says of the chip and of the chunks written.
PlaceInv ==
    /\ at \notin Commands => call = "no"
    /\ at \in Buffers \union {"EOF", "CHECK_CRC"} => call # "no"
    /\ model.chip = "9116" => at \in {"version", "invalidate", "POLLING", "fill_RAM", "JUMP", "done", "failed"}
    /\ model.chip = "9113" => at \notin {"fill_RAM", "JUMP"} /\ ram = {}
    /\ at \in {"version", "invalidate", "AUTO_READ", "prepare", "CHECK_CRC", "BURN", "POLLING"} => index = 0
    /\ at \in Buffers => index > 0
    /\ at = "EOF" => index = Pieces
    /\ started = TRUE => \/ at \in {"LOAD", "JUMP"} /\ call = "pass"
                         \/ at \in {"done", "failed"}
    /\ started = TRUE /\ model.chip = "9113" => at # "failed"
    /\ at \in {"LOAD", "JUMP"} => call # "regout" /\ (call = "pass" => started = TRUE)

\* A command is given up after it was written only where the driver goes on with a poll, or ends.
AbandonInv ==
    /\ "abandoned" \in fwUpset => \/ call = "fail"
                                  \/ at \in {"done", "failed", "AUTO_READ_AGAIN"}
                                  \/ at \in {"POLLING", "LOAD"} /\ index = 0 /\ model.chip = "9113"
    /\ at = "CHECK_CRC" /\ "abandoned" \in fwUpset => resp = NoAnswer
    /\ at = "LOAD" /\ index > 0 => "abandoned" \notin fwUpset

\* One command is under way, between REGIN, the boot loader and REGOUT.
PipeInv ==
    "abandoned" \notin fwUpset =>
        /\ call = "regout" =>
             \/ regin = at /\ loader.doing = "nothing" /\ regout = NoAnswer
             \/ regin = "free" /\ loader.doing = at /\ regout = NoAnswer
             \/ regin = "free" /\ loader.doing = "nothing" /\ regout.of = at
        /\ call # "regout" =>
             /\ loader.doing = "nothing" /\ (regin = "free" \/ started = TRUE)
             /\ regout = NoAnswer \/ at \in {"version", "invalidate", "failed"}

\* Nothing is burnt before the first chunk; the flash is erased for an upgrade only.
IdleInv ==
    /\ index = 0 => /\ loader.busy = {} /\ loader.flash = <<>>
                    /\ loader.doing \notin Buffers /\ regin \notin Buffers
    /\ loader.doing = "BURN" \/ regin = "BURN" => at \in {"BURN", "failed"}

\* The buffer of the k-th chunk, and the chunks the boot loader has answered for.
BufferOf(k) == IF k % 2 = 0 THEN "ping" ELSE "pong"
Waits == at \in Buffers /\ (call = "regin" \/ (call = "regout" /\ regout = NoAnswer))
Taken == IF Waits THEN index - 1 ELSE index
InOrder == \A i \in 1 .. Len(loader.flash) : loader.flash[i] = i

\* At most the last chunk taken is not yet burnt, and it lies in the buffer of its turn.
FlashInv ==
    at \in Buffers \union {"fill", "EOF"} /\ call # "fail" =>
        /\ at \in Buffers => at = BufferOf(index) /\ loader.buffer[at] = index
        /\ InOrder
        /\ loader.busy = {} => Len(loader.flash) = Taken
        /\ loader.busy # {} => /\ Taken > 0 /\ loader.busy = {BufferOf(Taken)}
                               /\ loader.buffer[BufferOf(Taken)] = Taken
                               /\ Len(loader.flash) = Taken - 1

\* What was burnt is complete when the boot loader is told to start it.
LoadInv ==
    at = "LOAD" /\ index > 0 => /\ index = Pieces /\ loader.busy = {} /\ InOrder
                                /\ Len(loader.flash) = index

\* An image that is started was found good, burnt to its end, or not checked.
GoodInv ==
    /\ at = "EOF" /\ (call = "pass" \/ (call = "regout" /\ regout # NoAnswer)) => loader.good = TRUE /\ loader.busy = {}
    /\ at = "CHECK_CRC" => /\ call \in {"regin", "regout"} => resp = NoAnswer
                           /\ call = "regout" /\ regout # NoAnswer /\ regout.ok = TRUE => loader.good = TRUE
                           /\ call = "pass" => loader.good = TRUE
                           /\ call = "fail" => resp = NoAnswer \/ resp.ok = FALSE
    /\ model.chip = "9113" /\ (at \in {"POLLING", "LOAD"} \/ started = TRUE) /\ "unchecked" \notin fwUpset
         => loader.good = TRUE

\* Success is a start, the command timer runs with a command only.
DoneInv ==
    at = "done" /\ fwUpset \cap {"not_burnt", "jump"} = {} => started = TRUE /\ CHUNKS \notin ram
TimerInv == call = "no" /\ at # "version" => bl_timer = FALSE

FwIInv ==
    /\ FwTypeOK /\ PlaceInv /\ AbandonInv /\ PipeInv /\ IdleInv /\ FlashInv /\ LoadInv /\ GoodInv
    /\ AnswersMatch /\ "torn" \notin fwUpset /\ DoneInv /\ TimerInv

PiecesKnown ==
    Pieces \in Nat /\ Pieces > 0 /\ Pieces <= CHUNKS + 1 /\ CHUNKS \in Nat /\ CHUNKS > 0

LEMMA FwPieces == FwTypeOK => PiecesKnown
<1> SUFFICES ASSUME FwTypeOK PROVE PiecesKnown
  OBVIOUS
<1> USE DEF PiecesKnown
<1>1. CHUNKS \in Nat /\ CHUNKS > 0
  <2>1. CHUNKS \in Nat \ {0}
    BY FwAssumption DEF FwAssumption
  <2>2. QED
    BY <2>1
<1>2. Pieces = CHUNKS + 1 \/ Pieces = CHUNKS + 0
  BY DEF Pieces
<1>3. QED
  BY <1>1, <1>2

ModelKept ==
    model' = model /\ Pieces' = Pieces

LEMMA FwModelKept == FwTypeOK /\ FwNext => ModelKept
<1> SUFFICES ASSUME FwTypeOK, FwNext PROVE ModelKept
  OBVIOUS
<1> USE DEF ModelKept
<1>1. model' = model
  BY DEF FwNext, Driver, Loader, WaitRegin, WaitRegout, ReadVersion, InvalidateVersion, Prepare,
     FillRam,
     Fill, CrcDone, NextCommand, CommandDone, CommandRefused, LoaderTakes, LoaderAnswers,
     LoaderBurns,
     BlTimerFires, LateCallback
<1>2. QED
  BY <1>1 DEF Pieces

\* What is typed, for the steps that need no more of it.
FwKnown ==
    /\ index \in Nat /\ index <= CHUNKS + 1 /\ CHUNKS \in Nat /\ CHUNKS > 0
    /\ Pieces \in Nat /\ Pieces > 0 /\ Pieces <= CHUNKS + 1
    /\ model.chip \in {"9113", "9116"} /\ call \in {"no", "regin", "regout", "pass", "fail"}
    /\ loader.busy \subseteq Buffers /\ loader.flash \in Seq(0 .. CHUNKS + 1)
    /\ Len(loader.flash) \in Nat /\ loader.doing \in Commands \union {"nothing"}
    /\ at \in Places /\ started \in BOOLEAN

LEMMA FwFacts == FwTypeOK => FwKnown
<1> SUFFICES ASSUME FwTypeOK PROVE FwKnown
  OBVIOUS
<1> USE DEF FwKnown
<1>1. CHUNKS \in Nat /\ CHUNKS > 0 /\ Pieces \in Nat /\ Pieces > 0 /\ Pieces <= CHUNKS + 1
  BY FwPieces DEF PiecesKnown
<1>2. index \in 0 .. CHUNKS + 1 /\ call \in {"no", "regin", "regout", "pass", "fail"} /\ at \in Places
  BY DEF FwTypeOK
<1>3. model.chip \in {"9113", "9116"} /\ started \in BOOLEAN
  BY DEF FwTypeOK
<1>4. /\ loader.busy \subseteq Buffers /\ loader.flash \in Seq(0 .. CHUNKS + 1)
      /\ loader.doing \in Commands \union {"nothing"}
  BY DEF FwTypeOK
<1>5. Len(loader.flash) \in Nat
  BY <1>4
<1>6. QED
  BY <1>1, <1>2, <1>3, <1>4, <1>5

LEMMA NoAnswerTyped == NoAnswer \in Answers /\ NoAnswer.of = "nothing" /\ NoAnswer.ok = TRUE
  BY DEF NoAnswer, Answers

\* What the boot loader's answer changes.
AnswerChanges ==
    /\ loader.doing \in Commands
    /\ loader.doing \in Buffers => OtherBuffer(loader.doing) \notin loader.busy
    /\ loader.doing = "EOF" => loader.busy = {}
    /\ regout' \in Answers /\ regout'.of = loader.doing /\ regout' # NoAnswer
    /\ loader.doing = "CHECK_CRC" /\ regout'.ok = TRUE => loader.good = TRUE
    /\ loader'.doing = "nothing" /\ loader'.buffer = loader.buffer
    /\ loader'.busy = IF loader.doing \in Buffers THEN loader.busy \union {loader.doing} ELSE loader.busy
    /\ loader'.flash = IF loader.doing = "BURN" THEN <<>> ELSE loader.flash
    /\ loader'.good = TRUE <=> loader.doing # "BURN" /\ (loader.good = TRUE \/ loader.doing = "EOF")
    /\ UNCHANGED <<at, call, resp, index, regin, clockVars, started, ram>>
    /\ \/ UNCHANGED fwUpset
       \/ "refused" \in FwTroubles /\ fwUpset' = fwUpset \union {"refused"}

LEMMA AnswerEffect == FwTypeOK /\ LoaderAnswers => AnswerChanges
<1> SUFFICES ASSUME FwTypeOK, LoaderAnswers PROVE AnswerChanges
  OBVIOUS
<1> USE DEF AnswerChanges
<1>1. /\ loader.doing \in Commands
      /\ loader.doing \in Buffers => OtherBuffer(loader.doing) \notin loader.busy
      /\ loader.doing = "EOF" => loader.busy = {}
      /\ UNCHANGED <<at, call, resp, index, regin, clockVars, started, ram>>
      /\ \/ UNCHANGED fwUpset
         \/ "refused" \in FwTroubles /\ fwUpset' = fwUpset \union {"refused"}
  BY DEF LoaderAnswers, AllWell, Wrong
<1>2. \E ok \in BOOLEAN : /\ regout' = [of |-> loader.doing, ok |-> ok]
                          /\ ok => (loader.doing = "CHECK_CRC" => loader.good)
  <2>1. CASE regout' = [of |-> loader.doing, ok |-> loader.doing = "CHECK_CRC" => loader.good]
    BY <2>1
  <2>2. CASE regout' = [of |-> loader.doing, ok |-> FALSE]
    BY <2>2
  <2>3. QED
    BY <2>1, <2>2 DEF LoaderAnswers
<1>3. /\ regout' \in Answers /\ regout'.of = loader.doing
      /\ loader.doing = "CHECK_CRC" /\ regout'.ok = TRUE => loader.good = TRUE
  BY <1>1, <1>2 DEF Answers
<1>4. regout' # NoAnswer
  BY <1>1, <1>3, NoAnswerTyped DEF Commands, Buffers
<1>5. loader' = [loader EXCEPT
                    !.doing = "nothing",
                    !.busy = IF loader.doing \in Buffers THEN @ \union {loader.doing} ELSE @,
                    !.flash = IF loader.doing = "BURN" THEN <<>> ELSE @,
                    !.good = IF loader.doing = "BURN" THEN FALSE ELSE @ \/ loader.doing = "EOF"]
  BY DEF LoaderAnswers
<1>6. loader \in [doing : Commands \union {"nothing"}, buffer : [Buffers -> 0 .. CHUNKS + 1],
                  busy : SUBSET Buffers, flash : Seq(0 .. CHUNKS + 1), good : BOOLEAN]
  BY DEF FwTypeOK
<1>7. /\ loader'.doing = "nothing" /\ loader'.buffer = loader.buffer
      /\ loader'.busy = IF loader.doing \in Buffers THEN loader.busy \union {loader.doing} ELSE loader.busy
      /\ loader'.flash = IF loader.doing = "BURN" THEN <<>> ELSE loader.flash
  BY <1>5, <1>6
<1>8. loader'.good = TRUE <=> loader.doing # "BURN" /\ (loader.good = TRUE \/ loader.doing = "EOF")
  <2>1. loader'.good = IF loader.doing = "BURN" THEN FALSE ELSE loader.good \/ loader.doing = "EOF"
    BY <1>5, <1>6
  <2>2. CASE loader.doing = "BURN"
    BY <2>1, <2>2
  <2>3. CASE loader.doing # "BURN"
    BY <2>1, <2>3
  <2>4. QED
    BY <2>2, <2>3
<1>9. QED
  BY <1>1, <1>3, <1>4, <1>7, <1>8

\* What burning a buffer changes.
BurnChanges ==
    \E b \in loader.busy :
      /\ loader'.flash = Append(loader.flash, loader.buffer[b]) /\ loader'.busy = loader.busy \ {b}
      /\ loader'.doing = loader.doing /\ loader'.buffer = loader.buffer
      /\ loader'.good = loader.good
      /\ loader.buffer[b] \in 0 .. CHUNKS + 1
      /\ UNCHANGED <<at, call, resp, index, regin, regout, clockVars, started, ram, fwUpset>>

LEMMA BurnEffect == FwTypeOK /\ LoaderBurns => BurnChanges
<1> SUFFICES ASSUME FwTypeOK, LoaderBurns PROVE BurnChanges
  OBVIOUS
<1> USE DEF BurnChanges
<1>1. PICK b \in loader.busy :
         loader' = [loader EXCEPT !.flash = Append(@, loader.buffer[b]), !.busy = @ \ {b}]
  BY DEF LoaderBurns
<1>2. loader \in [doing : Commands \union {"nothing"}, buffer : [Buffers -> 0 .. CHUNKS + 1],
                  busy : SUBSET Buffers, flash : Seq(0 .. CHUNKS + 1), good : BOOLEAN]
  BY DEF FwTypeOK
<1>3. loader.buffer[b] \in 0 .. CHUNKS + 1
  BY <1>2
<1>4. /\ loader'.flash = Append(loader.flash, loader.buffer[b]) /\ loader'.busy = loader.busy \ {b}
      /\ loader'.doing = loader.doing /\ loader'.buffer = loader.buffer
      /\ loader'.good = loader.good
  BY <1>1, <1>2
<1>5. UNCHANGED <<at, call, resp, index, regin, regout, clockVars, started, ram, fwUpset>>
  BY DEF LoaderBurns
<1>6. QED
  BY <1>3, <1>4, <1>5

\* What the driver changes when it fills a buffer, ends the upgrade, or cannot read the file.
FillChanges ==
    /\ at = "fill" /\ Turn \in Buffers
    /\ UNCHANGED <<resp, regin, regout, started, ram, late>>
    /\ loader'.doing = loader.doing /\ loader'.busy = loader.busy /\ loader'.flash = loader.flash
    /\ loader'.good = loader.good
    /\ \/ /\ index < Pieces /\ index' = index + 1 /\ at' = Turn /\ call' = "regin"
          /\ loader'.buffer = [loader.buffer EXCEPT ![Turn] = index + 1]
          /\ loader'.buffer[Turn] = index + 1
          /\ fwUpset' = fwUpset \union IF Turn \in loader.busy THEN {"torn"} ELSE {}
       \/ /\ index = Pieces /\ at' = "EOF" /\ call' = "regin"
          /\ UNCHANGED <<loader, index, fwUpset>>
       \/ /\ at' = "AUTO_READ_AGAIN" /\ call' = "no" /\ bl_timer' = FALSE
          /\ "refused" \in FwTroubles /\ fwUpset' = fwUpset \union {"refused"}
          /\ UNCHANGED <<loader, index>>

LEMMA FillEffect == FwTypeOK /\ Fill => FillChanges
<1> SUFFICES ASSUME FwTypeOK, Fill PROVE FillChanges
  OBVIOUS
<1> USE DEF FillChanges
<1>1. at = "fill" /\ UNCHANGED <<resp, regin, regout, started, ram, late>>
  BY DEF Fill, Calls, Follows
<1>2. Turn \in Buffers
  BY DEF Turn, Buffers
<1>3. loader \in [doing : Commands \union {"nothing"}, buffer : [Buffers -> 0 .. CHUNKS + 1],
                  busy : SUBSET Buffers, flash : Seq(0 .. CHUNKS + 1), good : BOOLEAN]
  BY DEF FwTypeOK
<1>4. CASE /\ index < Pieces
           /\ loader' = [loader EXCEPT !.buffer[Turn] = index + 1]
           /\ Noted(IF Turn \in loader.busy THEN {"torn"} ELSE {})
           /\ index' = index + 1
           /\ Calls(Turn)
  <2>1. loader' = [loader EXCEPT !.buffer = [loader.buffer EXCEPT ![Turn] = index + 1]]
    BY <1>4
  <2>2. /\ loader'.doing = loader.doing /\ loader'.busy = loader.busy /\ loader'.flash = loader.flash
        /\ loader'.good = loader.good /\ loader'.buffer = [loader.buffer EXCEPT ![Turn] = index + 1]
    BY <1>3, <2>1
  <2>3. loader.buffer \in [Buffers -> 0 .. CHUNKS + 1]
    BY <1>3
  <2>4. loader'.buffer[Turn] = index + 1
    BY <1>2, <2>2, <2>3
  <2>5. /\ at' = Turn /\ call' = "regin"
        /\ fwUpset' = fwUpset \union IF Turn \in loader.busy THEN {"torn"} ELSE {}
    BY <1>4 DEF Calls, Noted
  <2>6. QED
    BY <1>1, <1>2, <1>4, <2>2, <2>4, <2>5
<1>5. CASE index = Pieces /\ Calls("EOF") /\ AllWell /\ UNCHANGED <<loader, index>>
  BY <1>1, <1>2, <1>5 DEF Calls, AllWell
<1>6. CASE Follows("AUTO_READ_AGAIN") /\ Wrong("refused") /\ UNCHANGED <<loader, index>>
  BY <1>1, <1>2, <1>6 DEF Follows, StopBlTimer, Wrong
<1>7. QED
  BY <1>4, <1>5, <1>6 DEF Fill

\* What taking a command changes.
TakeChanges ==
    /\ regin # "free" /\ loader.doing = "nothing" /\ started = FALSE
    /\ loader'.doing = regin /\ regin' = "free"
    /\ loader'.busy = loader.busy /\ loader'.flash = loader.flash /\ loader'.buffer = loader.buffer
    /\ loader'.good = loader.good
    /\ UNCHANGED <<at, call, resp, index, regout, clockVars, started, ram, fwUpset>>

LEMMA TakeEffect == FwTypeOK /\ LoaderTakes => TakeChanges
<1> SUFFICES ASSUME FwTypeOK, LoaderTakes PROVE TakeChanges
  OBVIOUS
<1> USE DEF TakeChanges
<1>1. loader' = [loader EXCEPT !.doing = regin]
  BY DEF LoaderTakes
<1>2. loader \in [doing : Commands \union {"nothing"}, buffer : [Buffers -> 0 .. CHUNKS + 1],
                  busy : SUBSET Buffers, flash : Seq(0 .. CHUNKS + 1), good : BOOLEAN]
  BY DEF FwTypeOK
<1>3. /\ loader'.doing = regin /\ loader'.busy = loader.busy /\ loader'.flash = loader.flash
      /\ loader'.buffer = loader.buffer /\ loader'.good = loader.good
  BY <1>1, <1>2
<1>4. started = FALSE
  BY DEF LoaderTakes, FwTypeOK
<1>5. QED
  BY <1>3, <1>4 DEF LoaderTakes

\* What the driver makes of an answer, or of none.
RegoutChanges ==
    /\ call = "regout" /\ UNCHANGED <<at, index, regin, clockVars, loader, started, ram>>
    /\ \/ call' = "fail" /\ fwUpset' = fwUpset \union {"abandoned"} /\ UNCHANGED <<resp, regout>>
       \/ /\ regout # NoAnswer /\ resp' = regout /\ regout' = NoAnswer
          /\ fwUpset' = fwUpset \union IF regout.of # at THEN {"mixed"} ELSE {}
          /\ \/ call' = "pass" /\ regout.ok = TRUE /\ Expected(regout.of) = Expected(at)
             \/ call' = "fail" /\ (regout.ok = FALSE \/ Expected(regout.of) # Expected(at))

LEMMA RegoutEffect == FwTypeOK /\ WaitRegout => RegoutChanges
<1> SUFFICES ASSUME FwTypeOK, WaitRegout PROVE RegoutChanges
  OBVIOUS
<1> USE DEF RegoutChanges
<1>1. call = "regout" /\ UNCHANGED <<at, index, regin, clockVars, loader, started, ram>>
  BY DEF WaitRegout
<1>2. CASE expired /\ call' = "fail" /\ Noted({"abandoned"}) /\ UNCHANGED <<resp, regout>>
  BY <1>1, <1>2 DEF Noted
<1>3. CASE /\ ~expired /\ regout # NoAnswer
           /\ resp' = regout /\ regout' = Invalidated
           /\ call' = IF regout.ok /\ Expected(regout.of) = Expected(at) THEN "pass" ELSE "fail"
           /\ Noted(IF regout.of # at THEN {"mixed"} ELSE {})
  <2>1. /\ regout # NoAnswer /\ resp' = regout /\ regout' = NoAnswer
        /\ fwUpset' = fwUpset \union IF regout.of # at THEN {"mixed"} ELSE {}
    BY <1>3 DEF Noted, Invalidated
  <2>0. regout.ok = TRUE \/ regout.ok = FALSE
    BY DEF FwTypeOK, Answers
  <2>2. CASE regout.ok = TRUE /\ Expected(regout.of) = Expected(at)
    BY <1>1, <1>3, <2>1, <2>2
  <2>3. CASE regout.ok = FALSE \/ Expected(regout.of) # Expected(at)
    BY <1>1, <1>3, <2>1, <2>3
  <2>4. QED
    BY <2>0, <2>2, <2>3
<1>4. QED
  BY <1>2, <1>3 DEF WaitRegout

\* What handing a command over changes.
ReginChanges ==
    /\ call = "regin" /\ UNCHANGED <<at, resp, index, regout, clockVars, loader, ram, fwUpset>>
    /\ \/ call' = "fail" /\ UNCHANGED <<regin, started>>
       \/ /\ regin = "free" /\ regin' = at /\ at \in {"LOAD", "JUMP"}
          /\ call' = "pass" /\ started' = TRUE
       \/ /\ regin = "free" /\ regin' = at /\ at \notin {"LOAD", "JUMP"}
          /\ call' = "regout" /\ started' = started

LEMMA ReginEffect == FwTypeOK /\ WaitRegin => ReginChanges
<1> SUFFICES ASSUME FwTypeOK, WaitRegin PROVE ReginChanges
  OBVIOUS
<1> USE DEF ReginChanges
<1>1. call = "regin" /\ UNCHANGED <<at, resp, index, regout, clockVars, loader, ram, fwUpset>>
  BY DEF WaitRegin, AllWell
<1>2. CASE expired /\ call' = "fail" /\ AllWell /\ UNCHANGED <<regin, started>>
  BY <1>1, <1>2
<1>3. CASE /\ ~expired /\ regin = "free"
           /\ regin' = at
           /\ call' = IF Answered(at) THEN "regout" ELSE "pass"
           /\ started' = (started \/ ~Answered(at)) /\ AllWell
  <2>1. CASE at \in {"LOAD", "JUMP"}
    <3>1. call' = "pass"
      BY <1>3, <2>1 DEF Answered
    <3>2. started' = TRUE
      BY <1>3, <2>1 DEF Answered
    <3>3. QED
      BY <1>1, <1>3, <2>1, <3>1, <3>2
  <2>2. CASE at \notin {"LOAD", "JUMP"}
    <3>1. call' = "regout"
      BY <1>3, <2>2 DEF Answered
    <3>2. started' = started
      <4>1. started \in BOOLEAN
        BY DEF FwTypeOK
      <4>2. started' <=> started
        BY <1>3, <2>2 DEF Answered
      <4>3. started' \in BOOLEAN
        BY <1>3
      <4>4. QED
        BY <4>1, <4>2, <4>3
    <3>3. QED
      BY <1>1, <1>3, <2>2, <3>1, <3>2
  <2>3. QED
    BY <2>1, <2>2
<1>4. QED
  BY <1>2, <1>3 DEF WaitRegin

\* What loading the RAM of a 9116 changes.
RamChanges ==
    /\ at = "fill_RAM" /\ UNCHANGED <<resp, regin, regout, loader, late>>
    /\ \/ /\ index < CHUNKS /\ index' = index + 1 /\ UNCHANGED <<at, call, bl_timer, started>>
          /\ \/ UNCHANGED <<ram, fwUpset>>
             \/ /\ ram' = ram \union {index'} /\ "refused" \in FwTroubles
                /\ fwUpset' = fwUpset \union {"refused"}
       \/ /\ index = CHUNKS /\ at' = "JUMP" /\ call' = "regin"
          /\ UNCHANGED <<index, ram, started, fwUpset>>
       \/ /\ index = CHUNKS /\ UNCHANGED <<index, ram, call, bl_timer, fwUpset>>
          /\ \/ at' = "done" /\ started' = TRUE /\ CHUNKS \notin ram
             \/ at' = "failed" /\ started' = FALSE

LEMMA RamEffect == FwTypeOK /\ FillRam => RamChanges
<1> SUFFICES ASSUME FwTypeOK, FillRam PROVE RamChanges
  OBVIOUS
<1> USE DEF RamChanges
<1>1. at = "fill_RAM" /\ UNCHANGED <<resp, regin, regout, loader, late>>
  BY DEF FillRam, Calls, clockVars
<1>2. CASE /\ index < CHUNKS
           /\ index' = index + 1
           /\ \/ AllWell /\ UNCHANGED ram
              \/ Wrong("refused") /\ ram' = ram \union {index'}
           /\ UNCHANGED <<at, call, clockVars, started>>
  BY <1>1, <1>2 DEF AllWell, Wrong, clockVars
<1>3. CASE /\ index = CHUNKS /\ model.usb /\ Calls("JUMP")
           /\ AllWell /\ UNCHANGED <<index, ram, started>>
  BY <1>1, <1>3 DEF AllWell, Calls
<1>4. CASE /\ index = CHUNKS /\ ~model.usb
           /\ at' = RamStatus /\ started' = (at' = "done")
           /\ AllWell /\ UNCHANGED <<index, ram, call, clockVars>>
  <2>1. UNCHANGED <<index, ram, call, bl_timer, fwUpset>>
    BY <1>4 DEF AllWell, clockVars
  <2>2. CASE CHUNKS \in ram
    <3>1. at' = "failed"
      BY <1>4, <2>2 DEF RamStatus
    <3>2. started' = FALSE
      BY <1>4, <3>1
    <3>3. QED
      BY <1>1, <1>4, <2>1, <3>1, <3>2
  <2>3. CASE CHUNKS \notin ram
    <3>1. at' = "done"
      BY <1>4, <2>3 DEF RamStatus
    <3>2. started' = TRUE
      BY <1>4, <3>1
    <3>3. QED
      BY <1>1, <1>4, <2>1, <2>3, <3>1, <3>2
  <2>4. QED
    BY <2>2, <2>3
<1>5. QED
  BY <1>2, <1>3, <1>4 DEF FillRam

\* Where a command that ended leads, by the command and its result.
DoneChanges ==
    /\ call' = "no" /\ bl_timer' = FALSE
    /\ UNCHANGED <<resp, index, regin, regout, loader, started, ram, late>>
    /\ \/ /\ call = "pass" /\ UNCHANGED fwUpset
          /\ \/ at = "AUTO_READ" /\ at' = "prepare"
             \/ at = "POLLING" /\ model.chip = "9113" /\ at' = "LOAD"
             \/ at = "POLLING" /\ model.chip # "9113" /\ at' = "fill_RAM"
             \/ at \in Buffers \union {"BURN"} /\ at' = "fill"
             \/ at = "EOF" /\ at' = "LOAD"
             \/ at = "LOAD" /\ at' = "done"
       \/ /\ call = "pass" /\ at = "AUTO_READ_AGAIN" /\ at' = "done"
          /\ fwUpset' = fwUpset \union {"not_burnt"}
       \/ /\ at = "JUMP" /\ call \in {"pass", "fail"}
          /\ fwUpset' = fwUpset \union IF call = "fail" THEN {"jump"} ELSE {}
          /\ \/ at' = "done" /\ CHUNKS \notin ram
             \/ at' = "failed"
       \/ /\ call = "fail" /\ UNCHANGED fwUpset
          /\ \/ at \in Buffers \union {"EOF"} /\ at' = "AUTO_READ_AGAIN"
             \/ at \in {"AUTO_READ", "POLLING", "BURN", "LOAD", "AUTO_READ_AGAIN"} /\ at' = "failed"

LEMMA DoneEffect == FwTypeOK /\ CommandDone => DoneChanges
<1> SUFFICES ASSUME FwTypeOK, CommandDone PROVE DoneChanges
  OBVIOUS
<1> USE DEF DoneChanges
<1>1. /\ call' = "no" /\ bl_timer' = FALSE
      /\ UNCHANGED <<resp, index, regin, regout, loader, started, ram, late>>
      /\ call \in {"pass", "fail"}
      /\ at' = IF call = "pass" \/ at = "JUMP" THEN AfterPass(at) ELSE AfterFail(at)
  BY DEF CommandDone, Follows, StopBlTimer
<1>2. at \in Buffers \union {"AUTO_READ", "POLLING", "BURN", "LOAD", "EOF", "AUTO_READ_AGAIN", "JUMP"}
  BY DEF CommandDone, Commands, Buffers
<1>3. fwUpset' = fwUpset \union (CASE at = "AUTO_READ_AGAIN" /\ call = "pass" -> {"not_burnt"}
                                   [] at = "JUMP" /\ call = "fail" -> {"jump"}
                                   [] OTHER -> {})
  BY DEF CommandDone, Noted
<1>4. CASE at = "JUMP"
  <2>1. at' = RamStatus
    BY <1>1, <1>4 DEF AfterPass, Buffers
  <2>2. \/ at' = "done" /\ CHUNKS \notin ram
        \/ at' = "failed"
    BY <2>1 DEF RamStatus
  <2>3. fwUpset' = fwUpset \union IF call = "fail" THEN {"jump"} ELSE {}
    BY <1>1, <1>3, <1>4
  <2>4. QED
    BY <1>1, <1>4, <2>2, <2>3
<1>5. CASE call = "fail" /\ at # "JUMP"
  <2>1. fwUpset' = fwUpset
    BY <1>3, <1>5
  <2>2. at' = AfterFail(at)
    BY <1>1, <1>5
  <2>3. QED
    BY <1>1, <1>2, <1>5, <2>1, <2>2 DEF AfterFail, Buffers
<1>6. CASE call = "pass" /\ at # "JUMP"
  <2>1. at' = AfterPass(at)
    BY <1>1, <1>6
  <2>2. CASE at = "AUTO_READ_AGAIN"
    <3>1. fwUpset' = fwUpset \union {"not_burnt"}
      BY <1>3, <1>6, <2>2
    <3>2. at' = "done"
      BY <2>1, <2>2 DEF AfterPass, Buffers
    <3>3. QED
      BY <1>1, <1>6, <2>2, <3>1, <3>2
  <2>3. CASE at # "AUTO_READ_AGAIN"
    <3>1. fwUpset' = fwUpset
      BY <1>3, <1>6, <2>3
    <3>2. QED
      BY <1>1, <1>2, <1>6, <2>1, <2>3, <3>1 DEF AfterPass, Buffers
  <2>4. QED
    BY <2>2, <2>3
<1>7. QED
  BY <1>1, <1>4, <1>5, <1>6

\* A timer that expires, or is late.
ExpiryChanges ==
    /\ bl_timer' = FALSE /\ UNCHANGED <<at, call, resp, index, regin, regout, loader, started, ram>>
    /\ \/ UNCHANGED fwUpset
       \/ "late_callback" \in FwTroubles /\ fwUpset' = fwUpset \union {"late_callback"}

LEMMA ExpiryEffect == FwTypeOK /\ BlTimerFires => ExpiryChanges
  BY DEF BlTimerFires, AllWell, Wrong, ExpiryChanges

LEMMA FwNamesTyped ==
    ASSUME FwIInv, FwNext
    PROVE  at' \in Places /\ call' \in {"no", "regin", "regout", "pass", "fail"}
           /\ regin' \in Commands \union {"free"} /\ late' \in {"no", "flag", "delete"}
<1>0. ModelKept /\ FwKnown
  BY FwModelKept, FwFacts DEF FwIInv
<1> USE <1>0, NoAnswerTyped DEF FwIInv, ModelKept, FwKnown, FwTypeOK, clockVars, PlaceInv,
Places, Commands, Buffers
<1>1. CASE WaitRegin
  BY <1>1, ReginEffect DEF ReginChanges, WaitRegin
<1>2. CASE WaitRegout
  BY <1>2, RegoutEffect DEF RegoutChanges, WaitRegout
<1>3. CASE ReadVersion
  BY <1>3 DEF ReadVersion, StopBlTimer
<1>4. CASE InvalidateVersion
  BY <1>4 DEF InvalidateVersion, Invalidated, Calls, StartBlTimer
<1>5. CASE Prepare
  BY <1>5 DEF Prepare, Calls, StartBlTimer, Fails, Wrong, AllWell
<1>6. CASE FillRam
  BY <1>6, RamEffect DEF RamChanges, FillRam
<1>7. CASE Fill
  BY <1>7, FillEffect DEF FillChanges
<1>8. CASE CrcDone
  BY <1>8 DEF CrcDone, Follows, StopBlTimer, AllWell, Noted, CrcFailed
<1>9. CASE NextCommand
  BY <1>9 DEF NextCommand, Calls, StartBlTimer
<1>10. CASE CommandDone
  BY <1>10, DoneEffect DEF DoneChanges, CommandDone
<1>11. CASE CommandRefused
  BY <1>11 DEF CommandRefused, Noted
<1>12. CASE LoaderTakes
  BY <1>12, TakeEffect DEF TakeChanges, LoaderTakes
<1>13. CASE LoaderAnswers
  BY <1>13, AnswerEffect DEF AnswerChanges
<1>14. CASE LoaderBurns
  BY <1>14, BurnEffect, ZenonT(60) DEF BurnChanges, LoaderBurns
<1>15. CASE BlTimerFires
  BY <1>15, ExpiryEffect DEF ExpiryChanges, BlTimerFires
<1>16. CASE LateCallback
  BY <1>16 DEF LateCallback
<1>17. QED
  BY <1>1, <1>2, <1>3, <1>4, <1>5, <1>6, <1>7, <1>8, <1>9, <1>10, <1>11, <1>12, <1>13, <1>14,
     <1>15, <1>16 DEF FwNext, Driver, Loader

LEMMA FwFlagsTyped ==
    ASSUME FwIInv, FwNext
    PROVE  bl_timer' \in BOOLEAN /\ expired' \in BOOLEAN /\ started' \in BOOLEAN
<1>0. ModelKept /\ FwKnown
  BY FwModelKept, FwFacts DEF FwIInv
<1> USE <1>0, NoAnswerTyped DEF FwIInv, ModelKept, FwKnown, FwTypeOK, clockVars
<1>1. CASE WaitRegin
  BY <1>1 DEF WaitRegin, Answered, AllWell
<1>2. CASE WaitRegout
  BY <1>2 DEF WaitRegout, Noted, Invalidated
<1>3. CASE ReadVersion
  BY <1>3 DEF ReadVersion, StopBlTimer
<1>4. CASE InvalidateVersion
  BY <1>4 DEF InvalidateVersion, Invalidated, Calls, StartBlTimer
<1>5. CASE Prepare
  BY <1>5 DEF Prepare, Calls, StartBlTimer, Fails, Wrong, AllWell
<1>6. CASE FillRam
  BY <1>6 DEF FillRam, Calls, StartBlTimer, Wrong, AllWell, RamStatus
<1>7. CASE Fill
  BY <1>7 DEF Fill, Calls, StartBlTimer, Follows, StopBlTimer, Noted, Wrong, AllWell
<1>8. CASE CrcDone
  BY <1>8 DEF CrcDone, Follows, StopBlTimer, AllWell, Noted, CrcFailed
<1>9. CASE NextCommand
  BY <1>9 DEF NextCommand, Calls, StartBlTimer
<1>10. CASE CommandDone
  BY <1>10 DEF CommandDone, Follows, StopBlTimer, AfterPass, AfterFail, Noted, RamStatus
<1>11. CASE CommandRefused
  BY <1>11 DEF CommandRefused, Noted
<1>12. CASE LoaderTakes
  BY <1>12 DEF LoaderTakes
<1>13. CASE LoaderAnswers
  BY <1>13 DEF LoaderAnswers, AllWell, Wrong
<1>14. CASE LoaderBurns
  BY <1>14 DEF LoaderBurns
<1>15. CASE BlTimerFires
  BY <1>15 DEF BlTimerFires, AllWell, Wrong
<1>16. CASE LateCallback
  BY <1>16 DEF LateCallback
<1>17. QED
  BY <1>1, <1>2, <1>3, <1>4, <1>5, <1>6, <1>7, <1>8, <1>9, <1>10, <1>11, <1>12, <1>13, <1>14,
     <1>15, <1>16 DEF FwNext, Driver, Loader

LEMMA FwAnswersTyped ==
    ASSUME FwIInv, FwNext
    PROVE  resp' \in Answers /\ regout' \in Answers
<1> USE NoAnswerTyped DEF FwIInv, FwTypeOK, clockVars
<1>1. CASE WaitRegin
  BY <1>1, ReginEffect DEF ReginChanges, WaitRegin
<1>2. CASE WaitRegout
  BY <1>2, RegoutEffect DEF RegoutChanges, WaitRegout
<1>3. CASE ReadVersion
  BY <1>3 DEF ReadVersion, StopBlTimer
<1>4. CASE InvalidateVersion
  BY <1>4 DEF InvalidateVersion, Invalidated, Calls, StartBlTimer
<1>5. CASE Prepare
  BY <1>5 DEF Prepare, Calls, StartBlTimer, Fails, Wrong, AllWell
<1>6. CASE FillRam
  BY <1>6, RamEffect DEF RamChanges, FillRam
<1>7. CASE Fill
  BY <1>7, FillEffect DEF FillChanges
<1>8. CASE CrcDone
  BY <1>8 DEF CrcDone, Follows, StopBlTimer, AllWell, Noted, CrcFailed
<1>9. CASE NextCommand
  BY <1>9 DEF NextCommand, Calls, StartBlTimer
<1>10. CASE CommandDone
  BY <1>10, DoneEffect DEF DoneChanges, CommandDone
<1>11. CASE CommandRefused
  BY <1>11 DEF CommandRefused, Noted
<1>12. CASE LoaderTakes
  BY <1>12, TakeEffect DEF TakeChanges, LoaderTakes
<1>13. CASE LoaderAnswers
  BY <1>13, AnswerEffect DEF AnswerChanges
<1>14. CASE LoaderBurns
  BY <1>14, BurnEffect DEF BurnChanges, LoaderBurns
<1>15. CASE BlTimerFires
  BY <1>15, ExpiryEffect DEF ExpiryChanges, BlTimerFires
<1>16. CASE LateCallback
  BY <1>16 DEF LateCallback
<1>17. QED
  BY <1>1, <1>2, <1>3, <1>4, <1>5, <1>6, <1>7, <1>8, <1>9, <1>10, <1>11, <1>12, <1>13, <1>14,
     <1>15, <1>16 DEF FwNext, Driver, Loader

LEMMA FwIndexTyped ==
    ASSUME FwIInv, FwNext
    PROVE  index' \in 0 .. CHUNKS + 1 /\ ram' \subseteq 1 .. CHUNKS
<1> USE  DEF FwIInv, FwTypeOK, clockVars
<1>1. CASE WaitRegin
  BY <1>1, ReginEffect DEF ReginChanges, WaitRegin
<1>2. CASE WaitRegout
  BY <1>2, RegoutEffect DEF RegoutChanges, WaitRegout
<1>3. CASE ReadVersion
  BY <1>3 DEF ReadVersion, StopBlTimer
<1>4. CASE InvalidateVersion
  BY <1>4 DEF InvalidateVersion, Invalidated, Calls, StartBlTimer
<1>5. CASE Prepare
  BY <1>5 DEF Prepare, Calls, StartBlTimer, Fails, Wrong, AllWell
<1>6. CASE FillRam
  <2>1. index \in 0 .. CHUNKS + 1 /\ ram \subseteq 1 .. CHUNKS /\ CHUNKS \in Nat
    BY FwFacts DEF FwKnown
  <2>2. \/ index < CHUNKS /\ index' = index + 1 /\ (ram' = ram \/ ram' = ram \union {index'})
        \/ UNCHANGED <<index, ram>>
    BY <1>6, RamEffect DEF RamChanges
  <2>3. CASE index < CHUNKS /\ index' = index + 1
    <3>1. index' \in 0 .. CHUNKS + 1 /\ index' \in 1 .. CHUNKS
      BY <2>1, <2>3
    <3>2. QED
      BY <2>1, <2>2, <3>1
  <2>4. CASE ~(index < CHUNKS /\ index' = index + 1)
    BY <2>1, <2>2, <2>4
  <2>5. QED
    BY <2>3, <2>4
<1>7. CASE Fill
  <2>1. index \in 0 .. CHUNKS + 1 /\ CHUNKS \in Nat /\ Pieces \in Nat /\ Pieces <= CHUNKS + 1
    BY FwPieces DEF PiecesKnown
  <2>2. ram' = ram /\ ((index < Pieces /\ index' = index + 1) \/ UNCHANGED index)
    BY <1>7, FillEffect DEF FillChanges
  <2>3. index' \in 0 .. CHUNKS + 1
    BY <2>1, <2>2
  <2>4. QED
    BY <2>2, <2>3
<1>8. CASE CrcDone
  BY <1>8 DEF CrcDone, Follows, StopBlTimer, AllWell, Noted, CrcFailed
<1>9. CASE NextCommand
  BY <1>9 DEF NextCommand, Calls, StartBlTimer
<1>10. CASE CommandDone
  BY <1>10, DoneEffect DEF DoneChanges, CommandDone
<1>11. CASE CommandRefused
  BY <1>11 DEF CommandRefused, Noted
<1>12. CASE LoaderTakes
  BY <1>12, TakeEffect DEF TakeChanges, LoaderTakes
<1>13. CASE LoaderAnswers
  BY <1>13, AnswerEffect DEF AnswerChanges
<1>14. CASE LoaderBurns
  BY <1>14, BurnEffect DEF BurnChanges, LoaderBurns
<1>15. CASE BlTimerFires
  BY <1>15, ExpiryEffect DEF ExpiryChanges, BlTimerFires
<1>16. CASE LateCallback
  BY <1>16 DEF LateCallback
<1>17. QED
  BY <1>1, <1>2, <1>3, <1>4, <1>5, <1>6, <1>7, <1>8, <1>9, <1>10, <1>11, <1>12, <1>13, <1>14,
     <1>15, <1>16 DEF FwNext, Driver, Loader

LEMMA FwLoaderTyped ==
    ASSUME FwIInv, FwNext
    PROVE  loader' \in [doing : Commands \union {"nothing"}, buffer : [Buffers -> 0 .. CHUNKS + 1],
                   busy : SUBSET Buffers, flash : Seq(0 .. CHUNKS + 1), good : BOOLEAN]
<1>0. ModelKept /\ FwKnown
  BY FwModelKept, FwFacts DEF FwIInv
<1> USE <1>0, NoAnswerTyped DEF FwIInv, ModelKept, FwKnown, FwTypeOK, clockVars
<1>1. CASE WaitRegin
  BY <1>1, ReginEffect DEF ReginChanges, WaitRegin
<1>2. CASE WaitRegout
  BY <1>2, RegoutEffect DEF RegoutChanges, WaitRegout
<1>3. CASE ReadVersion
  BY <1>3 DEF ReadVersion, StopBlTimer
<1>4. CASE InvalidateVersion
  BY <1>4 DEF InvalidateVersion, Invalidated, Calls, StartBlTimer
<1>5. CASE Prepare
  BY <1>5 DEF Prepare, Calls, StartBlTimer, Fails, Wrong, AllWell
<1>6. CASE FillRam
  BY <1>6, RamEffect DEF RamChanges, FillRam
<1>7. CASE Fill
  <2> DEFINE buf == [loader.buffer EXCEPT ![Turn] = index + 1]
  <2>1. loader' = loader \/ (index < Pieces /\ loader' = [loader EXCEPT !.buffer = buf])
    BY <1>7 DEF Fill
  <2>2. CASE index < Pieces
    <3>1. index + 1 \in 0 .. CHUNKS + 1
      BY <2>2, FwPieces DEF PiecesKnown
    <3>2. buf \in [Buffers -> 0 .. CHUNKS + 1]
      BY <3>1
    <3>3. QED
      <4> HIDE DEF buf
      <4> QED
        BY <2>1, <3>2
  <2>3. CASE ~(index < Pieces)
    BY <2>1, <2>3
  <2>4. QED
    BY <2>2, <2>3
<1>8. CASE CrcDone
  BY <1>8 DEF CrcDone, Follows, StopBlTimer, AllWell, Noted, CrcFailed
<1>9. CASE NextCommand
  BY <1>9 DEF NextCommand, Calls, StartBlTimer
<1>10. CASE CommandDone
  BY <1>10, DoneEffect DEF DoneChanges, CommandDone
<1>11. CASE CommandRefused
  BY <1>11 DEF CommandRefused, Noted
<1>12. CASE LoaderTakes
  BY <1>12, TakeEffect DEF TakeChanges, LoaderTakes
<1>13. CASE LoaderAnswers
  <2> DEFINE busy == IF loader.doing \in Buffers THEN loader.busy \union {loader.doing} ELSE loader.busy
             flash == IF loader.doing = "BURN" THEN <<>> ELSE loader.flash
             good == IF loader.doing = "BURN" THEN FALSE ELSE loader.good \/ loader.doing = "EOF"
  <2>1. loader' = [loader EXCEPT !.doing = "nothing", !.busy = busy, !.flash = flash, !.good = good]
    BY <1>13 DEF LoaderAnswers
  <2>2. busy \in SUBSET Buffers
    OBVIOUS
  <2>3. flash \in Seq(0 .. CHUNKS + 1)
    <3>1. <<>> \in Seq(0 .. CHUNKS + 1)
      OBVIOUS
    <3>2. QED
      BY <3>1
  <2>4. good \in BOOLEAN
    OBVIOUS
  <2>5. QED
    <3> HIDE DEF busy, flash, good
    <3> QED
      BY <2>1, <2>2, <2>3, <2>4
<1>14. CASE LoaderBurns
  <2>1. PICK b \in loader.busy :
           loader' = [loader EXCEPT !.flash = Append(@, loader.buffer[b]), !.busy = @ \ {b}]
    BY <1>14 DEF LoaderBurns
  <2> DEFINE flash == Append(loader.flash, loader.buffer[b])
             busy == loader.busy \ {b}
  <2>2. loader' = [loader EXCEPT !.flash = flash, !.busy = busy]
    BY <2>1
  <2>3. loader.flash \in Seq(0 .. CHUNKS + 1) /\ loader.buffer[b] \in 0 .. CHUNKS + 1
    BY <2>1
  <2>4. flash \in Seq(0 .. CHUNKS + 1)
    BY <2>3, AppendProperties
  <2>5. busy \in SUBSET Buffers
    OBVIOUS
  <2>6. QED
    <3> HIDE DEF flash, busy
    <3> QED
      BY <2>2, <2>4, <2>5
<1>15. CASE BlTimerFires
  BY <1>15, ExpiryEffect DEF ExpiryChanges, BlTimerFires
<1>16. CASE LateCallback
  BY <1>16 DEF LateCallback
<1>17. QED
  BY <1>1, <1>2, <1>3, <1>4, <1>5, <1>6, <1>7, <1>8, <1>9, <1>10, <1>11, <1>12, <1>13, <1>14,
     <1>15, <1>16 DEF FwNext, Driver, Loader

LEMMA FwUpsetTyped ==
    ASSUME FwIInv, FwNext
    PROVE  fwUpset' \subseteq FwTroubles \union {"abandoned", "mixed", "unchecked", "torn", "not_burnt", "jump"}
<1> USE  DEF FwIInv, FwTypeOK, clockVars
<1>1. CASE WaitRegin
  BY <1>1, ReginEffect DEF ReginChanges, WaitRegin
<1>2. CASE WaitRegout
  BY <1>2, RegoutEffect DEF RegoutChanges, WaitRegout
<1>3. CASE ReadVersion
  BY <1>3 DEF ReadVersion, StopBlTimer
<1>4. CASE InvalidateVersion
  BY <1>4 DEF InvalidateVersion, Invalidated, Calls, StartBlTimer
<1>5. CASE Prepare
  BY <1>5 DEF Prepare, Calls, StartBlTimer, Fails, Wrong, AllWell
<1>6. CASE FillRam
  BY <1>6, RamEffect DEF RamChanges, FillRam
<1>7. CASE Fill
  BY <1>7, FillEffect DEF FillChanges
<1>8. CASE CrcDone
  BY <1>8 DEF CrcDone, Follows, StopBlTimer, AllWell, Noted, CrcFailed
<1>9. CASE NextCommand
  BY <1>9 DEF NextCommand, Calls, StartBlTimer
<1>10. CASE CommandDone
  BY <1>10, DoneEffect DEF DoneChanges, CommandDone
<1>11. CASE CommandRefused
  BY <1>11 DEF CommandRefused, Noted
<1>12. CASE LoaderTakes
  BY <1>12, TakeEffect DEF TakeChanges, LoaderTakes
<1>13. CASE LoaderAnswers
  BY <1>13, AnswerEffect DEF AnswerChanges
<1>14. CASE LoaderBurns
  BY <1>14, BurnEffect DEF BurnChanges, LoaderBurns
<1>15. CASE BlTimerFires
  BY <1>15, ExpiryEffect DEF ExpiryChanges, BlTimerFires
<1>16. CASE LateCallback
  BY <1>16 DEF LateCallback
<1>17. QED
  BY <1>1, <1>2, <1>3, <1>4, <1>5, <1>6, <1>7, <1>8, <1>9, <1>10, <1>11, <1>12, <1>13, <1>14,
     <1>15, <1>16 DEF FwNext, Driver, Loader

LEMMA FwPlace ==
    ASSUME FwIInv, FwNext
    PROVE  PlaceInv'
<1>0. ModelKept /\ PiecesKnown
  BY FwModelKept, FwPieces DEF FwIInv
<1> USE <1>0 DEF FwIInv, ModelKept, PiecesKnown, clockVars, PlaceInv, Places, Commands, Buffers
<1>1. CASE WaitRegin
  BY <1>1, ReginEffect DEF ReginChanges
<1>2. CASE WaitRegout
  BY <1>2, RegoutEffect DEF RegoutChanges, Expected
<1>3. CASE ReadVersion
  BY <1>3 DEF ReadVersion, StopBlTimer
<1>4. CASE InvalidateVersion
  BY <1>4 DEF InvalidateVersion, Invalidated, Calls, StartBlTimer
<1>5. CASE Prepare
  BY <1>5 DEF Prepare, Calls, StartBlTimer, Fails, Wrong, AllWell
<1>6. CASE FillRam
  BY <1>6, RamEffect DEF RamChanges
<1>7. CASE Fill
  <2>1. at = "fill" /\ Turn \in Buffers /\ ram' = ram /\ started' = started
    BY <1>7, FillEffect DEF FillChanges
  <2>2. started # TRUE /\ model.chip # "9116"
    BY <2>1
  <2>3. \/ index < Pieces /\ index' = index + 1 /\ at' = Turn /\ call' = "regin"
        \/ index = Pieces /\ index' = index /\ at' = "EOF" /\ call' = "regin"
        \/ index' = index /\ at' = "AUTO_READ_AGAIN" /\ call' = "no"
    BY <1>7, FillEffect DEF FillChanges
  <2>4. model' = model /\ Pieces' = Pieces /\ index \in Nat /\ (model.chip = "9113" => ram = {})
    BY FwFacts DEF FwKnown
  <2>5. QED
    BY <2>1, <2>2, <2>3, <2>4
<1>8. CASE CrcDone
  BY <1>8 DEF CrcDone, Follows, StopBlTimer, AllWell, Noted, CrcFailed
<1>9. CASE NextCommand
  BY <1>9 DEF NextCommand, Calls, StartBlTimer
<1>10. CASE CommandDone
  BY <1>10, DoneEffect DEF DoneChanges
<1>11. CASE CommandRefused
  BY <1>11 DEF CommandRefused, Noted
<1>12. CASE LoaderTakes
  BY <1>12, TakeEffect DEF TakeChanges
<1>13. CASE LoaderAnswers
  BY <1>13, AnswerEffect DEF AnswerChanges
<1>14. CASE LoaderBurns
  BY <1>14, BurnEffect DEF BurnChanges
<1>15. CASE BlTimerFires
  BY <1>15, ExpiryEffect DEF ExpiryChanges
<1>16. CASE LateCallback
  BY <1>16 DEF LateCallback
<1>17. QED
  BY <1>1, <1>2, <1>3, <1>4, <1>5, <1>6, <1>7, <1>8, <1>9, <1>10, <1>11, <1>12, <1>13, <1>14,
     <1>15, <1>16 DEF FwNext, Driver, Loader

LEMMA FwAbandon ==
    ASSUME FwIInv, FwNext
    PROVE  AbandonInv'
<1>0. ModelKept
  BY FwModelKept DEF FwIInv
<1> USE <1>0 DEF FwIInv, ModelKept, clockVars, AbandonInv, PlaceInv, GoodInv, Commands, Buffers
<1>1. CASE WaitRegin
  BY <1>1, ReginEffect DEF ReginChanges
<1>2. CASE WaitRegout
  BY <1>2, RegoutEffect DEF RegoutChanges
<1>3. CASE ReadVersion
  BY <1>3 DEF ReadVersion, StopBlTimer
<1>4. CASE InvalidateVersion
  BY <1>4 DEF InvalidateVersion, Invalidated, Calls, StartBlTimer
<1>5. CASE Prepare
  BY <1>5 DEF Prepare, Calls, StartBlTimer, Fails, Wrong, AllWell
<1>6. CASE FillRam
  BY <1>6, RamEffect DEF RamChanges
<1>7. CASE Fill
  BY <1>7, FillEffect DEF FillChanges
<1>8. CASE CrcDone
  <2>1. at = "CHECK_CRC" /\ call' = "no" /\ UNCHANGED <<resp, index>> /\ index = 0
        /\ model.chip = "9113" /\ model' = model
    BY <1>8, FwFacts DEF CrcDone, Follows, FwKnown
  <2>2. \/ at' = "POLLING"
        \/ at' = "BURN" /\ fwUpset' = fwUpset /\ resp # NoAnswer
    BY <1>8 DEF CrcDone, Follows, CrcFailed, AllWell
  <2>3. QED
    BY <2>1, <2>2
<1>9. CASE NextCommand
  BY <1>9 DEF NextCommand, Calls, StartBlTimer
<1>10. CASE CommandDone
  <2>1. ("abandoned" \in fwUpset' <=> "abandoned" \in fwUpset) /\ UNCHANGED <<resp, index>> /\ model' = model
    BY <1>10, DoneEffect DEF DoneChanges
  <2>2. \/ /\ call = "pass"
           /\ \/ at = "AUTO_READ" /\ at' = "prepare"
              \/ at = "POLLING" /\ index = 0 /\ model.chip = "9113" /\ at' = "LOAD"
              \/ at = "POLLING" /\ model.chip # "9113" /\ at' = "fill_RAM"
              \/ at \in Buffers \union {"BURN"} /\ at' = "fill"
              \/ at = "EOF" /\ at' = "LOAD"
        \/ at' \in {"done", "failed", "AUTO_READ_AGAIN"}
    BY <1>10, DoneEffect DEF DoneChanges
  <2>3. QED
    BY <2>1, <2>2
<1>11. CASE CommandRefused
  BY <1>11 DEF CommandRefused, Noted
<1>12. CASE LoaderTakes
  BY <1>12, TakeEffect DEF TakeChanges
<1>13. CASE LoaderAnswers
  BY <1>13, AnswerEffect DEF AnswerChanges
<1>14. CASE LoaderBurns
  BY <1>14, BurnEffect DEF BurnChanges
<1>15. CASE BlTimerFires
  BY <1>15, ExpiryEffect DEF ExpiryChanges
<1>16. CASE LateCallback
  BY <1>16 DEF LateCallback
<1>17. QED
  BY <1>1, <1>2, <1>3, <1>4, <1>5, <1>6, <1>7, <1>8, <1>9, <1>10, <1>11, <1>12, <1>13, <1>14,
     <1>15, <1>16 DEF FwNext, Driver, Loader

LEMMA FwPipe ==
    ASSUME FwIInv, FwNext
    PROVE  PipeInv'
<1> USE NoAnswerTyped DEF FwIInv, clockVars, PipeInv, PlaceInv, Commands, Buffers
<1>1. CASE WaitRegin
  BY <1>1, ReginEffect DEF ReginChanges
<1>2. CASE WaitRegout
  BY <1>2, RegoutEffect DEF RegoutChanges, Expected
<1>3. CASE ReadVersion
  BY <1>3 DEF ReadVersion, StopBlTimer
<1>4. CASE InvalidateVersion
  BY <1>4 DEF InvalidateVersion, Invalidated, Calls, StartBlTimer
<1>5. CASE Prepare
  BY <1>5 DEF Prepare, Calls, StartBlTimer, Fails, Wrong, AllWell
<1>6. CASE FillRam
  BY <1>6, RamEffect DEF RamChanges
<1>7. CASE Fill
  BY <1>7, FillEffect DEF FillChanges
<1>8. CASE CrcDone
  BY <1>8 DEF CrcDone, Follows, StopBlTimer, AllWell, Noted, CrcFailed
<1>9. CASE NextCommand
  BY <1>9 DEF NextCommand, Calls, StartBlTimer
<1>10. CASE CommandDone
  BY <1>10, DoneEffect DEF DoneChanges
<1>11. CASE CommandRefused
  BY <1>11 DEF CommandRefused, Noted
<1>12. CASE LoaderTakes
  BY <1>12, TakeEffect DEF TakeChanges
<1>13. CASE LoaderAnswers
  BY <1>13, AnswerEffect DEF AnswerChanges
<1>14. CASE LoaderBurns
  BY <1>14, BurnEffect DEF BurnChanges
<1>15. CASE BlTimerFires
  BY <1>15, ExpiryEffect DEF ExpiryChanges
<1>16. CASE LateCallback
  BY <1>16 DEF LateCallback
<1>17. QED
  BY <1>1, <1>2, <1>3, <1>4, <1>5, <1>6, <1>7, <1>8, <1>9, <1>10, <1>11, <1>12, <1>13, <1>14,
     <1>15, <1>16 DEF FwNext, Driver, Loader

LEMMA FwIdle ==
    ASSUME FwIInv, FwNext
    PROVE  IdleInv'
<1>0. ModelKept /\ PiecesKnown
  BY FwModelKept, FwPieces DEF FwIInv
<1> USE <1>0 DEF FwIInv, ModelKept, PiecesKnown, clockVars, IdleInv, PipeInv, AbandonInv,
PlaceInv, Commands, Buffers
<1>1. CASE WaitRegin
  BY <1>1, ReginEffect DEF ReginChanges
<1>2. CASE WaitRegout
  BY <1>2, RegoutEffect DEF RegoutChanges, Expected
<1>3. CASE ReadVersion
  BY <1>3 DEF ReadVersion, StopBlTimer
<1>4. CASE InvalidateVersion
  BY <1>4 DEF InvalidateVersion, Invalidated, Calls, StartBlTimer
<1>5. CASE Prepare
  BY <1>5 DEF Prepare, Calls, StartBlTimer, Fails, Wrong, AllWell
<1>6. CASE FillRam
  <2>1. UNCHANGED <<regin, loader>> /\ at = "fill_RAM"
    BY <1>6, RamEffect DEF RamChanges
  <2>2. index' > 0 /\ index \in Nat
    <3>1. \/ index < CHUNKS /\ index' = index + 1
          \/ index = CHUNKS /\ UNCHANGED index
      BY <1>6 DEF FillRam
    <3>2. QED
      BY <3>1, FwFacts DEF FwKnown
  <2>3. QED
    BY <2>1, <2>2
<1>7. CASE Fill
  <2>1. /\ at = "fill" /\ loader'.doing = loader.doing /\ loader'.busy = loader.busy
        /\ loader'.flash = loader.flash /\ regin' = regin
    BY <1>7, FillEffect DEF FillChanges
  <2>2. index' = index \/ index' > 0
    <3>1. index' = index + 1 \/ index' = index
      BY <1>7, FillEffect DEF FillChanges
    <3>2. QED
      BY <3>1, FwFacts DEF FwKnown
  <2>3. QED
    BY <2>1, <2>2
<1>8. CASE CrcDone
  BY <1>8 DEF CrcDone, Follows, StopBlTimer, AllWell, Noted, CrcFailed
<1>9. CASE NextCommand
  BY <1>9 DEF NextCommand, Calls, StartBlTimer
<1>10. CASE CommandDone
  BY <1>10, DoneEffect DEF DoneChanges
<1>11. CASE CommandRefused
  BY <1>11 DEF CommandRefused, Noted
<1>12. CASE LoaderTakes
  BY <1>12, TakeEffect DEF TakeChanges
<1>13. CASE LoaderAnswers
  BY <1>13, AnswerEffect DEF AnswerChanges
<1>14. CASE LoaderBurns
  BY <1>14, BurnEffect DEF BurnChanges
<1>15. CASE BlTimerFires
  BY <1>15, ExpiryEffect DEF ExpiryChanges
<1>16. CASE LateCallback
  BY <1>16 DEF LateCallback
<1>17. QED
  BY <1>1, <1>2, <1>3, <1>4, <1>5, <1>6, <1>7, <1>8, <1>9, <1>10, <1>11, <1>12, <1>13, <1>14,
     <1>15, <1>16 DEF FwNext, Driver, Loader

\* The buffers take turns.
LEMMA BuffersAlternate ==
    \A k \in Nat : BufferOf(k) # BufferOf(k + 1) /\ BufferOf(k) \in Buffers /\ BufferOf(k + 1) \in Buffers
<1> SUFFICES ASSUME NEW k \in Nat
             PROVE  BufferOf(k) # BufferOf(k + 1) /\ BufferOf(k) \in Buffers /\ BufferOf(k + 1) \in Buffers
  OBVIOUS
<1>1. k % 2 = 0 <=> (k + 1) % 2 # 0
  OBVIOUS
<1>2. QED
  BY <1>1 DEF BufferOf, Buffers

TurnsAreBuffers ==
    /\ Turn = BufferOf(index + 1) /\ BufferOf(index) # Turn
    /\ BufferOf(index) \in Buffers /\ Turn \in Buffers

LEMMA TurnsAlternate == index \in Nat => TurnsAreBuffers
<1> SUFFICES ASSUME index \in Nat PROVE TurnsAreBuffers
  OBVIOUS
<1>1. index % 2 = 1 <=> (index + 1) % 2 = 0
  OBVIOUS
<1>2. Turn = BufferOf(index + 1)
  BY <1>1 DEF Turn, BufferOf
<1>3. QED
  BY <1>2, BuffersAlternate DEF TurnsAreBuffers

LEMMA FwFlash ==
    ASSUME FwIInv, FwNext
    PROVE  FlashInv'
<1>0. ModelKept /\ FwKnown
  BY FwModelKept, FwFacts DEF FwIInv
<1> USE <1>0, NoAnswerTyped DEF FwIInv, ModelKept, FwKnown, clockVars, FlashInv, Waits, Taken,
InOrder, IdleInv, PipeInv, AbandonInv, PlaceInv, Commands, Buffers, BufferOf
<1>1. CASE WaitRegin
  BY <1>1, ReginEffect DEF ReginChanges
<1>2. CASE WaitRegout
  BY <1>2, RegoutEffect DEF RegoutChanges, Expected
<1>3. CASE ReadVersion
  BY <1>3 DEF ReadVersion, StopBlTimer
<1>4. CASE InvalidateVersion
  BY <1>4 DEF InvalidateVersion, Invalidated, Calls, StartBlTimer
<1>5. CASE Prepare
  BY <1>5 DEF Prepare, Calls, StartBlTimer, Fails, Wrong, AllWell
<1>6. CASE FillRam
  BY <1>6, RamEffect DEF RamChanges
<1>7. CASE Fill
  <2>1. /\ at = "fill" /\ Taken = index /\ index \in Nat /\ InOrder /\ call = "no"
        /\ loader.busy = {} => Len(loader.flash) = index
        /\ loader.busy # {} => /\ index > 0 /\ loader.busy = {BufferOf(index)}
                               /\ loader.buffer[BufferOf(index)] = index /\ Len(loader.flash) = index - 1
    <3>1. at = "fill"
      BY <1>7, FillEffect DEF FillChanges
    <3>2. call = "no"
      BY <3>1
    <3>3. Taken = index
      BY <3>1
    <3>4. QED
      BY <3>1, <3>2, <3>3
  <2>2. Turn = BufferOf(index + 1) /\ BufferOf(index) # Turn /\ BufferOf(index) \in Buffers /\ Turn \in Buffers
    BY <2>1, TurnsAlternate DEF TurnsAreBuffers
  <2>3. loader'.busy = loader.busy /\ loader'.flash = loader.flash
    BY <1>7, FillEffect DEF FillChanges
  <2>4. InOrder'
    BY <2>1, <2>3
  <2>5. CASE /\ index' = index + 1 /\ at' = Turn /\ call' = "regin"
             /\ loader'.buffer = [loader.buffer EXCEPT ![Turn] = index + 1]
             /\ loader'.buffer[Turn] = index + 1
    <3>1. Taken' = index
      BY <2>1, <2>2, <2>5
    <3>2. loader.busy # {} => loader'.buffer[BufferOf(index)] = index
      <4>1. loader.buffer \in [Buffers -> 0 .. CHUNKS + 1]
        BY DEF FwTypeOK
      <4>2. loader'.buffer[BufferOf(index)] = loader.buffer[BufferOf(index)]
        <5> HIDE DEF BufferOf, Buffers
        <5> QED
          BY <2>2, <2>5, <4>1
      <4>3. QED
        BY <2>1, <4>2
    <3>3. at' = BufferOf(index') /\ loader'.buffer[at'] = index'
      BY <2>2, <2>5
    <3>4. QED
      <4> HIDE DEF BufferOf, Taken, InOrder, Waits
      <4> QED
        BY <2>1, <2>3, <2>4, <3>1, <3>2, <3>3
  <2>6. CASE at' = "EOF" /\ UNCHANGED <<loader, index>>
    <3>1. Taken' = index
      BY <2>6
    <3>2. QED
      <4> HIDE DEF BufferOf, Taken, InOrder, Waits
      <4> QED
        BY <2>1, <2>4, <2>6, <3>1
  <2>7. CASE at' = "AUTO_READ_AGAIN"
    BY <2>7
  <2>8. QED
    BY <1>7, <2>5, <2>6, <2>7, FillEffect DEF FillChanges
<1>8. CASE CrcDone
  BY <1>8 DEF CrcDone, Follows, StopBlTimer, AllWell, Noted, CrcFailed
<1>9. CASE NextCommand
  BY <1>9 DEF NextCommand, Calls, StartBlTimer
<1>10. CASE CommandDone
  BY <1>10, DoneEffect DEF DoneChanges
<1>11. CASE CommandRefused
  BY <1>11 DEF CommandRefused, Noted
<1>12. CASE LoaderTakes
  BY <1>12, TakeEffect DEF TakeChanges
<1>13. CASE LoaderAnswers
  <2> SUFFICES ASSUME at \in Buffers \union {"fill", "EOF"}, call # "fail" PROVE FlashInv'
    BY <1>13, AnswerEffect DEF AnswerChanges
  <2>1. /\ loader.doing \in Commands /\ loader.doing # "nothing" /\ at' = at /\ call' = call /\ index' = index
        /\ loader'.buffer = loader.buffer /\ regout' # NoAnswer
    BY <1>13, AnswerEffect DEF AnswerChanges
  <2>2. "abandoned" \notin fwUpset
    OBVIOUS
  <2>3. call = "regout" /\ loader.doing = at /\ regout = NoAnswer /\ at \in Buffers \union {"EOF"}
    <3>1. call = "regout" /\ loader.doing = at /\ regout = NoAnswer
      BY <2>1, <2>2
    <3>2. at # "fill"
      BY <3>1
    <3>3. QED
      BY <3>1, <3>2
  <2>4. loader'.flash = loader.flash /\ InOrder /\ InOrder'
    <3>1. loader'.flash = loader.flash
      BY <1>13, <2>3, AnswerEffect DEF AnswerChanges
    <3>2. QED
      BY <3>1
  <2>5. Taken' = index
    BY <2>1, <2>3
  <2>6. CASE at \in Buffers
    <3>1. Taken = index - 1 /\ index \in Nat /\ index > 0
      BY <2>3, <2>6
    <3>2. at = BufferOf(index) /\ loader.buffer[at] = index
      BY <2>6
    <3>3. OtherBuffer(at) \notin loader.busy /\ loader'.busy = loader.busy \union {at}
      BY <1>13, <2>3, <2>6, AnswerEffect DEF AnswerChanges
    <3>4. index - 1 \in Nat /\ (index - 1) + 1 = index
      BY <3>1
    <3>5. OtherBuffer(at) = BufferOf(index - 1)
      <4>1. /\ BufferOf(index - 1) # BufferOf((index - 1) + 1) /\ BufferOf(index - 1) \in Buffers
            /\ BufferOf((index - 1) + 1) \in Buffers
        <5> HIDE DEF BufferOf, Buffers
        <5> QED
          BY <3>4, BuffersAlternate
      <4>2. QED
        <5> HIDE DEF BufferOf
        <5> QED
          BY <3>2, <3>4, <4>1 DEF OtherBuffer
    <3>6. loader.busy = {} /\ Len(loader.flash) = index - 1
      <4>1. loader.busy # {} => loader.busy = {BufferOf(index - 1)}
        BY <3>1
      <4>2. loader.busy = {}
        BY <3>3, <3>5, <4>1
      <4>3. QED
        BY <3>1, <4>2
    <3>7. loader'.busy = {BufferOf(index)}
      BY <3>2, <3>3, <3>6
    <3>8. QED
      <4> HIDE DEF BufferOf, Taken, InOrder, Waits
      <4> QED
        BY <2>1, <2>3, <2>4, <2>5, <3>1, <3>2, <3>6, <3>7
  <2>7. CASE at = "EOF"
    <3>1. loader.busy = {} /\ loader'.busy = {} /\ Taken = index
      BY <1>13, <2>3, <2>7, AnswerEffect DEF AnswerChanges
    <3>2. QED
      <4> HIDE DEF BufferOf, Taken, InOrder, Waits
      <4> QED
        BY <2>1, <2>4, <2>5, <2>7, <3>1
  <2>8. QED
    BY <2>3, <2>6, <2>7
<1>14. CASE LoaderBurns
  <2>1. PICK b \in loader.busy :
             /\ loader'.flash = Append(loader.flash, loader.buffer[b]) /\ loader'.busy = loader.busy \ {b}
             /\ loader'.doing = loader.doing /\ loader'.buffer = loader.buffer
             /\ loader'.good = loader.good
             /\ loader.buffer[b] \in 0 .. CHUNKS + 1
             /\ UNCHANGED <<at, call, resp, index, regin, regout, clockVars, started, ram, fwUpset>>
    BY <1>14, BurnEffect DEF BurnChanges
  <2> SUFFICES ASSUME at \in Buffers \union {"fill", "EOF"}, call # "fail" PROVE FlashInv'
    BY <2>1
  <2>2. /\ Taken > 0 /\ loader.busy = {BufferOf(Taken)} /\ loader.buffer[BufferOf(Taken)] = Taken
        /\ Len(loader.flash) = Taken - 1 /\ InOrder /\ Taken \in Nat
    <3>1. Taken \in Nat
      BY DEF FwTypeOK
    <3>2. loader.busy # {}
      BY <2>1
    <3>3. QED
      <4> HIDE DEF BufferOf, Taken, InOrder, Waits
      <4> QED
        BY <3>1, <3>2
  <2>3. b = BufferOf(Taken) /\ loader.buffer[b] = Taken /\ loader'.busy = {}
    <3> HIDE DEF BufferOf, Taken
    <3> QED
      BY <2>1, <2>2
  <2>4. Taken' = Taken
    BY <2>1
  <2>5. Len(loader'.flash) = Taken /\ InOrder'
    <3>1. /\ loader.flash \in Seq(0 .. CHUNKS + 1) /\ loader.buffer[b] \in 0 .. CHUNKS + 1
          /\ loader'.flash = Append(loader.flash, loader.buffer[b])
      BY <2>1
    <3>2. /\ Len(loader'.flash) = Len(loader.flash) + 1
          /\ \A i \in 1 .. Len(loader.flash) : loader'.flash[i] = loader.flash[i]
          /\ loader'.flash[Len(loader.flash) + 1] = loader.buffer[b]
      BY <3>1, AppendProperties
    <3>3. Len(loader'.flash) = Taken
      <4> HIDE DEF Taken
      <4> QED
        BY <2>2, <3>2
    <3>4. ASSUME NEW i \in 1 .. Len(loader'.flash) PROVE loader'.flash[i] = i
      <4> HIDE DEF Taken
      <4>1. CASE i = Taken
        BY <2>2, <2>3, <3>2, <4>1
      <4>2. CASE i # Taken
        <5>1. i \in 1 .. Len(loader.flash)
          BY <2>2, <3>3, <4>2
        <5>2. QED
          BY <2>2, <3>2, <5>1
      <4>3. QED
        BY <4>1, <4>2
    <3>5. QED
      BY <3>3, <3>4
  <2>6. QED
    <3>1. at \in Buffers => at = BufferOf(index) /\ loader.buffer[at] = index
      OBVIOUS
    <3>2. QED
      <4> HIDE DEF BufferOf, Taken, InOrder, Waits
      <4> QED
        BY <2>1, <2>3, <2>4, <2>5, <3>1
<1>15. CASE BlTimerFires
  BY <1>15, ExpiryEffect DEF ExpiryChanges
<1>16. CASE LateCallback
  BY <1>16 DEF LateCallback
<1>17. QED
  BY <1>1, <1>2, <1>3, <1>4, <1>5, <1>6, <1>7, <1>8, <1>9, <1>10, <1>11, <1>12, <1>13, <1>14,
     <1>15, <1>16 DEF FwNext, Driver, Loader

LEMMA FwLoads ==
    ASSUME FwIInv, FwNext
    PROVE  LoadInv'
<1>0. ModelKept /\ FwKnown
  BY FwModelKept, FwFacts DEF FwIInv
<1> USE <1>0, NoAnswerTyped DEF FwIInv, ModelKept, FwKnown, clockVars, LoadInv, FlashInv, Waits,
Taken, InOrder, PipeInv, AbandonInv, PlaceInv, GoodInv, Commands, Buffers
<1>1. CASE WaitRegin
  BY <1>1, ReginEffect DEF ReginChanges
<1>2. CASE WaitRegout
  BY <1>2, RegoutEffect DEF RegoutChanges, Expected
<1>3. CASE ReadVersion
  BY <1>3 DEF ReadVersion, StopBlTimer
<1>4. CASE InvalidateVersion
  BY <1>4 DEF InvalidateVersion, Invalidated, Calls, StartBlTimer
<1>5. CASE Prepare
  BY <1>5 DEF Prepare, Calls, StartBlTimer, Fails, Wrong, AllWell
<1>6. CASE FillRam
  BY <1>6, RamEffect DEF RamChanges
<1>7. CASE Fill
  BY <1>7, FillEffect DEF FillChanges, Turn
<1>8. CASE CrcDone
  BY <1>8 DEF CrcDone, Follows, StopBlTimer, AllWell, Noted, CrcFailed
<1>9. CASE NextCommand
  BY <1>9 DEF NextCommand, Calls, StartBlTimer
<1>10. CASE CommandDone
  BY <1>10, DoneEffect DEF DoneChanges
<1>11. CASE CommandRefused
  BY <1>11 DEF CommandRefused, Noted
<1>12. CASE LoaderTakes
  BY <1>12, TakeEffect DEF TakeChanges
<1>13. CASE LoaderAnswers
  <2>1. loader.doing \in Commands /\ at' = at /\ index' = index
    BY <1>13, AnswerEffect DEF AnswerChanges
  <2>2. ~(at = "LOAD" /\ index > 0)
    <3> SUFFICES ASSUME at = "LOAD", index > 0 PROVE FALSE
      OBVIOUS
    <3>1. loader.doing = "nothing"
      OBVIOUS
    <3>2. QED
      BY <2>1, <3>1
  <2>3. QED
    BY <2>1, <2>2
<1>14. CASE LoaderBurns
  BY <1>14, BurnEffect DEF BurnChanges
<1>15. CASE BlTimerFires
  BY <1>15, ExpiryEffect DEF ExpiryChanges
<1>16. CASE LateCallback
  BY <1>16 DEF LateCallback
<1>17. QED
  BY <1>1, <1>2, <1>3, <1>4, <1>5, <1>6, <1>7, <1>8, <1>9, <1>10, <1>11, <1>12, <1>13, <1>14,
     <1>15, <1>16 DEF FwNext, Driver, Loader

LEMMA FwGood ==
    ASSUME FwIInv, FwNext
    PROVE  GoodInv'
<1>0. ModelKept
  BY FwModelKept DEF FwIInv
<1> USE <1>0, NoAnswerTyped DEF FwIInv, ModelKept, clockVars, GoodInv, IdleInv, PipeInv,
AbandonInv, PlaceInv, Commands, Buffers
<1>1. CASE WaitRegin
  BY <1>1, ReginEffect DEF ReginChanges
<1>2. CASE WaitRegout
  BY <1>2, RegoutEffect DEF RegoutChanges, Expected
<1>3. CASE ReadVersion
  BY <1>3 DEF ReadVersion, StopBlTimer
<1>4. CASE InvalidateVersion
  BY <1>4 DEF InvalidateVersion, Invalidated, Calls, StartBlTimer
<1>5. CASE Prepare
  BY <1>5 DEF Prepare, Calls, StartBlTimer, Fails, Wrong, AllWell
<1>6. CASE FillRam
  BY <1>6, RamEffect DEF RamChanges
<1>7. CASE Fill
  BY <1>7, FillEffect DEF FillChanges
<1>8. CASE CrcDone
  BY <1>8 DEF CrcDone, Follows, StopBlTimer, AllWell, Noted, CrcFailed
<1>9. CASE NextCommand
  BY <1>9 DEF NextCommand, Calls, StartBlTimer
<1>10. CASE CommandDone
  BY <1>10, DoneEffect DEF DoneChanges
<1>11. CASE CommandRefused
  BY <1>11 DEF CommandRefused, Noted
<1>12. CASE LoaderTakes
  BY <1>12, TakeEffect DEF TakeChanges
<1>13. CASE LoaderAnswers
  BY <1>13, AnswerEffect DEF AnswerChanges
<1>14. CASE LoaderBurns
  BY <1>14, BurnEffect DEF BurnChanges
<1>15. CASE BlTimerFires
  BY <1>15, ExpiryEffect DEF ExpiryChanges
<1>16. CASE LateCallback
  BY <1>16 DEF LateCallback
<1>17. QED
  BY <1>1, <1>2, <1>3, <1>4, <1>5, <1>6, <1>7, <1>8, <1>9, <1>10, <1>11, <1>12, <1>13, <1>14,
     <1>15, <1>16 DEF FwNext, Driver, Loader

LEMMA FwMatch ==
    ASSUME FwIInv, FwNext
    PROVE  AnswersMatch'
<1>0. ModelKept /\ FwKnown
  BY FwModelKept, FwFacts DEF FwIInv
<1> USE <1>0, NoAnswerTyped DEF FwIInv, ModelKept, FwKnown, clockVars, AnswersMatch, No, PipeInv,
PlaceInv
<1>1. CASE WaitRegin
  BY <1>1, ReginEffect DEF ReginChanges
<1>2. CASE WaitRegout
  BY <1>2, RegoutEffect DEF RegoutChanges
<1>3. CASE ReadVersion
  BY <1>3 DEF ReadVersion, StopBlTimer
<1>4. CASE InvalidateVersion
  BY <1>4 DEF InvalidateVersion, Invalidated, Calls, StartBlTimer
<1>5. CASE Prepare
  BY <1>5 DEF Prepare, Calls, StartBlTimer, Fails, Wrong, AllWell
<1>6. CASE FillRam
  BY <1>6, RamEffect DEF RamChanges
<1>7. CASE Fill
  BY <1>7, FillEffect DEF FillChanges
<1>8. CASE CrcDone
  BY <1>8 DEF CrcDone, Follows, StopBlTimer, AllWell, Noted, CrcFailed
<1>9. CASE NextCommand
  BY <1>9 DEF NextCommand, Calls, StartBlTimer
<1>10. CASE CommandDone
  BY <1>10, DoneEffect DEF DoneChanges
<1>11. CASE CommandRefused
  BY <1>11 DEF CommandRefused, Noted
<1>12. CASE LoaderTakes
  BY <1>12, TakeEffect DEF TakeChanges
<1>13. CASE LoaderAnswers
  BY <1>13, AnswerEffect DEF AnswerChanges
<1>14. CASE LoaderBurns
  BY <1>14, BurnEffect DEF BurnChanges
<1>15. CASE BlTimerFires
  BY <1>15, ExpiryEffect DEF ExpiryChanges
<1>16. CASE LateCallback
  BY <1>16 DEF LateCallback
<1>17. QED
  BY <1>1, <1>2, <1>3, <1>4, <1>5, <1>6, <1>7, <1>8, <1>9, <1>10, <1>11, <1>12, <1>13, <1>14,
     <1>15, <1>16 DEF FwNext, Driver, Loader

LEMMA FwTorn ==
    ASSUME FwIInv, FwNext
    PROVE  "torn" \notin fwUpset'
<1> USE  DEF FwIInv, clockVars
<1>1. CASE WaitRegin
  BY <1>1, ReginEffect DEF ReginChanges
<1>2. CASE WaitRegout
  BY <1>2, RegoutEffect DEF RegoutChanges
<1>3. CASE ReadVersion
  BY <1>3 DEF ReadVersion, StopBlTimer
<1>4. CASE InvalidateVersion
  BY <1>4 DEF InvalidateVersion, Invalidated, Calls, StartBlTimer
<1>5. CASE Prepare
  BY <1>5 DEF Prepare, Calls, StartBlTimer, Fails, Wrong, AllWell
<1>6. CASE FillRam
  BY <1>6, RamEffect DEF RamChanges
<1>7. CASE Fill
  <2>1. Turn \notin loader.busy
    <3>1. at = "fill" /\ call = "no" /\ index \in Nat
      <4>1. at = "fill"
        BY <1>7, FillEffect DEF FillChanges
      <4>2. index \in Nat
        BY FwFacts DEF FwKnown
      <4>3. QED
        BY <4>1, <4>2 DEF PlaceInv, Commands, Buffers
    <3>2. Taken = index
      BY <3>1 DEF Taken, Waits, Buffers
    <3>3. loader.busy # {} => loader.busy = {BufferOf(index)}
      <4>1. at \in Buffers \union {"fill", "EOF"} /\ call # "fail"
        BY <3>1
      <4>2. QED
        BY <3>2, <4>1 DEF FlashInv
    <3>4. BufferOf(index) # Turn
      BY <3>1, TurnsAlternate DEF TurnsAreBuffers
    <3>5. QED
      BY <3>3, <3>4
  <2>2. QED
    BY <1>7, <2>1, FillEffect DEF FillChanges
<1>8. CASE CrcDone
  BY <1>8 DEF CrcDone, Follows, StopBlTimer, AllWell, Noted, CrcFailed
<1>9. CASE NextCommand
  BY <1>9 DEF NextCommand, Calls, StartBlTimer
<1>10. CASE CommandDone
  BY <1>10, DoneEffect DEF DoneChanges
<1>11. CASE CommandRefused
  BY <1>11 DEF CommandRefused, Noted
<1>12. CASE LoaderTakes
  BY <1>12, TakeEffect DEF TakeChanges
<1>13. CASE LoaderAnswers
  BY <1>13, AnswerEffect DEF AnswerChanges
<1>14. CASE LoaderBurns
  BY <1>14, BurnEffect DEF BurnChanges
<1>15. CASE BlTimerFires
  BY <1>15, ExpiryEffect DEF ExpiryChanges
<1>16. CASE LateCallback
  BY <1>16 DEF LateCallback
<1>17. QED
  BY <1>1, <1>2, <1>3, <1>4, <1>5, <1>6, <1>7, <1>8, <1>9, <1>10, <1>11, <1>12, <1>13, <1>14,
     <1>15, <1>16 DEF FwNext, Driver, Loader

LEMMA FwSuccess ==
    ASSUME FwIInv, FwNext
    PROVE  DoneInv'
<1>0. ModelKept
  BY FwModelKept DEF FwIInv
<1> USE <1>0 DEF FwIInv, ModelKept, clockVars, DoneInv, PlaceInv, Commands, Buffers
<1>1. CASE WaitRegin
  BY <1>1, ReginEffect DEF ReginChanges
<1>2. CASE WaitRegout
  BY <1>2, RegoutEffect DEF RegoutChanges, Expected
<1>3. CASE ReadVersion
  BY <1>3 DEF ReadVersion, StopBlTimer
<1>4. CASE InvalidateVersion
  BY <1>4 DEF InvalidateVersion, Invalidated, Calls, StartBlTimer
<1>5. CASE Prepare
  BY <1>5 DEF Prepare, Calls, StartBlTimer, Fails, Wrong, AllWell
<1>6. CASE FillRam
  BY <1>6, RamEffect DEF RamChanges
<1>7. CASE Fill
  BY <1>7, FillEffect DEF FillChanges
<1>8. CASE CrcDone
  BY <1>8 DEF CrcDone, Follows, StopBlTimer, AllWell, Noted, CrcFailed
<1>9. CASE NextCommand
  BY <1>9 DEF NextCommand, Calls, StartBlTimer
<1>10. CASE CommandDone
  <2>1. UNCHANGED <<started, ram>>
    BY <1>10, DoneEffect DEF DoneChanges
  <2>2. \/ at' # "done"
        \/ at = "LOAD" /\ call = "pass"
        \/ at = "AUTO_READ_AGAIN" /\ "not_burnt" \in fwUpset'
        \/ at = "JUMP" /\ call = "fail" /\ "jump" \in fwUpset'
        \/ at = "JUMP" /\ call = "pass" /\ CHUNKS \notin ram
    BY <1>10, DoneEffect DEF DoneChanges
  <2>3. at = "LOAD" => ram = {}
    <3>1. model.chip \in {"9113", "9116"}
      BY FwFacts DEF FwKnown
    <3>2. QED
      BY <3>1
  <2>4. QED
    BY <2>1, <2>2, <2>3
<1>11. CASE CommandRefused
  BY <1>11 DEF CommandRefused, Noted
<1>12. CASE LoaderTakes
  BY <1>12, TakeEffect DEF TakeChanges
<1>13. CASE LoaderAnswers
  BY <1>13, AnswerEffect DEF AnswerChanges
<1>14. CASE LoaderBurns
  BY <1>14, BurnEffect DEF BurnChanges
<1>15. CASE BlTimerFires
  BY <1>15, ExpiryEffect DEF ExpiryChanges
<1>16. CASE LateCallback
  BY <1>16 DEF LateCallback
<1>17. QED
  BY <1>1, <1>2, <1>3, <1>4, <1>5, <1>6, <1>7, <1>8, <1>9, <1>10, <1>11, <1>12, <1>13, <1>14,
     <1>15, <1>16 DEF FwNext, Driver, Loader

LEMMA FwTimer ==
    ASSUME FwIInv, FwNext
    PROVE  TimerInv'
<1>0. ModelKept /\ FwKnown
  BY FwModelKept, FwFacts DEF FwIInv
<1> USE <1>0, NoAnswerTyped DEF FwIInv, ModelKept, FwKnown, clockVars, TimerInv, PlaceInv, Places
<1>1. CASE WaitRegin
  BY <1>1, ReginEffect DEF ReginChanges
<1>2. CASE WaitRegout
  BY <1>2, RegoutEffect DEF RegoutChanges
<1>3. CASE ReadVersion
  BY <1>3 DEF ReadVersion, StopBlTimer
<1>4. CASE InvalidateVersion
  BY <1>4 DEF InvalidateVersion, Invalidated, Calls, StartBlTimer
<1>5. CASE Prepare
  BY <1>5 DEF Prepare, Calls, StartBlTimer, Fails, Wrong, AllWell
<1>6. CASE FillRam
  BY <1>6, RamEffect DEF RamChanges
<1>7. CASE Fill
  BY <1>7, FillEffect DEF FillChanges
<1>8. CASE CrcDone
  BY <1>8 DEF CrcDone, Follows, StopBlTimer, AllWell, Noted, CrcFailed
<1>9. CASE NextCommand
  BY <1>9 DEF NextCommand, Calls, StartBlTimer
<1>10. CASE CommandDone
  BY <1>10, DoneEffect DEF DoneChanges
<1>11. CASE CommandRefused
  BY <1>11 DEF CommandRefused, Noted
<1>12. CASE LoaderTakes
  BY <1>12, TakeEffect DEF TakeChanges
<1>13. CASE LoaderAnswers
  BY <1>13, AnswerEffect DEF AnswerChanges
<1>14. CASE LoaderBurns
  BY <1>14, BurnEffect DEF BurnChanges
<1>15. CASE BlTimerFires
  BY <1>15, ExpiryEffect DEF ExpiryChanges
<1>16. CASE LateCallback
  BY <1>16 DEF LateCallback
<1>17. QED
  BY <1>1, <1>2, <1>3, <1>4, <1>5, <1>6, <1>7, <1>8, <1>9, <1>10, <1>11, <1>12, <1>13, <1>14,
     <1>15, <1>16 DEF FwNext, Driver, Loader

LEMMA FwInitInv == FwInit => FwIInv
<1> SUFFICES ASSUME FwInit PROVE FwIInv
  OBVIOUS
<1>1. FwTypeOK
  <2>2. 0 \in 0 .. CHUNKS + 1
    <3>1. CHUNKS \in Nat \ {0}
      BY FwAssumption DEF FwAssumption
    <3>2. QED
      BY <3>1
  <2>1. index \in 0 .. CHUNKS + 1 /\ ram \subseteq 1 .. CHUNKS
    BY <2>2 DEF FwInit
  <2>3. loader \in [doing : Commands \union {"nothing"}, buffer : [Buffers -> 0 .. CHUNKS + 1],
                   busy : SUBSET Buffers, flash : Seq(0 .. CHUNKS + 1), good : BOOLEAN]
    BY <2>2 DEF FwInit
  <2>6. [of |-> "board", ok |-> TRUE] \in Answers
    BY DEF Answers
  <2>4. resp \in Answers /\ regout \in Answers
    BY <2>6, NoAnswerTyped DEF FwInit
  <2>5. QED
    BY <2>1, <2>3, <2>4 DEF FwInit, FwTypeOK, Places
<1>2. PlaceInv /\ AbandonInv /\ PipeInv /\ IdleInv
  BY DEF FwInit, PlaceInv, AbandonInv, PipeInv, IdleInv, Commands, Buffers
<1>3. FlashInv /\ LoadInv /\ GoodInv
  BY DEF FwInit, FlashInv, LoadInv, GoodInv, Buffers
<1>4. AnswersMatch /\ "torn" \notin fwUpset /\ DoneInv /\ TimerInv
  BY DEF FwInit, AnswersMatch, No, DoneInv, TimerInv
<1>5. QED
  BY <1>1, <1>2, <1>3, <1>4 DEF FwIInv

LEMMA FwStepKeepsInv ==
    ASSUME FwIInv, [FwNext]_fwVars PROVE FwIInv'
<1>1. CASE FwNext
  <2>1. FwTypeOK'
    <3>1. model' = model
      BY <1>1, FwModelKept DEF ModelKept, FwIInv
    <3>2. QED
      BY <1>1, <3>1, FwNamesTyped, FwFlagsTyped, FwAnswersTyped, FwIndexTyped, FwLoaderTyped,
         FwUpsetTyped
         DEF FwTypeOK, FwIInv
  <2>2. QED
    BY <1>1, <2>1, FwPlace, FwAbandon, FwPipe, FwIdle, FwFlash, FwLoads, FwGood, FwMatch, FwTorn,
       FwSuccess,
       FwTimer DEF FwIInv
<1>2. CASE UNCHANGED fwVars
  <2>1. FwTypeOK'
    <3>1. FwTypeOK
      BY DEF FwIInv
    <3>2. QED
      BY <1>2, <3>1 DEF fwVars, FwTypeOK
  <2>2. Pieces' = Pieces
    BY <1>2 DEF fwVars, Pieces
  <2>3. PlaceInv' /\ AbandonInv' /\ PipeInv' /\ IdleInv'
    BY <1>2, <2>2 DEF fwVars, FwIInv, PlaceInv, AbandonInv, PipeInv, IdleInv
  <2>4. FlashInv' /\ LoadInv'
    BY <1>2, <2>2 DEF fwVars, FwIInv, FlashInv, LoadInv, InOrder, Taken, Waits
  <2>5. GoodInv' /\ AnswersMatch' /\ "torn" \notin fwUpset' /\ DoneInv' /\ TimerInv'
    BY <1>2 DEF fwVars, FwIInv, GoodInv, AnswersMatch, No, DoneInv, TimerInv
  <2>6. QED
    BY <2>1, <2>3, <2>4, <2>5 DEF FwIInv
<1>3. QED
  BY <1>1, <1>2

\* Each answer is read by the command it answers, no chunk is written into a buffer being burnt, the
\* flash is whole when its image is started, no image that failed its check is started, and
\* success means a start, but for the abandoned commands named in each part (rsi_91x_hal.c).
THEOREM FirmwareSafe == FwSpec => []FwInv
<1>1. FwIInv => FwInv
  <2> SUFFICES ASSUME FwIInv PROVE FwInv
    OBVIOUS
  <2>1. BuffersInTurn
    BY DEF FwIInv, BuffersInTurn, No
  <2>2. BurntWhole
    <3>1. SUFFICES ASSUME at = "LOAD", index > 0
                   PROVE  loader.flash = [i \in 1 .. CHUNKS + (IF model.rest THEN 1 ELSE 0) |-> i]
      BY DEF BurntWhole
    <3>2. Len(loader.flash) = Pieces /\ loader.flash \in Seq(0 .. CHUNKS + 1)
      BY <3>1 DEF FwIInv, FwTypeOK, LoadInv
    <3>3. \A i \in 1 .. Pieces : loader.flash[i] = i
      BY <3>1, <3>2 DEF FwIInv, LoadInv, InOrder
    <3>4. loader.flash = [i \in 1 .. Pieces |-> i]
      BY <3>2, <3>3
    <3>5. QED
      BY <3>4 DEF Pieces
  <2>3. StartsGoodImage
    <3>1. started = TRUE /\ model.chip = "9113" /\ "unchecked" \notin fwUpset => loader.good = TRUE
      BY DEF FwIInv, GoodInv
    <3>2. started \in BOOLEAN
      BY DEF FwIInv, FwTypeOK
    <3>3. QED
      BY <3>1, <3>2 DEF StartsGoodImage, No
  <2>4. SuccessStarts
    BY DEF FwIInv, DoneInv, SuccessStarts, No
  <2>5. TimerStopped
    BY DEF FwIInv, TimerInv, TimerStopped
  <2>6. QED
    BY <2>1, <2>2, <2>3, <2>4, <2>5 DEF FwIInv, FwInv
<1>2. QED
  BY <1>1, FwInitInv, FwStepKeepsInv, PTL DEF FwSpec
=============================================================================
