------------------------------ MODULE SdioBus -------------------------------
(***************************************************************************)
(* The SDIO receive path (rsi_91x_sdio_ops.c) and the two callbacks of     *)
(* rsi_91x_sdio.c that run against it: suspend/resume and disconnect.      *)
(*                                                                         *)
(* Three threads share the adapter without a common lock.  The SDIO        *)
(* interrupt thread reads packets from the card into rx_q; the receive     *)
(* thread takes them out; the power-management core calls rsi_suspend,     *)
(* rsi_resume and rsi_disconnect, one at a time.  Every access to a shared *)
(* variable is a step of its own: num_rx_pkts is incremented and           *)
(* decremented by two threads with plain loads and stores, rx_lock is      *)
(* unlocked by the interrupt handler more often than it locks it, and the  *)
(* receive event is reset after the queue was found empty.                 *)
(***************************************************************************)
EXTENDS Naturals

CONSTANTS
    MAX_RX_PKTS,  \* RSI_SDIO_MAX_RX_PKTS, 100
    U8_RANGE,     \* num_rx_pkts is a u8: 256 values
    SUSPEND_TRIES,\* sleep_time / 10: how often rsi_suspend sleeps before it gives up, 20
    PKT_LIMIT,    \* bound: packets in the card and in rx_q together
    Faults        \* what may fail: a register or block read of the bus, the
                  \* count of blocks, the allocation of an skb, a packet's format

ASSUME LimitsPositive == MAX_RX_PKTS \in Nat \ {0} /\ PKT_LIMIT \in Nat
ASSUME CountFitsInByte == U8_RANGE \in Nat /\ MAX_RX_PKTS < U8_RANGE
ASSUME TriesNatural == SUSPEND_TRIES \in Nat
ASSUME FaultsKnown == Faults \subseteq {"bus", "blocks", "alloc", "format"}

VARIABLES
    card,             \* packets the card holds for the host
    irq,              \* where the interrupt thread stands
    irq_load,         \* its copy of num_rx_pkts
    irq_claimed,      \* the handler is registered with the SDIO core
    rx_lock,          \* the mutex: "free", or who locked it
    rx_in_prog,
    suspend_in_prog,
    rx_q,             \* length of the skb queue
    num_rx_pkts,
    event_set,        \* rx_thread.event: event_condition is 0
    thread_done,
    rx,               \* where the receive thread stands
    rx_load,          \* its copy of num_rx_pkts
    temp_rcv_buf,     \* allocated
    pm,               \* where suspend, resume or disconnect stands
    tries             \* sleeps rsi_suspend has left

irqVars == <<irq, irq_load>>
rxVars  == <<rx, rx_load>>
pmVars  == <<pm, tries, irq_claimed, temp_rcv_buf>>
locking == <<rx_lock, rx_in_prog, suspend_in_prog>>
queue   == <<rx_q, num_rx_pkts>>
thread  == <<event_set, thread_done>>
vars    == <<card, irqVars, rxVars, pmVars, locking, queue, thread>>

IrqPc == {"idle", "lock", "status", "serve", "alloc", "drop", "load", "store",
          "signal", "unlock", "exit_unlock", "exit_mark"}
RxPc  == {"wait", "drain", "read", "test", "load", "store", "check", "reset",
          "exit", "exited", "dead"}
PmPc  == {"idle", "lock", "check", "set", "sleep", "suspended", "kill", "kill_set",
          "stop", "release", "free", "gone"}
Bytes == 0 .. U8_RANGE - 1
Byte(n) == n % U8_RANGE     \* what a u8 keeps of n

TypeOK ==
    /\ card \in Nat
    /\ irq \in IrqPc /\ irq_load \in Bytes /\ irq_claimed \in BOOLEAN
    /\ rx_lock \in {"free", "irq", "suspend"}
    /\ rx_in_prog \in BOOLEAN /\ suspend_in_prog \in BOOLEAN
    /\ rx_q \in Nat /\ num_rx_pkts \in Bytes
    /\ event_set \in BOOLEAN /\ thread_done \in Nat
    /\ rx \in RxPc /\ rx_load \in Bytes
    /\ temp_rcv_buf \in BOOLEAN
    /\ pm \in PmPc /\ tries \in 0 .. SUSPEND_TRIES

\* Probe has created the receive thread and claimed the interrupt.
Init ==
    /\ card = 0
    /\ irq = "idle" /\ irq_load = 0 /\ irq_claimed = TRUE
    /\ rx_lock = "free" /\ rx_in_prog = FALSE /\ suspend_in_prog = FALSE
    /\ rx_q = 0 /\ num_rx_pkts = 0
    /\ event_set = FALSE /\ thread_done = 0
    /\ rx = "wait" /\ rx_load = 0
    /\ temp_rcv_buf = TRUE
    /\ pm = "idle" /\ tries = 0

-----------------------------------------------------------------------------
(* rsi_handle_interrupt, rsi_interrupt_handler and rsi_process_pkt          *)

\* The firmware has a packet for the host.
PacketArrives ==
    /\ card + rx_q < PKT_LIMIT
    /\ card' = card + 1
    /\ UNCHANGED <<irqVars, rxVars, pmVars, locking, queue, thread>>

Interrupt ==
    /\ irq = "idle" /\ irq_claimed
    /\ irq' = "lock"
    /\ UNCHANGED <<card, irq_load, rxVars, pmVars, locking, queue, thread>>

\* The balanced section at the top: lock, set rx_in_prog, unlock.  While a
\* suspend is in progress the handler goes on all the same.
MarkRx ==
    /\ irq = "lock" /\ rx_lock = "free"
    /\ rx_in_prog' = ~suspend_in_prog
    /\ irq' = "status"
    /\ UNCHANGED <<card, irq_load, rxVars, pmVars, rx_lock, suspend_in_prog, queue, thread>>

\* The interrupt status register: unreadable; nothing pending; something that
\* leaves the receive path alone (buffer available, assert); a packet.
ReadStatus ==
    /\ irq = "status"
    /\ \/ "bus" \in Faults /\ irq' = "exit_unlock"
       \/ card = 0 /\ irq' \in {"exit_unlock", "unlock"}
       \/ card > 0 /\ irq' = "serve"
    /\ UNCHANGED <<card, irq_load, rxVars, pmVars, locking, queue, thread>>

\* rsi_process_pkt up to its choice between queueing and dropping.
QueueFull == num_rx_pkts >= MAX_RX_PKTS

ProcessPkt ==
    /\ irq = "serve"
    /\ \/ Faults \cap {"bus", "blocks"} # {} /\ irq' = "exit_unlock"
       \/ irq' = IF QueueFull THEN "drop" ELSE "alloc"
    /\ UNCHANGED <<card, irq_load, rxVars, pmVars, locking, queue, thread>>

\* Allocate, read the packet from the card, skb_queue_tail.
QueuePkt ==
    /\ irq = "alloc"
    /\ \/ /\ "alloc" \in Faults
          /\ irq' = "drop"
          /\ UNCHANGED <<card, rx_q>>
       \/ /\ "bus" \in Faults
          /\ irq' = "exit_unlock"
          /\ UNCHANGED <<card, rx_q>>
       \/ /\ card' = card - 1
          /\ rx_q' = rx_q + 1
          /\ irq' = "load"
    /\ UNCHANGED <<irq_load, rxVars, pmVars, locking, num_rx_pkts, thread>>

\* DROP_PKT: the packet is read into temp_rcv_buf and forgotten.
DropPkt ==
    /\ irq = "drop"
    /\ card' \in {card - 1} \cup (IF "bus" \in Faults THEN {card} ELSE {})
    /\ irq' = "signal"
    /\ UNCHANGED <<irq_load, rxVars, pmVars, locking, queue, thread>>

\* num_rx_pkts++ is a load and a store.
LoadCount ==
    /\ irq = "load"
    /\ irq_load' = num_rx_pkts
    /\ irq' = "store"
    /\ UNCHANGED <<card, rxVars, pmVars, locking, queue, thread>>

StoreCount ==
    /\ irq = "store"
    /\ num_rx_pkts' = Byte(irq_load + 1)
    /\ irq' = "signal"
    /\ UNCHANGED <<card, irq_load, rxVars, pmVars, locking, rx_q, thread>>

\* (mutant: the packet is queued and the thread is not told)
SignalRx_Silent ==
    /\ irq = "signal"
    /\ irq' = "unlock"
    /\ UNCHANGED <<card, irq_load, rxVars, pmVars, locking, queue, thread>>

SignalRx ==
    /\ irq = "signal"
    /\ event_set' = TRUE
    /\ irq' = "unlock"
    /\ UNCHANGED <<card, irq_load, rxVars, pmVars, locking, queue, thread_done>>

\* The unlock at the end of every round, of a mutex the handler does not hold.
UnlockRound ==
    /\ irq = "unlock"
    /\ rx_lock' = "free"
    /\ irq' = "status"
    /\ UNCHANGED <<card, irq_load, rxVars, pmVars, rx_in_prog, suspend_in_prog, queue, thread>>

\* The early returns: unlock it once more, then clear rx_in_prog outside it.
UnlockAtExit ==
    /\ irq = "exit_unlock"
    /\ rx_lock' = "free"
    /\ irq' = "exit_mark"
    /\ UNCHANGED <<card, irq_load, rxVars, pmVars, rx_in_prog, suspend_in_prog, queue, thread>>

LeaveHandler ==
    /\ irq = "exit_mark"
    /\ rx_in_prog' = FALSE
    /\ irq' = "idle"
    /\ UNCHANGED <<card, irq_load, rxVars, pmVars, rx_lock, suspend_in_prog, queue, thread>>

Handle == \/ MarkRx \/ ReadStatus \/ ProcessPkt \/ QueuePkt \/ DropPkt
          \/ LoadCount \/ StoreCount \/ SignalRx
          \/ UnlockRound \/ UnlockAtExit \/ LeaveHandler

-----------------------------------------------------------------------------
(* rsi_sdio_rx_thread                                                       *)

RxWake ==
    /\ rx = "wait" /\ event_set
    /\ rx' = IF thread_done > 0 THEN "exit" ELSE "drain"
    /\ UNCHANGED <<card, irqVars, rx_load, pmVars, locking, queue, thread>>

RxDequeue ==
    /\ rx = "drain"
    /\ \/ rx_q > 0 /\ rx_q' = rx_q - 1 /\ rx' = "read"
       \/ rx_q = 0 /\ rx_q' = rx_q /\ rx' = "reset"
    /\ UNCHANGED <<card, irqVars, rx_load, pmVars, locking, num_rx_pkts, thread>>

\* rsi_read_pkt; a packet it rejects makes the thread function return.
RxRead ==
    /\ rx = "read"
    /\ \/ rx' = "test"
       \/ "format" \in Faults /\ rx' = "dead"
    /\ UNCHANGED <<card, irqVars, rx_load, pmVars, locking, queue, thread>>

\* (mutant: the count is decremented whatever it is)
RxTest_Unchecked ==
    /\ rx = "test"
    /\ rx' = "load"
    /\ UNCHANGED <<card, irqVars, rx_load, pmVars, locking, queue, thread>>

\* if (num_rx_pkts > 0) num_rx_pkts--, again a load and a store.
RxTest ==
    /\ rx = "test"
    /\ rx' = IF num_rx_pkts > 0 THEN "load" ELSE "check"
    /\ UNCHANGED <<card, irqVars, rx_load, pmVars, locking, queue, thread>>

RxLoadCount ==
    /\ rx = "load"
    /\ rx_load' = num_rx_pkts
    /\ rx' = "store"
    /\ UNCHANGED <<card, irqVars, pmVars, locking, queue, thread>>

RxStoreCount ==
    /\ rx = "store"
    /\ num_rx_pkts' = Byte(rx_load + U8_RANGE - 1)
    /\ rx' = "check"
    /\ UNCHANGED <<card, irqVars, rx_load, pmVars, locking, rx_q, thread>>

\* After each packet: stop if asked to, resetting the event on the way out.
RxCheckDone ==
    /\ rx = "check"
    /\ \/ thread_done = 0 /\ rx' = "drain" /\ UNCHANGED event_set
       \/ thread_done > 0 /\ rx' = "exit" /\ event_set' = FALSE
    /\ UNCHANGED <<card, irqVars, rx_load, pmVars, locking, queue, thread_done>>

\* The queue was empty: reset the event, whoever set it in the meantime.
RxReset ==
    /\ rx = "reset"
    /\ event_set' = FALSE
    /\ rx' = "wait"
    /\ UNCHANGED <<card, irqVars, rx_load, pmVars, locking, queue, thread_done>>

RxExit ==
    /\ rx = "exit"
    /\ rx_q' = 0
    /\ thread_done' = thread_done + 1
    /\ rx' = "exited"
    /\ UNCHANGED <<card, irqVars, rx_load, pmVars, locking, num_rx_pkts, event_set>>

Receive == \/ RxWake \/ RxDequeue \/ RxRead \/ RxTest \/ RxLoadCount \/ RxStoreCount
           \/ RxCheckDone \/ RxReset \/ RxExit

-----------------------------------------------------------------------------
(* rsi_suspend and rsi_resume                                               *)

SuspendStart ==
    /\ pm = "idle" /\ irq_claimed
    /\ pm' = "lock"
    /\ tries' = SUSPEND_TRIES
    /\ UNCHANGED <<card, irqVars, rxVars, irq_claimed, temp_rcv_buf, locking, queue, thread>>

SuspendLock ==
    /\ pm = "lock" /\ rx_lock = "free"
    /\ rx_lock' = "suspend"
    /\ pm' = "check"
    /\ UNCHANGED <<card, irqVars, rxVars, tries, irq_claimed, temp_rcv_buf,
                   rx_in_prog, suspend_in_prog, queue, thread>>

\* No receive in progress, and nothing to transmit (the other conjuncts,
\* either way): go on.  Otherwise unlock, and sleep or give up.
SuspendCheck ==
    /\ pm = "check"
    /\ \/ /\ ~rx_in_prog
          /\ pm' = "set"
          /\ UNCHANGED <<tries, rx_lock>>
       \/ /\ rx_lock' = "free"
          /\ IF tries > 0 THEN pm' = "sleep" /\ tries' = tries - 1
                          ELSE pm' = "idle" /\ tries' = tries
    /\ UNCHANGED <<card, irqVars, rxVars, irq_claimed, temp_rcv_buf, rx_in_prog,
                   suspend_in_prog, queue, thread>>

SuspendSet ==
    /\ pm = "set"
    /\ suspend_in_prog' = TRUE
    /\ rx_lock' = "free"
    /\ pm' = "suspended"
    /\ UNCHANGED <<card, irqVars, rxVars, tries, irq_claimed, temp_rcv_buf, rx_in_prog,
                   queue, thread>>

SuspendSleep ==
    /\ pm = "sleep"
    /\ pm' = "lock"
    /\ UNCHANGED <<card, irqVars, rxVars, tries, irq_claimed, temp_rcv_buf, locking,
                   queue, thread>>

Resume ==
    /\ pm = "suspended"
    /\ suspend_in_prog' = FALSE
    /\ pm' = "idle"
    /\ UNCHANGED <<card, irqVars, rxVars, tries, irq_claimed, temp_rcv_buf, rx_lock,
                   rx_in_prog, queue, thread>>

-----------------------------------------------------------------------------
(* rsi_disconnect, from rsi_kill_thread(&dev->rx_thread) on                 *)

DisconnectStart ==
    /\ pm = "idle" /\ irq_claimed
    /\ pm' = "kill"
    /\ UNCHANGED <<card, irqVars, rxVars, tries, irq_claimed, temp_rcv_buf, locking,
                   queue, thread>>

KillMark ==
    /\ pm = "kill"
    /\ \/ thread_done > 0 /\ pm' = "release" /\ UNCHANGED thread_done
       \/ thread_done = 0 /\ pm' = "kill_set" /\ thread_done' = thread_done + 1
    /\ UNCHANGED <<card, irqVars, rxVars, tries, irq_claimed, temp_rcv_buf, locking,
                   queue, event_set>>

KillSet ==
    /\ pm = "kill_set"
    /\ event_set' = TRUE
    /\ pm' = "stop"
    /\ UNCHANGED <<card, irqVars, rxVars, tries, irq_claimed, temp_rcv_buf, locking,
                   queue, thread_done>>

\* kthread_stop returns when the thread function has.
StopReturns ==
    /\ pm = "stop" /\ rx \in {"exited", "dead"}
    /\ pm' = "release"
    /\ UNCHANGED <<card, irqVars, rxVars, tries, irq_claimed, temp_rcv_buf, locking,
                   queue, thread>>

\* (mutant: the buffer goes while the handler may still run)
ReleaseIrq_Unclaimed ==
    /\ pm = "release"
    /\ irq_claimed' = FALSE
    /\ pm' = "free"
    /\ UNCHANGED <<card, irqVars, rxVars, tries, temp_rcv_buf, locking, queue, thread>>

\* sdio_release_irq, with the host claimed: the handler is not running.
ReleaseIrq ==
    /\ pm = "release" /\ irq = "idle"
    /\ irq_claimed' = FALSE
    /\ pm' = "free"
    /\ UNCHANGED <<card, irqVars, rxVars, tries, temp_rcv_buf, locking, queue, thread>>

FreeBuffer ==
    /\ pm = "free"
    /\ temp_rcv_buf' = FALSE
    /\ pm' = "gone"
    /\ UNCHANGED <<card, irqVars, rxVars, tries, irq_claimed, locking, queue, thread>>

Suspend    == SuspendStart \/ SuspendLock \/ SuspendCheck \/ SuspendSet \/ SuspendSleep \/ Resume
Disconnect == KillMark \/ KillSet \/ StopReturns \/ ReleaseIrq \/ FreeBuffer

Next == \/ PacketArrives \/ Interrupt \/ Handle
        \/ Receive
        \/ Suspend \/ DisconnectStart \/ Disconnect

Spec == Init /\ [][Next]_vars

\* Each thread keeps running; a raised interrupt is served.  Packets, suspend
\* and disconnect come when they come.
Fairness == /\ WF_vars(card > 0 /\ Interrupt)
            /\ WF_vars(Handle)
            /\ WF_vars(Receive)
            /\ WF_vars(Disconnect)

FairSpec == Spec /\ Fairness

-----------------------------------------------------------------------------
(* Properties                                                               *)

\* The count both threads update without a lock stays within 0 and
\* RSI_SDIO_MAX_RX_PKTS: a lost update may make it wrong, yet neither the
\* increment passes the limit rsi_process_pkt tested several steps earlier nor
\* does the decrement wrap the byte below zero (sdio_ops.c 69-70, 142, 170).
CountBounded == num_rx_pkts <= MAX_RX_PKTS

\* The interrupt handler never uses the drop buffer once rsi_disconnect has
\* freed it: disconnect first takes the interrupt away (sdio.c 1237-1240).
TempBufAlive == irq # "idle" => temp_rcv_buf

\* As long as packets keep being announced, a queued packet is taken out, or
\* the driver is being disconnected, or a malformed packet has ended the thread:
\* an event reset after the drain (sdio_ops.c 77) is made good by the next one.
PacketsKeepMoving ==
    []<>(irq = "signal") => (rx_q > 0 ~> rx \in {"read", "dead"} \/ thread_done > 0)

\* rsi_suspend does not succeed while a receive is in progress (sdio.c 1401,
\* "Returning failure for suspend as TX/RX is pending").
SuspendExcludesRx == [][SuspendSet => ~rx_in_prog]_vars

\* Once the card is quiet, rsi_disconnect undoes the probe and returns (sdio.c
\* 1199, "performs the reverse of the probe function").
DisconnectCompletes == <>[](irq = "idle") => (pm = "kill" ~> pm = "gone")
=============================================================================
