------------------------------ MODULE TxSched -------------------------------
(***************************************************************************)
(* The WLAN tx scheduler (rsi_91x_core.c, rsi_91x_main.c): the soft queues *)
(* rsi_core_xmit and the management frames fill, the weighted choice of    *)
(* the next queue, bursts, blocked data queues, a device whose buffers are *)
(* full, and the thread that sleeps on tx_thread.event in between.         *)
(*                                                                         *)
(* The choice of a queue is two steps: the scan for the least back off and *)
(* the recalculation of the weights.  Packets may be queued between them.  *)
(***************************************************************************)
EXTENDS Integers

CONSTANTS
    NUM_EDCA_QUEUES,
    wme_params,     \* tx_qinfo[q].wme_params: the back off a queue starts with
    BURST,          \* packets a queue may send in a row (VO_Q and VI_Q; else 0)
    U8_RANGE,       \* 256: min_weight is a u8, the weights it is compared with s32
    MaxLen,         \* bound: packets queued per queue
    DeviceAnswers,  \* what check_hw_queue_status may return
    Troubles        \* what else may come between: data blocked, the management
                    \* queue purged, a connection, access denied, a failed write

DataQs        == 0 .. NUM_EDCA_QUEUES - 1
MGMT_SOFT_Q   == NUM_EDCA_QUEUES
MGMT_BEACON_Q == NUM_EDCA_QUEUES + 1
SoftQs        == 0 .. NUM_EDCA_QUEUES + 1

ASSUME QueuesExist == NUM_EDCA_QUEUES \in Nat \ {0}
ASSUME ParamsKnown ==
    /\ wme_params \in [DataQs -> Nat \ {0}]     \* SIFS_DURATION is part of it
    /\ BURST \in [DataQs -> Nat]
    /\ U8_RANGE \in Nat \ {0}
    /\ MaxLen \in Nat \ {0}
    /\ DeviceAnswers \subseteq {"QUEUE_NOT_FULL", "QUEUE_FULL", "error"}
    /\ Troubles \subseteq {"block", "purge", "connect", "denied", "unsent"}

VARIABLES
    len,            \* skb_queue_len(tx_queue[q])
    contended,      \* tx_qinfo[q].pkt_contended
    weight,         \* tx_qinfo[q].weight
    min_weight,
    pkt_cnt,        \* packets left of the current burst
    selected_qnum,
    q_num,          \* local: the queue this turn of the loop serves
    at,             \* where the tx scheduler thread stands
    why,            \* why it last left rsi_core_qos_processor
    event,          \* tx_thread.event is set
    producer,       \* a caller has queued a packet and not yet set the event
    hw_data_qs_blocked,
    unblocking,     \* rsi_inform_bss_status has sent the unblock frame
    buffer_full     \* rx_info.buffer_full

qinfo    == <<contended, weight, min_weight>>
turn     == <<pkt_cnt, selected_qnum, q_num>>
blocking == <<hw_data_qs_blocked, unblocking>>
schedVars     == <<len, qinfo, turn, at, why, event, producer, blocking, buffer_full>>

SchedTypeOK ==
    /\ len \in [SoftQs -> Nat]
    /\ contended \in [DataQs -> BOOLEAN]
    /\ weight \in [DataQs -> Nat]
    /\ min_weight \in Nat
    /\ pkt_cnt \in Nat
    /\ selected_qnum \in SoftQs
    /\ q_num \in SoftQs
    /\ at \in {"wait", "access", "select", "contend", "recalc", "check", "send"}
    /\ why \in {"empty", "blocked", "full", "null", "unsent", "denied"}
    /\ event \in BOOLEAN
    /\ producer \in BOOLEAN
    /\ hw_data_qs_blocked \in BOOLEAN
    /\ unblocking \in BOOLEAN
    /\ buffer_full \in BOOLEAN

SchedInit ==
    /\ len = [q \in SoftQs |-> 0]
    /\ contended = [q \in DataQs |-> FALSE]
    /\ weight = [q \in DataQs |-> 0]
    /\ min_weight = 0
    /\ pkt_cnt = 0
    /\ selected_qnum = 0
    /\ q_num = 0
    /\ at = "wait"
    /\ why = "empty"
    /\ event = FALSE
    /\ producer = FALSE
    /\ hw_data_qs_blocked = FALSE
    /\ unblocking = FALSE
    /\ buffer_full = FALSE

-----------------------------------------------------------------------------
(* Producers: rsi_core_xmit, rsi_send_internal_mgmt_frame, beacons         *)

QueuePkt(q) ==
    /\ ~producer
    /\ len[q] < MaxLen
    /\ len' = [len EXCEPT ![q] = @ + 1]
    /\ producer' = TRUE
    /\ UNCHANGED <<qinfo, turn, at, why, event, blocking, buffer_full>>

ScheduleThread ==
    /\ producer
    /\ event' = TRUE
    /\ producer' = FALSE
    /\ UNCHANGED <<len, qinfo, turn, at, why, blocking, buffer_full>>

\* A cancelled scan empties the management queue (rsi_scan_start).
PurgeMgmt ==
    /\ "purge" \in Troubles
    /\ len[MGMT_SOFT_Q] > 0
    /\ len' = [len EXCEPT ![MGMT_SOFT_Q] = 0]
    /\ UNCHANGED <<qinfo, turn, at, why, event, producer, blocking, buffer_full>>

\* A connection sets the contention values anew (rsi_set_contention_vals).
SetContentionVals ==
    /\ "connect" \in Troubles
    /\ weight' = wme_params
    /\ contended' = [q \in DataQs |-> FALSE]
    /\ UNCHANGED <<len, min_weight, turn, at, why, event, producer, blocking, buffer_full>>

BlockData ==
    /\ "block" \in Troubles
    /\ ~hw_data_qs_blocked
    /\ ~unblocking
    /\ hw_data_qs_blocked' = TRUE
    /\ UNCHANGED <<len, qinfo, turn, at, why, event, producer, unblocking, buffer_full>>

\* The unblock frame is queued and the event set; then the flag is cleared.
SendUnblockFrame ==
    /\ hw_data_qs_blocked
    /\ ~unblocking
    /\ len[MGMT_SOFT_Q] < MaxLen
    /\ len' = [len EXCEPT ![MGMT_SOFT_Q] = @ + 1]
    /\ event' = TRUE
    /\ unblocking' = TRUE
    /\ UNCHANGED <<qinfo, turn, at, why, producer, hw_data_qs_blocked, buffer_full>>

UnblockData ==
    /\ unblocking
    /\ hw_data_qs_blocked' = FALSE
    /\ unblocking' = FALSE
    /\ UNCHANGED <<len, qinfo, turn, at, why, event, producer, buffer_full>>

\* Every interrupt ends in isr_status 0, which sets the event; one that says
\* "buffer available" reads the buffer status first.
Interrupt ==
    /\ event' = TRUE
    /\ buffer_full' \in {buffer_full, FALSE}
    /\ UNCHANGED <<len, qinfo, turn, at, why, producer, blocking>>

-----------------------------------------------------------------------------
(* The thread: rsi_tx_scheduler_thread                                     *)

Leave(reason) == at' = "wait" /\ why' = reason

\* With buffer_full the wait has a timeout of 2 jiffies.
ThreadWakes ==
    /\ at = "wait"
    /\ event \/ buffer_full
    /\ event' = FALSE
    /\ at' = "access"
    /\ UNCHANGED <<len, qinfo, turn, why, producer, blocking, buffer_full>>

\* set_clr_tx_intention, granted or not.
AskAccess ==
    /\ at = "access"
    /\ \/ at' = "select" /\ UNCHANGED why
       \/ "denied" \in Troubles /\ Leave("denied")
    /\ UNCHANGED <<len, qinfo, turn, event, producer, blocking, buffer_full>>

-----------------------------------------------------------------------------
(* rsi_core_determine_hal_queue                                            *)

Backlogged(q) == contended[q] /\ len[q] > 0

u8(w) == w % U8_RANGE

\* rsi_determine_min_weight_queue: the first contended queue with packets.
FirstBacklogged(f) == Backlogged(f) /\ \A r \in DataQs : Backlogged(r) => f <= r

\* The later queues whose weight is below what min_weight holds of the first's.
Below(f) == {r \in DataQs : Backlogged(r) /\ weight[r] < u8(weight[f])}

\* The first queue, or the least of those below it (ties to the lower number).
LeastBackOff(q) ==
    \E f \in DataQs :
        /\ FirstBacklogged(f)
        /\ IF Below(f) = {}
           THEN q = f
           ELSE /\ q \in Below(f)
                /\ \A r \in Below(f) :
                      weight[q] < weight[r] \/ (weight[q] = weight[r] /\ q <= r)

Serve(q) == q_num' = q /\ at' = "check"

SelectMgmt ==
    /\ IF len[MGMT_BEACON_Q] > 0 THEN Serve(MGMT_BEACON_Q) ELSE Serve(MGMT_SOFT_Q)
    /\ UNCHANGED <<qinfo, pkt_cnt, selected_qnum, why>>

SelectBurst ==
    /\ pkt_cnt' = pkt_cnt - 1
    /\ Serve(selected_qnum)
    /\ UNCHANGED <<qinfo, selected_qnum, why>>

Select ==
    /\ at = "select"
    /\ IF len[MGMT_BEACON_Q] > 0 \/ len[MGMT_SOFT_Q] > 0 THEN SelectMgmt
       ELSE IF hw_data_qs_blocked THEN Leave("blocked") /\ UNCHANGED <<qinfo, turn>>
       ELSE IF pkt_cnt # 0 THEN SelectBurst
       ELSE at' = "contend" /\ UNCHANGED <<qinfo, turn, why>>
    /\ UNCHANGED <<len, event, producer, blocking, buffer_full>>

\* With no contended queue q_num is NUM_EDCA_QUEUES and min_weight is stale.
SelectByWeight ==
    /\ at = "contend"
    /\ \/ \E q \in DataQs :
             /\ LeastBackOff(q)
             /\ q_num' = q
             /\ min_weight' = u8(weight[q])
             /\ contended' = [contended EXCEPT ![q] = FALSE]
       \/ /\ \A q \in DataQs : ~Backlogged(q)
          /\ q_num' = NUM_EDCA_QUEUES
          /\ UNCHANGED <<min_weight, contended>>
    /\ at' = "recalc"
    /\ UNCHANGED <<len, weight, pkt_cnt, selected_qnum, why, event, producer,
                   blocking, buffer_full>>

Freshly(q) == len[q] > 0 /\ ~contended[q]

Reduced(w) == IF w > min_weight THEN w - min_weight ELSE 0

\* (mutant: the queues that wait do not come nearer)
RecalculateWeights_Kept ==
    /\ contended' = [q \in DataQs |-> len[q] > 0]
    /\ weight' = [q \in DataQs |-> IF len[q] = 0 THEN 0
                                   ELSE IF Freshly(q) THEN wme_params[q]
                                   ELSE weight[q]]
    /\ UNCHANGED min_weight

\* rsi_recalculate_weights
RecalculateWeights ==
    /\ contended' = [q \in DataQs |-> len[q] > 0]
    /\ weight' = [q \in DataQs |-> IF len[q] = 0 THEN 0
                                   ELSE IF Freshly(q) THEN wme_params[q]
                                   ELSE Reduced(weight[q])]
    /\ UNCHANGED min_weight

\* (mutant: the burst is not limited by what is queued)
Burst_Unlimited(q) == IF BURST[q] # 0 THEN BURST[q] - 1 ELSE 0

\* What is left of a burst after its first packet.
Burst(q) == LET n == IF len[q] <= BURST[q] THEN len[q] ELSE BURST[q]
            IN  IF n # 0 THEN n - 1 ELSE 0

Recalculate ==
    /\ at = "recalc"
    /\ RecalculateWeights
    /\ IF len[q_num] > 0
       THEN /\ selected_qnum' = q_num
            /\ pkt_cnt' = IF q_num \in DataQs THEN Burst(q_num) ELSE pkt_cnt
            /\ at' = "check"
            /\ UNCHANGED why
       ELSE /\ IF \E q \in DataQs : Freshly(q)
               THEN at' = "contend" /\ UNCHANGED why
               ELSE Leave("empty")
            /\ UNCHANGED <<pkt_cnt, selected_qnum>>
    /\ UNCHANGED <<len, q_num, event, producer, blocking, buffer_full>>

-----------------------------------------------------------------------------
(* rsi_core_qos_processor                                                  *)

\* (mutant: a full device is not remembered)
DeviceSays_Forgotten(answer) ==
    /\ answer \in DeviceAnswers
    /\ UNCHANGED buffer_full

\* check_hw_queue_status: what it answers for a data queue is buffer_full; the
\* other queues have a flag of their own and leave buffer_full refreshed.
DeviceSays(answer) ==
    /\ answer \in DeviceAnswers
    /\ buffer_full' \in CASE answer = "error" -> {buffer_full}
                         [] q_num \in DataQs -> {answer = "QUEUE_FULL"}
                         [] OTHER -> BOOLEAN

CheckNotFull ==
    /\ at = "check"
    /\ DeviceSays("QUEUE_NOT_FULL")
    /\ at' = "send"
    /\ UNCHANGED <<len, qinfo, turn, why, event, producer, blocking>>

\* A full device ends the turn, but not for a beacon, nor for the management
\* queue while peer_notify is set (either may be the case here).
CheckFull ==
    /\ at = "check"
    /\ \E answer \in {"QUEUE_FULL", "error"} :
          /\ DeviceSays(answer)
          /\ \/ /\ q_num # MGMT_BEACON_Q
                /\ Leave(IF answer = "QUEUE_FULL" /\ q_num \in DataQs THEN "full" ELSE "unsent")
             \/ q_num \notin DataQs /\ at' = "send" /\ UNCHANGED why
    /\ UNCHANGED <<len, qinfo, turn, event, producer, blocking>>

\* The packet is gone whether or not it could be written.
Send ==
    /\ at = "send"
    /\ IF len[q_num] = 0
       THEN Leave("null") /\ UNCHANGED len
       ELSE /\ len' = [len EXCEPT ![q_num] = @ - 1]
            /\ \/ at' = "select" /\ UNCHANGED why
               \/ "unsent" \in Troubles /\ Leave("unsent")
    /\ UNCHANGED <<qinfo, turn, event, producer, blocking, buffer_full>>

-----------------------------------------------------------------------------
Producers   == (\E q \in SoftQs : QueuePkt(q)) \/ ScheduleThread \/ PurgeMgmt
Others      == SetContentionVals \/ BlockData \/ SendUnblockFrame \/ UnblockData \/ Interrupt
Turn        == AskAccess \/ Select \/ SelectByWeight \/ Recalculate \/ CheckFull \/ Send
SchedThread == ThreadWakes \/ CheckNotFull \/ Turn

SchedNext == Producers \/ Others \/ SchedThread

SchedSpec == SchedInit /\ [][SchedNext]_schedVars

(***************************************************************************)
(* The kernel runs the thread and the producers; the device interrupts     *)
(* when its buffers drain; and it is not full each time a given queue has  *)
(* its turn.                                                               *)
(***************************************************************************)
SchedFairness ==
    /\ WF_schedVars(ThreadWakes) /\ WF_schedVars(Turn)
    /\ WF_schedVars(ScheduleThread)
    /\ WF_schedVars(Interrupt)
    /\ \A q \in SoftQs : SF_schedVars(CheckNotFull /\ q_num = q)

SchedFairSpec == SchedSpec /\ SchedFairness

-----------------------------------------------------------------------------
(* Properties                                                              *)

\* A burst is backed by packets: while pkt_cnt is left, the selected queue
\* holds at least as many, so a turn given to a data queue without looking at
\* it (rsi_core_determine_hal_queue returns selected_qnum) finds a packet.
BurstBacked ==
    /\ pkt_cnt > 0 => len[selected_qnum] >= pkt_cnt
    /\ at \in {"check", "send"} /\ q_num \in DataQs =>
          selected_qnum = q_num /\ len[q_num] > pkt_cnt

\* The thread never sleeps on work it could do: if packets are queued and
\* nobody is about to set its event, it polls a full device, or it left its
\* loop for one of the reasons the code gives up on: data blocked, access
\* denied, a failed write or status read, a management queue that filled up
\* or was emptied under its hands.
NoLostWork ==
    /\ at = "wait"
    /\ ~event
    /\ ~producer
    /\ \E q \in SoftQs : len[q] > 0
    => buffer_full \/ why \in {"blocked", "denied", "unsent", "null"}

\* No access category starves: as long as data gets turns at all (management
\* packets and blocks leave gaps, a data queue is chosen again and again) and
\* connections do not reset the weights for ever, every data queue with
\* packets is served, whatever the other queues hold.  A back off that is a
\* multiple of 256 is left out: min_weight would be 0, and nobody else's weight
\* would shrink while that queue is busy.
NoStarvation ==
    /\ \A q \in DataQs : u8(wme_params[q]) # 0
    /\ []<>(at = "check" /\ q_num \in DataQs)
    /\ <>[][~SetContentionVals]_schedVars
    => \A q \in DataQs : len[q] > 0 ~> at = "send" /\ q_num = q

\* "Selecting the queue with least back off" (rsi_91x_core.c): no queue that
\* contends has a smaller back off than the one chosen.
LeastBackOffServed ==
    [][\A q \in DataQs :
          SelectByWeight /\ q_num' = q
              => \A r \in DataQs : Backlogged(r) => weight[q] <= weight[r]]_schedVars

\* What makes BurstBacked and NoLostWork inductive.  Work: somebody has queued
\* a packet the thread will be woken for.
Work == event \/ producer

BurstInv ==
    /\ pkt_cnt > 0 => selected_qnum \in DataQs /\ len[selected_qnum] >= pkt_cnt
    /\ at \in {"contend", "recalc"} => pkt_cnt = 0
    /\ at \in {"check", "send"} /\ q_num \in DataQs =>
          selected_qnum = q_num /\ len[q_num] > pkt_cnt

WorkInv ==
    /\ at = "wait" /\ why = "empty" => Work \/ \A q \in SoftQs : len[q] = 0
    /\ at = "wait" /\ why = "full" => buffer_full \/ event
    /\ at \in {"contend", "recalc"} =>
          Work \/ (len[MGMT_SOFT_Q] = 0 /\ len[MGMT_BEACON_Q] = 0)
    /\ at = "recalc" =>
          \/ q_num \in DataQs /\ len[q_num] > 0
          \/ q_num = MGMT_SOFT_Q /\ (Work \/ \A q \in DataQs : ~Backlogged(q))

SchedInv == SchedTypeOK /\ BurstInv /\ WorkInv
=============================================================================
