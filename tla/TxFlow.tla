------------------------------- MODULE TxFlow -------------------------------
(***************************************************************************)
(* Flow control between mac80211 and the soft queues: rsi_core_xmit stops  *)
(* mac80211's queues when the soft queues grow, rsi_core_qos_processor     *)
(* wakes them as it dequeues.  The lengths are read without a lock.  The   *)
(* bounds of the code are scaled down with their order kept.               *)
(***************************************************************************)
EXTENDS Naturals

CONSTANTS
    STOP_OWN,      \* STOP_OWN[q]: host_txq_maxlen[q] - NW_QUEUE_STOP_OFFSET
    VO_STOP, VI_STOP, BE_STOP,            \* 15, 30, 60: longer stops the lower ones
    LATE_BE_STOP, LATE_STOP,              \* 5, 10: the same when VI's AIFS is above BE's
    VO_WAKE, VI_WAKE, BE_WAKE, BK_WAKE,   \* 100, 150, 25, 10: shorter wakes the queue
    VI_LOW, BE_LOW,                       \* 5, 15: shorter lets the lower ones be woken
    MAX_QLEN                              \* bound of the model: frames in VI's queue

ACs == {"BK", "BE", "VI", "VO"}

ASSUME FlowAssumption ==
    /\ STOP_OWN \in [ACs -> Nat]
    /\ {VO_STOP, VI_STOP, BE_STOP, LATE_BE_STOP, LATE_STOP} \subseteq Nat
    /\ {VO_WAKE, VI_WAKE, BE_WAKE, BK_WAKE, VI_LOW, BE_LOW, MAX_QLEN} \subseteq Nat \ {0}
    /\ VO_WAKE <= STOP_OWN["VO"] /\ BE_WAKE <= STOP_OWN["BE"] /\ BK_WAKE <= STOP_OWN["BK"]

VARIABLES
    qlen,      \* qlen[q]: skb_queue_len(&common->tx_queue[q])
    stopped,   \* the queues of mac80211 that are stopped
    xmit,      \* rsi_core_xmit: [at, q, stops], stops: the queues it has decided to stop
    edca,      \* [acm: edca_params[VI_Q].acm, late: edca_params[VI_Q].aifs > [BE_Q].aifs]
    lateStop   \* auxiliary: a queue was stopped after the last frame had left

flowVars == <<qlen, stopped, xmit, edca, lateStop>>

FlowTypeOK ==
    /\ qlen \in [ACs -> Nat]
    /\ stopped \subseteq ACs
    /\ xmit \in [at : {"idle", "queued", "stop"}, q : ACs, stops : SUBSET ACs]
    /\ edca \in [acm : BOOLEAN, late : BOOLEAN]
    /\ lateStop \in BOOLEAN

FlowInit ==
    /\ qlen = [q \in ACs |-> 0] /\ stopped = {}
    /\ xmit = [at |-> "idle", q |-> "BE", stops |-> {}]
    /\ edca \in [acm : BOOLEAN, late : BOOLEAN]
    /\ lateStop = FALSE

Drained(l) == \A q \in ACs : l[q] = 0

(* mac80211 sends on a queue that is not stopped                           *)
XmitQueues ==
    /\ xmit.at = "idle"
    /\ \E q \in ACs \ stopped :
          /\ q = "VI" => qlen[q] < MAX_QLEN
          /\ qlen' = [qlen EXCEPT ![q] = @ + 1]
          /\ xmit' = [at |-> "queued", q |-> q, stops |-> {}]
    /\ UNCHANGED <<stopped, edca, lateStop>>

-----------------------------------------------------------------------------
(* which queues a length stops: the frame's own ...                        *)
OwnStops_Never(q) == IF edca.acm THEN {"VI"} ELSE {}
OwnStops(q) ==
    IF qlen[q] > STOP_OWN[q] THEN {q} \cup (IF edca.acm THEN {"VI"} ELSE {}) ELSE {}

(* ... and those a longer one has to go before                             *)
LateStops ==
    IF qlen["BE"] > LATE_BE_STOP THEN {"VI", "VO", "BK"}
    ELSE IF qlen["BK"] > LATE_STOP THEN {"VO", "VI"}
    ELSE IF qlen["VO"] > LATE_STOP THEN {"VI"} ELSE {}
EarlyStops ==
    IF qlen["VO"] > VO_STOP THEN {"VI", "BE", "BK"}
    ELSE IF qlen["VI"] > VI_STOP THEN {"BE", "BK"}
    ELSE IF qlen["BE"] > BE_STOP THEN {"BK"} ELSE {}
OtherStops == IF edca.late THEN LateStops ELSE EarlyStops

XmitTests ==
    /\ xmit.at = "queued"
    /\ xmit' = [xmit EXCEPT !.at = "stop", !.stops = OwnStops(xmit.q) \cup OtherStops]
    /\ UNCHANGED <<qlen, stopped, edca, lateStop>>

(* ieee80211_stop_queue; the tx thread may have dequeued in between        *)
XmitStops ==
    /\ xmit.at = "stop"
    /\ stopped' = stopped \cup xmit.stops
    /\ lateStop' = (Drained(qlen) /\ stopped' # {})
    /\ xmit' = [at |-> "idle", q |-> "BE", stops |-> {}]
    /\ UNCHANGED <<qlen, edca>>

-----------------------------------------------------------------------------
(* which queues a dequeue wakes, by the lengths it leaves.  The test of    *)
(* VI's admission control takes an address, so it is always true.          *)
WakesVI(l) == (~edca.acm /\ l["VI"] < VI_WAKE) \/ l["BE"] < BE_WAKE
Wakes_OwnClass(l) ==
    { q \in ACs : \/ q = "VO" /\ l["VO"] < VO_WAKE
                  \/ q = "VI" /\ l["VO"] = 0 /\ WakesVI(l)
                  \/ q = "BE" /\ l["VO"] = 0 /\ l["VI"] < VI_LOW /\ l["BE"] < BE_WAKE /\ l["BE"] > 0 }
Wakes(l) ==
    { q \in ACs : \/ q = "VO" /\ l["VO"] < VO_WAKE
                  \/ q = "VI" /\ l["VO"] = 0 /\ WakesVI(l)
                  \/ q = "BE" /\ l["VO"] = 0 /\ l["VI"] < VI_LOW /\ l["BE"] < BE_WAKE
                  \/ q = "BK" /\ l["VO"] = 0 /\ l["VI"] < VI_LOW /\ l["BE"] < BE_LOW
                             /\ l["BK"] < BK_WAKE }

(* rsi_core_qos_processor, one data frame                                  *)
Dequeues ==
    /\ \E q \in ACs :
          /\ qlen[q] > 0
          /\ qlen' = [qlen EXCEPT ![q] = @ - 1]
    /\ stopped' = stopped \ Wakes(qlen')
    /\ lateStop' = (lateStop /\ stopped' # {})
    /\ UNCHANGED <<xmit, edca>>

FlowNext == XmitQueues \/ XmitTests \/ XmitStops \/ Dequeues

FlowSpec == FlowInit /\ [][FlowNext]_flowVars

-----------------------------------------------------------------------------
(* Once the soft queues are drained, mac80211 may send on every queue:     *)
(* nothing would wake them any more.  Unless rsi_core_xmit stopped them    *)
(* for a length the tx thread had brought to zero meanwhile (core.c:723).  *)
QueuesWoken == Drained(qlen) /\ stopped # {} => lateStop

(* A queue never holds more than one frame above the length that stops it. *)
(* VI's may: the test of its admission control (core.c:326) is of an       *)
(* address, so a short BE queue wakes VI whatever its own length.          *)
QueuesBounded == \A q \in ACs \ {"VI"} : qlen[q] <= STOP_OWN[q] + 1

(* The two above.                                                          *)
FlowInv == QueuesWoken /\ QueuesBounded
=============================================================================
