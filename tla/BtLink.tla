------------------------------- MODULE BtLink -------------------------------
(***************************************************************************)
(* The Bluetooth half of the driver (rsi_91x_hci.c) and the coexistence    *)
(* scheduler that carries its frames (rsi_91x_coex.c), in a build with     *)
(* CONFIG_RSI_COEX_MODE.  Threads:                                         *)
(*   bt_rx    the receive thread inside rsi_hci_recv_pkt                   *)
(*   coex     rsi_coex_scheduler_thread                                    *)
(*   host     suspend, hibernation or disconnect, which detach the adapter *)
(*   app      a netlink request of an application (PER statistics)         *)
(* and the HCI core, which sends without waiting for anybody.              *)
(*                                                                         *)
(* common->hci_adapter is never reset to NULL, so what it points to is     *)
(* part of the state: "none", a "live" adapter, or memory freed by a detach *)
(* ("freed") or by an attachment that failed ("failed").                   *)
(***************************************************************************)
EXTENDS Naturals, Sequences

CONSTANTS
    MAX_BT_Q,     \* bound of the model: frames in coex_tx_qs[BT_Q]
    MAX_SLEEPS    \* bound of the model: hibernations

ASSUME BtAssumption == MAX_BT_Q \in Nat \ {0} /\ MAX_SLEEPS \in Nat

VARIABLES
    bt_usb,        \* the transport: TRUE for USB, FALSE for SDIO
    bt_fsm_state,  \* common->bt_fsm_state
    hci_adapter,   \* what common->hci_adapter points to
    hdev,          \* the HCI device: "none", "down", "running"
    bt_rx,         \* the receive thread: "idle", "reg", "attach", "use", "use_per", "ended"
    bt_q,          \* coex_tx_qs[BT_Q]
    coex,          \* [at, event, done]: the coex thread; at "freed" its block is gone
    host,          \* [does, at]: what the host is doing to the adapter
    bt_suspend,    \* common->suspend_in_prog
    app,           \* the PER reader: "idle", "asked", "waiting"
    per_event,     \* common->rsi_bt_per_event is set
    owed,          \* the device owes an answer to a PER request
    sleeps,        \* hibernations so far
    btUpset        \* what went wrong on the way: "refused", "unanswered"

btVars == <<bt_usb, bt_fsm_state, hci_adapter, hdev, bt_rx, bt_q, coex, host, bt_suspend, app,
            per_event, owed, sleeps, btUpset>>
coexVars == <<bt_q, coex>>
appVars == <<app, per_event>>
hciVars == <<bt_fsm_state, hci_adapter, hdev>>
hostVars == <<host, bt_suspend, sleeps>>

(* the requests that are answered to a reader, and every other frame *)
BtPackets == {"per", "frame"}

BtTypeOK ==
    /\ bt_usb \in BOOLEAN
    /\ bt_fsm_state \in {"NOT_READY", "READY"}
    /\ hci_adapter \in {"none", "live", "freed", "failed"}
    /\ hdev \in {"none", "down", "running"}
    /\ bt_rx \in {"idle", "reg", "attach", "use", "use_per", "ended"}
    /\ bt_q \in Seq(BtPackets) /\ Len(bt_q) <= MAX_BT_Q
    /\ coex \in [at : {"wait", "ask", "drain", "clear", "ended", "freed"},
                 event : BOOLEAN, done : BOOLEAN]
    /\ host \in [does : {"up", "freeze", "thawed", "disconnect"},
                 at : {"idle", "detach", "unregistered", "free", "asleep", "kill_coex", "nl_exit", "gone"}]
    /\ bt_suspend \in BOOLEAN
    /\ app \in {"idle", "asked", "waiting"}
    /\ per_event \in BOOLEAN /\ owed \in BOOLEAN
    /\ sleeps \in 0..MAX_SLEEPS
    /\ btUpset \subseteq {"refused", "unanswered"}

BtInit ==
    /\ bt_usb \in BOOLEAN
    /\ bt_fsm_state = "NOT_READY" /\ hci_adapter = "none" /\ hdev = "none"
    /\ bt_rx = "idle" /\ bt_q = <<>>
    /\ coex = [at |-> "wait", event |-> FALSE, done |-> FALSE]
    /\ host = [does |-> "up", at |-> "idle"] /\ bt_suspend = FALSE /\ sleeps = 0
    /\ app = "idle" /\ per_event = FALSE /\ owed = FALSE
    /\ btUpset = {}

CoexAt(p) == coex' = [coex EXCEPT !.at = p]
HostAt(p) == host' = [host EXCEPT !.at = p]
Goes(what) == btUpset' = btUpset \cup {what}

(* rsi_coex_send_pkt for a queue other than WLAN's: append, then wake the thread *)
CoexSendPkt_Quiet(p) ==
    /\ Len(bt_q) < MAX_BT_Q /\ coex.at # "freed"
    /\ bt_q' = Append(bt_q, p)
    /\ coex' = [coex EXCEPT !.event = IF bt_q = <<>> THEN coex.at = "wait" ELSE @]
CoexSendPkt(p) ==
    /\ Len(bt_q) < MAX_BT_Q /\ coex.at # "freed"
    /\ bt_q' = Append(bt_q, p)
    /\ coex' = [coex EXCEPT !.event = TRUE]

-----------------------------------------------------------------------------
(* The coexistence scheduler thread.                                       *)
Finished == IF coex.done THEN "ended" ELSE "wait"

(* the event is seen and reset; a set in between is for a frame already queued *)
CoexWoken ==
    /\ coex.at = "wait" /\ coex.event
    /\ coex' = [coex EXCEPT !.at = "ask", !.event = FALSE]
    /\ UNCHANGED <<bt_usb, hciVars, bt_rx, bt_q, hostVars, appVars, owed, btUpset>>

(* set_clr_tx_intention(BT_ZB_ID, 1): a refusal leaves the queue as it is  *)
CoexAsk ==
    /\ coex.at = "ask"
    /\ \/ CoexAt("drain") /\ UNCHANGED btUpset
       \/ CoexAt(Finished) /\ Goes("refused")
    /\ UNCHANGED <<bt_usb, hciVars, bt_rx, bt_q, hostVars, appVars, owed>>

(* rsi_coex_sched_tx_pkts, one frame: rsi_send_bt_pkt frees it, written or not *)
CoexDequeue ==
    /\ coex.at = "drain" /\ bt_q # <<>>
    /\ bt_q' = Tail(bt_q)
    /\ \/ owed' = (owed \/ Head(bt_q) = "per") /\ UNCHANGED btUpset
       \/ (IF Head(bt_q) = "per" THEN Goes("unanswered") ELSE UNCHANGED btUpset) /\ UNCHANGED owed
    /\ UNCHANGED <<bt_usb, hciVars, bt_rx, coex, hostVars, appVars>>

(* the queue was seen empty; set_clr_tx_intention(BT_ZB_ID, 0), and round again *)
EventKept_Not == FALSE
EventKept == coex.event
CoexDrained ==
    /\ coex.at = "drain" /\ bt_q = <<>>
    /\ CoexAt("clear")
    /\ btUpset' = btUpset \ {"refused"}
    /\ UNCHANGED <<bt_usb, hciVars, bt_rx, bt_q, hostVars, appVars, owed>>

CoexClear ==
    /\ coex.at = "clear"
    /\ coex' = [coex EXCEPT !.at = Finished, !.event = EventKept]
    /\ UNCHANGED <<bt_usb, hciVars, bt_rx, bt_q, hostVars, appVars, owed, btUpset>>

Coex == CoexWoken \/ CoexAsk \/ CoexDequeue \/ CoexDrained \/ CoexClear

-----------------------------------------------------------------------------
(* The receive thread in rsi_hci_recv_pkt.                                 *)

(* a thread told to end takes no further packet *)
RxTakes == bt_rx = "idle" /\ host.at # "kill_coex"

(* a BT card-ready while the adapter is not attached; ignored in a suspend *)
BtCardReady ==
    /\ RxTakes /\ bt_fsm_state = "NOT_READY" /\ ~bt_suspend
    /\ bt_rx' = "reg"
    /\ UNCHANGED <<bt_usb, hciVars, coexVars, hostVars, appVars, owed, btUpset>>

SendsRegParams ==
    /\ bt_rx = "reg"
    /\ \/ CoexSendPkt("frame") /\ bt_rx' = "attach"
       \/ bt_rx' = "idle" /\ UNCHANGED coexVars
    /\ UNCHANGED <<bt_usb, btUpset, hciVars, hostVars, appVars, owed>>

(* rsi_hci_attach: the adapter is published before the device is registered, *)
(* and the error path frees it where it is                                   *)
AttachFails ==
    /\ hci_adapter' \in {hci_adapter, "failed"} /\ UNCHANGED <<bt_fsm_state, hdev>>
HciAttach ==
    /\ bt_rx = "attach" /\ bt_rx' = "idle"
    /\ \/ /\ hci_adapter' = "live" /\ hdev' = "down" /\ bt_fsm_state' = "READY"
       \/ AttachFails
    /\ UNCHANGED <<bt_usb, btUpset, coexVars, hostVars, appVars, owed>>

(* anything else is taken only when the adapter is ready ...               *)
BtPacketArrives ==
    /\ RxTakes /\ bt_fsm_state = "READY"
    /\ \/ bt_rx' = "use" /\ UNCHANGED owed
       \/ owed /\ owed' = FALSE /\ bt_rx' = "use_per"
    /\ UNCHANGED <<bt_usb, hciVars, coexVars, hostVars, appVars, btUpset>>

(* ... and handed to the HCI core through h_adapter->hdev                  *)
BtPacketUsed ==
    /\ bt_rx = "use" /\ bt_rx' = "idle"
    /\ UNCHANGED <<bt_usb, hciVars, coexVars, hostVars, appVars, owed, btUpset>>

(* the answer to a PER request wakes its reader; in the answer to a        *)
(* baseband read (bb_read_cmd) nobody is woken                             *)
BtPerAnswered_Silent ==
    /\ bt_rx = "use_per" /\ bt_rx' = "idle"
    /\ UNCHANGED <<bt_usb, hciVars, coexVars, hostVars, appVars, owed, btUpset>>
BtPerAnswered ==
    /\ bt_rx = "use_per" /\ bt_rx' = "idle"
    /\ per_event' = TRUE
    /\ UNCHANGED <<bt_usb, hciVars, coexVars, hostVars, app, owed, btUpset>>

BtRx == BtCardReady \/ SendsRegParams \/ HciAttach \/ BtPacketArrives \/ BtPacketUsed \/ BtPerAnswered

-----------------------------------------------------------------------------
(* The HCI core and an application.                                        *)

HciOpen ==
    /\ hdev = "down" /\ hdev' = "running"
    /\ UNCHANGED <<bt_usb, bt_fsm_state, hci_adapter, bt_rx, coexVars, hostVars, appVars, owed, btUpset>>
HciClose ==
    /\ hdev = "running" /\ hdev' = "down"
    /\ UNCHANGED <<bt_usb, bt_fsm_state, hci_adapter, bt_rx, coexVars, hostVars, appVars, owed, btUpset>>

(* rsi_hci_send_pkt: only to a device that is ready and running            *)
HciMaySend == bt_fsm_state = "READY" /\ hdev = "running"
HciSendPkt ==
    /\ HciMaySend
    /\ CoexSendPkt("frame")
    /\ UNCHANGED <<bt_usb, hciVars, bt_rx, hostVars, appVars, owed, btUpset>>

(* rsi_bt_e2e_stats and its like look at the adapter before anything else  *)
AppRequest ==
    /\ app = "idle" /\ hci_adapter # "none" /\ host.at # "gone"
    /\ IF bt_fsm_state = "READY"
         THEN \E p \in BtPackets :
                 /\ CoexSendPkt(p)
                 /\ app' = IF p = "per" THEN "asked" ELSE "idle"
         ELSE UNCHANGED <<coexVars, app>>
    /\ UNCHANGED <<bt_usb, hciVars, bt_rx, hostVars, per_event, owed, btUpset>>

(* rsi_bt_per_stats resets the event after it has sent the request         *)
AppResets ==
    /\ app = "asked" /\ app' = "waiting"
    /\ per_event' = FALSE
    /\ btUpset' = btUpset \cup (IF per_event THEN {"unanswered"} ELSE {})
    /\ UNCHANGED <<bt_usb, hciVars, bt_rx, coexVars, hostVars, owed>>

AppWoken ==
    /\ app = "waiting" /\ per_event /\ app' = "idle"
    /\ btUpset' = btUpset \ {"unanswered"}
    /\ UNCHANGED <<bt_usb, hciVars, bt_rx, coexVars, hostVars, per_event, owed>>

(* the wait is interruptible                                               *)
AppInterrupted ==
    /\ app = "waiting" /\ app' = "idle"
    /\ btUpset' = btUpset \ {"unanswered"}
    /\ UNCHANGED <<bt_usb, hciVars, bt_rx, coexVars, hostVars, per_event, owed>>

-----------------------------------------------------------------------------
(* The host.  rsi_freeze (which is also rsi_poweroff) detaches while the    *)
(* receive thread runs; rsi_disconnect of the SDIO driver ends that thread *)
(* first, rsi_disconnect of the USB driver does not.                       *)

Freeze ==
    /\ host.at = "idle" /\ host.does \in {"up", "thawed"} /\ sleeps < MAX_SLEEPS
    /\ host' = [does |-> "freeze", at |-> "detach"]
    /\ bt_suspend' = TRUE /\ sleeps' = sleeps + 1
    /\ UNCHANGED <<bt_usb, hciVars, bt_rx, coexVars, appVars, owed, btUpset>>

RxJoined_Not == UNCHANGED bt_rx
RxJoined == bt_rx = "idle" /\ bt_rx' = "ended"
BtDisconnect ==
    /\ host = [does |-> "up", at |-> "idle"]
    /\ IF bt_usb THEN UNCHANGED bt_rx ELSE RxJoined
    /\ host' = [does |-> "disconnect", at |-> "detach"]
    /\ UNCHANGED <<bt_usb, hciVars, coexVars, bt_suspend, sleeps, appVars, owed, btUpset>>

(* rsi_hci_detach in its three steps: hci_unregister_dev, which stops the  *)
(* HCI core's sends, kfree, and only then bt_fsm_state                     *)
AfterDetach == IF host.does = "disconnect" THEN "kill_coex" ELSE "asleep"
HciUnregister ==
    /\ host.at = "detach"
    /\ IF hci_adapter = "none"
         THEN HostAt(AfterDetach) /\ UNCHANGED hdev
         ELSE HostAt("unregistered") /\ hdev' = "none"
    /\ UNCHANGED <<bt_usb, bt_fsm_state, hci_adapter, bt_rx, coexVars, bt_suspend, sleeps, appVars, owed, btUpset>>

HciFree ==
    /\ host.at = "unregistered" /\ HostAt("free")
    /\ hci_adapter' = "freed"
    /\ UNCHANGED <<bt_usb, bt_fsm_state, hdev, bt_rx, coexVars, bt_suspend, sleeps, appVars, owed, btUpset>>

HciNotReady_Kept == UNCHANGED bt_fsm_state
HciNotReady == bt_fsm_state' = "NOT_READY"
HciDetached ==
    /\ host.at = "free" /\ HostAt(AfterDetach)
    /\ HciNotReady
    /\ UNCHANGED <<bt_usb, hci_adapter, hdev, bt_rx, coexVars, bt_suspend, sleeps, appVars, owed, btUpset>>

(* rsi_thaw leaves suspend_in_prog as it is                                *)
Thaw ==
    /\ host = [does |-> "freeze", at |-> "asleep"]
    /\ host' = [does |-> "thawed", at |-> "idle"]
    /\ bt_fsm_state' = "NOT_READY"
    /\ UNCHANGED <<bt_usb, hci_adapter, hdev, bt_rx, coexVars, bt_suspend, sleeps, appVars, owed, btUpset>>

(* rsi_restore; the firmware starts again and reports its Bluetooth        *)
BtRestore ==
    /\ host = [does |-> "freeze", at |-> "asleep"]
    /\ host' = [does |-> "up", at |-> "idle"]
    /\ bt_suspend' = FALSE /\ bt_fsm_state' = "NOT_READY" /\ owed' = FALSE
    /\ UNCHANGED <<bt_usb, hci_adapter, hdev, bt_rx, coexVars, sleeps, appVars, btUpset>>

(* the USB driver ends its receive thread here (rsi_deinit_usb_interface); *)
(* then rsi_91x_deinit: rsi_coex_deinit kills the thread and waits for it, *)
(* purges the queues and frees the block; nl_sk_exit comes last            *)
WakesCoex_Not == coex' = [coex EXCEPT !.done = TRUE]
WakesCoex == coex' = [coex EXCEPT !.done = TRUE, !.event = TRUE]
KillCoex ==
    /\ host.at = "kill_coex" /\ ~coex.done
    /\ bt_rx \in {"idle", "ended"} /\ bt_rx' = "ended"
    /\ WakesCoex
    /\ UNCHANGED <<bt_usb, hciVars, bt_q, hostVars, appVars, owed, btUpset>>

CoexJoined == coex.at = "ended"
CoexDeinit ==
    /\ host.at = "kill_coex" /\ coex.done
    /\ CoexJoined
    /\ CoexAt("freed") /\ bt_q' = <<>>
    /\ HostAt("nl_exit")
    /\ UNCHANGED <<bt_usb, hciVars, bt_rx, bt_suspend, sleeps, appVars, owed, btUpset>>

NlSkExit ==
    /\ host.at = "nl_exit" /\ HostAt("gone")
    /\ UNCHANGED <<bt_usb, hciVars, bt_rx, coexVars, bt_suspend, sleeps, appVars, owed, btUpset>>

Detach == HciUnregister \/ HciFree \/ HciDetached
Deinit == KillCoex \/ CoexDeinit \/ NlSkExit

BtNext ==
    \/ Coex \/ BtRx \/ Detach \/ Deinit
    \/ HciOpen \/ HciClose \/ HciSendPkt
    \/ AppRequest \/ AppResets \/ AppWoken \/ AppInterrupted
    \/ Freeze \/ BtDisconnect \/ Thaw \/ BtRestore

BtSpec == BtInit /\ [][BtNext]_btVars

(* threads run; nothing is asked of the HCI core, the device or the host   *)
BtFairSpec ==
    /\ BtSpec
    /\ WF_btVars(Coex) /\ WF_btVars(Detach) /\ WF_btVars(Deinit)
    /\ WF_btVars(SendsRegParams \/ HciAttach \/ BtPacketUsed \/ BtPerAnswered)

-----------------------------------------------------------------------------
(* What should hold.                                                       *)

(* The driver believes its Bluetooth ready only while the adapter behind   *)
(* it exists, except in the detach between the kfree and the store of      *)
(* BT_DEVICE_NOT_READY (hci.c:741-742).                                    *)
ReadyIsLive ==
    bt_fsm_state = "READY" /\ host.at # "free" => hci_adapter = "live"

(* A received frame is handed to an adapter that exists: a detach under    *)
(* the receive thread happens only in a hibernation and, on USB, at the    *)
(* disconnect; the SDIO disconnect ends the thread first.                  *)
FramesMeetAdapter ==
    bt_rx \in {"use", "use_per"} => hci_adapter = "live" \/ sleeps > 0 \/ bt_usb

(* What is detached has not been freed before, except when a hibernation   *)
(* was thawed (rsi_poweroff detaches again what rsi_freeze detached) or    *)
(* restored before the firmware's card-ready.                              *)
DetachedOnce ==
    host.at = "detach" /\ hci_adapter = "freed" => sleeps > (IF host.does = "freeze" THEN 1 ELSE 0)

(* The coexistence thread never sleeps over a frame: with no wake-up under *)
(* way its queue is empty, unless it was once refused the bus (coex.c:80), *)
(* which leaves the frames to the next one's wake-up.                      *)
CoexNeverSleepsOver ==
    coex.at = "wait" /\ ~coex.event => bt_q = <<>> \/ "refused" \in btUpset

(* A PER reader that waits has its answer coming: its request is queued,   *)
(* or with the device, or its answer is being received; unless the answer  *)
(* overtook the reset of the event (hci.c:395), the frame was not written  *)
(* or the device went to sleep.                                            *)
AnswerComing ==
    app = "waiting" /\ ~per_event =>
        \/ \E i \in DOMAIN bt_q : bt_q[i] = "per"
        \/ owed \/ bt_rx = "use_per"
        \/ "unanswered" \in btUpset
        \/ sleeps > 0 \/ host.does = "disconnect"

(* The five above.                                                         *)
BtInv == ReadyIsLive /\ FramesMeetAdapter /\ DetachedOnce /\ CoexNeverSleepsOver /\ AnswerComing

(* A disconnect comes to its end: the coexistence thread is woken to see   *)
(* that it is done, and the control block is freed after it.  Unless a     *)
(* card-ready in the USB receive thread attached the adapter again after   *)
(* the disconnect detached it: then the stack may go on sending.           *)
BtGone ==
    host.does = "disconnect" ~>
        host.at = "gone" \/ (host.at = "kill_coex" /\ bt_fsm_state = "READY")
=============================================================================
