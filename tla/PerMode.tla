------------------------------ MODULE PerMode ------------------------------
(***************************************************************************)
(* Packet error rate tests (rsi_91x_per.c), driven by applications over    *)
(* netlink: one process starts and stops transmissions (PER_TRANSMIT), one *)
(* starts and stops the reception statistics (PER_RECEIVE, PER_RECV_STOP). *)
(* A message is handled in the context of its sender, so the two commands  *)
(* may overlap.  Both test common->fsm_state once, both may set a channel, *)
(* and both then wait for common->chan_set_event, which the receive thread *)
(* sets when the device confirms a scan request.                           *)
(*                                                                         *)
(* What a packet or a statistics frame holds is left out, and so is which  *)
(* channel and rate a command names: what matters is whether it programs   *)
(* a channel at all.                                                       *)
(***************************************************************************)
EXTENDS Naturals, FiniteSets

CONSTANTS
    RfEvals,          \* the driver modes: TRUE for RF_EVAL_MODE_ON, FALSE for E2E_MODE
    MaxPerTroubles    \* bound of the model: kinds of trouble in one behaviour

ASSUME PerAssumption == RfEvals \subseteq BOOLEAN /\ MaxPerTroubles \in Nat

VARIABLES
    rf_eval,          \* common->driver_mode = RF_EVAL_MODE_ON
    at,               \* where each application is inside its command
    per_fsm,          \* common->fsm_state
    per_params,       \* adapter->per_params: enable, mode, aggr_enable
    tx_running,       \* adapter->tx_running
    rx_stats_inprog,  \* adapter->rx_stats_inprog
    recv_stop,        \* adapter->recv_stop
    chan_set_event,   \* common->chan_set_event is set
    rx_thread,        \* the receive thread: "idle" or in the burst loop it cannot leave
    device,           \* the device: scan requests and AMPDU indications to confirm, what it runs
    perUpset          \* what went wrong on the way

perVars == <<rf_eval, at, per_fsm, per_params, tx_running, rx_stats_inprog, recv_stop, chan_set_event,
             rx_thread, device, perUpset>>

Apps == {"tx", "rx"}
CONTINUOUS_RUNNING == 1
BURST_RUNNING == 2

PerTypeOK ==
    /\ rf_eval \in BOOLEAN
    /\ at \in [Apps -> {"idle", "prog", "sent", "wait", "woken", "cmd", "ampdu"}]
    /\ per_fsm \in {"MAC_INIT_DONE", "SCAN_CFM", "AMPDU_IND_SENT"}
    /\ per_params \in [enable : BOOLEAN, mode : {"cont", "burst"}, aggr : BOOLEAN]
    /\ tx_running \in 0..2
    /\ rx_stats_inprog \in BOOLEAN /\ recv_stop \in BOOLEAN /\ chan_set_event \in BOOLEAN
    /\ rx_thread \in {"idle", "spins"}
    /\ device \in [scans : 0..2, ampdu : BOOLEAN, tx : BOOLEAN, packet : BOOLEAN, stats : BOOLEAN]
    /\ perUpset \subseteq {"interrupted", "unsent", "early", "crossed", "full", "bt", "refused"}

PerInit ==
    /\ rf_eval \in RfEvals
    /\ at = [a \in Apps |-> "idle"]
    /\ per_fsm = "MAC_INIT_DONE"
    /\ per_params = [enable |-> FALSE, mode |-> "burst", aggr |-> FALSE]
    /\ tx_running = 0 /\ rx_stats_inprog = FALSE /\ recv_stop = FALSE
    /\ chan_set_event = FALSE /\ rx_thread = "idle"
    /\ device = [scans |-> 0, ampdu |-> FALSE, tx |-> FALSE, packet |-> FALSE, stats |-> FALSE]
    /\ perUpset = {}

At(a, p) == at' = [at EXCEPT ![a] = p]
Troubled(what) ==
    /\ perUpset' = perUpset \cup what
    /\ Cardinality(perUpset') <= MaxPerTroubles
Crossing(a) == IF at = [x \in Apps |-> "idle"] THEN {} ELSE {"crossed"}

statsVars == <<rx_stats_inprog, recv_stop>>

-----------------------------------------------------------------------------
(* start_per_tx goes on only when nothing runs                             *)
MayStart == tx_running = 0

(* PER_TRANSMIT: the parameters are copied before anything else is tested  *)
TransmitCmd(mode, aggr) ==
    /\ rf_eval /\ at["tx"] = "idle" /\ per_fsm = "MAC_INIT_DONE"
    /\ per_params' = [enable |-> TRUE, mode |-> mode, aggr |-> aggr]
    /\ \/ UNCHANGED at                        \* a channel or a format the module cannot do
       \/ MayStart /\ At("tx", "prog")
    /\ Troubled(Crossing("tx"))
    /\ UNCHANGED <<per_fsm, tx_running, statsVars, chan_set_event, rx_thread, device>>

(* send_per_frame: the device starts or stops by the parameters it carries; *)
(* nobody looks at whether it could be sent                                 *)
SendPerFrame(p) ==
    \/ device' = [device EXCEPT !.tx = p.enable] /\ UNCHANGED perUpset
    \/ UNCHANGED device /\ Troubled({"unsent"})

(* what becomes of tx_running                                              *)
Stopped_Kept == tx_running
Stopped == 0

(* the same message with enable = 0 *)
StopTransmit ==
    /\ rf_eval /\ at["tx"] = "idle" /\ per_fsm = "MAC_INIT_DONE"
    /\ per_params' = [per_params EXCEPT !.enable = FALSE]
    /\ IF tx_running = 0
       THEN UNCHANGED <<tx_running, device, perUpset>>
       ELSE tx_running' = Stopped /\ SendPerFrame(per_params')
    /\ UNCHANGED <<at, per_fsm, statsVars, chan_set_event, rx_thread>>

(* BT_PER: a Bluetooth test writes the flag of the Wi-Fi test              *)
BtTransmit ==
    /\ tx_running' \in {0, CONTINUOUS_RUNNING}
    /\ Troubled({"bt"})
    /\ UNCHANGED <<at, per_fsm, per_params, statsVars, chan_set_event, rx_thread, device>>

-----------------------------------------------------------------------------
(* PER_RECEIVE, and PER_RECV_STOP which first asks for a stop              *)
ReceiveCmd(stop) ==
    /\ at["rx"] = "idle"
    /\ recv_stop' = (recv_stop \/ stop)
    /\ rx_stats_inprog' = (rx_stats_inprog /\ ~stop)
    /\ IF per_fsm = "MAC_INIT_DONE"
       THEN /\ At("rx", IF rf_eval THEN "prog" ELSE "cmd")
            /\ Troubled(Crossing("rx"))
       ELSE UNCHANGED at /\ Troubled(IF stop THEN {"refused"} ELSE {})
    /\ UNCHANGED <<per_fsm, per_params, tx_running, chan_set_event, rx_thread, device>>

(* rsi_stats_frame carries recv_stop: a request to stop when it is set     *)
StatsRequest_Start == TRUE
StatsRequest == ~recv_stop

(* SEND_STATS_FRAME; a frame that cannot be sent leaves everything as it is *)
SendStats ==
    /\ at["rx"] = "cmd" /\ At("rx", "idle")
    /\ \/ /\ ~rx_stats_inprog
          /\ device' = [device EXCEPT !.stats = StatsRequest]
          /\ rx_stats_inprog' = ~recv_stop /\ recv_stop' = FALSE
          /\ UNCHANGED perUpset
       \/ /\ ~rx_stats_inprog
          /\ Troubled({"unsent"}) /\ UNCHANGED <<statsVars, device>>
       \/ rx_stats_inprog /\ UNCHANGED <<statsVars, device, perUpset>>
    /\ UNCHANGED <<per_fsm, per_params, tx_running, chan_set_event, rx_thread>>

-----------------------------------------------------------------------------
(* The channel: both commands program it the same way.                     *)

(* channel 0, programming disabled, or a baseband reset, which may fail    *)
NoChannel(a) ==
    /\ at[a] = "prog"
    /\ \/ At(a, "cmd") /\ UNCHANGED perUpset
       \/ At(a, "idle") /\ Troubled({"unsent"})
    /\ UNCHANGED <<per_fsm, per_params, tx_running, statsVars, chan_set_event, rx_thread, device>>

(* rsi_set_channel; start_per_tx ignores its result, rsi_send_rx_stats_cmd returns *)
SetChannel(a) ==
    /\ at[a] = "prog" /\ device.scans < 2
    /\ per_fsm' = "SCAN_CFM"
    /\ \/ /\ At(a, "sent") /\ device' = [device EXCEPT !.scans = @ + 1]
          /\ UNCHANGED perUpset
       \/ /\ At(a, IF a = "tx" THEN "sent" ELSE "idle")
          /\ Troubled({"unsent"}) /\ UNCHANGED device
    /\ UNCHANGED <<per_params, tx_running, statsVars, chan_set_event, rx_thread>>

(* the event is reset only after the request has gone: its confirmation may be lost here *)
ResetEvent(a) ==
    /\ at[a] = "sent" /\ At(a, "wait")
    /\ chan_set_event' = FALSE
    /\ Troubled(IF chan_set_event /\ device.scans = 0 THEN {"early"} ELSE {})
    /\ UNCHANGED <<per_fsm, per_params, tx_running, statsVars, rx_thread, device>>

WaitEnds(a) ==
    /\ at[a] = "wait" /\ chan_set_event /\ At(a, "woken")
    /\ UNCHANGED <<per_fsm, per_params, tx_running, statsVars, chan_set_event, rx_thread, device, perUpset>>

(* a signal ends wait_event_interruptible, and the command, as it stands   *)
WaitInterrupted(a) ==
    /\ at[a] = "wait" /\ At(a, "idle") /\ Troubled({"interrupted"})
    /\ UNCHANGED <<per_fsm, per_params, tx_running, statsVars, chan_set_event, rx_thread, device>>

AfterChannel_Left == per_fsm
AfterChannel == "MAC_INIT_DONE"

ChannelSet(a) ==
    /\ at[a] = "woken" /\ At(a, "cmd")
    /\ per_fsm' = AfterChannel /\ chan_set_event' = FALSE
    /\ UNCHANGED <<per_params, tx_running, statsVars, rx_thread, device, perUpset>>

-----------------------------------------------------------------------------
(* SEND_PER_CMD                                                            *)
(* no length, no HE parameters, or the packet of the continuous mode cannot be written *)
NoPerCmd ==
    /\ at["tx"] = "cmd" /\ At("tx", "idle")
    /\ UNCHANGED <<per_fsm, per_params, tx_running, statsVars, chan_set_event, rx_thread, device, perUpset>>

(* do_continuous_send gives the device its packet, or reports success when the
   device's buffers are full *)
StartContinuous ==
    /\ at["tx"] = "cmd" /\ per_params.mode = "cont" /\ At("tx", "idle")
    /\ tx_running' = CONTINUOUS_RUNNING
    /\ \/ device' = [device EXCEPT !.packet = TRUE, !.tx = per_params.enable] /\ UNCHANGED perUpset
       \/ device' = [device EXCEPT !.tx = per_params.enable] /\ Troubled({"full"})
       \/ device' = [device EXCEPT !.packet = TRUE] /\ Troubled({"unsent"})
    /\ UNCHANGED <<per_fsm, per_params, statsVars, chan_set_event, rx_thread>>

(* a burst without aggregation: the device has been told before the state is looked at *)
StartBurst ==
    /\ at["tx"] = "cmd" /\ per_params.mode = "burst" /\ ~per_params.aggr
    /\ At("tx", "idle")
    /\ tx_running' = IF per_fsm = "MAC_INIT_DONE" THEN BURST_RUNNING ELSE tx_running
    /\ SendPerFrame(per_params)
    /\ UNCHANGED <<per_fsm, per_params, statsVars, chan_set_event, rx_thread>>

(* with aggregation: the AMPDU indication goes out first ... *)
SendAmpdu ==
    /\ at["tx"] = "cmd" /\ per_params.mode = "burst" /\ per_params.aggr
    /\ At("tx", "ampdu")
    /\ \/ device' = [device EXCEPT !.tx = per_params.enable, !.ampdu = TRUE] /\ UNCHANGED perUpset
       \/ device' = [device EXCEPT !.ampdu = TRUE] /\ Troubled({"unsent"})
       \/ UNCHANGED device /\ Troubled({"unsent"})
    /\ UNCHANGED <<per_fsm, per_params, tx_running, statsVars, chan_set_event, rx_thread>>

(* ... and the state that waits for its confirmation is entered after      *)
AmpduSent ==
    /\ at["tx"] = "ampdu" /\ At("tx", "idle")
    /\ per_fsm' = "AMPDU_IND_SENT"
    /\ Troubled(IF device.ampdu THEN {} ELSE {"early"})
    /\ UNCHANGED <<per_params, tx_running, statsVars, chan_set_event, rx_thread, device>>

-----------------------------------------------------------------------------
(* The receive thread.                                                     *)
ScanConfirm ==
    /\ rx_thread = "idle" /\ device.scans > 0
    /\ device' = [device EXCEPT !.scans = @ - 1]
    /\ chan_set_event' = TRUE
    /\ UNCHANGED <<at, per_fsm, per_params, tx_running, statsVars, rx_thread, perUpset>>

(* the burst loop counts fragments only while the test is enabled          *)
BurstEnds == per_params.enable \/ ~per_params.aggr

BurstDone ==
    /\ per_fsm' = "MAC_INIT_DONE" /\ tx_running' = BURST_RUNNING /\ rx_thread' = "idle"

AmpduConfirm ==
    /\ rx_thread = "idle" /\ device.ampdu
    /\ device' = [device EXCEPT !.ampdu = FALSE]
    /\ IF BurstEnds THEN BurstDone
       ELSE rx_thread' = "spins" /\ UNCHANGED <<per_fsm, tx_running>>
    /\ UNCHANGED <<at, per_params, statsVars, chan_set_event, perUpset>>

SpinEnds ==
    /\ rx_thread = "spins" /\ BurstEnds /\ BurstDone
    /\ UNCHANGED <<at, per_params, statsVars, chan_set_event, device, perUpset>>

PerNext ==
    /\ UNCHANGED rf_eval
    /\ \/ \E m \in {"cont", "burst"}, g \in BOOLEAN : TransmitCmd(m, g)
       \/ StopTransmit \/ BtTransmit
       \/ \E s \in BOOLEAN : ReceiveCmd(s)
       \/ SendStats
       \/ \E a \in Apps : \/ NoChannel(a) \/ SetChannel(a) \/ ResetEvent(a)
                          \/ WaitEnds(a) \/ WaitInterrupted(a) \/ ChannelSet(a)
       \/ NoPerCmd \/ StartContinuous \/ StartBurst \/ SendAmpdu \/ AmpduSent
       \/ ScanConfirm \/ AmpduConfirm \/ SpinEnds

PerSpec == PerInit /\ [][PerNext]_perVars

-----------------------------------------------------------------------------
Without(troubles) == perUpset \cap troubles = {}

(* The driver knows whether the device transmits: adapter->tx_running, on which a stop
   depends, says so whenever no start is under way. *)
KnowsItRuns ==
    (/\ Without({"unsent", "bt", "crossed"})
     /\ at["tx"] = "idle" /\ per_fsm # "AMPDU_IND_SENT") => (tx_running # 0) = device.tx

(* and a continuous test has its packet in the device, unless the buffers were full *)
HasItsPacket ==
    (Without({"full", "bt"}) /\ tx_running = CONTINUOUS_RUNNING) => device.packet

(* Commands are refused only while one waits: another state than FSM_MAC_INIT_DONE has
   somebody who will leave it. *)
StateReturns ==
    (Without({"unsent", "interrupted", "early"}) /\ per_fsm # "MAC_INIT_DONE") =>
        IF per_fsm = "SCAN_CFM"
        THEN \E a \in Apps : at[a] \in {"sent", "wait", "woken"}
        ELSE device.ampdu

(* Whoever waits for a channel has a confirmation to come. *)
WaitIsAnswered ==
    \A a \in Apps : (Without({"unsent", "early", "crossed"}) /\ at[a] = "wait") =>
        chan_set_event \/ device.scans > 0

(* The statistics the device sends are those the driver believes it asked for. *)
StatsAgree ==
    (Without({"unsent", "refused", "interrupted"}) /\ at["rx"] = "idle") => rx_stats_inprog = device.stats

(* The receive thread leaves the burst loop, unless two commands crossed. *)
LeavesBurst == Without({"crossed"}) => rx_thread = "idle"

PerInv == KnowsItRuns /\ HasItsPacket /\ StateReturns /\ WaitIsAnswered /\ StatsAgree /\ LeavesBurst
=============================================================================
