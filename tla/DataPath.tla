------------------------------ MODULE DataPath ------------------------------
(***************************************************************************)
(* The way of a frame through the driver: down to the bus (TxPath), the    *)
(* flow control of mac80211's queues on that way (TxFlow), and up again    *)
(* (RxPath).  The three share no variable the others write; what they      *)
(* promise is put together here.                                           *)
(***************************************************************************)
EXTENDS TxPath, TxFlow, RxPath

dataVars == <<txPathVars, flowVars, rxVars>>

DataInit == TxPathInit /\ FlowInit /\ RxInit

(* Every frame mac80211 hands over comes back once, a handshake is confirmed before data    *)
(* passes, a stopped queue is woken, and a subframe gets the header of its own A-MSDU       *)
(* (rsi_core_xmit, rsi_send_data_pkt, rsi_core_qos_processor, rsi_prepare_skb).             *)
DataPathInv == TxPathInv /\ FlowInv /\ HeadersBelong
=============================================================================
