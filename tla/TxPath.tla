------------------------------- MODULE TxPath -------------------------------
(***************************************************************************)
(* The life of a frame mac80211 hands to the driver: rsi_mac80211_tx,      *)
(* rsi_core_xmit, the descriptors and sends of rsi_91x_hal.c, and the two  *)
(* confirmations of the device that come back for a frame.  mac80211       *)
(* expects every frame back exactly once: freed, or with a status.         *)
(* The scheduler of the soft queues is TxSched; here the four data queues  *)
(* are one set.                                                            *)
(***************************************************************************)
EXTENDS Naturals, Sequences

CONSTANTS
    MAX_SKBS   \* bound of the model: frames, numbered as mac80211 hands them over

ASSUME SkbAssumption == MAX_SKBS \in Nat

Skbs == 1..MAX_SKBS
None == 0

VARIABLES
    ap,              \* the interface is an access point's, not a station's
    vif,             \* the interface exists
    iface_down,      \* common->iface_down
    associated,      \* bss_conf.assoc of the station
    peer,            \* the access point's station is in common->stations
    bgscan_en,       \* common->bgscan_en
    data_blocked,    \* common->hw_data_qs_blocked
    eapol4_confirm,  \* common->eapol4_confirm
    skb,             \* skb[f]: [kind, at, ends, shake: the handshake it belongs to]
    mgmt_q,          \* tx_queue[MGMT_SOFT_Q], without the driver's own commands
    sending,         \* the frame the tx thread has dequeued
    sta_skb,         \* stations[].sta_skb of the one peer
    cfm,             \* confirmations the device owes: "null", "eapol4", "old eapol4"
    handshaken,      \* auxiliary: this association's EAPOL 4 has been confirmed
    txUpset          \* auxiliary: what went wrong on the way

osVars == <<ap, vif, iface_down, associated, peer, bgscan_en>>
linkVars == <<data_blocked, eapol4_confirm, handshaken>>
frameVars == <<skb, mgmt_q, sending, sta_skb, cfm, txUpset>>
txPathVars == <<osVars, linkVars, frameVars>>

(* "null": a data null-function frame; "qosnull": one whose fate mac80211  *)
(* wants to know; "eapol4": the last message of a station's handshake      *)
Kinds == {"data", "null", "eapol", "eapol4", "qosnull", "probe", "assoc", "mgmt"}
MgmtKinds == {"qosnull", "probe", "assoc", "mgmt"}
Eapol == {"eapol", "eapol4"}

TxPathTypeOK ==
    /\ \A v \in {ap, vif, iface_down, associated, peer, bgscan_en, data_blocked,
                 eapol4_confirm, handshaken} : v \in BOOLEAN
    /\ skb \in [Skbs -> [kind : Kinds, ends : 0..2, shake : {"none", "this", "rekey", "old"},
                         at : {"os", "mgmt_q", "data_q", "checked", "held", "gone"}]]
    /\ mgmt_q \in Seq(Skbs) /\ sending \in Skbs \cup {None} /\ sta_skb \in Skbs \cup {None}
    /\ cfm \in Seq({"null", "eapol4", "old eapol4"})
    /\ txUpset \subseteq {"descriptor", "down", "overwritten", "not written", "late confirm", "oops"}

TxPathInit ==
    /\ ap \in BOOLEAN /\ vif = TRUE /\ iface_down = FALSE /\ associated = FALSE /\ peer = FALSE
    /\ bgscan_en = FALSE /\ data_blocked = FALSE /\ eapol4_confirm = FALSE /\ handshaken = FALSE
    /\ skb = [f \in Skbs |-> [kind |-> "data", at |-> "os", ends |-> 0, shake |-> "none"]]
    /\ mgmt_q = <<>> /\ sending = None /\ sta_skb = None /\ cfm = <<>> /\ txUpset = {}

Blame(what) == txUpset' = txUpset \cup {what}

-----------------------------------------------------------------------------
(* rsi_mac80211_tx and rsi_core_xmit, one disjunct for each way out.       *)

Station == ~ap

(* which handshake an EAPOL frame belongs to                               *)
Shake(k) == IF k \notin Eapol THEN "none" ELSE IF handshaken THEN "rekey" ELSE "this"

(* ieee80211_free_txskb                                                    *)
Freed(f, k) ==
    /\ skb' = [skb EXCEPT ![f] = [kind |-> k, at |-> "gone", ends |-> 1, shake |-> Shake(k)]]
    /\ UNCHANGED <<mgmt_q, txUpset>>

Queued(f, k, q) ==
    /\ skb' = [skb EXCEPT ![f] = [kind |-> k, at |-> q, ends |-> 0, shake |-> Shake(k)]]
    /\ mgmt_q' = IF q = "mgmt_q" THEN Append(mgmt_q, f) ELSE mgmt_q
    /\ UNCHANGED txUpset

(* no interface; or the firmware is not up, as after a hibernation         *)
TxRefused(f, k) == Freed(f, k) /\ UNCHANGED <<eapol4_confirm, handshaken, cfm>>

(* an association request starts a new handshake; what is still to be      *)
(* confirmed belongs to the old one                                        *)
NewHandshake_Not == UNCHANGED eapol4_confirm
NewHandshake == eapol4_confirm' = FALSE

XmitMgmt(f, k) ==
    /\ k \in MgmtKinds \ {"assoc"}
    \* no room for the descriptor, too long, an action frame to an unknown station: freed
    /\ Queued(f, k, "mgmt_q") \/ Freed(f, k)
    /\ UNCHANGED <<eapol4_confirm, handshaken, cfm>>

Aged(h) == IF h \in {"this", "rekey"} THEN "old" ELSE h
XmitAssoc(f, k) ==
    /\ k = "assoc"
    /\ NewHandshake /\ handshaken' = FALSE
    /\ cfm' = [i \in DOMAIN cfm |-> IF cfm[i] = "eapol4" THEN "old eapol4" ELSE cfm[i]]
    /\ \E q \in {"mgmt_q", "gone"} :
          /\ skb' = [g \in Skbs |->
                       IF g = f THEN [kind |-> k, at |-> q, shake |-> "none",
                                      ends |-> IF q = "gone" THEN 1 ELSE 0]
                       ELSE [skb[g] EXCEPT !.shake = Aged(@)]]
          /\ mgmt_q' = IF q = "gone" THEN mgmt_q ELSE Append(mgmt_q, f)
    /\ UNCHANGED txUpset

(* in a background scan the firmware sends its own null frames             *)
XmitNull(f, k) ==
    /\ k = "null" /\ Station /\ bgscan_en
    /\ skb' = [skb EXCEPT ![f] = [kind |-> k, at |-> "gone", ends |-> IF iface_down THEN 0 ELSE 1,
                                  shake |-> Shake(k)]]
    /\ IF iface_down THEN Blame("down") ELSE UNCHANGED txUpset
    /\ UNCHANGED <<eapol4_confirm, handshaken, cfm, mgmt_q>>

(* an EAPOL frame goes with the management frames, except in a station's   *)
(* rekeying: rsi_prepare_data_desc then gives it the priority of VO        *)
DataQueue(k) ==
    IF k \in Eapol /\ ~(Station /\ eapol4_confirm) THEN "mgmt_q" ELSE "data_q"

(* a descriptor that cannot be prepared: rsi_prepare_data_desc reports the *)
(* frame and rsi_core_xmit frees it                                        *)
DescriptorFails(f, k) ==
    /\ skb' = [skb EXCEPT ![f] = [kind |-> k, at |-> "gone", ends |-> IF iface_down THEN 1 ELSE 2,
                                  shake |-> Shake(k)]]
    /\ Blame("descriptor") /\ UNCHANGED mgmt_q

XmitData(f, k) ==
    /\ k \notin MgmtKinds /\ ~(k = "null" /\ Station /\ bgscan_en)
    /\ IF ap /\ ~peer
         THEN Freed(f, k)
         ELSE Queued(f, k, DataQueue(k)) \/ DescriptorFails(f, k)
    /\ UNCHANGED <<eapol4_confirm, handshaken, cfm>>

(* what mac80211 sends, and when                                           *)
OsSends(k) ==
    /\ k \in Eapol \cup {"null", "qosnull"} => associated \/ peer
    /\ k = "eapol4" => Station
    /\ k = "assoc" => Station /\ ~associated
MacTx(f) ==
    /\ skb[f].at = "os" /\ \A g \in Skbs : g < f => skb[g].at # "os"
    /\ \E k \in Kinds :
          /\ OsSends(k)
          /\ IF ~vif THEN TxRefused(f, k)
             ELSE TxRefused(f, k) \/ XmitMgmt(f, k) \/ XmitAssoc(f, k) \/ XmitNull(f, k) \/ XmitData(f, k)
    /\ UNCHANGED <<osVars, data_blocked, sending, sta_skb>>

-----------------------------------------------------------------------------
(* The tx thread: a frame is dequeued, checked, written and reported.      *)

TakeMgmt ==
    /\ sending = None /\ mgmt_q # <<>>
    /\ sending' = Head(mgmt_q) /\ mgmt_q' = Tail(mgmt_q)
    /\ UNCHANGED <<osVars, linkVars, skb, sta_skb, cfm, txUpset>>

TakeData(f) ==
    /\ sending = None /\ skb[f].at = "data_q" /\ ~data_blocked
    /\ sending' = f
    /\ UNCHANGED <<osVars, linkVars, skb, mgmt_q, sta_skb, cfm, txUpset>>

(* rsi_indicate_tx_status: with the interface down it returns and leaves   *)
(* the frame to nobody                                                     *)
Indicate(f) ==
    /\ skb' = [skb EXCEPT ![f].at = "gone", ![f].ends = IF iface_down \/ @ = 2 THEN @ ELSE @ + 1]
    /\ IF iface_down THEN Blame("down") ELSE UNCHANGED txUpset
Reported_Silently(f) == sending' = None /\ skb' = [skb EXCEPT ![f].at = "gone"] /\ UNCHANGED txUpset
Reported(f) == sending' = None /\ Indicate(f)

(* the interface is down, or no longer there, or the station has lost its  *)
(* access point: reported without being written                            *)
NotSent(f) ==
    \/ iface_down \/ ~vif
    \/ skb[f].kind \notin MgmtKinds /\ Station /\ ~associated /\ skb[f].at = "data_q"
DropUnsent ==
    /\ sending # None /\ skb[sending].at \in {"mgmt_q", "data_q"}
    /\ NotSent(sending) /\ Reported(sending)
    /\ UNCHANGED <<osVars, linkVars, mgmt_q, sta_skb, cfm>>

(* probes of a background scan that would leave the channel, or are        *)
(* broadcast in it, are reported as sent                                   *)
DropProbe ==
    /\ sending # None /\ skb[sending].at = "mgmt_q" /\ skb[sending].kind = "probe"
    /\ ~NotSent(sending) /\ associated /\ bgscan_en
    /\ Reported(sending)
    /\ UNCHANGED <<osVars, linkVars, mgmt_q, sta_skb, cfm>>

(* a null frame with confirmation is kept in stations[].sta_skb; whether a *)
(* frame is kept there already is not looked at.  To a station that left   *)
(* the table this dereferences NULL.                                       *)
KeepsNull(f) ==
    /\ sta_skb' = f
    /\ IF \E i \in DOMAIN cfm : cfm[i] = "null" THEN Blame("overwritten") ELSE UNCHANGED txUpset
CheckFrame ==
    /\ sending # None /\ skb[sending].at \in {"mgmt_q", "data_q"}
    /\ ~NotSent(sending)
    /\ IF skb[sending].kind # "qosnull" THEN UNCHANGED <<sta_skb, txUpset>>
       ELSE IF ap /\ ~peer THEN UNCHANGED sta_skb /\ Blame("oops")
       ELSE KeepsNull(sending)
    /\ skb' = [skb EXCEPT ![sending].at = "checked"]
    /\ UNCHANGED <<osVars, linkVars, mgmt_q, sending, cfm>>

(* rsi_send_pkt; a frame that waits for its confirmation is not reported,  *)
(* whether it was written or not.  One that the confirmation of another    *)
(* freed meanwhile is used after that: undefined, the model stops here.    *)
WaitsForConfirm_Not(f) == FALSE
WaitsForConfirm(f) == skb[f].kind = "qosnull"
Owes(f) == IF skb[f].kind = "qosnull" THEN <<"null">>
           ELSE IF skb[f].kind # "eapol4" THEN <<>>
           ELSE IF skb[f].shake = "old" THEN <<"old eapol4">> ELSE <<"eapol4">>
WriteFrame ==
    /\ sending # None /\ skb[sending].at = "checked" /\ "oops" \notin txUpset
    /\ \E written \in BOOLEAN :
          /\ cfm' = IF written THEN cfm \o Owes(sending) ELSE cfm
          /\ IF WaitsForConfirm(sending)
               THEN /\ skb' = [skb EXCEPT ![sending].at = "held"]
                    /\ sending' = None
                    /\ IF written THEN UNCHANGED txUpset ELSE Blame("not written")
               ELSE Reported(sending)
    /\ UNCHANGED <<osVars, linkVars, mgmt_q, sta_skb>>

-----------------------------------------------------------------------------
(* TX_STATUS_IND in rsi_mgmt_pkt_recv.                                     *)

(* the confirmed frame is the one in sta_skb, which keeps pointing to it   *)
Confirmed == sta_skb
NullConfirm ==
    /\ cfm # <<>> /\ Head(cfm) = "null" /\ cfm' = Tail(cfm)
    /\ IF vif THEN Indicate(Confirmed) ELSE UNCHANGED skb /\ Blame("oops")
    /\ UNCHANGED <<osVars, linkVars, mgmt_q, sending, sta_skb>>

(* EAPOL4_CONFIRM with a good status, whichever handshake it is about; the *)
(* unblocking frame may not be sent                                        *)
EapolConfirm ==
    /\ cfm # <<>> /\ Head(cfm) # "null" /\ cfm' = Tail(cfm) /\ vif
    /\ \/ /\ eapol4_confirm' = TRUE
          /\ data_blocked' \in {FALSE, data_blocked}
          /\ IF Head(cfm) = "eapol4"
               THEN handshaken' = TRUE /\ UNCHANGED txUpset
               ELSE UNCHANGED handshaken /\ Blame("late confirm")
       \/ UNCHANGED <<eapol4_confirm, data_blocked, handshaken, txUpset>>
    /\ UNCHANGED <<osVars, skb, mgmt_q, sending, sta_skb>>

-----------------------------------------------------------------------------
(* mac80211: association, scans, and the interface going down and away.    *)

(* rsi_inform_bss_status; an open network unblocks the data at once        *)
Associates ==
    /\ Station /\ ~associated /\ ~iface_down
    /\ associated' = TRUE /\ data_blocked' \in BOOLEAN
    /\ UNCHANGED <<ap, vif, iface_down, peer, bgscan_en, eapol4_confirm, handshaken, frameVars>>

Disassociates ==
    /\ associated /\ associated' = FALSE
    /\ data_blocked' = TRUE /\ bgscan_en' = FALSE
    /\ UNCHANGED <<ap, vif, iface_down, peer, eapol4_confirm, handshaken, frameVars>>

PeerChanges ==
    /\ ap /\ vif /\ peer' = ~peer
    /\ UNCHANGED <<ap, vif, iface_down, associated, bgscan_en, linkVars, frameVars>>

(* a background scan, or its end                                           *)
BgScanChanges ==
    /\ associated /\ bgscan_en' = ~bgscan_en
    /\ UNCHANGED <<ap, vif, iface_down, associated, peer, linkVars, frameVars>>

(* remove_interface comes with the station gone; then rsi_mac80211_stop    *)
RemoveVif ==
    /\ vif /\ ~associated /\ ~peer
    /\ vif' = FALSE
    /\ UNCHANGED <<ap, iface_down, associated, peer, bgscan_en, linkVars, frameVars>>
IfaceDown ==
    /\ ~vif /\ ~iface_down
    /\ iface_down' = TRUE
    /\ UNCHANGED <<ap, vif, associated, peer, bgscan_en, linkVars, frameVars>>
IfaceUp ==
    /\ ~vif /\ vif' = TRUE /\ iface_down' = FALSE
    /\ UNCHANGED <<ap, associated, peer, bgscan_en, linkVars, frameVars>>

TxPathNext ==
    \/ \E f \in Skbs : MacTx(f) \/ TakeData(f)
    \/ TakeMgmt \/ DropUnsent \/ DropProbe \/ CheckFrame \/ WriteFrame
    \/ NullConfirm \/ EapolConfirm
    \/ Associates \/ Disassociates \/ PeerChanges \/ BgScanChanges
    \/ RemoveVif \/ IfaceDown \/ IfaceUp

TxPathSpec == TxPathInit /\ [][TxPathNext]_txPathVars

-----------------------------------------------------------------------------
(* What should hold.                                                       *)

(* No frame comes back to mac80211 twice, except one whose descriptor      *)
(* failed (hal.c:368 reports it, core.c:757 frees it), and null frames     *)
(* when a second was kept while the first's confirmation was due           *)
(* (hal.c:651).                                                            *)
EndsOnce ==
    \A f \in Skbs : skb[f].ends > 1 =>
        IF skb[f].kind = "qosnull" THEN "overwritten" \in txUpset ELSE "descriptor" \in txUpset

(* A frame the driver has done with has come back, unless the interface    *)
(* was down when it was to be reported (mac80211.c:791).                   *)
NothingLost ==
    \A f \in Skbs : skb[f].at = "gone" /\ skb[f].ends = 0 => "down" \in txUpset

(* A kept frame has its confirmation coming, unless it was not written, or *)
(* another took its place.                                                 *)
HeldIsAwaited ==
    (\E f \in Skbs : skb[f].at = "held") =>
        \/ \E i \in DOMAIN cfm : cfm[i] = "null"
        \/ txUpset \cap {"not written", "overwritten", "oops"} # {}

(* A handshake is never queued behind the data it has to unblock           *)
(* (hal.c:311), unless the confirmation of an earlier association's        *)
(* handshake came after this association's request (mgmt.c:4399).          *)
HandshakePasses ==
    \A f \in Skbs :
        skb[f].kind \in Eapol /\ skb[f].at = "data_q" /\ skb[f].shake = "this" /\ ~ap
            => "late confirm" \in txUpset

(* The four above.                                                         *)
TxPathInv == EndsOnce /\ NothingLost /\ HeldIsAwaited /\ HandshakePasses
=============================================================================
