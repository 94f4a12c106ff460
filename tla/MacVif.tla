------------------------------- MODULE MacVif -------------------------------
(***************************************************************************)
(* The interface and channel operations of rsi_91x_mac80211.c and the      *)
(* frames of rsi_91x_mgmt.c they send, in the default build (one interface *)
(* at a time, vap_id 0): start and stop, add, remove and change interface, *)
(* configuration of the channel, association, remain on channel, the       *)
(* regulatory notifier, and a restore from hibernation.                    *)
(*                                                                         *)
(* A frame is a change of `told`, what the device has been told: the queue   *)
(* of management frames keeps what it accepts, in order but for the peer   *)
(* notifications that StaTable follows.  A frame that cannot be built or   *)
(* queued changes nothing in `told`.  An operation                           *)
(* holds common->mutex from its first line to its last and is one step;    *)
(* the timer's callback, which reads common->roc_vif before it locks, and  *)
(* the receive thread, which never locks, take several.                    *)
(***************************************************************************)
EXTENDS Naturals, FiniteSets

CONSTANTS
    Vifs,       \* mac80211's interfaces
    NoVif,      \* a NULL pointer to an interface
    Chans,      \* channel definitions, records [band, width]
    NoChan,     \* no channel
    MaxTroubles \* bound: how many different things go wrong

ASSUME MacVifAssumption ==
    /\ NoVif \notin Vifs
    /\ NoChan \notin Chans
    /\ \A c \in Chans : c.band \in {"2GHz", "5GHz"} /\ c.width \in {20, 40}

VARIABLES
    mac80211,   \* what mac80211 knows: see MacState
    host,       \* the fields of rsi_common and rsi_hw: see HostState
    told,         \* what the device has been told: see FwState
    roc_timer,      \* common->roc_timer: "idle" or "pending"
    roc_callback,   \* rsi_roc_timeout: "idle", or "running" and not yet holding the mutex
    seenVif,    \* common->roc_vif as the callback read it
    confirm,    \* the receive thread between the two lines of EAPOL4_CONFIRM
    mutex,      \* common->mutex: "free" or "leaked"
    upset       \* auxiliary: what has gone wrong so far

vifVars == <<mac80211, host, told, roc_timer, roc_callback, seenVif, confirm, mutex, upset>>

IfTypes == {"STATION", "AP", "MONITOR"}

(***************************************************************************)
(* mac80211 has at most one interface, added once between a start (`run`   *)
(* is "fresh") and a stop.  `assoc` is "leaving" between the               *)
(* removal of the station and the report of the disassociation, `roc` is   *)
(* "expired" from the driver's report until mac80211's work has run, and   *)
(* `eapol` says that the confirmation of message 4 is still to come.       *)
(***************************************************************************)
MacState ==
    [run : {"down", "fresh", "used"}, vif : Vifs \union {NoVif}, type : IfTypes,
     assoc : {"no", "yes", "leaving"}, open : BOOLEAN, eapol : BOOLEAN,
     conf : Chans, bss : Chans \union {NoChan},
     roc : {"none", "active", "expired"}]

HostState ==
    [vifs0 : Vifs \union {NoVif}, sc_nvifs : 0..1, iface_down : BOOLEAN,
     blocked : BOOLEAN, band : {"2GHz", "5GHz"}, width : {20, 40},
     peer_notify_state : BOOLEAN, roc_vif : Vifs \union {NoVif},
     ap_channel : Chans \union {NoChan}, update_country : BOOLEAN, bgscan_en : BOOLEAN]

Filters == {"none", "open", "assoc", "no_beacons", "closed"}

FwState ==
    [vap : Vifs \union {NoVif}, mode : {"STATION", "AP"}, peer : BOOLEAN, blocked : BOOLEAN,
     band : {"2GHz", "5GHz"}, width : {20, 40},
     chan : Chans \union {NoChan}, filter : Filters]

Troubles == {"lost", "refused_roc", "late_cancel", "late_confirm", "split_confirm",
             "off_channel", "idle_roc", "deaf", "monitor"}

VifTypeOK ==
    /\ mac80211 \in MacState
    /\ host \in HostState
    /\ told \in FwState
    /\ roc_timer \in {"idle", "pending"}
    /\ roc_callback \in {"idle", "running"}
    /\ seenVif \in Vifs \union {NoVif}
    /\ confirm \in {"idle", "unblocked"}
    /\ mutex \in {"free", "leaked"}
    /\ upset \subseteq Troubles

-----------------------------------------------------------------------------
(* The device and the driver after start-up. *)

Booted == [vap |-> NoVif, mode |-> "STATION", peer |-> FALSE, blocked |-> FALSE,
           band |-> "2GHz", width |-> 20, chan |-> NoChan, filter |-> "none"]

VifInit ==
    /\ \E c \in Chans :
        /\ c.band = "2GHz" /\ c.width = 20
        /\ mac80211 = [run |-> "down", vif |-> NoVif, type |-> "STATION", assoc |-> "no", open |-> TRUE,
                  eapol |-> FALSE, conf |-> c, bss |-> NoChan, roc |-> "none"]
    /\ host = [vifs0 |-> NoVif, sc_nvifs |-> 0, iface_down |-> TRUE, blocked |-> FALSE,
               band |-> "2GHz", width |-> 20, peer_notify_state |-> FALSE,
               roc_vif |-> NoVif, ap_channel |-> NoChan, update_country |-> FALSE, bgscan_en |-> FALSE]
    /\ told = Booted
    /\ roc_timer = "idle"
    /\ roc_callback = "idle"
    /\ seenVif = NoVif
    /\ confirm = "idle"
    /\ mutex = "free"
    /\ upset = {}

(* Mutant: the deletion of the interface is forgotten. *)
DeleteVapForgotten(f, ok) == f

(***************************************************************************)
(* Frames.  `ok` says whether the frame was built and queued; each         *)
(* operator returns what the device then knows.  `upset` records failures. *)
(***************************************************************************)
Told(f, ok, after) == IF ok THEN after ELSE f

SetVapCapabilities(f, vif, type, ok) ==
    Told(f, ok, [f EXCEPT !.vap = vif, !.mode = IF type = "AP" THEN "AP" ELSE "STATION"])
DeleteVap(f, ok)       == Told(f, ok, [f EXCEPT !.vap = NoVif])
SendRxFilter(f, w, ok) == Told(f, ok, [f EXCEPT !.filter = w])
SendBlock(f, b, ok)    == Told(f, ok, [f EXCEPT !.blocked = b])
SendPeer(f, p, ok)     == Told(f, ok, [f EXCEPT !.peer = p])
SetChannel(f, c, ok)   == Told(f, ok, [f EXCEPT !.chan = c])

(* Mutant: the flag is cleared whatever became of the frame. *)
UnblockedAnyway(h, ok) == [h EXCEPT !.blocked = FALSE]

(* The flag of the blocked queues is cleared when the unblocking frame was queued. *)
Unblocked(h, ok)    == [h EXCEPT !.blocked = @ /\ ~ok]

(* Mutant: the band is not recorded. *)
BandForgotten(h, c, conf) == [h EXCEPT !.width = conf.width]

(* rsi_band_check: the new band and width are recorded first; the RF is programmed
   only when the endpoint (band and width) differs from the recorded one, the boot
   parameters and radio capabilities only when the width does. *)
BandChecked(h, c, conf) == [h EXCEPT !.band = c.band, !.width = conf.width]
ProgramRf(f, h, c, conf, ok) ==
    LET newEp == c.band # h.band \/ conf.width # h.width
    IN  Told(f, ok /\ newEp, [f EXCEPT !.band = c.band, !.width = conf.width])

(* One operation fails to send some frames: the bound on failures. *)
Outcomes == IF "lost" \in upset THEN {TRUE} ELSE BOOLEAN
Upset(oks) == IF FALSE \in oks THEN upset \union {"lost"} ELSE upset

Ready == mutex = "free"

Associated == mac80211.type = "STATION" /\ mac80211.assoc # "no"     \* BSS_ASSOC of the station

Same == UNCHANGED <<roc_timer, roc_callback, seenVif, confirm, mutex>>

-----------------------------------------------------------------------------
(* Interfaces. *)

(* Mutant: starting does not set the filter. *)
StartDeaf ==
    /\ Ready /\ mac80211.run = "down"
    /\ mac80211' = [mac80211 EXCEPT !.run = "fresh"]
    /\ host' = [host EXCEPT !.iface_down = FALSE]
    /\ UNCHANGED <<told, upset>> /\ Same

(* rsi_mac80211_start and rsi_mac80211_stop *)
Start == \E ok \in Outcomes :
    /\ Ready /\ mac80211.run = "down"
    /\ mac80211' = [mac80211 EXCEPT !.run = "fresh"]
    /\ host' = [host EXCEPT !.iface_down = FALSE]
    /\ told' = SendRxFilter(told, "open", ok)
    /\ upset' = Upset({ok})
    /\ Same

(* Mutant: the table of interfaces is not looked at. *)
RoomAnyway == TRUE

Stop == \E ok \in Outcomes :
    /\ Ready /\ mac80211.vif = NoVif /\ mac80211.run # "down"
    /\ mac80211' = [mac80211 EXCEPT !.run = "down"]
    /\ host' = [host EXCEPT !.iface_down = TRUE]
    /\ told' = SendRxFilter(told, "closed", ok)
    /\ upset' = Upset({ok})
    /\ Same

RoomForVif == host.sc_nvifs = 0

(* rsi_mac80211_add_interface: the table is written before the frame is sent, and
   stays written when the frame fails and mac80211 is told so *)
AddInterface == \E v \in Vifs, t \in IfTypes, okVap, okFilter \in Outcomes :
    /\ Ready /\ mac80211.run = "fresh" /\ RoomForVif
    /\ host' = [host EXCEPT !.vifs0 = v, !.sc_nvifs = @ + 1]
    /\ told' = LET f == SetVapCapabilities(told, v, t, okVap)
             IN  IF okVap /\ t = "AP" THEN SendRxFilter(f, "no_beacons", okFilter) ELSE f
    /\ mac80211' = IF okVap THEN [mac80211 EXCEPT !.run = "used", !.vif = v, !.type = t]
                        ELSE [mac80211 EXCEPT !.run = "used"]
    /\ upset' = Upset({okVap, okFilter})
    /\ Same

(* rsi_mac80211_remove_interface: a monitor interface leaves by the default case *)
RemoveInterface == \E ok \in Outcomes :
    /\ Ready /\ mac80211.vif # NoVif /\ mac80211.roc = "none" /\ mac80211.assoc = "no"
    /\ host.vifs0 = mac80211.vif
    /\ mac80211' = [mac80211 EXCEPT !.vif = NoVif, !.type = "STATION", !.bss = NoChan]
    /\ IF mac80211.type = "MONITOR"
         THEN /\ host' = [host EXCEPT !.sc_nvifs = 0]
              /\ upset' = upset \union {"monitor"}
              /\ UNCHANGED told
         ELSE /\ host' = [host EXCEPT !.sc_nvifs = 0, !.vifs0 = NoVif]
              /\ told' = DeleteVap(told, ok)
              /\ upset' = Upset({ok})
    /\ Same

(* rsi_mac80211_change_interface: a deletion whose result is ignored, then an addition *)
ChangeInterface == \E t \in {"STATION", "AP"}, okDel, okAdd, okFilter \in Outcomes :
    /\ Ready /\ mac80211.vif # NoVif /\ mac80211.type \notin {t, "MONITOR"}
    /\ mac80211.roc = "none" /\ mac80211.assoc = "no"
    /\ mac80211' = [mac80211 EXCEPT !.type = t, !.bss = NoChan]
    /\ told' = LET f == SetVapCapabilities(DeleteVap(told, okDel), mac80211.vif, t, okAdd)
             IN  IF t = "AP" THEN SendRxFilter(f, "no_beacons", okFilter) ELSE f
    /\ upset' = Upset({okDel, okAdd, okFilter}) \union (IF t = "AP" THEN {} ELSE {"deaf"})
    /\ UNCHANGED host /\ Same

(* Mutant: the comparison is inverted. *)
LeavesInverted(bss, c) == ~host.blocked /\ bss = c

-----------------------------------------------------------------------------
(* The channel.  rsi_get_connected_channel is mac80211.bss while the interface is up. *)

LeavesChannel(bss, c) == ~host.blocked /\ bss # c

(* rsi_mac80211_config with a new channel.  mac80211 either tunes the interface to it
   (bss follows) or leaves the interface's channel for a while (a software scan). *)
ConfigChannel == \E c \in Chans, tune \in BOOLEAN, okBlock, okRf, okChan, okUnblock \in Outcomes :
    LET bss     == IF tune THEN c ELSE mac80211.bss
        blocks  == Associated /\ LeavesChannel(bss, c)
        f1      == IF blocks THEN SendBlock(told, TRUE, okBlock) ELSE told
        tuned   == okRf /\ okChan
        h1      == [host EXCEPT !.ap_channel = IF mac80211.type = "AP" /\ ~tuned THEN @ ELSE c,
                                !.blocked = @ \/ (blocks /\ okBlock)]
        h2      == BandChecked(h1, c, c)
        f2      == ProgramRf(f1, h1, c, c, okRf)
        opens   == Associated /\ h1.blocked /\ bss = c /\ tuned
    IN  /\ Ready /\ mac80211.vif # NoVif /\ (tune \/ mac80211.type = "STATION")
        /\ mac80211.assoc = "yes" /\ tune => c = mac80211.bss
        /\ mac80211' = [mac80211 EXCEPT !.conf = c, !.bss = bss]
        /\ IF host.bgscan_en /\ Associated
             THEN /\ host' = [host EXCEPT !.ap_channel = c]
                  /\ UNCHANGED <<told, upset>>
             ELSE /\ host' = IF opens THEN Unblocked(h2, okUnblock) ELSE h2
                  /\ told' = LET f3 == SetChannel(f2, c, tuned)
                           IN  IF opens THEN SendBlock(f3, FALSE, okUnblock) ELSE f3
                  /\ upset' = Upset({okBlock, okRf, okChan, okUnblock}) \ {"idle_roc"}
        /\ Same

(* rsi_reg_notify: the device is tuned once more for the new country *)
RegNotify == \E ok \in Outcomes :
    /\ Ready /\ host.vifs0 = mac80211.vif /\ mac80211.vif # NoVif
    /\ Associated /\ ~host.update_country /\ host.ap_channel # NoChan
    /\ told' = SetChannel(told, host.ap_channel, ok)
    /\ host' = [host EXCEPT !.update_country = TRUE]
    /\ upset' = Upset({ok}) \union 
               (IF told.chan # host.ap_channel THEN {"off_channel"} ELSE {})
    /\ UNCHANGED mac80211 /\ Same

-----------------------------------------------------------------------------
(* Association. *)

(* rsi_mac80211_bss_info_changed and rsi_inform_bss_status: data is blocked in the
   driver alone, until the unblock frame of an open network or of EAPOL message 4 *)
Associate == \E open \in BOOLEAN, okFilter, okPeer, okUnblock \in Outcomes :
    /\ Ready /\ mac80211.vif # NoVif /\ mac80211.type = "STATION" /\ mac80211.assoc = "no"
    /\ mac80211.bss # NoChan /\ mac80211.conf = mac80211.bss
    /\ mac80211' = [mac80211 EXCEPT !.assoc = "yes", !.open = open, !.eapol = @ \/ ~open]
    /\ host' = LET h == [host EXCEPT !.blocked = TRUE, !.peer_notify_state = @ \/ okPeer]
               IN  IF open THEN Unblocked(h, okUnblock) ELSE h
    /\ told' = LET f == SendPeer(SendRxFilter(told, "assoc", okFilter), TRUE, okPeer)
             IN  IF open THEN SendBlock(f, FALSE, okUnblock) ELSE f
    /\ upset' = Upset({okFilter, okPeer, okUnblock})
    /\ Same

(* rsi_mac80211_sta_remove of the station's peer *)
StaRemove == \E okScan, okFilter \in Outcomes :
    /\ Ready /\ mac80211.assoc = "yes"
    /\ mac80211' = [mac80211 EXCEPT !.assoc = "leaving"]
    /\ host' = [host EXCEPT !.update_country = FALSE, !.bgscan_en = @ /\ ~okScan]
    /\ told' = IF host.iface_down THEN told ELSE SendRxFilter(told, "open", okFilter)
    /\ upset' = Upset({okScan, okFilter})
    /\ Same

(* the other branch of rsi_inform_bss_status *)
Disassociate == \E okPeer, okBlock \in Outcomes :
    /\ Ready /\ mac80211.assoc = "leaving"
    /\ mac80211' = [mac80211 EXCEPT !.assoc = "no", !.open = TRUE, !.bss = NoChan]
    /\ host' = [host EXCEPT !.blocked = TRUE, !.peer_notify_state = @ /\ ~okPeer]
    /\ told' = SendBlock(SendPeer(told, FALSE, okPeer), TRUE, okBlock)
    /\ upset' = Upset({okPeer, okBlock})
    /\ Same

(* The BSSID is cleared without a change of the association: a peer whose deletion
   failed is deleted now.  rsi_mac80211_event_callback deletes it without the mutex
   when an association is denied or times out. *)
DeletePeerAgain == \E denied \in BOOLEAN, ok \in Outcomes :
    /\ mac80211.vif # NoVif /\ mac80211.type = "STATION" /\ mac80211.assoc = "no"
    /\ IF denied THEN mac80211.bss # NoChan ELSE Ready /\ host.peer_notify_state
    /\ host' = [host EXCEPT !.peer_notify_state = @ /\ ~ok]
    /\ told' = SendPeer(told, FALSE, ok)
    /\ upset' = Upset({ok})
    /\ UNCHANGED mac80211 /\ Same

(* rsi_mac80211_hw_scan_start of an associated station *)
BgScanStarts ==
    /\ Ready /\ mac80211.assoc = "yes" /\ mac80211.conf = mac80211.bss /\ ~host.bgscan_en
    /\ mac80211.roc = "none"
    /\ host' = [host EXCEPT !.bgscan_en = TRUE]
    /\ UNCHANGED <<mac80211, told, upset>> /\ Same

(* EAPOL4_CONFIRM in rsi_mgmt_pkt_recv, on the receive thread and without the mutex *)
ConfirmUnblocks == \E ok \in Outcomes :
    /\ mac80211.eapol /\ confirm = "idle" /\ host.vifs0 # NoVif /\ mac80211.type = "STATION"
    /\ mac80211' = [mac80211 EXCEPT !.eapol = FALSE]
    /\ told' = SendBlock(told, FALSE, ok)
    /\ confirm' = IF ok THEN "unblocked" ELSE "idle"
    /\ upset' = Upset({ok}) \union
                (IF mac80211.assoc # "yes" \/ mac80211.conf # mac80211.bss THEN {"late_confirm"} ELSE {})
    /\ UNCHANGED <<host, roc_timer, roc_callback, seenVif, mutex>>

ConfirmClears ==
    /\ confirm = "unblocked"
    /\ confirm' = "idle"
    /\ host' = [host EXCEPT !.blocked = FALSE]
    /\ upset' = IF told.blocked \/ mac80211.assoc # "yes" \/ mac80211.conf # mac80211.bss
                  THEN upset \union {"split_confirm"} ELSE upset
    /\ UNCHANGED <<mac80211, told, roc_timer, roc_callback, seenVif, mutex>>

-----------------------------------------------------------------------------
(* Remain on channel. *)

(* Mutant: the band is checked, the channel is not set. *)
ResumeBandOnly(okRf, okChan) ==
    IF ~host.iface_down /\ host.vifs0 # NoVif /\ mac80211.bss # NoChan
      THEN /\ host' = BandChecked(host, mac80211.bss, mac80211.conf)
           /\ told' = ProgramRf(told, host, mac80211.bss, mac80211.conf, okRf)
           /\ upset' = Upset({okRf, okChan})
      ELSE UNCHANGED <<host, told, upset>>

(* Mutant: the timer is forgotten. *)
ArmNothing == UNCHANGED roc_timer

(* rsi_resume_conn_channel: a failure of either frame is ignored *)
ResumeChannel(okRf, okChan) ==
    IF ~host.iface_down /\ host.vifs0 # NoVif /\ mac80211.bss # NoChan
       /\ (Associated \/ mac80211.type = "AP")
      THEN /\ host' = BandChecked(host, mac80211.bss, mac80211.conf)
           /\ told' = SetChannel(ProgramRf(told, host, mac80211.bss, mac80211.conf, okRf), mac80211.bss, okChan)
           /\ upset' = Upset({okRf, okChan})
      ELSE UNCHANGED <<host, told, upset>>

ArmRocTimer == roc_timer' = "pending"

(* rsi_mac80211_roc: the timer is armed before anything can fail, and stays armed *)
Roc == \E c \in Chans, okRf, okChan \in Outcomes :
    LET h == BandChecked(host, c, mac80211.conf)
        f == ProgramRf(told, host, c, mac80211.conf, okRf)
        done == okRf /\ okChan
    IN  /\ Ready /\ mac80211.vif # NoVif /\ mac80211.type # "MONITOR" /\ mac80211.roc = "none"
        /\ mac80211.bss \in {NoChan, mac80211.conf}
        /\ ArmRocTimer
        /\ host' = IF done THEN [h EXCEPT !.roc_vif = mac80211.vif] ELSE h
        /\ told' = SetChannel(f, c, done)
        /\ mac80211' = IF done THEN [mac80211 EXCEPT !.roc = "active"] ELSE mac80211
        /\ upset' = Upset({okRf, okChan}) \union (IF done THEN {} ELSE {"refused_roc"})
                     \union (IF mac80211.type = "STATION" /\ ~Associated THEN {"idle_roc"} ELSE {})
        /\ UNCHANGED <<roc_callback, seenVif, confirm, mutex>>

(* rsi_roc_timeout: common->roc_vif is read before the mutex is taken *)
TimerFires ==
    /\ roc_timer = "pending" /\ roc_callback = "idle"
    /\ roc_timer' = "idle" /\ roc_callback' = "running"
    /\ seenVif' = host.roc_vif
    /\ UNCHANGED <<mac80211, host, told, confirm, mutex, upset>>

RocTimeout == \E okRf, okChan \in Outcomes :
    /\ Ready /\ roc_callback = "running" /\ seenVif = mac80211.vif
    /\ roc_callback' = "idle" /\ seenVif' = NoVif /\ roc_timer' = "idle"
    /\ mac80211' = [mac80211 EXCEPT !.roc = IF @ = "active" THEN "expired" ELSE @]
    /\ ResumeChannel(okRf, okChan)
    /\ UNCHANGED <<confirm, mutex>>

(* mac80211's work after ieee80211_remain_on_channel_expired *)
RocDone ==
    /\ mac80211.roc = "expired"
    /\ mac80211' = [mac80211 EXCEPT !.roc = "none"]
    /\ UNCHANGED <<host, told, upset>> /\ Same

(* Mutant: the timer is looked at and left. *)
TimerLeft == roc_timer

(* timer_pending, then del_timer *)
TimerDeleted == roc_timer = "pending"
TimerAfterCancel == "idle"

(* rsi_mac80211_cancel_roc: without a pending timer it returns with the mutex *)
CancelRoc == \E okRf, okChan \in Outcomes :
    /\ Ready /\ mac80211.roc # "none"
    /\ mac80211' = [mac80211 EXCEPT !.roc = "none"]
    /\ IF ~TimerDeleted
         THEN /\ mutex' = "leaked"
              /\ upset' = upset \union {"late_cancel"}
              /\ UNCHANGED <<host, told>>
         ELSE /\ ResumeChannel(okRf, okChan)
              /\ UNCHANGED mutex
    /\ roc_timer' = TimerAfterCancel
    /\ UNCHANGED <<roc_callback, seenVif, confirm>>

-----------------------------------------------------------------------------
VifNext ==
    /\ \/ Start \/ Stop \/ AddInterface \/ RemoveInterface \/ ChangeInterface
       \/ ConfigChannel \/ RegNotify
       \/ Associate \/ StaRemove \/ Disassociate \/ DeletePeerAgain \/ BgScanStarts
       \/ ConfirmUnblocks \/ ConfirmClears
       \/ Roc \/ TimerFires \/ RocTimeout \/ RocDone \/ CancelRoc
    /\ Cardinality(upset') <= MaxTroubles

VifSpec == VifInit /\ [][VifNext]_vifVars

(* The timer fires, its callback gets a mutex that is free, mac80211's work runs. *)
VifFairSpec == VifSpec /\ WF_vifVars(TimerFires) /\ SF_vifVars(RocTimeout) /\ WF_vifVars(RocDone)

-----------------------------------------------------------------------------
None(troubles) == upset \intersect troubles = {}

(* Add, remove and change of an interface (mac80211.c:958-1276) keep three tables in
   step: mac80211's, the driver's and the device's; a failed frame or a monitor
   interface parts them. *)
VifsAgree ==
    None({"lost", "monitor"}) =>
        /\ host.vifs0 = mac80211.vif /\ told.vap = mac80211.vif
        /\ host.sc_nvifs = IF mac80211.vif = NoVif THEN 0 ELSE 1
        /\ mac80211.vif # NoVif => (told.mode = "AP") = (mac80211.type = "AP")

(* The driver never feeds data queues that it has blocked in the device (mgmt.c:2898),
   whatever frame fails, unless a disassociation or a channel change falls between the
   two lines of EAPOL4_CONFIRM. *)
BlockedIsKnown ==
    None({"split_confirm"}) /\ told.blocked => host.blocked

(* Data of a station on an open network flows on its channel and is held off it
   (channel_change, inform_bss_status), except when the confirmation of EAPOL
   message 4 comes late or while a background scan ignores the channel. *)
DataFollowsChannel ==
    /\ mac80211.assoc = "yes" /\ ~host.bgscan_en
    /\ None({"lost", "late_confirm", "split_confirm"}) /\ confirm = "idle"
    => (mac80211.conf # mac80211.bss => host.blocked) /\ (mac80211.conf = mac80211.bss /\ mac80211.open => ~host.blocked)

(* After remain-on-channel, off-channel visits and country changes the device is back
   on the channel of the association or access point.  Not after a visit made before
   the association: rsi_resume_conn_channel does nothing then, and mac80211 configures
   a channel only when it changes. *)
OnChannel ==
    /\ mac80211.assoc = "yes" \/ (mac80211.type = "AP" /\ mac80211.bss # NoChan)
    /\ mac80211.roc # "active" /\ mac80211.conf = mac80211.bss /\ ~host.bgscan_en
    /\ None({"lost", "late_cancel", "off_channel", "idle_roc"})
    => told.chan = mac80211.bss

(* The RF is programmed for the band the device is tuned to (rsi_band_check before
   rsi_set_channel), except when a country change during remain-on-channel tunes
   without checking the band. *)
RfProgrammed ==
    /\ None({"lost", "off_channel"})
    /\ told.chan # NoChan
    => told.band = told.chan.band

(* A station that is looking for a network hears beacons (the filters of start, stop,
   add_interface, bss_info_changed and sta_remove); one that was an access point until
   change_interface keeps that role's filter. *)
HearsBeacons ==
    /\ mac80211.vif # NoVif /\ mac80211.type = "STATION" /\ mac80211.assoc # "yes"
    /\ None({"lost", "deaf"})
    => told.filter = "open"

(* The timer's callback finds a live interface behind common->roc_vif. *)
RocVifAlive ==
    None({"refused_roc", "late_cancel"}) /\ roc_callback = "running" => seenVif = mac80211.vif

(* Each accepted remain-on-channel ends, by the timer or by a cancel that is not late. *)
RocEnds == mac80211.roc = "active" ~> mac80211.roc # "active" \/ ~None({"late_cancel", "refused_roc"})

(* Safety of the interface: the parts above. *)
VifInv ==
    /\ VifTypeOK
    /\ VifsAgree /\ BlockedIsKnown /\ DataFollowsChannel
    /\ OnChannel /\ RfProgrammed /\ HearsBeacons /\ RocVifAlive
=============================================================================
