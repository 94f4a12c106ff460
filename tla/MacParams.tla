----------------------------- MODULE MacParams ------------------------------
(***************************************************************************)
(* The parameters mac80211 sets: transmit power, thresholds, protection,   *)
(* fixed rate, beacon interval, EDCA and antenna (rsi_mac80211_config,     *)
(* conf_tx, set_rts_threshold, set_rate_mask, set_antenna,                 *)
(* bss_info_changed) and the frames of rsi_91x_mgmt.c that carry them.     *)
(* Each parameter has three values: what mac80211 wants, the field of      *)
(* rsi_common, and what the device was told.  A frame carries the fields   *)
(* of several parameters, whichever of them it is sent for, so that it     *)
(* repairs the loss of an earlier one; `lostFor` has the parameters whose  *)
(* last frame was lost and not yet repaired.  The driver's default build.  *)
(***************************************************************************)
EXTENDS Naturals

CONSTANT Values     \* values of a parameter: 0 is the one it has after boot; the
                    \* antennas are 0 (internal) and 1
CONSTANT Groups     \* sets of parameters, one of which mac80211 changes in a behaviour

VARIABLES
    vifType,    \* the interface: "none", "STATION" or "AP"
    joined,     \* the station is associated, the access point sends beacons
    want,       \* what mac80211 configured last
    common,     \* the fields of rsi_common
    told,       \* what the device was told
    wmm,        \* the last queue rsi_mac80211_conf_tx was called for
    lostFor,    \* parameters whose last frame was lost
    group,      \* the parameters this behaviour is about
    parUpset    \* auxiliary: "wmm" when EDCA changed at a time it is not sent,
                \* "restored" once the device has booted again

parVars == <<vifType, joined, want, common, told, wmm, lostFor, group, parUpset>>

Params   == {"power", "rts", "protection", "rate", "beacon", "first", "last", "antenna"}
ASSUME MacParamsAssumption == {0, 1} \subseteq Values /\ Groups \subseteq SUBSET Params
(* which parameters each frame carries *)
RadioParams  == {"power"}                                \* RADIO_PARAMS_UPDATE
ScanRequest  == {"power"}                                \* rsi_set_channel
VapUpdate    == {"rts", "protection", "rate"}            \* VAP_DYNAMIC_UPDATE
VapCaps      == {"rts", "beacon"}                        \* VAP_CAPABILITIES
RadioCaps    == {"first", "last"}                        \* RADIO_CAPABILITIES
AntSel       == {"antenna"}                              \* ANT_SEL_FRAME

Bundles == {RadioParams, VapUpdate, VapCaps, RadioCaps, AntSel}

ParTypeOK ==
    /\ vifType \in {"none", "STATION", "AP"}
    /\ joined \in BOOLEAN
    /\ want \in [Params -> Values]
    /\ common \in [Params \union {"obm"} -> Values]
    /\ told \in [Params -> Values]
    /\ wmm \in {"first", "last"}
    /\ lostFor \subseteq Params
    /\ group \in Groups
    /\ parUpset \subseteq {"wmm", "restored"}

ParInit ==
    /\ vifType = "none" /\ joined = FALSE
    /\ want = [p \in Params |-> 0]
    /\ common = [p \in Params \union {"obm"} |-> 0]
    /\ told = [p \in Params |-> 0]
    /\ wmm = "last" /\ lostFor = {} /\ parUpset = {}
    /\ group \in Groups

(* A frame with the parameters of `bundle`, after rsi_common became `c`. *)
FrameTold(bundle, c, ok) == [p \in Params |-> IF ok /\ p \in bundle THEN c[p] ELSE told[p]]
FrameLost(bundle, set, ok) == IF ok THEN lostFor \ bundle ELSE lostFor \union set

SendsFor(bundle, set, c, ok) ==
    /\ common' = c
    /\ told' = FrameTold(bundle, c, ok)
    /\ lostFor' = FrameLost(bundle, set, ok)

SetCommon(p, v) == [common EXCEPT ![p] = v]
Up == vifType # "none"

-----------------------------------------------------------------------------
(* rsi_config_power: a value the field has already is not sent *)
PowerKnown(v) == common["power"] = v
ConfigPower == \E v \in Values, ok \in BOOLEAN :
    /\ "power" \in group
    /\ Up
    /\ want' = [want EXCEPT !["power"] = v]
    /\ IF PowerKnown(v) THEN UNCHANGED <<common, told, lostFor>>
                        ELSE SendsFor(RadioParams, {"power"}, SetCommon("power", v), ok)
    /\ UNCHANGED <<vifType, joined, wmm, parUpset, group>>

(* rsi_set_channel, after a rsi_band_check that sends the radio capabilities when the
   width changes: losing it loses nothing mac80211 had asked for *)
Tune == \E ok, newWidth \in BOOLEAN :
    /\ Up
    /\ SendsFor(ScanRequest \union (IF newWidth THEN RadioCaps ELSE {}), {}, common, ok)
    /\ UNCHANGED <<vifType, joined, want, wmm, parUpset, group>>

(* rsi_mac80211_set_rts_threshold, and rsi_mac80211_config's test of a bit of `changed`
   that announces something else: the threshold is sent again unless it is the maximum *)
SetRts == \E v \in Values, ok \in BOOLEAN :
    /\ "rts" \in group
    /\ want' = [want EXCEPT !["rts"] = v]
    /\ SendsFor(VapUpdate, {"rts"}, SetCommon("rts", v), ok)
    /\ UNCHANGED <<vifType, joined, wmm, parUpset, group>>

ConfigMonitor == \E ok \in BOOLEAN :
    /\ Up /\ common["rts"] # 0
    /\ SendsFor(VapUpdate, {}, common, ok)
    /\ UNCHANGED <<vifType, joined, want, wmm, parUpset, group>>

(* BSS_CHANGED_ERP_CTS_PROT *)
SetProtection == \E v \in Values, ok \in BOOLEAN :
    /\ "protection" \in group
    /\ Up
    /\ want' = [want EXCEPT !["protection"] = v]
    /\ SendsFor(VapUpdate, {"protection"}, SetCommon("protection", v), ok)
    /\ UNCHANGED <<vifType, joined, wmm, parUpset, group>>

(* rsi_mac80211_set_rate_mask; 0 is the automatic rate *)
SetRateMask == \E v \in Values, ok \in BOOLEAN :
    /\ "rate" \in group
    /\ vifType = "STATION" /\ joined
    /\ want' = [want EXCEPT !["rate"] = v]
    /\ SendsFor(VapUpdate, {"rate"}, SetCommon("rate", v), ok)
    /\ UNCHANGED <<vifType, joined, wmm, parUpset, group>>

(* BSS_CHANGED_BEACON_INT: a new value is always stored and sent by an access point *)
BeaconSent_Station == vifType = "STATION"
BeaconSent == vifType = "AP"
SetBeaconInterval == \E v \in Values, ok \in BOOLEAN :
    /\ "beacon" \in group
    /\ Up /\ (vifType = "AP" \/ ~joined)
    /\ want' = [want EXCEPT !["beacon"] = v]
    /\ IF common["beacon"] = v THEN UNCHANGED <<common, told, lostFor>>
       ELSE IF BeaconSent THEN SendsFor(VapCaps, {"beacon"}, SetCommon("beacon", v), ok)
       ELSE common' = SetCommon("beacon", v) /\ UNCHANGED <<told, lostFor>>
    /\ UNCHANGED <<vifType, joined, wmm, parUpset, group>>

-----------------------------------------------------------------------------
(* rsi_mac80211_conf_tx, queue after queue: stored, and sent with the last queue by an
   access point that has its beacons on *)
EdcaComplete_First(q) == joined /\ vifType = "AP" /\ q = "first"
EdcaComplete(q) == joined /\ vifType = "AP" /\ q = "last"
ConfTx == \E q \in {"first", "last"}, v \in Values, ok \in BOOLEAN :
    /\ q \in group
    /\ Up /\ q # wmm
    /\ wmm' = q
    /\ want' = [want EXCEPT ![q] = v]
    /\ IF EdcaComplete(q)
         THEN SendsFor(RadioCaps, RadioCaps, SetCommon(q, v), ok)
         ELSE common' = SetCommon(q, v) /\ UNCHANGED <<told, lostFor>>
    /\ parUpset' = IF vifType = "STATION" /\ joined THEN parUpset \union {"wmm"} ELSE parUpset
    /\ UNCHANGED <<vifType, joined, group>>

(* BSS_CHANGED_ASSOC of a station with QoS: rsi_inform_bss_status sends the radio
   capabilities.  BSS_CHANGED_BEACON_ENABLED of an access point sends nothing. *)
Join == \E ok \in BOOLEAN :
    /\ Up /\ ~joined /\ wmm = "last"
    /\ joined' = TRUE
    /\ IF vifType = "STATION"
         THEN SendsFor(RadioCaps, RadioCaps, common, ok) /\ parUpset' = parUpset \ {"wmm"}
         ELSE /\ UNCHANGED <<common, told, lostFor>>
              /\ parUpset' = IF \A q \in RadioCaps : told[q] = common[q]
                               THEN parUpset ELSE parUpset \union {"wmm"}
    /\ UNCHANGED <<vifType, want, wmm, group>>

Leave ==
    /\ joined /\ wmm = "last"
    /\ joined' = FALSE
    /\ UNCHANGED <<vifType, want, common, told, wmm, lostFor, parUpset, group>>

(* VAP_CAPABILITIES of a new interface: the device's protection and rate start afresh *)
AddVif == \E t \in {"STATION", "AP"} :
    /\ vifType = "none"
    /\ vifType' = t
    /\ told' = [FrameTold(VapCaps, common, TRUE) EXCEPT !["protection"] = 0, !["rate"] = 0]
    /\ lostFor' = lostFor \ VapCaps
    /\ UNCHANGED <<joined, want, common, wmm, parUpset, group>>

RemoveVif ==
    /\ Up /\ ~joined
    /\ vifType' = "none"
    /\ UNCHANGED <<joined, want, common, told, wmm, lostFor, parUpset, group>>

-----------------------------------------------------------------------------
(* rsi_mac80211_set_antenna: the field follows the device, and a failure is reported *)
SetAntenna == \E v \in {0, 1}, ok \in BOOLEAN :
    /\ "antenna" \in group
    /\ IF common["antenna"] = v \/ ~ok
         THEN UNCHANGED <<common, told>>
         ELSE common' = SetCommon("antenna", v) /\ told' = [told EXCEPT !["antenna"] = v]
    /\ UNCHANGED <<vifType, joined, want, wmm, lostFor, parUpset, group>>

OtherAntenna(a) == 1 - a
AntennaInUse_Anyway(v, ok) == v
AntennaInUse(v, ok) == IF ok THEN v ELSE common["antenna"]
ScanChangesAntenna == \E ok \in BOOLEAN :
    LET v == OtherAntenna(common["antenna"]) IN
    /\ "antenna" \in group
    /\ common' = [common EXCEPT !["obm"] = v, !["antenna"] = AntennaInUse(v, ok)]
    /\ told' = IF ok THEN [told EXCEPT !["antenna"] = v] ELSE told
    /\ UNCHANGED <<vifType, joined, want, wmm, lostFor, parUpset, group>>

(* A restore from hibernation.  rsi_set_default_parameters resets the fields of Defaults
   and no other; the device boots with the antenna of rsi_send_common_dev_params;
   mac80211 adds its interface again, configures it and is disconnected.  The power is
   sent again only if it differs from the field. *)
Defaults_NoPower == {"rts", "beacon"}
Defaults == {"power", "rts", "beacon"}
AfterDefaults == [p \in Params \union {"obm"} |-> IF p \in Defaults THEN 0 ELSE common[p]]
Reconfigured == [AfterDefaults EXCEPT !["power"] = want["power"], !["rts"] = want["rts"]]
ParRestore == \E t \in {"STATION", "AP"} :
    /\ Up /\ vifType = t /\ wmm = "last"
    /\ joined' = FALSE
    /\ want' = [want EXCEPT !["beacon"] = 0]
    /\ common' = Reconfigured
    /\ told' = [p \in Params |->
                  CASE p = "power" -> IF AfterDefaults[p] = want[p] THEN 0 ELSE want[p]
                    [] p = "rts" -> want[p]
                    [] p = "antenna" -> common["obm"]
                    [] OTHER -> 0]
    /\ lostFor' = {}
    /\ parUpset' = parUpset \union {"restored"}
    /\ UNCHANGED <<vifType, wmm, group>>

ParNext ==
    \/ ConfigPower \/ Tune \/ SetRts \/ ConfigMonitor \/ SetProtection \/ SetRateMask
    \/ SetBeaconInterval \/ ConfTx \/ Join \/ Leave \/ AddVif \/ RemoveVif
    \/ SetAntenna \/ ScanChangesAntenna \/ ParRestore

ParSpec == ParInit /\ [][ParNext]_parVars

-----------------------------------------------------------------------------
Reached(p) == p \notin lostFor => told[p] = want[p]

(* With an interface up, the device transmits with the power mac80211 configured last,
   also after a restore, where rsi_config_power compares with a reset field; only a lost
   frame leaves them apart, and the next channel change repairs it. *)
PowerFollows == Up => Reached("power")

(* An access point's beacon interval is the configured one: a new interface's
   VAP_CAPABILITIES carries what was configured before it. *)
BeaconIntervalFollows == vifType = "AP" => Reached("beacon")

(* Once all queues are configured the device has the EDCA parameters of a running access
   point or an associated station, unless they changed when the driver does not send
   them: a station's after it associated, an access point's before its beacons are on. *)
EdcaTold ==
    joined /\ wmm = "last" /\ "wmm" \notin parUpset => \A q \in RadioCaps : Reached(q)

(* ant_in_use, by which rsi_mac80211_set_antenna skips a change, is the device's antenna,
   whether or not a change asked for by the scans got through; a restore breaks this. *)
AntennaTruth == "restored" \notin parUpset => told["antenna"] = common["antenna"]

(* Safety of the parameters: the parts above. *)
ParInv == ParTypeOK /\ PowerFollows /\ BeaconIntervalFollows /\ EdcaTold /\ AntennaTruth
=============================================================================
