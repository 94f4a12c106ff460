------------------------------- MODULE BgScan -------------------------------
(***************************************************************************)
(* The scan of an associated station: rsi_mac80211_hw_scan_start hands the *)
(* channels to the device (rsi_send_bgscan_params, _probe_req), a long     *)
(* list in two halves; the device confirms each, and the receive thread    *)
(* (BG_SCAN_PROBE_REQ in rsi_handle_ta_confirm) starts the second half or  *)
(* completes the scan.  mac80211 and a suspend may cancel it, the station  *)
(* may leave meanwhile, and debugfs may replace the list.  The handler's   *)
(* steps interleave with all of these; bgscan_lock covers only some.       *)
(***************************************************************************)
EXTENDS Naturals

CONSTANTS
    BgTroubles,     \* which of "lost", "late", "left", "debug" may happen
    MAX_CFMS        \* confirmations that may wait for the receive thread
ASSUME BgScanAssumption ==
    BgTroubles \subseteq {"lost", "late", "left", "debug"} /\ MAX_CFMS \in Nat \ {0}

VARIABLES
    station,    \* the station is associated
    bgscan,     \* mac80211 has a scan it waits for
    channels,   \* the scan request's list: "short" or "long"
    flags,      \* rsi_common: hwscan_en, bgscan_en, bgscan_in_prog,
                \* send_initial_bgscan_chan, and debugfs_bgscan, _en, _stop
    device,     \* [busy: it scans, list: the part it was given, done: what it scanned]
    cfms,       \* confirmations not yet handled
    handler,    \* where the confirmation's handler stands
    cancel,     \* where rsi_mac80211_hw_scan_cancel stands
    cancelling, \* hw_scan_cancel
    event,      \* cancel_hw_scan_event
    bgUpset     \* auxiliary: what happened that the properties exclude;
                \* "twice": a scan was completed that mac80211 does not have

bgVars == <<station, bgscan, channels, flags, device, cfms, handler, cancel,
            cancelling, event, bgUpset>>

Parts == {"all", "first", "second", "debugfs"}
Flags == {"hwscan", "enabled", "in_prog", "initial", "debugfs", "apply", "stop"}
BgExcluded == {"lost", "late", "left", "debug"}

BgTypeOK ==
    /\ station \in BOOLEAN /\ bgscan \in BOOLEAN
    /\ channels \in {"short", "long"}
    /\ flags \subseteq Flags
    /\ device \in [busy : BOOLEAN, list : Parts, done : SUBSET Parts]
    /\ cfms \in 0 .. MAX_CFMS
    /\ handler \in {"idle", "completed", "cleared", "event"}
    /\ cancel \in {"no", "test", "wait", "end"}
    /\ cancelling \in BOOLEAN /\ event \in BOOLEAN
    /\ bgUpset \subseteq BgExcluded \union {"twice"}

BgInit ==
    /\ station = FALSE /\ bgscan = FALSE /\ channels = "short" /\ flags = {}
    /\ device = [busy |-> FALSE, list |-> "all", done |-> {}]
    /\ cfms = 0 /\ handler = "idle"
    /\ cancel = "no" /\ cancelling = FALSE /\ event = FALSE
    /\ bgUpset = {}

May(trouble) == trouble \in BgTroubles
Upsets(troubles) == bgUpset' = bgUpset \union troubles

-----------------------------------------------------------------------------
(* rsi_send_bgscan_params(1): which part of list `l` is sent, and the flags after it *)
PartToSend(l, f) ==
    CASE "debugfs" \in f -> "debugfs"
      [] "debugfs" \notin f /\ l = "short" -> "all"
      [] OTHER -> IF "initial" \in f THEN "second" ELSE "first"
HalfSent(l, f) ==
    CASE PartToSend(l, f) = "first" -> f \union {"initial"}
      [] PartToSend(l, f) = "second" -> f \ {"initial"}
      [] OTHER -> f

(* rsi_send_bgscan_params(0): the device may or may not finish what it does *)
ParamsOff == \E b \in {device.busy, FALSE} : device' = [device EXCEPT !.busy = b]

(* Parameters and probe request: the scan begins if both are sent. *)
Restarted_NoProbe(f) == [device EXCEPT !.list = PartToSend(channels, f)]
Restarted(f) == [device EXCEPT !.list = PartToSend(channels, f), !.busy = TRUE]

(* ieee80211_scan_completed *)
Completed == bgscan' = FALSE
BgClean == bgUpset \intersect BgExcluded = {}
CompletedTwice == IF bgscan \/ ~BgClean THEN {} ELSE {"twice"}

-----------------------------------------------------------------------------
(* rsi_mac80211_hw_scan_start of an associated station.  Its errors are not returned: a
   failed send leaves mac80211 waiting. *)
Settled == ~device.busy /\ cfms = 0 /\ handler = "idle"
ScanStart == \E l \in {"short", "long"}, sent \in {"none", "params", "both"} :
    LET f == flags \union {"hwscan"} IN
    /\ station /\ ~bgscan /\ cancel = "no"
    /\ sent # "both" => May("lost")
    /\ handler # "idle" => May("late")
    /\ bgscan' = TRUE /\ channels' = l
    /\ flags' = CASE sent = "none" -> f
                  [] sent = "params" -> HalfSent(l, f) \union {"in_prog"}
                  [] OTHER -> HalfSent(l, f) \union {"in_prog", "enabled"}
    /\ device' = [device EXCEPT
                    !.list = IF sent = "none" THEN @ ELSE PartToSend(l, f),
                    !.busy = @ \/ sent = "both", !.done = {}]
    /\ bgUpset' = (IF Settled THEN bgUpset \ {"left"} ELSE bgUpset)
                  \union (IF sent # "both" THEN {"lost"} ELSE {})
                  \union (IF handler # "idle" THEN {"late"} ELSE {})
    /\ UNCHANGED <<station, cfms, handler, cancel, cancelling, event>>

DeviceScans ==
    /\ device.busy /\ cfms < MAX_CFMS
    /\ device' = [device EXCEPT !.busy = FALSE, !.done = @ \union {device.list}]
    /\ cfms' = cfms + 1
    /\ UNCHANGED <<station, bgscan, channels, flags, handler, cancel, cancelling, event, bgUpset>>

-----------------------------------------------------------------------------
(* BG_SCAN_PROBE_REQ in rsi_handle_ta_confirm *)
SecondHalf ==
    /\ handler = "idle" /\ cfms > 0 /\ {"hwscan", "initial"} \subseteq flags
    /\ \E sent \in BOOLEAN :
        /\ sent \/ May("lost")
        /\ IF sent THEN device' = Restarted(flags) /\ Upsets({})
                   ELSE UNCHANGED device /\ Upsets({"lost"})
        /\ flags' = (IF sent THEN HalfSent(channels, flags) ELSE flags) \union {"enabled"}
    /\ handler' = "event" /\ cfms' = cfms - 1
    /\ UNCHANGED <<station, bgscan, channels, cancel, cancelling, event>>

Complete ==
    /\ handler = "idle" /\ cfms > 0
    /\ "hwscan" \in flags /\ "initial" \notin flags
    /\ IF channels = "long" /\ "debugfs" \notin flags
         THEN ParamsOff /\ flags' = flags \ {"enabled"}
         ELSE UNCHANGED <<device, flags>>
    /\ Completed /\ Upsets(CompletedTwice)
    /\ handler' = "completed" /\ cfms' = cfms - 1
    /\ UNCHANGED <<station, channels, cancel, cancelling, event>>

InProgCleared_Not(f) == f
InProgCleared(f) == f \ {"in_prog"}
(* under bgscan_lock, with what debugfs left to do *)
ClearInProg ==
    /\ handler = "completed"
    /\ handler' = "cleared"
    /\ CASE "apply" \notin flags -> flags' = InProgCleared(flags) /\ UNCHANGED device
         [] {"apply", "stop"} \subseteq flags ->
              /\ flags' = InProgCleared(flags) \ {"enabled", "stop", "debugfs", "apply"}
              /\ ParamsOff
         [] OTHER ->
              /\ flags' = HalfSent(channels, InProgCleared(flags) \ {"apply"}) \union {"enabled"}
              /\ device' = [device EXCEPT !.list = PartToSend(channels, flags)]
    /\ UNCHANGED <<station, bgscan, channels, cfms, cancel, cancelling, event, bgUpset>>

ClearHwscan ==
    /\ handler = "cleared"
    /\ handler' = "event" /\ flags' = flags \ {"hwscan"}
    /\ UNCHANGED <<station, bgscan, channels, device, cfms, cancel, cancelling, event, bgUpset>>

(* a confirmation no scan waits for *)
IgnoreConfirm ==
    /\ handler = "idle" /\ cfms > 0 /\ "hwscan" \notin flags
    /\ handler' = "event" /\ cfms' = cfms - 1
    /\ UNCHANGED <<station, bgscan, channels, flags, device, cancel, cancelling, event, bgUpset>>

TellsCancel_Early == cancelling /\ "hwscan" \in flags
TellsCancel == cancelling
WakeCancel ==
    /\ handler = "event"
    /\ handler' = "idle"
    /\ event' = (event \/ TellsCancel)
    /\ UNCHANGED <<station, bgscan, channels, flags, device, cfms, cancel, cancelling, bgUpset>>

-----------------------------------------------------------------------------
(* rsi_mac80211_hw_scan_cancel: for the scan, or from a suspend.  common->mutex is held
   until it ends. *)
CancelBegins ==
    /\ cancel = "no"
    /\ cancel' = "test" /\ cancelling' = TRUE
    /\ UNCHANGED <<station, bgscan, channels, flags, device, cfms, handler, event, bgUpset>>

WaitsForDevice == station
CancelTests ==
    /\ cancel = "test"
    /\ IF "in_prog" \in flags /\ WaitsForDevice
         THEN cancel' = "wait" /\ UNCHANGED <<bgscan, bgUpset>>
         ELSE /\ cancel' = "end"
              /\ IF "in_prog" \in flags THEN Completed /\ Upsets(CompletedTwice)
                                        ELSE UNCHANGED <<bgscan, bgUpset>>
    /\ UNCHANGED <<station, channels, flags, device, cfms, handler, cancelling, event>>

CancelWoken ==
    /\ cancel = "wait" /\ event
    /\ cancel' = "end" /\ event' = FALSE
    /\ UNCHANGED <<station, bgscan, channels, flags, device, cfms, handler, cancelling, bgUpset>>

CancelEnds ==
    /\ cancel = "end"
    /\ cancel' = "no" /\ cancelling' = FALSE
    /\ UNCHANGED <<station, bgscan, channels, flags, device, cfms, handler, event, bgUpset>>

-----------------------------------------------------------------------------
StationJoins ==
    /\ ~station /\ ~bgscan
    /\ station' = TRUE
    /\ UNCHANGED <<bgscan, channels, flags, device, cfms, handler, cancel, cancelling, event, bgUpset>>

(* rsi_mac80211_sta_remove, under common->mutex *)
ForgetsHalf_Not(f) == f
ForgetsHalf(f) == f \ {"initial"}
StationLeaves ==
    /\ station /\ cancel = "no"
    /\ bgscan \/ ~Settled => May("left")
    /\ station' = FALSE
    /\ IF "enabled" \in flags
         THEN ParamsOff /\ flags' = ForgetsHalf(flags) \ {"enabled", "hwscan"}
         ELSE flags' = ForgetsHalf(flags) /\ UNCHANGED device
    /\ Upsets(IF bgscan \/ ~Settled THEN {"left"} ELSE {})
    /\ UNCHANGED <<bgscan, channels, cfms, handler, cancel, cancelling, event>>

(* rsi_debug_bgscan_write *)
DebugfsList ==
    /\ May("debug")
    /\ "debugfs" \notin flags
    /\ IF "in_prog" \in flags
         THEN flags' = flags \union {"debugfs", "apply"} /\ UNCHANGED device
         ELSE /\ flags' = flags \union {"debugfs"}
              /\ device' = [device EXCEPT !.list = "debugfs"]
    /\ Upsets(IF bgscan THEN {"debug"} ELSE {})
    /\ UNCHANGED <<station, bgscan, channels, cfms, handler, cancel, cancelling, event>>

DebugfsStop ==
    /\ May("debug")
    /\ "enabled" \in flags
    /\ IF "in_prog" \in flags
         THEN flags' = flags \union {"debugfs", "apply", "stop"} /\ UNCHANGED device
         ELSE flags' = flags \ {"debugfs", "apply", "enabled"} /\ ParamsOff
    /\ Upsets(IF bgscan THEN {"debug"} ELSE {})
    /\ UNCHANGED <<station, bgscan, channels, cfms, handler, cancel, cancelling, event>>

BgHandler == SecondHalf \/ Complete \/ ClearInProg \/ ClearHwscan \/ IgnoreConfirm \/ WakeCancel
BgCancel  == CancelTests \/ CancelWoken \/ CancelEnds
BgNext ==
    \/ ScanStart \/ DeviceScans \/ BgHandler \/ CancelBegins \/ BgCancel
    \/ StationJoins \/ StationLeaves \/ DebugfsList \/ DebugfsStop

(* The receive thread is not stopped, a woken cancel goes on, and the device confirms. *)
BgSpec == BgInit /\ [][BgNext]_bgVars
BgFairSpec == BgSpec /\ WF_bgVars(BgHandler) /\ WF_bgVars(BgCancel) /\ WF_bgVars(DeviceScans)

-----------------------------------------------------------------------------
(* A scan mac80211 waits for is one whose confirmation the driver will take for it: the
   device scans or has confirmed, and hwscan_en is still set. *)
BgScanAnswerable ==
    BgClean /\ bgscan /\ handler \in {"idle", "event"}
        => "hwscan" \in flags /\ (device.busy \/ cfms > 0)

(* ieee80211_scan_completed is called once for each scan, by the handler or by a cancel. *)
CompletedOnce == BgClean => "twice" \notin bgUpset

(* A completed scan covered the whole list, both halves of a long one, also when the one
   before it was broken off by the station leaving. *)
WholeList ==
    [][bgscan /\ ~bgscan' /\ BgClean /\ "debugfs" \notin flags
        => IF channels = "long" THEN {"first", "second"} \subseteq device.done
                                ELSE "all" \in device.done]_bgVars

(* A scan ends, and a cancel that waits for the device, with common->mutex held, too. *)
BgScanEnds == bgscan /\ BgClean ~> ~bgscan \/ ~BgClean
BgCancelReturns == cancel = "wait" /\ BgClean ~> cancel # "wait" \/ ~BgClean

(* Safety of the background scan: mac80211's scan has an answer under way, and gets one. *)
BgInv == BgTypeOK /\ BgScanAnswerable /\ CompletedOnce

(* Nobody waits for ever for a background scan. *)
BgLive == BgScanEnds /\ BgCancelReturns
=============================================================================
