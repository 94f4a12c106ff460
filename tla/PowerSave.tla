------------------------------ MODULE PowerSave -----------------------------
(***************************************************************************)
(* Power save (rsi_91x_ps.c): rsi_enable_ps and rsi_disable_ps send a      *)
(* request and then write ps_state; the device confirms in order and       *)
(* rsi_handle_ps_confirm moves ps_state on.  Requests come from mac80211's *)
(* operations, transmissions, the receive thread, the scan worker and the  *)
(* traffic timer, and nothing makes the send and the write one step.       *)
(* Built for kernels from 6.0 on, where user_ps_en follows the requests.   *)
(***************************************************************************)
EXTENDS Naturals, Sequences

CONSTANTS
    Monitors,       \* whether ps_info.monitor_interval may be set, unset or both
    DeepSleep,      \* TRUE: default_deep_sleep_enable
    MAX_REQS,       \* requests and confirmations under way
    PsTroubles      \* which of "lost", "early", "crossed" may happen
ASSUME PowerSaveAssumption ==
    /\ Monitors \subseteq BOOLEAN /\ DeepSleep \in BOOLEAN /\ MAX_REQS \in Nat \ {0}
    /\ PsTroubles \subseteq {"lost", "early", "crossed"}

VARIABLES
    ps_state,
    monitor,        \* ps_info.monitor_interval is not 0; set by debugfs or not at all
    user_ps_en,
    writer,         \* writer[t]: what thread t has sent and not yet written
    link,           \* "idle", "station" (associated) or "ap"
    lmac,           \* [off: disable_ps_from_lmac, paused: wifi_paused]
    traffic_timer,  \* pending
    requests,       \* sent, not yet executed by the device
    confirms,       \* confirmations the receive thread has not yet handled
    sleeping,       \* the device: "awake", "deep" or "connected"
    trafficOff,     \* auxiliary: traffic ended the power save of this connection
    lastSent,       \* auxiliary: the last request
    psUpset         \* auxiliary: excluded by the properties

psVars == <<ps_state, monitor, user_ps_en, writer, link, lmac, traffic_timer, requests, confirms,
            sleeping, trafficOff, lastSent, psUpset>>

PsThreads == {"mac", "tx", "rx", "scan", "timer"}
Requests  == {"wake", "deep", "connected"}

PsTypeOK ==
    /\ ps_state \in {"NONE", "ENABLE_REQ_SENT", "DISABLE_REQ_SENT", "ENABLED"}
    /\ monitor \in Monitors /\ user_ps_en \in BOOLEAN
    /\ writer \in [PsThreads -> {"idle", "enable", "disable"}]
    /\ link \in {"idle", "station", "ap"}
    /\ lmac \in [off : BOOLEAN, paused : BOOLEAN]
    /\ traffic_timer \in BOOLEAN
    /\ requests \in Seq(Requests) /\ confirms \in Seq(Requests)
    /\ Len(requests) + Len(confirms) <= MAX_REQS
    /\ sleeping \in {"awake", "deep", "connected"}
    /\ trafficOff \in BOOLEAN
    /\ lastSent \in Requests
    /\ psUpset \subseteq {"lost", "early", "crossed"}

PsInit ==
    /\ ps_state = "NONE" /\ user_ps_en = FALSE /\ monitor \in Monitors
    /\ writer = [t \in PsThreads |-> "idle"]
    /\ link = "idle" /\ lmac = [off |-> FALSE, paused |-> FALSE]
    /\ traffic_timer = FALSE
    /\ requests = <<>> /\ confirms = <<>> /\ sleeping = "awake"
    /\ trafficOff = FALSE /\ lastSent = "wake" /\ psUpset = {}

Room(n) == Len(requests) + Len(confirms) + n <= MAX_REQS
Idle(t) == writer[t] = "idle"
Quiet == \A t \in PsThreads : Idle(t)

-----------------------------------------------------------------------------
(* rsi_send_ps_request: to an associated station the sleep is a connected one *)
SleepKind_Stale == "deep"
SleepKind == IF link = "station" THEN "connected" ELSE "deep"
Request(what) == IF what = "enable" THEN SleepKind ELSE "wake"

Crossing(t) == \E u \in PsThreads \ {t} : ~Idle(u)

(* The first half of rsi_enable_ps or rsi_disable_ps by thread t. *)
Sends(t, what) ==
    /\ Idle(t) /\ Room(1)
    /\ Crossing(t) => "crossed" \in PsTroubles
    /\ \/ /\ requests' = Append(requests, Request(what))
          /\ lastSent' = Request(what)
          /\ writer' = [writer EXCEPT ![t] = what]
          /\ psUpset' = IF Crossing(t) THEN psUpset \union {"crossed"} ELSE psUpset
       \/ /\ "lost" \in PsTroubles
          /\ psUpset' = psUpset \union {"lost"}
          /\ UNCHANGED <<requests, lastSent, writer>>
SendsNothing == UNCHANGED <<requests, lastSent, writer, psUpset>>

(* Their second half: the state, and user_ps_en on these kernels *)
UserDisables == ~monitor /\ ~lmac.off
Writes == \E t \in PsThreads :
    /\ ~Idle(t)
    /\ ps_state' = IF writer[t] = "enable" THEN "ENABLE_REQ_SENT" ELSE "DISABLE_REQ_SENT"
    /\ user_ps_en' = CASE writer[t] = "enable" -> TRUE
                       [] writer[t] = "disable" /\ UserDisables -> FALSE
                       [] OTHER -> user_ps_en
    /\ writer' = [writer EXCEPT ![t] = "idle"]
    /\ UNCHANGED <<monitor, link, lmac, traffic_timer, requests, confirms, sleeping, trafficOff, lastSent, psUpset>>

(* the device, in order *)
DeviceSleeps ==
    /\ requests # <<>>
    /\ sleeping' = IF Head(requests) = "wake" THEN "awake" ELSE Head(requests)
    /\ confirms' = Append(confirms, Head(requests))
    /\ requests' = Tail(requests)
    /\ UNCHANGED <<monitor, ps_state, user_ps_en, writer, link, lmac, traffic_timer, trafficOff, lastSent, psUpset>>

(* rsi_handle_ps_confirm *)
Confirmed_AnyWake(c) ==
    CASE c = "wake" -> "NONE"
      [] c # "wake" /\ ps_state = "ENABLE_REQ_SENT" -> "ENABLED"
      [] OTHER -> ps_state
Confirmed(c) ==
    CASE c # "wake" /\ ps_state = "ENABLE_REQ_SENT" -> "ENABLED"
      [] c = "wake" /\ ps_state = "DISABLE_REQ_SENT" -> "NONE"
      [] OTHER -> ps_state
PsConfirm ==
    /\ confirms # <<>> /\ Idle("rx")
    /\ ~Quiet => "early" \in PsTroubles
    /\ psUpset' = IF Quiet THEN psUpset ELSE psUpset \union {"early"}
    /\ ps_state' = Confirmed(Head(confirms))
    /\ confirms' = Tail(confirms)
    /\ trafficOff' = (trafficOff /\ ps_state' # "ENABLED")
    /\ UNCHANGED <<monitor, user_ps_en, writer, link, lmac, traffic_timer, requests, sleeping, lastSent>>

-----------------------------------------------------------------------------
(* Requests of mac80211's operations                                        *)

(* IEEE80211_CONF_CHANGE_PS in rsi_mac80211_config: user_ps_en decides *)
ConfigPs ==
    /\ link # "ap" /\ Idle("mac")
    /\ CASE ~user_ps_en -> Sends("mac", "enable") /\ user_ps_en' = TRUE
         [] user_ps_en /\ ps_state = "ENABLED" -> Sends("mac", "disable") /\ user_ps_en' = FALSE
         [] OTHER -> SendsNothing /\ UNCHANGED user_ps_en
    /\ UNCHANGED <<monitor, ps_state, link, lmac, traffic_timer, confirms, sleeping, trafficOff>>

(* rsi_mac80211_stop, and rsi_mac80211_attach *)
StopsAsleep ==
    /\ DeepSleep /\ link = "idle"
    /\ Sends("mac", "enable")
    /\ UNCHANGED <<monitor, ps_state, user_ps_en, link, lmac, traffic_timer, confirms, sleeping, trafficOff>>

(* a channel change before the association, rsi_mac80211_tx of an unassociated station
   or an access point, change_interface to an access point, set_bb_rf_values, PER, the
   scan worker: out of PS_ENABLED only *)
MayWake_IfNotAwake == ps_state # "NONE"
MayWake == ps_state = "ENABLED"
WakeToAct == \E t \in {"mac", "tx", "scan"} :
    /\ t = "tx" => link # "station"
    /\ MayWake
    /\ Sends(t, "disable")
    /\ UNCHANGED <<monitor, ps_state, user_ps_en, link, lmac, traffic_timer, confirms, sleeping, trafficOff>>

(* the scan worker's end *)
ScanSleeps ==
    /\ DeepSleep /\ link # "ap" /\ ps_state = "NONE"
    /\ Sends("scan", "enable")
    /\ UNCHANGED <<monitor, ps_state, user_ps_en, link, lmac, traffic_timer, confirms, sleeping, trafficOff>>

(* rsi_conf_uapsd: to the device and back, ps_state stays *)
ConfUapsd ==
    /\ link = "station" /\ ps_state = "ENABLED" /\ Idle("mac") /\ Room(2)
    /\ ~Crossing("mac")
    /\ requests' = requests \o <<"wake", SleepKind>>
    /\ lastSent' = SleepKind
    /\ UNCHANGED <<monitor, ps_state, user_ps_en, writer, link, lmac, traffic_timer, confirms, sleeping, trafficOff, psUpset>>

(* Frames are exchanged first, which takes an unassociated station out of PS_ENABLED. *)
LinkUp == \E l \in {"station", "ap"} :
    /\ link = "idle" /\ Quiet
    /\ ps_state \notin {"ENABLED", "ENABLE_REQ_SENT"} /\ requests = <<>> /\ confirms = <<>>
    /\ link' = l
    /\ UNCHANGED <<monitor, ps_state, user_ps_en, writer, lmac, traffic_timer, requests, confirms,
                   sleeping, trafficOff, lastSent, psUpset>>

LinkDown ==
    /\ link # "idle"
    /\ link' = "idle" /\ trafficOff' = FALSE
    /\ UNCHANGED <<monitor, ps_state, user_ps_en, writer, lmac, traffic_timer, requests, confirms,
                   sleeping, lastSent, psUpset>>

-----------------------------------------------------------------------------
(* Traffic                                                                  *)

(* check_data_load: any traffic ends the power save and starts the timer *)
TimerStarted_IfSleeping == traffic_timer \/ ps_state # "ENABLED"
TimerStarted == TRUE
LoadChecked(t) ==
    /\ IF ps_state = "ENABLED" THEN Sends(t, "disable") /\ trafficOff' = TRUE
                               ELSE SendsNothing /\ UNCHANGED trafficOff
    /\ traffic_timer' = TimerStarted

(* data sent or received by an associated station *)
Traffic == \E t \in {"tx", "rx"} :
    /\ link = "station" /\ user_ps_en /\ Idle(t)
    /\ monitor \/ (lmac.off /\ t = "rx")
    /\ LoadChecked(t)
    /\ UNCHANGED <<monitor, ps_state, user_ps_en, link, lmac, confirms, sleeping>>

(* DISABLE_PS_FROM_LMAC: stop, pause, resume *)
LmacDisables ==
    /\ Idle("rx")
    /\ lmac' = [lmac EXCEPT !.off = TRUE]
    /\ IF user_ps_en /\ link = "station" THEN LoadChecked("rx")
                     ELSE SendsNothing /\ UNCHANGED <<trafficOff, traffic_timer>>
    /\ UNCHANGED <<monitor, ps_state, user_ps_en, link, confirms, sleeping>>

LmacPauses ==
    /\ Idle("rx")
    /\ lmac' = [lmac EXCEPT !.paused = ~@]
    /\ traffic_timer' \in (IF lmac.paused THEN {TRUE, traffic_timer} ELSE {traffic_timer})
    /\ UNCHANGED <<monitor, ps_state, user_ps_en, writer, link, requests, confirms, sleeping,
                   trafficOff, lastSent, psUpset>>

(* EAPOL4_CONFIRM *)
HandshakeDone ==
    /\ link = "station" /\ user_ps_en
    /\ Sends("rx", "enable")
    /\ UNCHANGED <<monitor, ps_state, user_ps_en, link, lmac, traffic_timer, confirms, sleeping, trafficOff>>

(* traffic_timer_callback *)
Rearms == ps_state # "ENABLED"
TimerFires ==
    /\ traffic_timer /\ Idle("timer")
    /\ IF link # "station" \/ ~user_ps_en
         THEN traffic_timer' = FALSE /\ SendsNothing /\ UNCHANGED lmac
       ELSE IF ~lmac.paused /\ ps_state = "NONE"
         THEN /\ traffic_timer' = FALSE
              /\ lmac' = [lmac EXCEPT !.off = FALSE]
              /\ Sends("timer", "enable")
         ELSE /\ ~Quiet => "early" \in PsTroubles
              /\ traffic_timer' = Rearms
              /\ psUpset' = IF Quiet THEN psUpset ELSE psUpset \union {"early"}
              /\ UNCHANGED <<requests, lastSent, writer, lmac>>
    /\ UNCHANGED <<monitor, ps_state, user_ps_en, link, confirms, sleeping, trafficOff>>

PsNext ==
    \/ Writes \/ DeviceSleeps \/ PsConfirm
    \/ ConfigPs \/ StopsAsleep \/ WakeToAct \/ ScanSleeps \/ ConfUapsd
    \/ LinkUp \/ LinkDown
    \/ Traffic \/ LmacDisables \/ LmacPauses \/ HandshakeDone \/ TimerFires

PsSpec == PsInit /\ [][PsNext]_psVars

-----------------------------------------------------------------------------
PsSettled == psUpset = {} /\ Quiet /\ requests = <<>> /\ confirms = <<>>

(* However requests overlapped, once all are confirmed ps_state is the device's state.
   A confirmation handled between a send and its write, and two threads between theirs,
   break this, and nothing repairs it. *)
PsAgrees ==
    PsSettled => ps_state = IF sleeping = "awake" THEN "NONE" ELSE "ENABLED"

(* A wake-up is only sent to a device that was told to sleep. *)
WakesSleeper ==
    [][psUpset' = {} /\ Len(requests') = Len(requests) + 1 /\ lastSent' = "wake"
        => lastSent # "wake"]_psVars

(* A station's power save that traffic ended is on its way back: the timer runs until
   a request to sleep is sent. *)
TrafficEnds ==
    trafficOff /\ user_ps_en /\ Quiet /\ psUpset = {}
        => traffic_timer \/ ps_state = "ENABLE_REQ_SENT"

(* An associated station's device is not in the deep sleep of an unassociated one. *)
SleepsConnected == link = "station" /\ PsSettled => sleeping # "deep"

(* Safety of power save: the parts above. *)
PsInv == PsTypeOK /\ PsAgrees /\ TrafficEnds /\ SleepsConnected
=============================================================================
