------------------------------ MODULE TwtLink -------------------------------
(***************************************************************************)
(* Target wake time: the station and its access point agree on a session,  *)
(* during which the device sleeps between service periods.  The driver     *)
(* negotiates it in management frames (mgmt.c, TWT part), retries on a     *)
(* timer, tells the device (LMAC) the outcome, and takes the user's        *)
(* commands from the netlink socket.  Frames may be lost in the air; the   *)
(* access point answers as it likes and also opens and closes sessions by  *)
(* itself.                                                                 *)
(***************************************************************************)
EXTENDS Naturals, Sequences

CONSTANTS
    FLOWS,          \* the flow ids in use
    RETRY_LIMIT,    \* twt_retry_limit of the user's configuration
    MAX_AIR,        \* frames under way in one direction
    TwtTroubles     \* "no_skb", "descriptor", "lost", "late_callback"

ASSUME TwtAssumption ==
    /\ FLOWS \subseteq Nat /\ FLOWS # {} /\ {254, 255} \cap FLOWS = {}
    /\ RETRY_LIMIT \in Nat \ {0} /\ MAX_AIR \in Nat \ {0}

VARIABLES
    linked,     \* associated with an access point that speaks 802.11ax
    supports,   \* ap_support_twt
    config,     \* rsi_twt_config: twt_enable, req_type, twt_flow_id
    session,    \* twt_active_session_flow_id while twt_session_active, or NoFlow
    progress,   \* twt_session_in_progress
    retries,    \* twt_retry_count_limit
    demands,    \* twt_demand_resp_retry_limit
    timer,      \* twt_setup_timer is pending
    calling,    \* its callback has started
    saves,      \* the device is in power save
    paused,     \* twt_ps_disable: the negotiation switched power save off
    toAp, toSta,    \* frames in the air
    apFlows,    \* the sessions the access point holds
    apart,      \* ghost: something parted the two sides that no code reconciles
    unsent      \* ghost: a setup frame could not be made

triesVars == <<retries, progress, timer>>
psVars == <<saves, paused>>
airVars == <<toAp, toSta, apFlows>>
ghosts == <<apart, unsent>>
twtVars == <<linked, supports, config, session, triesVars, demands, calling, psVars,
             airVars, ghosts>>

NoFlow == 254
AllFlows == 255

Setup(flow) == [kind |-> "setup", flow |-> flow]
Teardown(flow) == [kind |-> "teardown", flow |-> flow]

(* good: the parameters are supported; fits: they are within what config tolerates. *)
(* A counter is TWT_SETUP_CMD_ALTERNATE or _DICTATE; reject stands for the others.  *)
Answers(flow) == [kind : {"answer"}, flow : {flow}, good : BOOLEAN, fits : BOOLEAN,
                  cmd : {"accept", "counter", "reject"}]

TwtInit ==
    /\ linked = FALSE /\ supports = FALSE
    /\ config = [enable |-> FALSE, cmd |-> "request", flow |-> 0]
    /\ session = NoFlow /\ progress = FALSE
    /\ retries = 0 /\ demands = 0 /\ timer = FALSE /\ calling = FALSE
    /\ saves \in BOOLEAN /\ paused = FALSE
    /\ toAp = <<>> /\ toSta = <<>> /\ apFlows = {}
    /\ apart = FALSE /\ unsent = FALSE

(* From here on the two sides may disagree, if c holds. *)
SetsApart(c) == apart' = (apart \/ c)

(* A frame for the access point; without a link it goes nowhere.  One that could  *)
(* not be made is as good as lost in the air, but for a setup.                     *)
Sends(frame) ==
    IF linked' THEN Len(toAp) < MAX_AIR /\ toAp' = Append(toAp, frame) ELSE UNCHANGED toAp
-----------------------------------------------------------------------------
(* send_twt_setup_frame of configuration c after n tries, of which no more than    *)
(* RETRY_LIMIT matter.  A disabled one asks for flow 1.  Only a frame that could   *)
(* be made starts the timer and the negotiation.                                   *)
Asked(c) == IF c.enable THEN c ELSE [c EXCEPT !.cmd = "request", !.flow = 1]

(* Mutant: a timer that has run out is not started again.                          *)
Starts_Once == progress' = TRUE /\ UNCHANGED timer

Starts == progress' = TRUE /\ timer' = TRUE

GoesOut(n, c) ==
    /\ config' = Asked(c)
    /\ Sends(Setup(Asked(c).flow)) /\ UNCHANGED unsent
    /\ retries' = (IF n < RETRY_LIMIT THEN n + 1 ELSE n) /\ Starts

TrySetup(n, c) ==
    \/ GoesOut(n, c)
    \/ /\ "descriptor" \in TwtTroubles /\ unsent' = TRUE /\ config' = Asked(c)
       /\ retries' = n /\ UNCHANGED <<toAp, progress, timer>>

(* It first switches power save off, unless there is no skb either. *)
SendSetup(n, c) ==
    \/ TrySetup(n, c) /\ saves' = FALSE /\ paused' = (paused \/ saves)
    \/ /\ "no_skb" \in TwtTroubles /\ unsent' = TRUE /\ config' = c
       /\ retries' = n /\ UNCHANGED <<toAp, progress, timer, psVars>>

NoSetup == UNCHANGED <<toAp, triesVars, psVars, unsent>>

EnablePs == IF paused THEN saves' = TRUE /\ paused' = FALSE ELSE UNCHANGED psVars

(* send_twt_session_details_to_lmac with a new session; nothing without an skb. *)
Opens(flow) ==
    \/ session' = flow /\ UNCHANGED apart
    \/ "no_skb" \in TwtTroubles /\ SetsApart(TRUE) /\ UNCHANGED session

Closes(c) ==
    \/ session' = NoFlow /\ SetsApart(c)
    \/ "no_skb" \in TwtTroubles /\ SetsApart(TRUE) /\ UNCHANGED session

(* A teardown and a frame from the other side pass each other in the air. *)
Crossing == toSta' # <<>>
-----------------------------------------------------------------------------
(* process_twt_setup_cmd and what rsi_nl_recv_msg does with the configuration. *)
UserSetup(cmd, flow) ==
    /\ UNCHANGED linked
    /\ IF session # NoFlow \/ progress
       THEN UNCHANGED config /\ NoSetup
       ELSE LET c == [enable |-> TRUE, cmd |-> cmd, flow |-> flow] IN
            IF linked THEN SendSetup(retries, c) ELSE config' = c /\ NoSetup
    /\ UNCHANGED <<supports, session, apart, demands, calling, toSta, apFlows>>

UserTeardown(flow) ==
    /\ UNCHANGED <<linked, toSta>>
    /\ IF session # NoFlow /\ flow \in {session, AllFlows}
       THEN /\ config' = [config EXCEPT !.enable = FALSE, !.flow = flow]
            /\ IF linked
               THEN Sends(Teardown(flow)) /\ Closes(Crossing)
               ELSE UNCHANGED <<session, toAp, apart>>
       ELSE UNCHANGED <<config, session, toAp, apart>>
    /\ UNCHANGED <<supports, unsent, triesVars, demands, calling, psVars, apFlows>>

(* TWT_AUTO_CONFIG asks neither for a session nor for its flow before it opens or  *)
(* closes one; a choice found invalid is negotiated all the same, with the         *)
(* configuration of before, and a valid one enables even when it closes.           *)
AutoConfig(enable, valid) ==
    /\ UNCHANGED <<linked, toSta>>
    /\ LET c == IF valid THEN [enable |-> TRUE, cmd |-> "suggest", flow |-> 0] ELSE config IN
       \/ /\ linked /\ enable /\ SendSetup(0, c) /\ UNCHANGED session
          /\ SetsApart(session # NoFlow \/ progress)
       \/ /\ linked /\ ~ enable /\ config' = c
          /\ Sends(Teardown(c.flow))
          /\ Closes(Crossing \/ session \notin {NoFlow, c.flow} \/ progress)
          /\ UNCHANGED <<triesVars, psVars, unsent>>
       \/ ~ linked /\ config' = c /\ UNCHANGED <<session, apart>> /\ NoSetup
    /\ UNCHANGED <<supports, demands, calling, apFlows>>
-----------------------------------------------------------------------------
(* After the last retry the negotiation is over and power save comes back. *)
(* Mutant: ... and power save is forgotten. *)
GivesUp_Awake == retries' = 0 /\ progress' = FALSE /\ timer' = FALSE /\ UNCHANGED psVars

GivesUp == retries' = 0 /\ progress' = FALSE /\ timer' = FALSE /\ EnablePs

(* The retry timer; del_timer does not wait for a callback that has started. *)
TwtTimerFires ==
    /\ timer /\ ~ calling /\ timer' = FALSE /\ calling' = TRUE
    /\ UNCHANGED <<linked, supports, config, session, progress, retries, demands,
                   psVars, airVars, ghosts>>

(* It does not ask whether the negotiation goes on. *)
TwtCallback ==
    /\ UNCHANGED linked
    /\ calling /\ calling' = FALSE
    /\ \/ retries < RETRY_LIMIT /\ SendSetup(retries, config)
       \/ /\ retries >= RETRY_LIMIT /\ GivesUp
          /\ UNCHANGED <<config, toAp, unsent>>
    /\ SetsApart(~ progress)
    /\ UNCHANGED <<supports, session, demands, toSta, apFlows>>
-----------------------------------------------------------------------------
Fits(m) == config.cmd = "request" \/ m.fits
Ends == progress' = FALSE
StopsRetries == IF progress THEN retries' = 0 /\ timer' = FALSE ELSE UNCHANGED <<retries, timer>>

(* Mutant: the access point is not told. *)
Refuses_Silently(m) ==
    /\ UNCHANGED toAp
    /\ IF session = m.flow THEN Closes(Crossing) ELSE UNCHANGED session /\ SetsApart(Crossing)

(* A session the driver will not have is torn down, at the device too if it is the *)
(* active one.                                                                     *)
Refuses(m) ==
    /\ Sends(Teardown(m.flow))
    /\ IF session = m.flow THEN Closes(Crossing) ELSE UNCHANGED session /\ SetsApart(Crossing)

NotTaken == UNCHANGED <<session, apart, toAp>>

(* rsi_mgmt_process_twt_setup_resp: an answer that ends the negotiation ... *)
Concludes(m) ==
    /\ StopsRetries /\ Ends /\ UNCHANGED <<config, demands, unsent>>
    /\ \/ /\ m.cmd = "accept" /\ m.good /\ Fits(m)
          /\ Opens(m.flow) /\ UNCHANGED toAp
       \/ m.cmd = "accept" /\ ~ (m.good /\ Fits(m)) /\ Refuses(m)
       \/ m.cmd = "counter" /\ ~ (m.good /\ Fits(m)) /\ NotTaken
       \/ /\ m.cmd = "counter" /\ m.good /\ Fits(m)
          /\ config.cmd = "demand" /\ demands >= RETRY_LIMIT /\ NotTaken
       \/ m.cmd = "reject" /\ NotTaken

(* ... or one that is asked for in turn, a demand not too often.  The timer has been *)
(* stopped when the new frame cannot be made.                                      *)
AsksAgain(m) ==
    /\ m.cmd = "counter" /\ m.good /\ Fits(m)
    /\ config.cmd = "demand" => demands < RETRY_LIMIT
    /\ demands' = (IF config.cmd = "demand" THEN demands + 1 ELSE demands)
    /\ \/ GoesOut(0, config)
       \/ /\ TwtTroubles \cap {"no_skb", "descriptor"} # {} /\ unsent' = TRUE
          /\ config' \in {config, Asked(config)}
          /\ StopsRetries /\ UNCHANGED <<toAp, progress>>
    /\ UNCHANGED <<session, apart>>

ProcessSetupResp(m) == Concludes(m) \/ AsksAgain(m)

(* rsi_mgmt_pkt_to_core on a TWT setup frame: an answer, or an unsolicited accept. *)
ReceiveSetup ==
    /\ UNCHANGED linked
    /\ toSta # <<>> /\ Head(toSta).kind = "answer" /\ toSta' = Tail(toSta)
    /\ LET m == Head(toSta) IN
         \/ progress /\ ProcessSetupResp(m) /\ EnablePs
         \/ /\ ~ progress /\ supports /\ m.cmd = "accept"
            /\ \/ /\ session # NoFlow /\ session # m.flow /\ Sends(Teardown(m.flow))
                  /\ SetsApart(Crossing)
                  /\ UNCHANGED <<config, session, demands, triesVars, unsent>>
               \/ /\ session = m.flow \/ (session = NoFlow /\ config.enable)
                  /\ ProcessSetupResp(m)
               \/ /\ session = NoFlow /\ ~ config.enable /\ m.good
                  /\ Opens(m.flow) /\ UNCHANGED <<config, demands, triesVars, toAp, unsent>>
               \/ /\ session = NoFlow /\ ~ config.enable /\ ~ m.good
                  /\ Sends(Teardown(m.flow)) /\ SetsApart(Crossing)
                  /\ UNCHANGED <<config, session, demands, triesVars, unsent>>
            /\ UNCHANGED psVars
         \/ /\ ~ progress /\ ~ (supports /\ m.cmd = "accept")
            /\ UNCHANGED <<config, session, apart, demands>> /\ NoSetup
    /\ UNCHANGED <<supports, calling, apFlows>>

(* Mutant: a teardown of all sessions does not concern this one. *)
Concerns_Exactly(m) == session # NoFlow /\ m.flow = session

(* ... and on a teardown, which counts only for the active session. *)
Concerns(m) == session # NoFlow /\ m.flow \in {session, AllFlows}

ReceiveTeardown ==
    /\ toSta # <<>> /\ Head(toSta).kind = "teardown" /\ toSta' = Tail(toSta)
    /\ IF Concerns(Head(toSta)) THEN Closes(FALSE) ELSE UNCHANGED <<session, apart>>
    /\ UNCHANGED <<linked, supports, config, triesVars, demands, calling, psVars, toAp, apFlows,
                   unsent>>
-----------------------------------------------------------------------------
(* rsi_mac80211_bss_info_changed and rsi_inform_bss_status; in an open network the *)
(* setup goes out at once, otherwise with the confirm of the fourth EAPOL frame,   *)
(* and again with every later one.                                                 *)
AssociateAx(open, twt) ==
    /\ ~ linked /\ linked' = TRUE /\ supports' = twt
    /\ IF open /\ twt /\ config.enable THEN SendSetup(retries, config)
       ELSE UNCHANGED config /\ NoSetup
    /\ UNCHANGED <<session, apart, demands, calling, toSta, apFlows>>

HandshakeEnds ==
    /\ UNCHANGED linked
    /\ linked /\ supports /\ config.enable /\ SendSetup(retries, config)
    /\ SetsApart(session # NoFlow)
    /\ UNCHANGED <<supports, session, demands, calling, toSta, apFlows>>

(* rsi_mac80211_sta_remove: neither the session nor the negotiation is ended. *)
LinkLost ==
    /\ linked /\ linked' = FALSE
    /\ toAp' = <<>> /\ toSta' = <<>> /\ apFlows' = {}
    /\ SetsApart(session # NoFlow \/ progress)
    /\ UNCHANGED <<unsent, supports, config, session, triesVars, demands, calling, psVars>>
-----------------------------------------------------------------------------
(* The access point: it answers a setup or not, and opens and closes sessions. *)
ApTakes ==
    /\ toAp # <<>> /\ toAp' = Tail(toAp)
    /\ LET m == Head(toAp) IN
         \/ /\ m.kind = "teardown" /\ UNCHANGED <<toSta, apart>>
            /\ apFlows' = (IF m.flow = AllFlows THEN {} ELSE apFlows \ {m.flow})
         \/ m.kind = "setup" /\ UNCHANGED <<toSta, apFlows, apart>>
         \/ /\ m.kind = "setup" /\ supports /\ Len(toSta) < MAX_AIR
            /\ \E a \in Answers(m.flow) :
                  /\ toSta' = Append(toSta, a)
                  /\ apFlows' = (IF a.cmd = "accept" THEN apFlows \cup {m.flow} ELSE apFlows)
            /\ SetsApart(\E i \in DOMAIN toAp' : toAp'[i].kind = "teardown")
    /\ UNCHANGED <<linked, supports, config, session, triesVars, demands, calling, psVars,
                   unsent>>

ApActs ==
    /\ linked /\ supports /\ Len(toSta) < MAX_AIR
    /\ \/ \E f \in FLOWS, g \in BOOLEAN, h \in BOOLEAN :
            /\ toSta' = Append(toSta, [kind |-> "answer", flow |-> f, good |-> g, fits |-> h,
                                       cmd |-> "accept"])
            /\ apFlows' = apFlows \cup {f}
       \/ /\ apFlows # {} /\ apFlows' = {} /\ toSta' = Append(toSta, Teardown(AllFlows))
       \/ \E f \in apFlows : apFlows' = apFlows \ {f} /\ toSta' = Append(toSta, Teardown(f))
    /\ SetsApart(toAp # <<>>)
    /\ UNCHANGED <<linked, supports, config, session, triesVars, demands, calling, psVars,
                   toAp, unsent>>

FrameLostInAir ==
    /\ "lost" \in TwtTroubles /\ SetsApart(TRUE)
    /\ \/ toAp # <<>> /\ toAp' = Tail(toAp) /\ UNCHANGED toSta
       \/ toSta # <<>> /\ toSta' = Tail(toSta) /\ UNCHANGED toAp
    /\ UNCHANGED <<linked, supports, config, session, triesVars, demands, calling, psVars,
                   apFlows, unsent>>

TwtNext ==
    \/ \E cmd \in {"request", "suggest", "demand"}, f \in FLOWS : UserSetup(cmd, f)
    \/ \E f \in FLOWS \cup {AllFlows} : UserTeardown(f)
    \/ \E enable \in BOOLEAN, valid \in BOOLEAN : AutoConfig(enable, valid)
    \/ TwtTimerFires \/ TwtCallback
    \/ ReceiveSetup \/ ReceiveTeardown
    \/ \E open \in BOOLEAN, twt \in BOOLEAN : AssociateAx(open, twt)
    \/ HandshakeEnds \/ LinkLost
    \/ ApTakes \/ ApActs \/ FrameLostInAir

TwtSpec == TwtInit /\ [][TwtNext]_twtVars
-----------------------------------------------------------------------------
TwtTypeOK ==
    /\ linked \in BOOLEAN /\ supports \in BOOLEAN /\ config.enable \in BOOLEAN
    /\ config.flow \in FLOWS \cup {0, 1, AllFlows}
    /\ session \in FLOWS \cup {0, 1, NoFlow} /\ progress \in BOOLEAN
    /\ retries \in 0..RETRY_LIMIT /\ demands \in 0..RETRY_LIMIT
    /\ timer \in BOOLEAN /\ calling \in BOOLEAN /\ saves \in BOOLEAN /\ paused \in BOOLEAN
    /\ Len(toAp) <= MAX_AIR /\ Len(toSta) <= MAX_AIR

Quiet == linked /\ toAp = <<>> /\ toSta = <<>> /\ ~ progress /\ ~ calling

(* When nothing is under way any more, the access point holds exactly the session  *)
(* the driver believes in; but for what parts the two sides (see README).          *)
BothAgree == (Quiet /\ ~ apart) => apFlows = (IF session = NoFlow THEN {} ELSE {session})

(* A negotiation that switched power save off is still there to switch it on.      *)
PowerSaveReturns == (paused /\ ~ unsent) => progress

(* A negotiation is never left without a timer or a callback that can end it.      *)
NeverStuck == (progress /\ ~ unsent) => (timer \/ calling)

(* The session of both sides and the power save of the device survive any course   *)
(* of the negotiation (process_twt_setup_resp, the retry timer, the teardowns).    *)
TwtInv == BothAgree /\ PowerSaveReturns /\ NeverStuck
=============================================================================
