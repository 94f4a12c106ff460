------------------------------ MODULE BootFsm ------------------------------
(***************************************************************************)
(* The start-up of the device (rsi_91x_mgmt.c, rsi_91x_hal.c,              *)
(* rsi_91x_sdio.c): card ready, a chain of frames each sent when the       *)
(* confirmation of the one before it arrives, mac80211's attachment; and   *)
(* the same chain again when the system is restored from hibernation.      *)
(*                                                                         *)
(* Several threads write fsm_state: the rx thread, which tests it, sends a *)
(* frame and then assigns the next state; the interrupt thread (firmware   *)
(* assert); the power-management callbacks.                                *)
(***************************************************************************)
EXTENDS Naturals, Sequences

CONSTANTS
    Is9116,    \* DEV_MODEL_9116: no EEPROM reads
    Events,    \* of {"fault", "assert", "suspend", "hibernate"}: what may happen
    HIBERNATIONS   \* bound: how often the system hibernates

ASSUME ModelBoolean       == Is9116 \in BOOLEAN
ASSUME EventsKnown        == Events \subseteq {"fault", "assert", "suspend", "hibernate"}
ASSUME HibernationsNumber == HIBERNATIONS \in Nat

VARIABLES
    fsm_state,
    advance,           \* rx thread: the state it is about to assign, or where it is
                       \* in the end of the chain ("finish", "clear"); or "none"
    rxq,               \* messages the rx thread has yet to handle
    mgmt_q,            \* boot frames in MGMT_SOFT_Q
    bb_rf_prog_count,  \* u8
    fw,                \* firmware: "off", "up", "dead" (after an assert)
    posted,            \* the card readies the firmware has yet to deliver
    irq_on,            \* interrupts are enabled and the handler is registered
    init,              \* rsi_hal_device_init: "load", "end", "idle", "failed"
    pm,                \* power management: none, suspended, frozen, or in rsi_restore
    reinit_hw,
    completions,       \* count of wlan_init_completion
    attached,          \* how often rsi_mac80211_attach was called
    reconf,            \* mac80211's reconfiguration after a restore
    freezes,
    clean              \* (auxiliary) the boot began with nothing left over from
                       \* before it, and nothing has gone wrong since

boot  == <<fsm_state, advance, rxq, mgmt_q, bb_rf_prog_count>>
card  == <<fw, posted, irq_on, init>>
mac   == <<attached, reconf>>
reset == <<pm, reinit_hw, completions, freezes>>
vars  == <<boot, card, mac, reset, clean>>

FsmStates == {"FW_NOT_LOADED", "CARD_NOT_READY", "COMMON_DEV_PARAMS_SENT", "BOOT_PARAMS_SENT",
              "EEPROM_READ_MAC_ADDR", "EEPROM_READ_RF_TYPE", "RESET_MAC_SENT",
              "RADIO_CAPS_SENT", "BB_RF_PROG_SENT", "MAC_INIT_DONE"}
Frames    == {"COMMON_DEV_CONFIG", "BOOTUP_PARAMS_REQUEST", "EEPROM_READ", "RESET_MAC_REQ",
              "RADIO_CAPABILITIES", "BBP_PROG_IN_TA"}
Messages  == Frames \cup {"CARD_READY"}

TypeOK ==
    /\ fsm_state \in FsmStates
    /\ advance \in (FsmStates \ {"FW_NOT_LOADED"}) \cup {"none", "finish", "clear"}
    /\ rxq \in Seq(Messages)
    /\ mgmt_q \in Seq(Frames)
    /\ bb_rf_prog_count \in 0 .. 255
    /\ fw \in {"off", "up", "dead"}
    /\ posted \subseteq {"common", "wlan"}
    /\ irq_on \in BOOLEAN
    /\ init \in {"load", "end", "idle", "failed"}
    /\ pm \in {"none", "suspended", "frozen", "mark", "reinit", "up"}
    /\ reinit_hw \in BOOLEAN
    /\ completions \in Nat
    /\ attached \in Nat
    /\ reconf \in {"none", "pending", "wait", "resumed", "restart"}
    /\ freezes \in 0 .. HIBERNATIONS
    /\ clean \in BOOLEAN

\* The interrupt is claimed and rsi_probe is about to load the firmware.
Init ==
    /\ fsm_state = "FW_NOT_LOADED"
    /\ advance = "none"
    /\ rxq = <<>>
    /\ mgmt_q = <<>>
    /\ bb_rf_prog_count = 0
    /\ fw = "off"
    /\ posted = {}
    /\ irq_on = TRUE
    /\ init = "load"
    /\ pm = "none"
    /\ reinit_hw = FALSE
    /\ completions = 0
    /\ attached = 0
    /\ reconf = "none"
    /\ freezes = 0
    /\ clean = TRUE

-----------------------------------------------------------------------------
(* rsi_hal_device_init and the firmware (external)                          *)

\* The image is written and started; or the bootloader gives up, which ends
\* rsi_probe, and which rsi_restore ignores.
LoadFirmware ==
    /\ init = "load"
    /\ \/ /\ fw' = "up"
          /\ posted' = {"common", "wlan"}
          /\ init' = "end"
          /\ UNCHANGED <<irq_on, clean>>
       \/ /\ "fault" \in Events
          /\ init' = IF pm = "none" THEN "failed" ELSE "idle"
          /\ irq_on' = (pm # "none")
          /\ clean' = FALSE
          /\ UNCHANGED <<fw, posted>>
    /\ UNCHANGED <<boot, mac, reset>>

\* rsi_restore holds the host until here, so no interrupt is taken before.
DeviceInitEnds ==
    /\ init = "end"
    /\ fsm_state' = "CARD_NOT_READY"
    /\ init' = "idle"
    /\ irq_on' = TRUE
    /\ UNCHANGED <<advance, rxq, mgmt_q, bb_rf_prog_count, fw, posted, mac, reset, clean>>

\* (mutant: the interrupt is served before the firmware is declared loaded)
Interruptible_Always == irq_on

\* rsi_handle_interrupt does nothing before the firmware is loaded.
Interruptible == irq_on /\ fsm_state # "FW_NOT_LOADED"

CardReadyArrives ==
    /\ "common" \in posted /\ Interruptible
    /\ posted' = posted \ {"common"}
    /\ rxq' = Append(rxq, "CARD_READY")
    /\ UNCHANGED <<fsm_state, advance, mgmt_q, bb_rf_prog_count, fw, irq_on, init,
                   mac, reset, clean>>

\* The tx thread writes a boot frame and the firmware confirms it.  The device
\* configuration is confirmed, or answered by the WLAN side's own card ready,
\* or both.
FirmwareConfirms ==
    /\ mgmt_q # <<>> /\ fw = "up" /\ "common" \notin posted /\ Interruptible
    /\ mgmt_q' = Tail(mgmt_q)
    /\ rxq' = Append(rxq, Head(mgmt_q))
    /\ UNCHANGED <<fsm_state, advance, bb_rf_prog_count, card, mac, reset, clean>>

WlanReadyArrives ==
    /\ mgmt_q # <<>> /\ fw = "up" /\ "wlan" \in posted /\ Interruptible
    /\ Head(mgmt_q) = "COMMON_DEV_CONFIG"
    /\ posted' = posted \ {"wlan"}
    /\ mgmt_q' = Tail(mgmt_q)
    /\ \E a \in {<<"CARD_READY">>, <<"COMMON_DEV_CONFIG", "CARD_READY">>,
                 <<"CARD_READY", "COMMON_DEV_CONFIG">>} : rxq' = rxq \o a
    /\ UNCHANGED <<fsm_state, advance, bb_rf_prog_count, fw, irq_on, init, mac, reset, clean>>

\* FIRMWARE_ASSERT_IND in the interrupt thread.
FirmwareAsserts ==
    /\ "assert" \in Events
    /\ fw = "up" /\ Interruptible
    /\ fw' = "dead"
    /\ fsm_state' = "CARD_NOT_READY"
    /\ clean' = FALSE
    /\ UNCHANGED <<advance, rxq, mgmt_q, bb_rf_prog_count, posted, irq_on, init, mac, reset>>

-----------------------------------------------------------------------------
(* The rx thread.  In state "state" a message "msg" makes it send the frame *)
(* "send" and go to state "to"; if that fails it goes to a state of "fails",*)
(* where "none" means that it stays.                                        *)

CommonHalReady ==
    [state |-> "CARD_NOT_READY", msg |-> "CARD_READY",
     send |-> "COMMON_DEV_CONFIG", to |-> "COMMON_DEV_PARAMS_SENT", fails |-> {"none"}]

WlanHalReady ==
    [state |-> "COMMON_DEV_PARAMS_SENT", msg |-> "CARD_READY",
     send |-> "BOOTUP_PARAMS_REQUEST", to |-> "BOOT_PARAMS_SENT",
     fails |-> {"none", "CARD_NOT_READY"}]

CommonDevConfirm ==
    [state |-> "COMMON_DEV_PARAMS_SENT", msg |-> "COMMON_DEV_CONFIG",
     send |-> "BOOTUP_PARAMS_REQUEST", to |-> "BOOT_PARAMS_SENT",
     fails |-> {"CARD_NOT_READY"}]

BootupConfirm ==
    IF Is9116
    THEN [state |-> "BOOT_PARAMS_SENT", msg |-> "BOOTUP_PARAMS_REQUEST",
          send |-> "RESET_MAC_REQ", to |-> "RESET_MAC_SENT", fails |-> {"none"}]
    ELSE [state |-> "BOOT_PARAMS_SENT", msg |-> "BOOTUP_PARAMS_REQUEST",
          send |-> "EEPROM_READ", to |-> "EEPROM_READ_MAC_ADDR",
          fails |-> {"CARD_NOT_READY"}]

EepromMacConfirm ==
    [state |-> "EEPROM_READ_MAC_ADDR", msg |-> "EEPROM_READ",
     send |-> "EEPROM_READ", to |-> "EEPROM_READ_RF_TYPE",
     fails |-> {"none", "CARD_NOT_READY"}]

EepromRfConfirm ==
    [state |-> "EEPROM_READ_RF_TYPE", msg |-> "EEPROM_READ",
     send |-> "RESET_MAC_REQ", to |-> "RESET_MAC_SENT",
     fails |-> {"none", "CARD_NOT_READY"}]

ResetMacConfirm ==
    [state |-> "RESET_MAC_SENT", msg |-> "RESET_MAC_REQ",
     send |-> "RADIO_CAPABILITIES", to |-> "RADIO_CAPS_SENT", fails |-> {"none"}]

RadioCapsConfirm ==
    [state |-> "RADIO_CAPS_SENT", msg |-> "RADIO_CAPABILITIES",
     send |-> "BBP_PROG_IN_TA", to |-> "BB_RF_PROG_SENT", fails |-> {"none"}]

\* (mutant: the confirmation of the device configuration is not tied to a state)
Handlers_Unchecked ==
    {CommonHalReady, WlanHalReady, CommonDevConfirm, BootupConfirm, EepromMacConfirm,
     EepromRfConfirm, ResetMacConfirm, RadioCapsConfirm,
     [CommonDevConfirm EXCEPT !.state = "BOOT_PARAMS_SENT"]}

Handlers == {CommonHalReady, WlanHalReady, CommonDevConfirm, BootupConfirm, EepromMacConfirm,
             EepromRfConfirm, ResetMacConfirm, RadioCapsConfirm}

Handling(m) == advance = "none" /\ rxq # <<>> /\ Head(rxq) = m /\ rxq' = Tail(rxq)

\* Every frame goes to the tail of MGMT_SOFT_Q; the last one's confirmations are counted.
Sends(h) ==
    /\ mgmt_q' = Append(mgmt_q, h.send)
    /\ advance' = h.to
    /\ bb_rf_prog_count' = IF h.send = "BBP_PROG_IN_TA" THEN 1 ELSE bb_rf_prog_count
    /\ UNCHANGED clean

Fails(h) ==
    /\ "fault" \in Events
    /\ advance' \in h.fails
    /\ clean' = FALSE
    /\ UNCHANGED <<mgmt_q, bb_rf_prog_count>>

Confirm(h) ==
    /\ Handling(h.msg)
    /\ fsm_state = h.state
    /\ Sends(h) \/ Fails(h)
    /\ UNCHANGED <<fsm_state, card, attached, reconf, reset>>

BbRfConfirm ==
    /\ Handling("BBP_PROG_IN_TA")
    /\ fsm_state = "BB_RF_PROG_SENT"
    /\ bb_rf_prog_count' = (bb_rf_prog_count + 255) % 256
    /\ advance' = IF bb_rf_prog_count' = 0 THEN "MAC_INIT_DONE" ELSE "none"
    /\ UNCHANGED <<fsm_state, mgmt_q, card, mac, reset, clean>>

\* A message no state waits for is dropped.
Ignore ==
    /\ rxq # <<>> /\ Handling(Head(rxq))
    /\ \A h \in Handlers : ~(h.msg = Head(rxq) /\ h.state = fsm_state)
    /\ ~(Head(rxq) = "BBP_PROG_IN_TA" /\ fsm_state = "BB_RF_PROG_SENT")
    /\ UNCHANGED <<fsm_state, advance, mgmt_q, bb_rf_prog_count, card, mac, reset, clean>>

Assign ==
    /\ advance \in FsmStates
    /\ fsm_state' = advance
    /\ advance' = IF advance = "MAC_INIT_DONE" THEN "finish" ELSE "none"
    /\ UNCHANGED <<rxq, mgmt_q, bb_rf_prog_count, card, mac, reset, clean>>

\* (mutant: nobody is told that the re-initialisation is over)
Finish_Silent ==
    /\ advance = "finish"
    /\ IF reinit_hw
         THEN /\ advance' = "clear"
              /\ UNCHANGED attached
         ELSE /\ attached' = attached + 1
              /\ advance' = "none"
    /\ UNCHANGED <<fsm_state, rxq, mgmt_q, bb_rf_prog_count, card,
                   reconf, reset, clean>>

\* (mutant: mac80211 is attached again)
Finish_Attaches ==
    /\ advance = "finish"
    /\ attached' = attached + 1
    /\ IF reinit_hw
         THEN completions' = completions + 1 /\ advance' = "clear"
         ELSE advance' = "none" /\ UNCHANGED completions
    /\ UNCHANGED <<fsm_state, rxq, mgmt_q, bb_rf_prog_count, card,
                   reconf, pm, reinit_hw, freezes, clean>>

\* The end of the chain: attach to mac80211, or, after a restore, let the
\* thread in rsi_mac80211_resume go on.
Finish ==
    /\ advance = "finish"
    /\ IF reinit_hw
         THEN /\ completions' = completions + 1
              /\ advance' = "clear"
              /\ UNCHANGED attached
         ELSE /\ attached' = attached + 1
              /\ advance' = "none"
              /\ UNCHANGED completions
    /\ UNCHANGED <<fsm_state, rxq, mgmt_q, bb_rf_prog_count, card,
                   reconf, pm, reinit_hw, freezes, clean>>

ClearReinit ==
    /\ advance = "clear"
    /\ reinit_hw' = FALSE
    /\ advance' = "none"
    /\ UNCHANGED <<fsm_state, rxq, mgmt_q, bb_rf_prog_count, card, mac, pm, completions,
                   freezes, clean>>

-----------------------------------------------------------------------------
(* Power management.  The callbacks use adapter->hw: they need attachment.  *)

Suspend ==
    /\ "suspend" \in Events
    /\ pm = "none" /\ attached > 0 /\ reconf = "none"
    /\ pm' = "suspended"
    /\ fsm_state' = "CARD_NOT_READY"
    /\ clean' = (clean /\ fsm_state = "MAC_INIT_DONE" /\ advance = "none")
    /\ UNCHANGED <<advance, rxq, mgmt_q, bb_rf_prog_count, card, mac, reinit_hw,
                   completions, freezes>>

Resume ==
    /\ pm = "suspended"
    /\ pm' = "none"
    /\ fsm_state' = "MAC_INIT_DONE"
    /\ UNCHANGED <<advance, rxq, mgmt_q, bb_rf_prog_count, card, mac, reinit_hw,
                   completions, freezes, clean>>

Freeze ==
    /\ "hibernate" \in Events
    /\ pm = "none" /\ attached > 0 /\ reconf = "none"
    /\ freezes < HIBERNATIONS
    /\ pm' = "frozen"
    /\ irq_on' = FALSE
    /\ freezes' = freezes + 1
    /\ UNCHANGED <<boot, fw, posted, init, attached, reconf, reinit_hw,
                   completions, clean>>

\* The system did not go down after all.
Thaw ==
    /\ pm = "frozen"
    /\ pm' = "none"
    /\ fsm_state' = "CARD_NOT_READY"
    /\ irq_on' = TRUE
    /\ clean' = FALSE
    /\ UNCHANGED <<advance, rxq, mgmt_q, bb_rf_prog_count, fw, posted, init, attached,
                   reconf, reinit_hw, completions, freezes>>

\* rsi_restore, the device's power having been off: up to
\* ieee80211_restart_hw, then reinit_hw, the device.
RestoreBegins ==
    /\ pm = "frozen"
    /\ pm' = "mark"
    /\ fsm_state' = "FW_NOT_LOADED"
    /\ fw' = "off"
    /\ posted' = {}
    /\ reconf' = "pending"
    /\ clean' = (rxq = <<>> /\ advance = "none" /\ completions = 0)
    /\ UNCHANGED <<advance, rxq, mgmt_q, bb_rf_prog_count, irq_on, init, attached,
                   reinit_hw, completions, freezes>>

MarkReinit ==
    /\ pm = "mark"
    /\ reinit_hw' = TRUE
    /\ pm' = "reinit"
    /\ UNCHANGED <<boot, card, mac, completions, freezes, clean>>

\* rsi_sdio_reinit_device: flush the soft queues, reset the card, load again.
ReinitDevice ==
    /\ pm = "reinit"
    /\ mgmt_q' = <<>>
    /\ init' = "load"
    /\ pm' = "up"
    /\ UNCHANGED <<fsm_state, advance, rxq, bb_rf_prog_count, fw, posted, irq_on, mac,
                   reinit_hw, completions, freezes, clean>>

RestoreEnds ==
    /\ pm = "up" /\ init = "idle"
    /\ pm' = "none"
    /\ UNCHANGED <<boot, card, attached, reconf, reinit_hw, completions,
                   freezes, clean>>

-----------------------------------------------------------------------------
(* mac80211's calls                                                         *)

\* (mutant: the resume operation does not look at reinit_hw)
MacResume_NoWait ==
    /\ reconf = "pending" /\ pm = "none"
    /\ reconf' \in {"restart", "resumed"}
    /\ UNCHANGED <<boot, card, attached, reset, clean>>

\* rsi_mac80211_resume, which mac80211 calls when an interface is up and WoWLAN
\* configured; or else it starts to configure the device at once.  The work of
\* ieee80211_restart_hw is frozen until the system is up again.
MacResume ==
    /\ reconf = "pending" /\ pm = "none"
    /\ reconf' \in {"restart", IF reinit_hw THEN "wait" ELSE "resumed"}
    /\ UNCHANGED <<boot, card, attached, reset, clean>>

InitCompletes ==
    /\ reconf = "wait" /\ completions > 0
    /\ completions' = completions - 1
    /\ reconf' = "resumed"
    /\ UNCHANGED <<boot, card, attached, pm, reinit_hw, freezes, clean>>

\* mac80211 then configures the device again, beginning with rsi_mac80211_start.
Reconfigure ==
    /\ reconf \in {"resumed", "restart"} /\ pm = "none"
    /\ reconf' = "none"
    /\ UNCHANGED <<boot, card, attached, reset, clean>>

-----------------------------------------------------------------------------
Device  == LoadFirmware \/ DeviceInitEnds \/ CardReadyArrives \/ FirmwareConfirms \/ WlanReadyArrives
Rx      == (\E h \in Handlers : Confirm(h)) \/ BbRfConfirm \/ Ignore
           \/ Assign \/ Finish \/ ClearReinit
Restore == MarkReinit \/ ReinitDevice \/ RestoreEnds
Mac     == MacResume \/ InitCompletes \/ Reconfigure
Other   == FirmwareAsserts \/ Suspend \/ Resume \/ Freeze \/ Thaw \/ RestoreBegins 

Next == Device \/ Rx \/ Restore \/ Mac \/ Other

Spec == Init /\ [][Next]_vars

\* The device answers, the rx thread runs, and a restore or a resume that has
\* begun goes on; the user and the power management need not do anything.
FairSpec == Spec /\ WF_vars(Device) /\ WF_vars(Rx) /\ WF_vars(Restore) /\ WF_vars(Mac)

-----------------------------------------------------------------------------
(* Properties                                                               *)

\* The state the rx thread is in, or is about to assign.
Reached == IF advance \in FsmStates THEN advance ELSE fsm_state

Awaiting(f) == {h.to : h \in {g \in Handlers : g.send = f}}

\* A clean boot (from the purge of the soft queues on) sends each frame once,
\* whatever the device answers first: at most one frame is on its way, or its
\* confirmation, and the state machine is in (or about to enter) the state that
\* waits for it (mgmt.c 3850-4025, 4195-4282).
InStep ==
    clean /\ pm \notin {"mark", "reinit"} =>
        /\ Len(mgmt_q) <= 1
        /\ \A i \in DOMAIN mgmt_q : Reached \in Awaiting(mgmt_q[i])
        /\ \A i \in DOMAIN rxq :
               rxq[i] \notin {"CARD_READY", "COMMON_DEV_CONFIG"}
                   => mgmt_q = <<>> /\ Reached \in Awaiting(rxq[i])

\* mac80211 is attached once, however often the device is booted after that
\* (mgmt.c 4038-4048).
AttachesOnce == [][clean /\ attached > 0 => attached' = attached]_vars

\* After a clean re-initialisation mac80211 configures the device, through
\* rsi_mac80211_resume, only when it is ready (mac80211.c 3436): none of the
\* operations that give up before FSM_MAC_INIT_DONE is lost.
ResumedReady == clean /\ reconf = "resumed" => fsm_state = "MAC_INIT_DONE"

\* No card ready is lost between the firmware's start and the driver's
\* readiness for it, and no confirmation after: a clean boot is completed.
BootCompletes ==
    []clean /\ []<>(pm = "none")
        => (fsm_state = "FW_NOT_LOADED" ~> fsm_state = "MAC_INIT_DONE")

\* The wait in rsi_mac80211_resume has no limit; in a clean boot it ends.
ResumeReturns == []clean => (reconf = "wait" ~> reconf = "none")

\* What makes the safety properties inductive.  StepInv lists, for each state of
\* a clean boot, what may be on its way: "extra" is the second of the device's
\* two answers to the configuration, which no state waits for.
Quiet         == mgmt_q = <<>> /\ rxq = <<>>
Travelling(f) == \/ mgmt_q = <<f>> /\ rxq = <<>>
                 \/ mgmt_q = <<>> /\ rxq = <<f>>

StepInv ==
    /\ Reached \in {"FW_NOT_LOADED", "MAC_INIT_DONE"} => Quiet
    /\ Reached \notin {"FW_NOT_LOADED", "CARD_NOT_READY"} => "common" \notin posted
    /\ Reached = "FW_NOT_LOADED" => advance = "none" /\ init \in {"load", "end"}
    /\ Reached = "CARD_NOT_READY" =>
           /\ mgmt_q = <<>>
           /\ rxq = IF "common" \in posted THEN <<>> ELSE <<"CARD_READY">>
    /\ Reached = "COMMON_DEV_PARAMS_SENT" =>
           \/ Travelling("COMMON_DEV_CONFIG")
           \/ /\ mgmt_q = <<>>
              /\ rxq \in {<<"CARD_READY">>, <<"COMMON_DEV_CONFIG", "CARD_READY">>,
                          <<"CARD_READY", "COMMON_DEV_CONFIG">>}
    /\ Reached = "BOOT_PARAMS_SENT" =>
           \/ Travelling("BOOTUP_PARAMS_REQUEST")
           \/ \E extra \in {"CARD_READY", "COMMON_DEV_CONFIG"} :
                 \/ mgmt_q = <<"BOOTUP_PARAMS_REQUEST">> /\ rxq = <<extra>>
                 \/ mgmt_q = <<>> /\ rxq = <<extra, "BOOTUP_PARAMS_REQUEST">>
    /\ Reached \in {"EEPROM_READ_MAC_ADDR", "EEPROM_READ_RF_TYPE"} =>
           ~Is9116 /\ Travelling("EEPROM_READ")
    /\ Reached = "RESET_MAC_SENT"  => Travelling("RESET_MAC_REQ")
    /\ Reached = "RADIO_CAPS_SENT" => Travelling("RADIO_CAPABILITIES")
    /\ Reached = "BB_RF_PROG_SENT" => Travelling("BBP_PROG_IN_TA") /\ bb_rf_prog_count = 1
    /\ advance \in {"finish", "clear"} => fsm_state = "MAC_INIT_DONE"
    /\ advance \in FsmStates => fsm_state # "MAC_INIT_DONE"

\* A clean boot where it stands still: suspended, or before the device is reset.
StillInv ==
    /\ pm = "suspended" => Quiet /\ advance = "none" /\ posted \subseteq {"wlan"}
    /\ pm \in {"mark", "reinit"} => rxq = <<>> /\ advance = "none" /\ fsm_state = "FW_NOT_LOADED"
    /\ init \in {"load", "end"} => fsm_state = "FW_NOT_LOADED" /\ advance = "none"
    /\ init = "end" => "common" \in posted

\* The device is initialised before anybody uses power management.
InitInv ==
    /\ pm # "none" \/ reconf # "none" => attached > 0
    /\ attached > 0 /\ init # "idle" => pm = "up"
    /\ attached = 0 /\ init # "idle" =>
           rxq = <<>> /\ advance = "none" /\ fsm_state = "FW_NOT_LOADED"

ReinitInv ==
    /\ attached > 0 /\ ~reinit_hw /\ pm \notin {"mark", "suspended"} =>
           fsm_state = "MAC_INIT_DONE" /\ advance = "none"
    /\ completions > 0 => fsm_state = "MAC_INIT_DONE" \/ pm = "suspended"
    /\ reconf # "none" => pm \in {"none", "mark", "reinit", "up"}
    /\ reconf = "resumed" => fsm_state = "MAC_INIT_DONE"

Inv == /\ TypeOK
       /\ InitInv
       /\ clean => /\ pm \notin {"suspended", "mark", "reinit"} => StepInv
                   /\ StillInv
                   /\ ReinitInv
=============================================================================
