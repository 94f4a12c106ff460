--------------------------- MODULE BootFsm_proofs ---------------------------
(***************************************************************************)
(* Proofs about BootFsm, for both families of devices, whatever events are *)
(* possible and however often the system hibernates: type correctness,     *)
(* that a clean boot keeps in step, attaches once and resumes ready, that  *)
(* it never stalls, and that it is over after a bounded number of steps.   *)
(***************************************************************************)
EXTENDS BootFsm, SequenceTheorems, TLAPS

\* What a handler of a boot message is made of.
LEMMA HandlersTyped ==
    ASSUME NEW h \in Handlers
    PROVE  /\ h.msg \in Messages
           /\ h.send \in Frames
           /\ h.to \in FsmStates \ {"FW_NOT_LOADED"}
           /\ h.fails \subseteq {"none", "CARD_NOT_READY"}
<1> USE DEF Messages, Frames, FsmStates
<1>1. CASE h = CommonHalReady
  BY <1>1 DEF CommonHalReady
<1>2. CASE h = WlanHalReady
  BY <1>2 DEF WlanHalReady
<1>3. CASE h = CommonDevConfirm
  BY <1>3 DEF CommonDevConfirm
<1>4. CASE h = BootupConfirm
  BY <1>4 DEF BootupConfirm
<1>5. CASE h = EepromMacConfirm
  BY <1>5 DEF EepromMacConfirm
<1>6. CASE h = EepromRfConfirm
  BY <1>6 DEF EepromRfConfirm
<1>7. CASE h = ResetMacConfirm
  BY <1>7 DEF ResetMacConfirm
<1>8. CASE h = RadioCapsConfirm
  BY <1>8 DEF RadioCapsConfirm
<1>9. QED
  BY <1>1, <1>2, <1>3, <1>4, <1>5, <1>6, <1>7, <1>8 DEF Handlers

\* The count of programming confirmations keeps its eight bits.
LEMMA CountTyped ==
    ASSUME NEW n \in 0 .. 255 PROVE (n + 255) % 256 \in 0 .. 255
  OBVIOUS

LEMMA InitTyped == Init => TypeOK
<1> SUFFICES ASSUME Init PROVE TypeOK
  OBVIOUS
<1>1. freezes \in 0 .. HIBERNATIONS
  BY HibernationsNumber DEF Init
<1>2. fsm_state \in FsmStates
  BY DEF Init, FsmStates
<1>3. rxq \in Seq(Messages) /\ mgmt_q \in Seq(Frames)
  BY DEF Init
<1>4. bb_rf_prog_count \in 0 .. 255 /\ completions \in Nat /\ attached \in Nat
  BY DEF Init
<1>5. /\ irq_on \in BOOLEAN /\ reinit_hw \in BOOLEAN /\ clean \in BOOLEAN
      /\ posted \subseteq {"common", "wlan"}
  BY DEF Init
<1>6. /\ advance \in (FsmStates \ {"FW_NOT_LOADED"}) \cup {"none", "finish", "clear"}
      /\ fw \in {"off", "up", "dead"}
      /\ init \in {"load", "end", "idle", "failed"}
      /\ pm \in {"none", "suspended", "frozen", "mark", "reinit", "up"}
      /\ reconf \in {"none", "pending", "wait", "resumed", "restart"}
  BY DEF Init
<1>7. QED
  BY <1>1, <1>2, <1>3, <1>4, <1>5, <1>6 DEF TypeOK

-----------------------------------------------------------------------------
\* The device.
LEMMA DeviceKeepsType ==
    ASSUME TypeOK, Device PROVE TypeOK'
<1> USE DEF TypeOK, boot, mac, reset
<1>1. CASE LoadFirmware
  <2>1. irq_on' \in BOOLEAN /\ clean' \in BOOLEAN /\ posted' \subseteq {"common", "wlan"}
    BY <1>1 DEF LoadFirmware
  <2>2. fw' \in {"off", "up", "dead"} /\ init' \in {"load", "end", "idle", "failed"}
    BY <1>1 DEF LoadFirmware
  <2>3. QED
    BY <1>1, <2>1, <2>2 DEF LoadFirmware
<1>2. CASE DeviceInitEnds
  BY <1>2 DEF DeviceInitEnds, FsmStates
<1>3. CASE CardReadyArrives
  <2>1. rxq' \in Seq(Messages)
    BY <1>3 DEF CardReadyArrives, Messages
  <2>2. QED
    BY <1>3, <2>1 DEF CardReadyArrives
<1>4. CASE FirmwareConfirms
  <2>1. Head(mgmt_q) \in Frames /\ mgmt_q' \in Seq(Frames)
    BY <1>4 DEF FirmwareConfirms
  <2>2. rxq' \in Seq(Messages)
    BY <1>4, <2>1 DEF FirmwareConfirms, Messages
  <2>3. QED
    BY <1>4, <2>1, <2>2 DEF FirmwareConfirms, card
<1>5. CASE WlanReadyArrives
  <2>1. mgmt_q' \in Seq(Frames)
    BY <1>5 DEF WlanReadyArrives
  <2>2. rxq' \in Seq(Messages)
    <3>1. PICK a \in {<<"CARD_READY">>, <<"COMMON_DEV_CONFIG", "CARD_READY">>,
                      <<"CARD_READY", "COMMON_DEV_CONFIG">>} : rxq' = rxq \o a
      BY <1>5 DEF WlanReadyArrives
    <3>2. "CARD_READY" \in Messages /\ "COMMON_DEV_CONFIG" \in Messages
      BY DEF Messages, Frames
    <3>3. CASE a = <<"CARD_READY">>
      BY <3>1, <3>2, <3>3
    <3>4. CASE a = <<"COMMON_DEV_CONFIG", "CARD_READY">>
      BY <3>1, <3>2, <3>4
    <3>5. CASE a = <<"CARD_READY", "COMMON_DEV_CONFIG">>
      BY <3>1, <3>2, <3>5
    <3>6. QED
      BY <3>1, <3>3, <3>4, <3>5
  <2>3. QED
    BY <1>5, <2>1, <2>2 DEF WlanReadyArrives
<1>6. QED
  BY <1>1, <1>2, <1>3, <1>4, <1>5 DEF Device

\* The rx thread.
LEMMA RxKeepsType ==
    ASSUME TypeOK, Rx PROVE TypeOK'
<1> USE DEF TypeOK, card, mac, reset
<1>1. ASSUME NEW h \in Handlers, Confirm(h) PROVE TypeOK'
  <2>1. rxq' \in Seq(Messages)
    BY <1>1 DEF Confirm, Handling
  <2>2. CASE Sends(h)
    <3>1. mgmt_q' \in Seq(Frames)
      BY <2>2, HandlersTyped DEF Sends
    <3>2. bb_rf_prog_count' \in 0 .. 255
      BY <2>2 DEF Sends
    <3>3. advance' \in (FsmStates \ {"FW_NOT_LOADED"}) \cup {"none", "finish", "clear"}
      BY <2>2, HandlersTyped DEF Sends
    <3>4. QED
      BY <1>1, <2>1, <2>2, <3>1, <3>2, <3>3 DEF Confirm, Sends
  <2>3. CASE Fails(h)
    <3>1. advance' \in (FsmStates \ {"FW_NOT_LOADED"}) \cup {"none", "finish", "clear"}
      BY <2>3, HandlersTyped DEF Fails, FsmStates
    <3>2. QED
      BY <1>1, <2>1, <2>3, <3>1, ZenonT(60) DEF Confirm, Fails
  <2>4. QED
    BY <1>1, <2>2, <2>3 DEF Confirm
<1>2. CASE BbRfConfirm
  <2>1. rxq' \in Seq(Messages)
    BY <1>2 DEF BbRfConfirm, Handling
  <2>2. bb_rf_prog_count' \in 0 .. 255
    BY <1>2, CountTyped DEF BbRfConfirm
  <2>3. advance' \in (FsmStates \ {"FW_NOT_LOADED"}) \cup {"none", "finish", "clear"}
    BY <1>2 DEF BbRfConfirm, FsmStates
  <2>4. QED
    BY <1>2, <2>1, <2>2, <2>3 DEF BbRfConfirm
<1>3. CASE Ignore
  <2>1. rxq' \in Seq(Messages)
    BY <1>3 DEF Ignore, Handling
  <2>2. QED
    BY <1>3, <2>1 DEF Ignore
<1>4. CASE Assign
  BY <1>4 DEF Assign
<1>5. CASE Finish
  BY <1>5 DEF Finish
<1>6. CASE ClearReinit
  BY <1>6, ZenonT(60) DEF ClearReinit
<1>7. QED
  BY <1>1, <1>2, <1>3, <1>4, <1>5, <1>6 DEF Rx

\* Restoring, and mac80211.
LEMMA RestoreKeepsType ==
    ASSUME TypeOK, Restore \/ Mac PROVE TypeOK'
<1> USE DEF TypeOK, boot, card, mac, reset
<1>1. CASE MarkReinit
  BY <1>1 DEF MarkReinit
<1>2. CASE ReinitDevice
  BY <1>2 DEF ReinitDevice
<1>3. CASE RestoreEnds
  BY <1>3 DEF RestoreEnds
<1>4. CASE MacResume
  BY <1>4 DEF MacResume
<1>5. CASE InitCompletes
  BY <1>5 DEF InitCompletes
<1>6. CASE Reconfigure
  BY <1>6 DEF Reconfigure
<1>7. QED
  BY <1>1, <1>2, <1>3, <1>4, <1>5, <1>6 DEF Restore, Mac

\* Asserts, suspend and resume, freeze, thaw and the beginning of a restore.
LEMMA OthersKeepType ==
    ASSUME TypeOK, Other PROVE TypeOK'
<1> USE DEF TypeOK, FsmStates, boot, card, mac, reset
<1>1. CASE FirmwareAsserts
  <2>1. clean' \in BOOLEAN /\ fw' \in {"off", "up", "dead"} /\ fsm_state' \in FsmStates
    BY <1>1 DEF FirmwareAsserts
  <2>2. QED
    BY <1>1, <2>1 DEF FirmwareAsserts
<1>2. CASE Suspend
  <2>1. clean' \in BOOLEAN
    BY <1>2 DEF Suspend
  <2>2. QED
    BY <1>2, <2>1 DEF Suspend
<1>3. CASE Resume
  BY <1>3 DEF Resume
<1>4. CASE Freeze
  <2>1. freezes' \in 0 .. HIBERNATIONS
    BY <1>4, HibernationsNumber DEF Freeze
  <2>2. irq_on' \in BOOLEAN /\ pm' \in {"none", "suspended", "frozen", "mark", "reinit", "up"}
    BY <1>4 DEF Freeze
  <2>3. QED
    BY <1>4, <2>1, <2>2 DEF Freeze
<1>5. CASE Thaw
  BY <1>5, ZenonT(60) DEF Thaw
<1>6. CASE RestoreBegins
  <2>1. clean' \in BOOLEAN
    BY <1>6 DEF RestoreBegins
  <2>2. QED
    BY <1>6, <2>1 DEF RestoreBegins
<1>7. QED
  BY <1>1, <1>2, <1>3, <1>4, <1>5, <1>6 DEF Other

-----------------------------------------------------------------------------
LEMMA TypeKept ==
    ASSUME TypeOK, [Next]_vars PROVE TypeOK'
<1>1. ASSUME Next PROVE TypeOK'
  BY <1>1, DeviceKeepsType, RxKeepsType, RestoreKeepsType, OthersKeepType DEF Next
<1>2. ASSUME UNCHANGED vars PROVE TypeOK'
  BY <1>2 DEF TypeOK, vars, boot, card, mac, reset
<1>3. QED
  BY <1>1, <1>2

\* Type correctness: whatever happens during a boot or a restore, the state
\* machine stays in its states and the 8-bit count in its range.
THEOREM TypeCorrect == Spec => []TypeOK
<1>1. TypeOK /\ [Next]_vars => TypeOK'
  BY TypeKept
<1>2. QED
  BY InitTyped, <1>1, PTL DEF Spec

-----------------------------------------------------------------------------
\* Sequences of one and two messages.
LEMMA ShortSequences ==
    ASSUME NEW a \in Messages, NEW b \in Messages
    PROVE  /\ Append(<<>>, a) = <<a>> /\ Append(<<a>>, b) = <<a, b>>
           /\ Head(<<a>>) = a /\ Head(<<a, b>>) = a
           /\ Tail(<<a>>) = <<>> /\ Tail(<<a, b>>) = <<b>>
           /\ <<>> \o <<a>> = <<a>> /\ <<>> \o <<a, b>> = <<a, b>>
           /\ <<a>> # <<>> /\ <<a, b>> # <<>>
<1>1. Append(<<a>>, b) = <<a, b>>
  <2>0. <<a>> \in Seq(Messages) /\ Len(<<a>>) = 1
    OBVIOUS
  <2>1. Append(<<a>>, b) \in Seq(Messages) /\ Len(Append(<<a>>, b)) = 2
    BY <2>0
  <2>2. Append(<<a>>, b)[1] = a /\ Append(<<a>>, b)[2] = b
    OBVIOUS
  <2>3. <<a, b>> \in Seq(Messages) /\ Len(<<a, b>>) = 2 /\ <<a, b>>[1] = a /\ <<a, b>>[2] = b
    OBVIOUS
  <2>4. \A i \in 1 .. 2 : Append(<<a>>, b)[i] = <<a, b>>[i]
    BY <2>2, <2>3
  <2>5. QED
    BY <2>1, <2>3, <2>4, SeqEqual
<1>2. Tail(<<a, b>>) = <<b>>
  <2>1. Tail(<<a, b>>) \in Seq(Messages) /\ Len(Tail(<<a, b>>)) = 1
    OBVIOUS
  <2>2. Tail(<<a, b>>)[1] = b
    OBVIOUS
  <2>3. QED
    BY <2>1, <2>2
<1>3. /\ Append(<<>>, a) = <<a>> /\ Head(<<a>>) = a /\ Tail(<<a>>) = <<>>
      /\ <<>> \o <<a>> = <<a>> /\ <<a>> # <<>>
  OBVIOUS
<1>4. Head(<<a, b>>) = a /\ <<>> \o <<a, b>> = <<a, b>> /\ <<a, b>> # <<>>
  OBVIOUS
<1>5. QED
  BY <1>1, <1>2, <1>3, <1>4

\* What the type invariant says of the messages, so that it can stay folded.
LEMMA NamesTyped ==
    /\ Frames \subseteq Messages /\ "CARD_READY" \in Messages
    /\ {"COMMON_DEV_CONFIG", "BOOTUP_PARAMS_REQUEST", "EEPROM_READ", "RESET_MAC_REQ",
        "RADIO_CAPABILITIES", "BBP_PROG_IN_TA"} \subseteq Messages
  BY DEF Frames, Messages

LEMMA InitBoot == Init => Inv
<1> SUFFICES ASSUME Init PROVE Inv
  OBVIOUS
<1>1. TypeOK
  BY InitTyped
<1>2. InitInv
  BY DEF Init, InitInv
<1>3. StepInv
  BY DEF Init, StepInv, Quiet, Reached, FsmStates
<1>4. StillInv
  BY DEF Init, StillInv
<1>5. ReinitInv
  BY DEF Init, ReinitInv
<1>6. QED
  BY <1>1, <1>2, <1>3, <1>4, <1>5 DEF Inv

\* The device is initialised before power management is used.
LEMMA InitInvKept ==
    ASSUME Inv, Next PROVE InitInv'
<1> USE DEF Inv, InitInv, TypeOK, boot, card, mac, reset
<1>1. CASE Device
  <2>1. CASE LoadFirmware
    BY <1>1, <2>1 DEF LoadFirmware
  <2>2. CASE DeviceInitEnds
    BY <1>1, <2>2 DEF DeviceInitEnds
  <2>3. CASE CardReadyArrives
    BY <1>1, <2>3 DEF CardReadyArrives, Interruptible
  <2>4. CASE FirmwareConfirms
    BY <1>1, <2>4 DEF FirmwareConfirms, Interruptible
  <2>5. CASE WlanReadyArrives
    BY <1>1, <2>5 DEF WlanReadyArrives, Interruptible
  <2>6. QED
    BY <1>1, <2>1, <2>2, <2>3, <2>4, <2>5 DEF Device
<1>2. CASE Rx
  <2>1. ASSUME NEW h \in Handlers, Confirm(h) PROVE InitInv'
    BY <2>1 DEF Confirm, Handling
  <2>2. CASE BbRfConfirm
    BY <2>2 DEF BbRfConfirm, Handling
  <2>3. CASE Ignore
    BY <2>3 DEF Ignore, Handling
  <2>4. CASE Assign
    BY <2>4 DEF Assign, FsmStates
  <2>5. CASE Finish
    BY <2>5 DEF Finish
  <2>6. CASE ClearReinit
    BY <2>6 DEF ClearReinit
  <2>7. QED
    BY <1>2, <2>1, <2>2, <2>3, <2>4, <2>5, <2>6 DEF Rx
<1>3. CASE Restore \/ Mac
  BY <1>3 DEF Restore, Mac, MarkReinit, ReinitDevice, RestoreEnds, MacResume, InitCompletes,
              Reconfigure
<1>4. CASE Other
  BY <1>4 DEF Other, FirmwareAsserts, Interruptible, Suspend, Resume, Freeze, Thaw, RestoreBegins
<1>5. QED
  BY <1>1, <1>2, <1>3, <1>4 DEF Next

-----------------------------------------------------------------------------
\* A handled boot message takes a clean boot from one state's messages to the
\* next one's.
LEMMA ConfirmKeepsStep ==
    ASSUME TypeOK, StepInv, NEW h \in Handlers, Confirm(h), clean'
    PROVE  StepInv'
<1>1. /\ advance = "none" /\ rxq # <<>> /\ Head(rxq) = h.msg /\ rxq' = Tail(rxq)
      /\ fsm_state = h.state /\ fsm_state' = fsm_state /\ posted' = posted /\ init' = init
  BY DEF Confirm, Handling, card
<1>2. mgmt_q' = Append(mgmt_q, h.send) /\ advance' = h.to
  BY DEF Confirm, Sends, Fails
<1>a. Reached = fsm_state /\ (advance' \in FsmStates => Reached' = advance')
  BY <1>1 DEF Reached, FsmStates
<1> USE DEF Travelling, Quiet, FsmStates
<1>3. CASE h = CommonHalReady
  BY <1>1, <1>2, <1>3, ShortSequences, NamesTyped, SMTT(40) DEF CommonHalReady, StepInv, Reached
<1>4. CASE h = WlanHalReady
  <2>1. /\ fsm_state = "COMMON_DEV_PARAMS_SENT" /\ advance' = "BOOT_PARAMS_SENT"
        /\ Head(rxq) = "CARD_READY" /\ mgmt_q' = Append(mgmt_q, "BOOTUP_PARAMS_REQUEST")
    BY <1>1, <1>2, <1>4 DEF WlanHalReady
  <2>2. Head(<<"COMMON_DEV_CONFIG">>) # "CARD_READY"
    BY ShortSequences, NamesTyped
  <2>3. Head(<<"COMMON_DEV_CONFIG", "CARD_READY">>) # "CARD_READY"
    BY ShortSequences, NamesTyped
  <2>4. mgmt_q = <<>> /\ rxq \in {<<"CARD_READY">>, <<"CARD_READY", "COMMON_DEV_CONFIG">>}
    BY <1>1, <1>a, <2>1, <2>2, <2>3 DEF StepInv
  <2>5. mgmt_q' = <<"BOOTUP_PARAMS_REQUEST">>
    BY <2>1, <2>4, ShortSequences, NamesTyped
  <2>6. rxq' \in {<<>>, <<"COMMON_DEV_CONFIG">>}
    <3>1. CASE rxq = <<"CARD_READY">>
      BY <1>1, <3>1, ShortSequences, NamesTyped
    <3>2. CASE rxq = <<"CARD_READY", "COMMON_DEV_CONFIG">>
      BY <1>1, <3>2, ShortSequences, NamesTyped
    <3>3. QED
      BY <2>4, <3>1, <3>2
  <2>7. Reached' = "BOOT_PARAMS_SENT" /\ "common" \notin posted
    BY <1>1, <1>a, <2>1 DEF StepInv
  <2>8. QED
    BY <1>1, <2>1, <2>5, <2>6, <2>7 DEF StepInv
<1>5. CASE h = CommonDevConfirm
  <2>1. /\ fsm_state = "COMMON_DEV_PARAMS_SENT" /\ advance' = "BOOT_PARAMS_SENT"
        /\ Head(rxq) = "COMMON_DEV_CONFIG"
        /\ mgmt_q' = Append(mgmt_q, "BOOTUP_PARAMS_REQUEST")
    BY <1>1, <1>2, <1>5 DEF CommonDevConfirm
  <2>2. Head(<<"CARD_READY">>) # "COMMON_DEV_CONFIG"
    BY ShortSequences, NamesTyped
  <2>3. Head(<<"CARD_READY", "COMMON_DEV_CONFIG">>) # "COMMON_DEV_CONFIG"
    BY ShortSequences, NamesTyped
  <2>4. mgmt_q = <<>> /\ rxq \in {<<"COMMON_DEV_CONFIG">>, <<"COMMON_DEV_CONFIG", "CARD_READY">>}
    BY <1>1, <1>a, <2>1, <2>2, <2>3 DEF StepInv
  <2>5. mgmt_q' = <<"BOOTUP_PARAMS_REQUEST">>
    BY <2>1, <2>4, ShortSequences, NamesTyped
  <2>6. rxq' \in {<<>>, <<"CARD_READY">>}
    <3>1. CASE rxq = <<"COMMON_DEV_CONFIG">>
      BY <1>1, <3>1, ShortSequences, NamesTyped
    <3>2. CASE rxq = <<"COMMON_DEV_CONFIG", "CARD_READY">>
      BY <1>1, <3>2, ShortSequences, NamesTyped
    <3>3. QED
      BY <2>4, <3>1, <3>2
  <2>7. Reached' = "BOOT_PARAMS_SENT" /\ "common" \notin posted
    BY <1>1, <1>a, <2>1 DEF StepInv
  <2>8. QED
    BY <1>1, <2>1, <2>5, <2>6, <2>7 DEF StepInv
<1>6. CASE h = BootupConfirm
  <2>1. /\ fsm_state = "BOOT_PARAMS_SENT" /\ Head(rxq) = "BOOTUP_PARAMS_REQUEST"
        /\ \/ advance' = "RESET_MAC_SENT" /\ mgmt_q' = Append(mgmt_q, "RESET_MAC_REQ")
           \/ /\ ~Is9116
              /\ advance' = "EEPROM_READ_MAC_ADDR" /\ mgmt_q' = Append(mgmt_q, "EEPROM_READ")
    BY <1>1, <1>2, <1>6 DEF BootupConfirm
  <2>2. \A extra \in {"CARD_READY", "COMMON_DEV_CONFIG"} :
           /\ Head(<<extra>>) # "BOOTUP_PARAMS_REQUEST"
           /\ Head(<<extra, "BOOTUP_PARAMS_REQUEST">>) # "BOOTUP_PARAMS_REQUEST"
    BY ShortSequences, NamesTyped
  <2>3. rxq = <<"BOOTUP_PARAMS_REQUEST">> /\ mgmt_q = <<>>
    BY <1>1, <1>a, <2>1, <2>2 DEF StepInv
  <2>4. rxq' = <<>>
    BY <1>1, <2>3, ShortSequences, NamesTyped
  <2>5. \/ advance' = "RESET_MAC_SENT" /\ mgmt_q' = <<"RESET_MAC_REQ">>
        \/ /\ ~Is9116
           /\ advance' = "EEPROM_READ_MAC_ADDR" /\ mgmt_q' = <<"EEPROM_READ">>
    BY <2>1, <2>3, ShortSequences, NamesTyped
  <2>6. Reached' = advance' /\ "common" \notin posted
    BY <1>1, <1>a, <2>1 DEF StepInv
  <2>7. QED
    BY <1>1, <2>1, <2>4, <2>5, <2>6 DEF StepInv
<1>7. CASE h = EepromMacConfirm
  <2>1. /\ fsm_state = "EEPROM_READ_MAC_ADDR" /\ advance' = "EEPROM_READ_RF_TYPE" /\ Head(rxq) = "EEPROM_READ"
        /\ mgmt_q' = Append(mgmt_q, "EEPROM_READ")
    BY <1>1, <1>2, <1>7 DEF EepromMacConfirm
  <2>2. rxq = <<"EEPROM_READ">> /\ mgmt_q = <<>>
    BY <1>1, <1>a, <2>1 DEF StepInv
  <2>3. rxq' = <<>> /\ mgmt_q' = <<"EEPROM_READ">>
    BY <1>1, <2>1, <2>2, ShortSequences, NamesTyped
  <2>4. Reached' = "EEPROM_READ_RF_TYPE" /\ "common" \notin posted /\ ~Is9116
    BY <1>1, <1>a, <2>1 DEF StepInv
  <2>5. QED
    BY <1>1, <2>1, <2>3, <2>4 DEF StepInv
<1>8. CASE h = EepromRfConfirm
  <2>1. /\ fsm_state = "EEPROM_READ_RF_TYPE" /\ advance' = "RESET_MAC_SENT" /\ Head(rxq) = "EEPROM_READ"
        /\ mgmt_q' = Append(mgmt_q, "RESET_MAC_REQ")
    BY <1>1, <1>2, <1>8 DEF EepromRfConfirm
  <2>2. rxq = <<"EEPROM_READ">> /\ mgmt_q = <<>>
    BY <1>1, <1>a, <2>1 DEF StepInv
  <2>3. rxq' = <<>> /\ mgmt_q' = <<"RESET_MAC_REQ">>
    BY <1>1, <2>1, <2>2, ShortSequences, NamesTyped
  <2>4. Reached' = "RESET_MAC_SENT" /\ "common" \notin posted
    BY <1>1, <1>a, <2>1 DEF StepInv
  <2>5. QED
    BY <1>1, <2>1, <2>3, <2>4 DEF StepInv
<1>9. CASE h = ResetMacConfirm
  <2>1. /\ fsm_state = "RESET_MAC_SENT" /\ advance' = "RADIO_CAPS_SENT" /\ Head(rxq) = "RESET_MAC_REQ"
        /\ mgmt_q' = Append(mgmt_q, "RADIO_CAPABILITIES")
    BY <1>1, <1>2, <1>9 DEF ResetMacConfirm
  <2>2. rxq = <<"RESET_MAC_REQ">> /\ mgmt_q = <<>>
    BY <1>1, <1>a, <2>1 DEF StepInv
  <2>3. rxq' = <<>> /\ mgmt_q' = <<"RADIO_CAPABILITIES">>
    BY <1>1, <2>1, <2>2, ShortSequences, NamesTyped
  <2>4. Reached' = "RADIO_CAPS_SENT" /\ "common" \notin posted
    BY <1>1, <1>a, <2>1 DEF StepInv
  <2>5. QED
    BY <1>1, <2>1, <2>3, <2>4 DEF StepInv
<1>10. CASE h = RadioCapsConfirm
  <2>1. /\ fsm_state = "RADIO_CAPS_SENT" /\ advance' = "BB_RF_PROG_SENT" /\ Head(rxq) = "RADIO_CAPABILITIES"
        /\ mgmt_q' = Append(mgmt_q, "BBP_PROG_IN_TA")
    BY <1>1, <1>2, <1>10 DEF RadioCapsConfirm
  <2>2. rxq = <<"RADIO_CAPABILITIES">> /\ mgmt_q = <<>>
    BY <1>1, <1>a, <2>1 DEF StepInv
  <2>3. rxq' = <<>> /\ mgmt_q' = <<"BBP_PROG_IN_TA">>
    BY <1>1, <2>1, <2>2, ShortSequences, NamesTyped
  <2>4. Reached' = "BB_RF_PROG_SENT" /\ "common" \notin posted
    BY <1>1, <1>a, <2>1 DEF StepInv
  <2>6. bb_rf_prog_count' = 1
    BY <1>10 DEF RadioCapsConfirm, Confirm, Sends, Fails
  <2>5. QED
    BY <1>1, <2>1, <2>3, <2>4, <2>6 DEF StepInv
<1>11. QED
  BY <1>3, <1>4, <1>5, <1>6, <1>7, <1>8, <1>9, <1>10 DEF Handlers

\* The last confirmation, and a message that no state waits for.
LEMMA BbRfKeepsStep ==
    ASSUME TypeOK, StepInv, BbRfConfirm PROVE StepInv'
<1> USE DEF Travelling, Quiet, FsmStates
<1>1. /\ advance = "none" /\ rxq # <<>> /\ Head(rxq) = "BBP_PROG_IN_TA" /\ rxq' = Tail(rxq)
      /\ fsm_state = "BB_RF_PROG_SENT" /\ fsm_state' = fsm_state
      /\ posted' = posted /\ init' = init /\ mgmt_q' = mgmt_q
  BY DEF BbRfConfirm, Handling, card
<1>2. /\ rxq = <<"BBP_PROG_IN_TA">> /\ mgmt_q = <<>> /\ bb_rf_prog_count = 1
      /\ "common" \notin posted
  BY <1>1 DEF StepInv, Reached
<1>3. advance' = "MAC_INIT_DONE"
  BY <1>2 DEF BbRfConfirm
<1>4. rxq' = <<>>
  BY <1>1, <1>2, ShortSequences, NamesTyped
<1>5. QED
  BY <1>1, <1>2, <1>3, <1>4 DEF StepInv, Reached

\* What each state waits for.
LEMMA Awaited ==
    /\ \E h \in Handlers : h.state = "CARD_NOT_READY" /\ h.msg = "CARD_READY"
    /\ \E h \in Handlers : h.state = "COMMON_DEV_PARAMS_SENT" /\ h.msg = "CARD_READY"
    /\ \E h \in Handlers : h.state = "COMMON_DEV_PARAMS_SENT" /\ h.msg = "COMMON_DEV_CONFIG"
    /\ \E h \in Handlers : h.state = "BOOT_PARAMS_SENT" /\ h.msg = "BOOTUP_PARAMS_REQUEST"
    /\ \E h \in Handlers : h.state = "EEPROM_READ_MAC_ADDR" /\ h.msg = "EEPROM_READ"
    /\ \E h \in Handlers : h.state = "EEPROM_READ_RF_TYPE" /\ h.msg = "EEPROM_READ"
    /\ \E h \in Handlers : h.state = "RESET_MAC_SENT" /\ h.msg = "RESET_MAC_REQ"
    /\ \E h \in Handlers : h.state = "RADIO_CAPS_SENT" /\ h.msg = "RADIO_CAPABILITIES"
<1>1. CommonHalReady.state = "CARD_NOT_READY" /\ CommonHalReady.msg = "CARD_READY"
  BY DEF CommonHalReady
<1>2. WlanHalReady.state = "COMMON_DEV_PARAMS_SENT" /\ WlanHalReady.msg = "CARD_READY"
  BY DEF WlanHalReady
<1>3. /\ CommonDevConfirm.state = "COMMON_DEV_PARAMS_SENT"
      /\ CommonDevConfirm.msg = "COMMON_DEV_CONFIG"
  BY DEF CommonDevConfirm
<1>4. BootupConfirm.state = "BOOT_PARAMS_SENT" /\ BootupConfirm.msg = "BOOTUP_PARAMS_REQUEST"
  BY DEF BootupConfirm
<1>5. EepromMacConfirm.state = "EEPROM_READ_MAC_ADDR" /\ EepromMacConfirm.msg = "EEPROM_READ"
  BY DEF EepromMacConfirm
<1>6. EepromRfConfirm.state = "EEPROM_READ_RF_TYPE" /\ EepromRfConfirm.msg = "EEPROM_READ"
  BY DEF EepromRfConfirm
<1>7. ResetMacConfirm.state = "RESET_MAC_SENT" /\ ResetMacConfirm.msg = "RESET_MAC_REQ"
  BY DEF ResetMacConfirm
<1>8. RadioCapsConfirm.state = "RADIO_CAPS_SENT" /\ RadioCapsConfirm.msg = "RADIO_CAPABILITIES"
  BY DEF RadioCapsConfirm
<1>9. QED
  BY <1>1, <1>2, <1>3, <1>4, <1>5, <1>6, <1>7, <1>8 DEF Handlers

LEMMA IgnoreKeepsStep ==
    ASSUME TypeOK, StepInv, Ignore PROVE StepInv'
<1> USE DEF Travelling, Quiet, FsmStates
<1>1. /\ advance = "none" /\ advance' = "none" /\ rxq # <<>> /\ rxq' = Tail(rxq)
      /\ fsm_state' = fsm_state /\ posted' = posted /\ init' = init /\ mgmt_q' = mgmt_q
      /\ Reached = fsm_state /\ Reached' = fsm_state
  BY DEF Ignore, Handling, card, Reached
<1>2. \A h \in Handlers : ~(h.msg = Head(rxq) /\ h.state = fsm_state)
  BY DEF Ignore
<1>3. ~(Head(rxq) = "BBP_PROG_IN_TA" /\ fsm_state = "BB_RF_PROG_SENT")
  BY DEF Ignore
<1>4. \A m \in Messages, n \in Messages : Head(<<m>>) = m /\ Head(<<m, n>>) = m
  BY ShortSequences
<1>5. /\ Head(<<"CARD_READY">>) = "CARD_READY"
      /\ Head(<<"COMMON_DEV_CONFIG">>) = "COMMON_DEV_CONFIG"
      /\ Head(<<"CARD_READY", "COMMON_DEV_CONFIG">>) = "CARD_READY"
      /\ Head(<<"COMMON_DEV_CONFIG", "CARD_READY">>) = "COMMON_DEV_CONFIG"
      /\ Head(<<"BOOTUP_PARAMS_REQUEST">>) = "BOOTUP_PARAMS_REQUEST"
      /\ Head(<<"EEPROM_READ">>) = "EEPROM_READ"
      /\ Head(<<"RESET_MAC_REQ">>) = "RESET_MAC_REQ"
      /\ Head(<<"RADIO_CAPABILITIES">>) = "RADIO_CAPABILITIES"
      /\ Head(<<"BBP_PROG_IN_TA">>) = "BBP_PROG_IN_TA"
  BY <1>4, NamesTyped
<1>6. fsm_state # "CARD_NOT_READY"
  BY <1>1, <1>2, <1>5, Awaited DEF StepInv
<1>7. fsm_state # "COMMON_DEV_PARAMS_SENT"
  <2>1. SUFFICES ASSUME fsm_state = "COMMON_DEV_PARAMS_SENT" PROVE FALSE
    OBVIOUS
  <2>2. rxq \in {<<"COMMON_DEV_CONFIG">>, <<"CARD_READY">>,
                 <<"COMMON_DEV_CONFIG", "CARD_READY">>, <<"CARD_READY", "COMMON_DEV_CONFIG">>}
    BY <1>1, <2>1 DEF StepInv
  <2>3. Head(rxq) \in {"COMMON_DEV_CONFIG", "CARD_READY"}
    BY <2>2, <1>5
  <2>4. QED
    BY <1>2, <2>1, <2>3, Awaited
<1>8. fsm_state \notin {"EEPROM_READ_MAC_ADDR", "EEPROM_READ_RF_TYPE"}
  BY <1>1, <1>2, <1>5, Awaited DEF StepInv
<1>9. fsm_state \notin {"RESET_MAC_SENT", "RADIO_CAPS_SENT"}
  BY <1>1, <1>2, <1>5, Awaited DEF StepInv
<1>10. fsm_state # "BB_RF_PROG_SENT"
  BY <1>1, <1>3, <1>5 DEF StepInv
<1>11. fsm_state = "BOOT_PARAMS_SENT"
  BY <1>1, <1>6, <1>7, <1>8, <1>9, <1>10 DEF StepInv, TypeOK
<1>12. PICK extra \in {"CARD_READY", "COMMON_DEV_CONFIG"} :
           \/ mgmt_q = <<"BOOTUP_PARAMS_REQUEST">> /\ rxq = <<extra>>
           \/ mgmt_q = <<>> /\ rxq = <<extra, "BOOTUP_PARAMS_REQUEST">>
  <2>1. rxq # <<"BOOTUP_PARAMS_REQUEST">>
    BY <1>2, <1>5, <1>11, Awaited
  <2>2. QED
    BY <1>1, <1>11, <2>1 DEF StepInv
<1>13. CASE mgmt_q = <<"BOOTUP_PARAMS_REQUEST">> /\ rxq = <<extra>>
  <2>1. rxq' = <<>> /\ mgmt_q' = <<"BOOTUP_PARAMS_REQUEST">>
    BY <1>1, <1>13, ShortSequences, NamesTyped
  <2>2. "common" \notin posted
    BY <1>1, <1>11 DEF StepInv
  <2>3. QED
    BY <1>1, <1>11, <2>1, <2>2 DEF StepInv
<1>14. CASE mgmt_q = <<>> /\ rxq = <<extra, "BOOTUP_PARAMS_REQUEST">>
  <2>1. rxq' = <<"BOOTUP_PARAMS_REQUEST">> /\ mgmt_q' = <<>>
    BY <1>1, <1>14, ShortSequences, NamesTyped
  <2>2. "common" \notin posted
    BY <1>1, <1>11 DEF StepInv
  <2>3. QED
    BY <1>1, <1>11, <2>1, <2>2 DEF StepInv
<1>15. QED
  BY <1>12, <1>13, <1>14

\* The rx thread's other steps: Reached does not change.
LEMMA AssignKeepsStep ==
    ASSUME TypeOK, StepInv, Assign \/ Finish \/ ClearReinit PROVE StepInv'
<1> USE DEF Travelling, Quiet, FsmStates, card, mac, reset, Reached
<1>1. CASE Assign
  <2>1. Reached = advance /\ advance # "FW_NOT_LOADED" /\ fsm_state' = advance /\ Reached' = Reached
    BY <1>1 DEF Assign, TypeOK
  <2>2. advance' \in {"finish", "none"} /\ (advance' = "finish" => fsm_state' = "MAC_INIT_DONE")
    BY <1>1 DEF Assign
  <2>3. UNCHANGED <<mgmt_q, rxq, posted, init, bb_rf_prog_count>>
    BY <1>1 DEF Assign
  <2> HIDE DEF Reached
  <2>4. QED
    BY <2>1, <2>2, <2>3 DEF StepInv
<1>2. CASE Finish \/ ClearReinit
  <2>1. fsm_state = "MAC_INIT_DONE" /\ Reached = fsm_state
    BY <1>2 DEF Finish, ClearReinit, StepInv
  <2>2. /\ fsm_state' = fsm_state /\ advance' \in {"none", "clear"}
        /\ UNCHANGED <<mgmt_q, rxq, posted, init, bb_rf_prog_count>>
    BY <1>2 DEF Finish, ClearReinit
  <2>3. Reached' = Reached
    BY <2>1, <2>2
  <2> HIDE DEF Reached
  <2>4. QED
    BY <2>1, <2>2, <2>3 DEF StepInv
<1>3. QED
  BY <1>1, <1>2

\* The device's steps: what it delivers is what the state of the boot expects.
LEMMA DeviceKeepsStep ==
    ASSUME TypeOK, StepInv, StillInv, clean', Device PROVE StepInv'
<1> USE DEF Travelling, Quiet, FsmStates, boot, mac, reset
<1>1. CASE LoadFirmware
  <2>1. fsm_state = "FW_NOT_LOADED" /\ advance = "none" /\ init' = "end"
    BY <1>1 DEF LoadFirmware, StillInv
  <2>2. UNCHANGED <<fsm_state, advance, mgmt_q, rxq, bb_rf_prog_count>>
    BY <1>1 DEF LoadFirmware
  <2>3. Reached = "FW_NOT_LOADED" /\ Reached' = "FW_NOT_LOADED"
    BY <2>1, <2>2 DEF Reached
  <2>4. QED
    BY <2>1, <2>2, <2>3 DEF StepInv
<1>2. CASE DeviceInitEnds
  <2>1. fsm_state = "FW_NOT_LOADED" /\ advance = "none" /\ "common" \in posted
    BY <1>2 DEF DeviceInitEnds, StillInv
  <2>2. UNCHANGED <<advance, mgmt_q, rxq, posted>> /\ fsm_state' = "CARD_NOT_READY"
    BY <1>2 DEF DeviceInitEnds
  <2>3. Reached = "FW_NOT_LOADED" /\ Reached' = "CARD_NOT_READY"
    BY <2>1, <2>2 DEF Reached
  <2>4. mgmt_q = <<>> /\ rxq = <<>>
    BY <2>3 DEF StepInv
  <2>5. QED
    BY <2>1, <2>2, <2>3, <2>4 DEF StepInv
<1>3. CASE CardReadyArrives
  <2>1. "common" \in posted /\ fsm_state # "FW_NOT_LOADED"
    BY <1>3 DEF CardReadyArrives, Interruptible
  <2>2. Reached = "CARD_NOT_READY"
    <3>1. Reached = "FW_NOT_LOADED" => Reached = fsm_state
      BY DEF StepInv, Reached
    <3>2. QED
      BY <2>1, <3>1 DEF StepInv
  <2>3. mgmt_q = <<>> /\ rxq = <<>>
    BY <2>1, <2>2 DEF StepInv
  <2>4. /\ rxq' = Append(rxq, "CARD_READY") /\ "common" \notin posted'
        /\ UNCHANGED <<fsm_state, advance, mgmt_q, init>>
    BY <1>3 DEF CardReadyArrives
  <2>5. rxq' = <<"CARD_READY">> /\ mgmt_q' = <<>>
    BY <2>3, <2>4, ShortSequences, NamesTyped
  <2>6. Reached' = "CARD_NOT_READY"
    BY <2>2, <2>4 DEF Reached
  <2>7. advance \in {"finish", "clear"} => fsm_state = "MAC_INIT_DONE"
    BY DEF StepInv
  <2>8. advance \in FsmStates => fsm_state # "MAC_INIT_DONE"
    BY DEF StepInv
  <2>9. QED
    BY <2>4, <2>5, <2>6, <2>7, <2>8 DEF StepInv
<1>4. CASE FirmwareConfirms
  <2>1. /\ mgmt_q # <<>> /\ rxq' = Append(rxq, Head(mgmt_q)) /\ mgmt_q' = Tail(mgmt_q)
        /\ UNCHANGED <<fsm_state, advance, posted, init, bb_rf_prog_count>>
    BY <1>4 DEF FirmwareConfirms, card
  <2>2. Reached' = Reached
    BY <2>1 DEF Reached
  <2>3. ASSUME NEW f \in Frames, mgmt_q = <<f>> /\ rxq = <<>>
        PROVE  mgmt_q' = <<>> /\ rxq' = <<f>>
    BY <2>1, <2>3, ShortSequences, NamesTyped
  <2>4. ASSUME NEW extra \in {"CARD_READY", "COMMON_DEV_CONFIG"},
               mgmt_q = <<"BOOTUP_PARAMS_REQUEST">>, rxq = <<extra>>
        PROVE  mgmt_q' = <<>> /\ rxq' = <<extra, "BOOTUP_PARAMS_REQUEST">>
    BY <2>1, <2>4, ShortSequences, NamesTyped
  <2>5. \A f \in Frames : Travelling(f) => Travelling(f)'
    BY <2>1, <2>3
  <2>6. Reached \notin {"FW_NOT_LOADED", "MAC_INIT_DONE", "CARD_NOT_READY"}
    BY <2>1 DEF StepInv
  <2> HIDE DEF Travelling
  <2>7. CASE Reached = "COMMON_DEV_PARAMS_SENT"
    <3>1. Travelling("COMMON_DEV_CONFIG")
      BY <2>1, <2>7 DEF StepInv
    <3>2. Travelling("COMMON_DEV_CONFIG")'
      BY <2>5, <3>1 DEF Frames
    <3>3. QED
      BY <2>1, <2>2, <2>7, <3>2 DEF StepInv
  <2>8. CASE Reached = "BOOT_PARAMS_SENT"
    <3>1. \/ Travelling("BOOTUP_PARAMS_REQUEST")
          \/ \E extra \in {"CARD_READY", "COMMON_DEV_CONFIG"} :
                mgmt_q = <<"BOOTUP_PARAMS_REQUEST">> /\ rxq = <<extra>>
      BY <2>1, <2>8 DEF StepInv
    <3>2. \/ Travelling("BOOTUP_PARAMS_REQUEST")'
          \/ \E extra \in {"CARD_READY", "COMMON_DEV_CONFIG"} :
                mgmt_q' = <<>> /\ rxq' = <<extra, "BOOTUP_PARAMS_REQUEST">>
      BY <2>4, <2>5, <3>1 DEF Frames
    <3>3. QED
      BY <2>1, <2>2, <2>8, <3>2 DEF StepInv
  <2>9. CASE Reached \notin {"COMMON_DEV_PARAMS_SENT", "BOOT_PARAMS_SENT"}
    <3>1. Frames = {"COMMON_DEV_CONFIG", "BOOTUP_PARAMS_REQUEST", "EEPROM_READ",
                    "RESET_MAC_REQ", "RADIO_CAPABILITIES", "BBP_PROG_IN_TA"}
      BY DEF Frames
    <3>2. QED
      BY <2>1, <2>2, <2>5, <2>6, <2>9, <3>1 DEF StepInv
  <2>10. QED
    BY <2>7, <2>8, <2>9
<1>5. CASE WlanReadyArrives
  <2>1. /\ mgmt_q # <<>> /\ Head(mgmt_q) = "COMMON_DEV_CONFIG" /\ mgmt_q' = Tail(mgmt_q)
        /\ posted' \subseteq posted
        /\ UNCHANGED <<fsm_state, advance, init>>
    BY <1>5 DEF WlanReadyArrives
  <2>3. \A f \in Frames : Head(<<f>>) = f
    BY ShortSequences, NamesTyped
  <2>4. Reached = "COMMON_DEV_PARAMS_SENT"
    <3>1. \E f \in Frames :
             /\ mgmt_q = <<f>>
             /\ f = "COMMON_DEV_CONFIG" => Reached = "COMMON_DEV_PARAMS_SENT"
      <4>1. Reached \in FsmStates
        BY DEF Reached, TypeOK
      <4>2. Reached \notin {"FW_NOT_LOADED", "MAC_INIT_DONE", "CARD_NOT_READY"}
        BY <2>1 DEF StepInv
      <4>3. QED
        BY <2>1, <4>1, <4>2 DEF StepInv, Frames
    <3>2. QED
      BY <2>1, <2>3, <3>1
  <2>5. mgmt_q = <<"COMMON_DEV_CONFIG">> /\ rxq = <<>>
    BY <2>1, <2>4 DEF StepInv
  <2>6. PICK a \in {<<"CARD_READY">>, <<"COMMON_DEV_CONFIG", "CARD_READY">>,
                    <<"CARD_READY", "COMMON_DEV_CONFIG">>} : rxq' = rxq \o a
    BY <1>5 DEF WlanReadyArrives
  <2>7. rxq' = a
    <3>1. CASE a = <<"CARD_READY">>
      BY <2>5, <2>6, <3>1, ShortSequences, NamesTyped
    <3>2. CASE a = <<"COMMON_DEV_CONFIG", "CARD_READY">>
      BY <2>5, <2>6, <3>2, ShortSequences, NamesTyped
    <3>3. CASE a = <<"CARD_READY", "COMMON_DEV_CONFIG">>
      BY <2>5, <2>6, <3>3, ShortSequences, NamesTyped
    <3>4. QED
      BY <2>6, <3>1, <3>2, <3>3
  <2>8. mgmt_q' = <<>>
    BY <2>1, <2>5, ShortSequences, NamesTyped
  <2>9. Reached' = Reached
    BY <2>1 DEF Reached
  <2>10. "common" \notin posted
    BY <2>4 DEF StepInv
  <2>11. QED
    BY <2>1, <2>4, <2>6, <2>7, <2>8, <2>9, <2>10 DEF StepInv
<1>6. QED
  BY <1>1, <1>2, <1>3, <1>4, <1>5 DEF Device

-----------------------------------------------------------------------------
\* Only the beginning of a restore makes a boot clean again.
LEMMA CleanBefore ==
    ASSUME TypeOK, Next, clean', ~RestoreBegins PROVE clean
<1>1. CASE Device
  BY <1>1 DEF Device, LoadFirmware, DeviceInitEnds, CardReadyArrives, FirmwareConfirms,
              WlanReadyArrives
<1>2. CASE Rx
  BY <1>2 DEF Rx, Confirm, Sends, Fails, BbRfConfirm, Ignore, Assign, Finish, ClearReinit
<1>3. CASE Restore \/ Mac
  BY <1>3 DEF Restore, Mac, MarkReinit, ReinitDevice, RestoreEnds, MacResume, InitCompletes,
              Reconfigure
<1>4. CASE Other
  BY <1>4 DEF Other, FirmwareAsserts, Suspend, Resume, Freeze, Thaw
<1>5. QED
  BY <1>1, <1>2, <1>3, <1>4 DEF Next

\* While the boot stands still neither the rx thread nor the device moves.
LEMMA NothingMoves ==
    ASSUME Inv, clean, pm \in {"suspended", "mark", "reinit"}
    PROVE  ~Rx /\ ~Device
<1> USE DEF Inv, TypeOK
<1>1. rxq = <<>> /\ advance = "none"
  BY DEF StillInv, Quiet
<1>2. init = "idle" \/ init = "failed"
  BY DEF InitInv
<1>3. ~Rx
  BY <1>1 DEF Rx, Confirm, BbRfConfirm, Ignore, Handling, Assign, Finish, ClearReinit, FsmStates
<1>4. \/ pm = "suspended" /\ mgmt_q = <<>> /\ "common" \notin posted
      \/ fsm_state = "FW_NOT_LOADED"
  BY DEF StillInv, Quiet
<1>5. ~Device
  BY <1>2, <1>4 DEF Device, LoadFirmware, DeviceInitEnds, CardReadyArrives, FirmwareConfirms,
                    WlanReadyArrives, Interruptible
<1>6. QED
  BY <1>3, <1>5

\* A step that leaves the boot and the card alone leaves StepInv alone.
LEMMA StepStutters ==
    ASSUME StepInv, UNCHANGED <<boot, posted, init>> PROVE StepInv'
  BY DEF StepInv, boot, Quiet, Travelling, Reached

LEMMA StepKept ==
    ASSUME Inv, Next, clean', pm' \notin {"suspended", "mark", "reinit"}
    PROVE  StepInv'
<1>1. TypeOK /\ ~RestoreBegins
  BY DEF RestoreBegins, Inv
<1>2. clean /\ StillInv /\ (pm \notin {"suspended", "mark", "reinit"} => StepInv)
  BY <1>1, CleanBefore DEF Inv
<1>3. CASE Device
  BY <1>1, <1>2, <1>3, NothingMoves, DeviceKeepsStep
<1>4. CASE Rx
  <2>1. StepInv
    BY <1>2, <1>4, NothingMoves
  <2>2. ASSUME NEW h \in Handlers, Confirm(h) PROVE StepInv'
    BY <1>1, <2>1, <2>2, ConfirmKeepsStep
  <2>3. QED
    BY <1>1, <1>4, <2>1, <2>2, BbRfKeepsStep, IgnoreKeepsStep, AssignKeepsStep DEF Rx
<1>5. CASE MarkReinit \/ Suspend
  BY <1>5 DEF MarkReinit, Suspend
<1>6. CASE ReinitDevice
  <2>1. rxq = <<>> /\ advance = "none" /\ fsm_state = "FW_NOT_LOADED"
    BY <1>2, <1>6 DEF ReinitDevice, StillInv
  <2>2. /\ rxq' = <<>> /\ advance' = "none" /\ fsm_state' = "FW_NOT_LOADED"
        /\ mgmt_q' = <<>> /\ init' = "load"
    BY <1>6, <2>1 DEF ReinitDevice
  <2>3. QED
    BY <2>2 DEF StepInv, Quiet, Reached, FsmStates
<1>7. CASE Resume
  <2>1. Quiet /\ advance = "none" /\ "common" \notin posted
    BY <1>2, <1>7 DEF Resume, StillInv
  <2>2. /\ Quiet' /\ advance' = "none" /\ fsm_state' = "MAC_INIT_DONE"
        /\ "common" \notin posted'
    BY <1>7, <2>1 DEF Resume, Quiet, card
  <2>3. QED
    BY <2>2 DEF StepInv, Reached, FsmStates
<1>8. CASE RestoreEnds
  BY <1>2, <1>8, StepStutters DEF RestoreEnds, card
<1>9. CASE Mac
  <2>1. pm' = pm /\ UNCHANGED <<boot, posted, init>>
    BY <1>9 DEF Mac, MacResume, InitCompletes, Reconfigure, card, reset
  <2>2. QED
    BY <1>2, <2>1, StepStutters
<1>10. CASE Freeze
  BY <1>2, <1>10, StepStutters DEF Freeze
<1>11. CASE Thaw \/ FirmwareAsserts
  BY <1>11 DEF Thaw, FirmwareAsserts
<1>12. QED
  BY <1>1, <1>3, <1>4, <1>5, <1>6, <1>7, <1>8, <1>9, <1>10, <1>11 DEF Next, Restore, Other

\* While the firmware is being loaded nothing is on its way.
LEMMA LoadingIsQuiet ==
    ASSUME Inv, clean, init \in {"load", "end"}
    PROVE  rxq = <<>> /\ advance = "none" /\ fsm_state = "FW_NOT_LOADED"
<1>1. fsm_state = "FW_NOT_LOADED" /\ advance = "none" /\ Reached = "FW_NOT_LOADED"
  BY DEF Inv, StillInv, Reached, FsmStates
<1>2. CASE attached = 0
  BY <1>2 DEF Inv, InitInv
<1>3. CASE attached # 0
  <2>1. pm = "up"
    BY <1>3 DEF Inv, InitInv, TypeOK
  <2>2. QED
    BY <1>1, <2>1 DEF Inv, StepInv, Quiet
<1>4. QED
  BY <1>2, <1>3

LEMMA StillKept ==
    ASSUME Inv, Next, clean' PROVE StillInv'
<1> USE DEF Quiet, boot, card, mac, reset
<1>1. CASE RestoreBegins
  <2>1. init = "idle" \/ init = "failed"
    BY <1>1 DEF RestoreBegins, Inv, InitInv, TypeOK
  <2>2. QED
    BY <1>1, <2>1 DEF RestoreBegins, StillInv
<1>2. ASSUME ~RestoreBegins PROVE StillInv'
  <2>1. TypeOK /\ clean /\ StillInv /\ (pm \notin {"suspended", "mark", "reinit"} => StepInv)
    BY <1>2, CleanBefore DEF Inv
  <2>2. CASE Device
    <3>1. pm \notin {"suspended", "mark", "reinit"} /\ pm' = pm
      BY <2>1, <2>2, NothingMoves
         DEF Device, LoadFirmware, DeviceInitEnds, CardReadyArrives, FirmwareConfirms,
             WlanReadyArrives
    <3>2. CASE LoadFirmware
      BY <2>1, <3>1, <3>2 DEF LoadFirmware, StillInv
    <3>3. CASE DeviceInitEnds
      BY <2>1, <3>1, <3>3 DEF DeviceInitEnds, StillInv
    <3>4. CASE CardReadyArrives \/ FirmwareConfirms \/ WlanReadyArrives
      <4>1. fsm_state # "FW_NOT_LOADED" /\ fsm_state' = fsm_state /\ init' = init
        BY <3>4 DEF CardReadyArrives, FirmwareConfirms, WlanReadyArrives, Interruptible
      <4>2. init \notin {"load", "end"}
        BY <2>1, <4>1, LoadingIsQuiet
      <4>3. QED
        BY <3>1, <4>1, <4>2 DEF StillInv
    <3>5. QED
      BY <2>2, <3>2, <3>3, <3>4 DEF Device
  <2>3. CASE Rx
    <3>1. pm \notin {"suspended", "mark", "reinit"} /\ pm' = pm /\ init' = init
      BY <2>1, <2>3, NothingMoves
         DEF Rx, Confirm, BbRfConfirm, Ignore, Assign, Finish, ClearReinit
    <3>2. init \notin {"load", "end"}
      BY <2>1, <2>3, LoadingIsQuiet
         DEF Rx, Confirm, BbRfConfirm, Ignore, Handling, Assign, Finish, ClearReinit, FsmStates
    <3>3. QED
      BY <3>1, <3>2 DEF StillInv
  <2>4. CASE Restore
    <3>1. CASE MarkReinit
      BY <2>1, <3>1 DEF MarkReinit, StillInv
    <3>2. CASE ReinitDevice
      BY <2>1, <3>2 DEF ReinitDevice, StillInv
    <3>3. CASE RestoreEnds
      BY <2>1, <3>3 DEF RestoreEnds, StillInv
    <3>4. QED
      BY <2>4, <3>1, <3>2, <3>3 DEF Restore
  <2>5. CASE Mac
    BY <2>1, <2>5 DEF Mac, MacResume, InitCompletes, Reconfigure, StillInv
  <2>6. CASE Suspend
    <3>1. fsm_state = "MAC_INIT_DONE" /\ advance = "none" /\ pm = "none"
      BY <2>6 DEF Suspend
    <3>2. Quiet /\ "common" \notin posted
      BY <2>1, <3>1 DEF StepInv, Reached, FsmStates
    <3>3. posted \subseteq {"wlan"}
      BY <2>1, <3>2 DEF TypeOK
    <3>4. init \notin {"load", "end"}
      BY <2>1, <3>1, LoadingIsQuiet
    <3>5. QED
      BY <2>6, <3>1, <3>2, <3>3, <3>4 DEF Suspend, StillInv
  <2>7. CASE Resume
    <3>1. init \notin {"load", "end"}
      BY <2>7 DEF Resume, Inv, InitInv, TypeOK
    <3>2. QED
      BY <2>7, <3>1 DEF Resume, StillInv
  <2>8. CASE Freeze
    BY <2>1, <2>8 DEF Freeze, StillInv
  <2>9. CASE Thaw \/ FirmwareAsserts
    BY <2>9 DEF Thaw, FirmwareAsserts
  <2>10. QED
    BY <1>2, <2>2, <2>3, <2>4, <2>5, <2>6, <2>7, <2>8, <2>9 DEF Next, Other
<1>3. QED
  BY <1>1, <1>2

\* Once attached, the rx thread changes the state only in a re-initialisation.
LEMMA ReinitKept ==
    ASSUME Inv, Next, clean' PROVE ReinitInv'
<1> USE DEF boot, card, mac, reset
<1>1. CASE RestoreBegins
  <2>1. completions' = 0
    BY <1>1 DEF RestoreBegins
  <2>2. pm' = "mark" /\ reconf' = "pending"
    BY <1>1 DEF RestoreBegins
  <2>3. QED
    BY <2>1, <2>2 DEF ReinitInv
<1>2. ASSUME ~RestoreBegins PROVE ReinitInv'
  <2>1. /\ TypeOK /\ clean /\ StillInv /\ ReinitInv /\ InitInv
        /\ (pm \notin {"suspended", "mark", "reinit"} => StepInv)
    BY <1>2, CleanBefore DEF Inv
  <2>2. CASE Device
    <3>1. pm \notin {"suspended", "mark", "reinit"}
      BY <2>1, <2>2, NothingMoves
    <3>2. CASE DeviceInitEnds
      <4>1. fsm_state = "FW_NOT_LOADED"
        BY <2>1, <3>2, LoadingIsQuiet DEF DeviceInitEnds
      <4>2. UNCHANGED <<attached, reinit_hw, pm, reconf, completions>>
        BY <3>2 DEF DeviceInitEnds
      <4>3. QED
        BY <2>1, <3>1, <4>1, <4>2 DEF ReinitInv
    <3>3. CASE ~DeviceInitEnds
      <4>1. UNCHANGED <<fsm_state, advance, attached, reinit_hw, pm, reconf, completions>>
        BY <2>2, <3>3 DEF Device, LoadFirmware, CardReadyArrives, FirmwareConfirms,
                          WlanReadyArrives
      <4>2. QED
        BY <2>1, <4>1 DEF ReinitInv
    <3>4. QED
      BY <3>2, <3>3
  <2>3. CASE Rx
    <3>1. pm \notin {"suspended", "mark", "reinit"} /\ StepInv
      BY <2>1, <2>3, NothingMoves
    <3>2. ASSUME NEW h \in Handlers, Confirm(h) PROVE ReinitInv'
      <4>1. h.state # "MAC_INIT_DONE"
        BY DEF Handlers, CommonHalReady, WlanHalReady, CommonDevConfirm, BootupConfirm,
               EepromMacConfirm, EepromRfConfirm, ResetMacConfirm, RadioCapsConfirm
      <4>2. /\ fsm_state # "MAC_INIT_DONE"
            /\ UNCHANGED <<fsm_state, attached, reinit_hw, pm, reconf, completions>>
        BY <3>2, <4>1 DEF Confirm
      <4>3. QED
        BY <2>1, <3>1, <4>2 DEF ReinitInv
    <3>3. CASE BbRfConfirm
      <4>1. /\ fsm_state # "MAC_INIT_DONE"
            /\ UNCHANGED <<fsm_state, attached, reinit_hw, pm, reconf, completions>>
        BY <3>3 DEF BbRfConfirm
      <4>2. QED
        BY <2>1, <3>1, <4>1 DEF ReinitInv
    <3>4. CASE Ignore
      BY <2>1, <3>4 DEF Ignore, ReinitInv
    <3>5. CASE Assign
      <4>1. /\ advance # "none" /\ fsm_state # "MAC_INIT_DONE"
            /\ UNCHANGED <<attached, reinit_hw, pm, reconf, completions>>
        BY <3>1, <3>5 DEF Assign, StepInv, FsmStates
      <4>2. QED
        BY <2>1, <3>1, <4>1 DEF ReinitInv
    <3>6. CASE Finish \/ ClearReinit
      <4>0. fsm_state = "MAC_INIT_DONE"
        BY <3>1, <3>6 DEF Finish, ClearReinit, StepInv
      <4>1. /\ fsm_state' = "MAC_INIT_DONE" /\ (~reinit_hw' => advance' = "none")
            /\ UNCHANGED <<pm, reconf>>
        <5>1. CASE Finish
          BY <4>0, <5>1 DEF Finish
        <5>2. CASE ClearReinit
          BY <4>0, <5>2 DEF ClearReinit
        <5>3. QED
          BY <3>6, <5>1, <5>2
      <4>2. QED
        BY <2>1, <3>1, <4>1 DEF ReinitInv
    <3>7. QED
      BY <2>3, <3>2, <3>3, <3>4, <3>5, <3>6 DEF Rx
  <2>4. CASE Restore
    BY <2>1, <2>4 DEF Restore, MarkReinit, ReinitDevice, RestoreEnds, ReinitInv
  <2>5. CASE MacResume
    <3>1. UNCHANGED <<fsm_state, advance, attached, reinit_hw, pm, completions>>
      BY <2>5 DEF MacResume
    <3>2. pm = "none" /\ reconf = "pending" /\ (reconf' = "resumed" => ~reinit_hw)
      BY <2>5 DEF MacResume
    <3>3. attached > 0
      BY <2>1, <3>2 DEF InitInv
    <3>4. QED
      BY <2>1, <3>1, <3>2, <3>3 DEF ReinitInv
  <2>6. CASE InitCompletes
    <3>1. UNCHANGED <<fsm_state, advance, attached, reinit_hw, pm>>
      BY <2>6 DEF InitCompletes
    <3>2. /\ reconf = "wait" /\ reconf' = "resumed" /\ completions > 0
          /\ completions' = completions - 1 /\ completions \in Nat
      BY <2>1, <2>6 DEF InitCompletes, TypeOK
    <3>3. fsm_state = "MAC_INIT_DONE" /\ pm \in {"none", "mark", "reinit", "up"}
      BY <2>1, <3>2 DEF ReinitInv
    <3>4. QED
      BY <2>1, <3>1, <3>2, <3>3 DEF ReinitInv
  <2>7. CASE Reconfigure
    BY <2>1, <2>7 DEF Reconfigure, ReinitInv
  <2>8. CASE Suspend
    BY <2>1, <2>8 DEF Suspend, ReinitInv
  <2>9. CASE Resume
    BY <2>1, <2>9 DEF Resume, ReinitInv, StillInv
  <2>10. CASE Freeze
    BY <2>1, <2>10 DEF Freeze, ReinitInv
  <2>11. CASE Thaw \/ FirmwareAsserts
    BY <2>11 DEF Thaw, FirmwareAsserts
  <2>12. QED
    BY <1>2, <2>2, <2>3, <2>4, <2>5, <2>6, <2>7, <2>8, <2>9, <2>10, <2>11
       DEF Next, Mac, Other
<1>3. QED
  BY <1>1, <1>2

-----------------------------------------------------------------------------
\* The inductive invariant.
LEMMA InvKept ==
    ASSUME Inv, [Next]_vars PROVE Inv'
<1>1. TypeOK'
  BY TypeKept DEF Inv
<1>2. ASSUME Next PROVE Inv'
  <2>1. InitInv'
    BY <1>2, InitInvKept
  <2>2. clean' /\ pm' \notin {"suspended", "mark", "reinit"} => StepInv'
    BY <1>2, StepKept
  <2>3. clean' => StillInv' /\ ReinitInv'
    BY <1>2, StillKept, ReinitKept
  <2>4. QED
    BY <1>1, <2>1, <2>2, <2>3 DEF Inv
<1>3. ASSUME UNCHANGED vars PROVE Inv'
  BY <1>1, <1>3 DEF Inv, InitInv, StepInv, StillInv, ReinitInv, Quiet, Travelling, Reached,
                    vars, boot, card, mac, reset
<1>4. QED
  BY <1>2, <1>3

\* The states that wait for each frame's confirmation.
LEMMA AwaitingStates ==
    /\ "COMMON_DEV_PARAMS_SENT" \in Awaiting("COMMON_DEV_CONFIG")
    /\ "BOOT_PARAMS_SENT" \in Awaiting("BOOTUP_PARAMS_REQUEST")
    /\ ~Is9116 => "EEPROM_READ_MAC_ADDR" \in Awaiting("EEPROM_READ")
    /\ "EEPROM_READ_RF_TYPE" \in Awaiting("EEPROM_READ")
    /\ "RESET_MAC_SENT" \in Awaiting("RESET_MAC_REQ")
    /\ "RADIO_CAPS_SENT" \in Awaiting("RADIO_CAPABILITIES")
    /\ "BB_RF_PROG_SENT" \in Awaiting("BBP_PROG_IN_TA")
<1>1. \A g \in Handlers : g.to \in Awaiting(g.send)
  BY DEF Awaiting
<1>2. /\ CommonHalReady.send = "COMMON_DEV_CONFIG"
      /\ CommonHalReady.to = "COMMON_DEV_PARAMS_SENT"
  BY DEF CommonHalReady
<1>3. WlanHalReady.send = "BOOTUP_PARAMS_REQUEST" /\ WlanHalReady.to = "BOOT_PARAMS_SENT"
  BY DEF WlanHalReady
<1>4. ~Is9116 => BootupConfirm.send = "EEPROM_READ" /\ BootupConfirm.to = "EEPROM_READ_MAC_ADDR"
  BY DEF BootupConfirm
<1>5. EepromMacConfirm.send = "EEPROM_READ" /\ EepromMacConfirm.to = "EEPROM_READ_RF_TYPE"
  BY DEF EepromMacConfirm
<1>6. EepromRfConfirm.send = "RESET_MAC_REQ" /\ EepromRfConfirm.to = "RESET_MAC_SENT"
  BY DEF EepromRfConfirm
<1>7. ResetMacConfirm.send = "RADIO_CAPABILITIES" /\ ResetMacConfirm.to = "RADIO_CAPS_SENT"
  BY DEF ResetMacConfirm
<1>8. RadioCapsConfirm.send = "BBP_PROG_IN_TA" /\ RadioCapsConfirm.to = "BB_RF_PROG_SENT"
  BY DEF RadioCapsConfirm
<1>9. {CommonHalReady, WlanHalReady, BootupConfirm, EepromMacConfirm, EepromRfConfirm,
       ResetMacConfirm, RadioCapsConfirm} \subseteq Handlers
  BY DEF Handlers
<1>10. QED
  BY <1>1, <1>2, <1>3, <1>4, <1>5, <1>6, <1>7, <1>8, <1>9

\* A frame on its way, or its confirmation, is the only one.
LEMMA TravellingInStep ==
    ASSUME TypeOK, NEW f \in Frames, Travelling(f), Reached \in Awaiting(f)
    PROVE  /\ Len(mgmt_q) <= 1
           /\ \A i \in DOMAIN mgmt_q : Reached \in Awaiting(mgmt_q[i])
           /\ \A i \in DOMAIN rxq : mgmt_q = <<>> /\ Reached \in Awaiting(rxq[i])
<1>1. CASE mgmt_q = <<f>> /\ rxq = <<>>
  BY <1>1
<1>2. CASE mgmt_q = <<>> /\ rxq = <<f>>
  BY <1>2
<1>3. QED
  BY <1>1, <1>2 DEF Travelling

LEMMA InStepLemma == Inv => InStep
<1> SUFFICES ASSUME Inv, clean, pm \notin {"mark", "reinit"}
             PROVE  /\ Len(mgmt_q) <= 1
                    /\ \A i \in DOMAIN mgmt_q : Reached \in Awaiting(mgmt_q[i])
                    /\ \A i \in DOMAIN rxq :
                           rxq[i] \notin {"CARD_READY", "COMMON_DEV_CONFIG"}
                               => mgmt_q = <<>> /\ Reached \in Awaiting(rxq[i])
  BY DEF InStep
<1>1. TypeOK
  BY DEF Inv
<1>2. ASSUME Quiet PROVE Len(mgmt_q) = 0 /\ DOMAIN mgmt_q = {} /\ DOMAIN rxq = {}
  BY <1>2 DEF Quiet
<1>3. CASE pm = "suspended"
  BY <1>2, <1>3 DEF Inv, StillInv
<1>4. CASE pm # "suspended"
  <2>1. StepInv /\ Reached \in FsmStates
    BY <1>1, <1>4 DEF Inv, Reached, TypeOK
  <2>2. CASE Reached \in {"FW_NOT_LOADED", "MAC_INIT_DONE"}
    BY <1>2, <2>1, <2>2 DEF StepInv
  <2>3. CASE Reached = "CARD_NOT_READY"
    <3>1. mgmt_q = <<>> /\ rxq \in {<<>>, <<"CARD_READY">>}
      BY <2>1, <2>3 DEF StepInv
    <3>2. Len(mgmt_q) = 0 /\ DOMAIN mgmt_q = {}
      BY <3>1
    <3>3. \A i \in DOMAIN rxq : rxq[i] = "CARD_READY"
      BY <3>1
    <3>4. QED
      BY <3>2, <3>3
  <2>4. CASE Reached = "COMMON_DEV_PARAMS_SENT"
    <3>1. CASE Travelling("COMMON_DEV_CONFIG")
      BY <1>1, <2>4, <3>1, TravellingInStep, AwaitingStates DEF Frames
    <3>2. CASE mgmt_q = <<>> /\ rxq \in {<<"CARD_READY">>, <<"COMMON_DEV_CONFIG", "CARD_READY">>,
                                         <<"CARD_READY", "COMMON_DEV_CONFIG">>}
      <4>1. \A i \in DOMAIN rxq : rxq[i] \in {"CARD_READY", "COMMON_DEV_CONFIG"}
        BY <3>2
      <4>2. Len(mgmt_q) = 0 /\ DOMAIN mgmt_q = {}
        BY <3>2
      <4>3. QED
        BY <4>1, <4>2
    <3>3. QED
      BY <2>1, <2>4, <3>1, <3>2 DEF StepInv
  <2>5. CASE Reached = "BOOT_PARAMS_SENT"
    <3>1. CASE Travelling("BOOTUP_PARAMS_REQUEST")
      BY <1>1, <2>5, <3>1, TravellingInStep, AwaitingStates DEF Frames
    <3>2. ASSUME NEW extra \in {"CARD_READY", "COMMON_DEV_CONFIG"},
                 mgmt_q = <<"BOOTUP_PARAMS_REQUEST">>, rxq = <<extra>>
          PROVE  /\ Len(mgmt_q) <= 1
                 /\ \A i \in DOMAIN mgmt_q : mgmt_q[i] = "BOOTUP_PARAMS_REQUEST"
                 /\ \A i \in DOMAIN rxq : rxq[i] = extra
      BY <3>2
    <3>3. ASSUME NEW extra \in {"CARD_READY", "COMMON_DEV_CONFIG"},
                 mgmt_q = <<>>, rxq = <<extra, "BOOTUP_PARAMS_REQUEST">>
          PROVE  /\ Len(mgmt_q) = 0 /\ DOMAIN mgmt_q = {}
                 /\ \A i \in DOMAIN rxq : rxq[i] \in {extra, "BOOTUP_PARAMS_REQUEST"}
      BY <3>3
    <3>4. Reached \in Awaiting("BOOTUP_PARAMS_REQUEST")
      BY <2>5, AwaitingStates
    <3>5. CASE \E extra \in {"CARD_READY", "COMMON_DEV_CONFIG"} :
                  mgmt_q = <<"BOOTUP_PARAMS_REQUEST">> /\ rxq = <<extra>>
      BY <3>2, <3>4, <3>5
    <3>6. CASE \E extra \in {"CARD_READY", "COMMON_DEV_CONFIG"} :
                  mgmt_q = <<>> /\ rxq = <<extra, "BOOTUP_PARAMS_REQUEST">>
      BY <3>3, <3>4, <3>6
    <3>7. QED
      BY <2>1, <2>5, <3>1, <3>5, <3>6 DEF StepInv
  <2>6. CASE Reached \in {"EEPROM_READ_MAC_ADDR", "EEPROM_READ_RF_TYPE"}
    <3>1. Travelling("EEPROM_READ") /\ Reached \in Awaiting("EEPROM_READ")
      BY <2>1, <2>6, AwaitingStates DEF StepInv
    <3>2. QED
      BY <1>1, <3>1, TravellingInStep DEF Frames
  <2>7. CASE Reached = "RESET_MAC_SENT"
    <3>1. Travelling("RESET_MAC_REQ")
      BY <2>1, <2>7 DEF StepInv
    <3>2. QED
      BY <1>1, <2>7, <3>1, TravellingInStep, AwaitingStates DEF Frames
  <2>8. CASE Reached = "RADIO_CAPS_SENT"
    <3>1. Travelling("RADIO_CAPABILITIES")
      BY <2>1, <2>8 DEF StepInv
    <3>2. QED
      BY <1>1, <2>8, <3>1, TravellingInStep, AwaitingStates DEF Frames
  <2>9. CASE Reached = "BB_RF_PROG_SENT"
    <3>1. Travelling("BBP_PROG_IN_TA")
      BY <2>1, <2>9 DEF StepInv
    <3>2. QED
      BY <1>1, <2>9, <3>1, TravellingInStep, AwaitingStates DEF Frames
  <2>10. QED
    BY <2>1, <2>2, <2>3, <2>4, <2>5, <2>6, <2>7, <2>8, <2>9 DEF FsmStates
<1>5. QED
  BY <1>3, <1>4

-----------------------------------------------------------------------------
\* A clean boot keeps in step: each frame is sent once, and its confirmation is
\* handled in the state that waits for it, in whatever order the device's two
\* answers to the configuration come.
THEOREM KeepsInStep == Spec => []InStep
<1>1. Inv /\ [Next]_vars => Inv'
  BY InvKept
<1>2. QED
  BY InitBoot, <1>1, InStepLemma, PTL DEF Spec

\* However often a clean system is suspended, hibernated and restored,
\* mac80211 is not attached again.
THEOREM NeverAttachesAgain == Spec => AttachesOnce
<1>1. Inv /\ [Next]_vars => Inv'
  BY InvKept
<1>2. ASSUME Inv, Next PROVE clean /\ attached > 0 => attached' = attached
  <2>1. SUFFICES ASSUME clean, attached > 0, Finish PROVE attached' = attached
    BY <1>2 DEF Next, Device, Rx, Restore, Mac, Other, card, mac, reset, LoadFirmware,
                DeviceInitEnds, CardReadyArrives, FirmwareConfirms, WlanReadyArrives,
                Confirm, BbRfConfirm, Ignore, Assign, ClearReinit, MarkReinit, ReinitDevice,
                RestoreEnds, MacResume, InitCompletes, Reconfigure, FirmwareAsserts,
                Suspend, Resume, Freeze, Thaw, RestoreBegins
  <2>2. advance = "finish"
    BY <2>1 DEF Finish
  <2>3. pm \notin {"mark", "suspended"}
    BY <1>2, <2>1, <2>2 DEF Inv, StillInv
  <2>4. reinit_hw
    BY <1>2, <2>1, <2>2, <2>3 DEF Inv, ReinitInv
  <2>5. QED
    BY <2>1, <2>4 DEF Finish
<1>3. Inv /\ [Next]_vars => [clean /\ attached > 0 => attached' = attached]_vars
  BY <1>2
<1>4. QED
  BY InitBoot, <1>1, <1>3, PTL DEF Spec, AttachesOnce

\* mac80211's resume goes on, after a clean restore, with a device that is ready.
THEOREM ResumesReady == Spec => []ResumedReady
<1>1. Inv /\ [Next]_vars => Inv'
  BY InvKept
<1>2. Inv => ResumedReady
  BY DEF Inv, ReinitInv, ResumedReady
<1>3. QED
  BY InitBoot, <1>1, <1>2, PTL DEF Spec

-----------------------------------------------------------------------------
(***************************************************************************)
(* Progress.  BootCompletes and ResumeReturns need fairness; that a clean  *)
(* boot is never without a next step, that each step brings its end nearer *)
(* and that a waiting resume has its completion to come does not.          *)
(***************************************************************************)

\* What the firmware or the rx thread has to do, and what it needs for it.
Underway ==
    \/ init \in {"load", "end"}
    \/ "common" \in posted /\ Interruptible
    \/ mgmt_q # <<>> /\ fw = "up" /\ Interruptible
    \/ rxq # <<>>
    \/ advance # "none"

Booting == pm \in {"none", "frozen", "up"}

\* No card ready, frame or confirmation is lost on the way: until a clean boot is
\* over there is one under way, and an interrupt for it is not turned away.
NeverStalls == clean /\ pm \in {"none", "up"} /\ fsm_state # "MAC_INIT_DONE" => Underway

\* The completion rsi_mac80211_resume waits for is there or will be: reinit_hw is
\* read while the rx thread is between completing and clearing it.
ResumeHeard ==
    clean /\ reconf = "wait" =>
        \/ completions > 0
        \/ reinit_hw /\ (fsm_state # "MAC_INIT_DONE" \/ advance = "finish")

\* How far the boot has come.
Rank == [FW_NOT_LOADED |-> 0, CARD_NOT_READY |-> 1, COMMON_DEV_PARAMS_SENT |-> 2,
         BOOT_PARAMS_SENT |-> 3, EEPROM_READ_MAC_ADDR |-> 4, EEPROM_READ_RF_TYPE |-> 5,
         RESET_MAC_SENT |-> 6, RADIO_CAPS_SENT |-> 7, BB_RF_PROG_SENT |-> 8,
         MAC_INIT_DONE |-> 9]

\* What is left of the boot: states, frames, messages, card readies and the lines of
\* rsi_hal_device_init and of the rx thread, weighed so that each step costs more
\* than it adds.
Unsent  == Len(mgmt_q)
Unread  == Len(rxq)
Load    == IF init = "load" THEN 6 ELSE IF init = "end" THEN 1 ELSE 0
Readies == (IF "common" \in posted THEN 2 ELSE 0) + (IF "wlan" \in posted THEN 2 ELSE 0)
Line    == IF advance \in FsmStates THEN 3 ELSE IF advance = "finish" THEN 2
           ELSE IF advance = "clear" THEN 1 ELSE 0

Remaining ==
    10 * (9 - Rank[Reached]) + 3 * Unsent + Unread + Readies + Load + Line

MaxSteps == 96

\* A clean boot has at most this many steps left.
BootBounded == clean /\ Booting => Remaining \in 0 .. MaxSteps

\* Every step of the firmware or of the rx thread in a clean boot uses one up, and
\* neither mac80211 nor power management adds any before the next boot.
Nearer ==
    clean /\ clean' =>
        /\ Device \/ Rx => Remaining' < Remaining
        /\ Mac \/ RestoreEnds \/ Freeze => Remaining' = Remaining

BootAdvances == [][Nearer]_vars

\* The device that is to go on booting has power, and is heard.
PowerInv ==
    /\ fsm_state # "FW_NOT_LOADED" \/ init = "end" \/ pm = "suspended" => fw = "up"
    /\ fsm_state = "FW_NOT_LOADED" => advance = "none"
    /\ init # "failed"
    /\ pm \in {"none", "suspended"} \/ (pm = "up" /\ init = "idle") => irq_on
    /\ pm \in {"mark", "reinit"} => posted = {}

\* Who waits, or is about to, has not been passed by.
WaitInv ==
    /\ reconf = "wait" => reinit_hw \/ completions > 0
    /\ reconf \in {"pending", "wait"} /\ reinit_hw /\ completions = 0
           => fsm_state # "MAC_INIT_DONE" \/ advance = "finish"

AdvInv == Inv /\ (clean => PowerInv /\ WaitInv) /\ BootBounded

LEMMA PowerKept ==
    ASSUME Inv, clean => PowerInv, Next, clean' PROVE PowerInv'
<1> USE DEF boot, card, mac, reset
<1>1. CASE RestoreBegins
  <2>1. init = "idle"
    BY <1>1 DEF RestoreBegins, Inv, InitInv, TypeOK
  <2>2. /\ fsm_state' = "FW_NOT_LOADED" /\ pm' = "mark" /\ posted' = {} /\ init' = "idle"
        /\ advance' = "none"
    BY <1>1, <2>1 DEF RestoreBegins
  <2>3. QED
    BY <2>2 DEF PowerInv
<1>2. ASSUME ~RestoreBegins PROVE PowerInv'
  <2>1. TypeOK /\ clean /\ PowerInv /\ StillInv /\ InitInv
    BY <1>2, CleanBefore DEF Inv
  <2>2. CASE LoadFirmware
    <3>1. init = "load" /\ fw' = "up" /\ init' = "end"
      BY <2>2 DEF LoadFirmware
    <3>2. UNCHANGED <<fsm_state, advance, irq_on, pm>>
      BY <2>2 DEF LoadFirmware
    <3>3. pm \notin {"mark", "reinit"}
      BY <2>1, <2>2, NothingMoves DEF Device
    <3>4. QED
      BY <2>1, <3>1, <3>2, <3>3 DEF PowerInv
  <2>3. CASE DeviceInitEnds
    <3>1. fw' = "up" /\ init' = "idle" /\ irq_on' = TRUE /\ posted' = posted
      BY <2>1, <2>3 DEF DeviceInitEnds, PowerInv
    <3>2. fsm_state' = "CARD_NOT_READY" /\ pm' = pm
      BY <2>3 DEF DeviceInitEnds
    <3>3. QED
      BY <2>1, <3>1, <3>2 DEF PowerInv
  <2>4. CASE CardReadyArrives \/ FirmwareConfirms \/ WlanReadyArrives
    <3>1. /\ UNCHANGED <<fsm_state, advance, fw, init, irq_on, pm>>
          /\ posted' \subseteq posted
      BY <2>4 DEF CardReadyArrives, FirmwareConfirms, WlanReadyArrives
    <3>2. QED
      BY <2>1, <3>1 DEF PowerInv
  <2>5. CASE Rx
    <3>1. UNCHANGED <<fw, init, irq_on, pm, posted>>
      BY <2>5 DEF Rx, Confirm, BbRfConfirm, Ignore, Assign, Finish, ClearReinit
    <3>2. ASSUME NEW h \in Handlers, Confirm(h) PROVE fsm_state # "FW_NOT_LOADED"
      BY <3>2 DEF Confirm, Handlers, CommonHalReady, WlanHalReady, CommonDevConfirm,
                  BootupConfirm, EepromMacConfirm, EepromRfConfirm, ResetMacConfirm,
                  RadioCapsConfirm
    <3>3. fsm_state = "FW_NOT_LOADED" => advance' = "none" /\ fsm_state' = fsm_state
      BY <2>1, <2>5, <3>2
         DEF Rx, BbRfConfirm, Ignore, Assign, Finish, ClearReinit, PowerInv, FsmStates
    <3>4. fsm_state # "FW_NOT_LOADED" => fsm_state' # "FW_NOT_LOADED"
      BY <2>1, <2>5 DEF Rx, Confirm, BbRfConfirm, Ignore, Assign, Finish, ClearReinit, TypeOK
    <3>5. QED
      BY <2>1, <3>1, <3>3, <3>4 DEF PowerInv
  <2>6. CASE MarkReinit
    BY <2>1, <2>6 DEF MarkReinit, PowerInv
  <2>7. CASE ReinitDevice
    <3>1. fsm_state = "FW_NOT_LOADED" /\ advance = "none"
      BY <2>1, <2>7 DEF ReinitDevice, StillInv
    <3>2. QED
      BY <2>1, <2>7, <3>1 DEF ReinitDevice, PowerInv
  <2>8. CASE RestoreEnds
    BY <2>1, <2>8 DEF RestoreEnds, PowerInv
  <2>9. CASE Mac
    <3>1. UNCHANGED <<boot, card, pm>>
      BY <2>9 DEF Mac, MacResume, InitCompletes, Reconfigure
    <3>2. QED
      BY <2>1, <3>1 DEF PowerInv
  <2>10. CASE Suspend
    <3>1. fsm_state = "MAC_INIT_DONE" /\ pm = "none" /\ pm' = "suspended"
      BY <2>10 DEF Suspend
    <3>2. /\ UNCHANGED <<advance, fw, init, irq_on, posted>>
          /\ fsm_state' = "CARD_NOT_READY"
      BY <2>10 DEF Suspend
    <3>3. QED
      BY <2>1, <3>1, <3>2 DEF PowerInv
  <2>11. CASE Resume
    BY <2>1, <2>11 DEF Resume, PowerInv
  <2>12. CASE Freeze
    BY <2>1, <2>12 DEF Freeze, PowerInv
  <2>13. CASE Thaw \/ FirmwareAsserts
    BY <2>13 DEF Thaw, FirmwareAsserts
  <2>14. QED
    BY <1>2, <2>2, <2>3, <2>4, <2>5, <2>6, <2>7, <2>8, <2>9, <2>10, <2>11, <2>12, <2>13
       DEF Next, Device, Restore, Other
<1>3. QED
  BY <1>1, <1>2

LEMMA WaitKept ==
    ASSUME Inv, clean => WaitInv, Next, clean' PROVE WaitInv'
<1> USE DEF boot, card, mac, reset
<1>1. CASE RestoreBegins
  <2>1. fsm_state' = "FW_NOT_LOADED" /\ reconf' = "pending"
    BY <1>1 DEF RestoreBegins
  <2>2. QED
    BY <2>1 DEF WaitInv
<1>2. ASSUME ~RestoreBegins PROVE WaitInv'
  <2>1. /\ TypeOK /\ clean /\ WaitInv /\ StillInv /\ InitInv /\ ReinitInv
        /\ (pm \notin {"suspended", "mark", "reinit"} => StepInv)
    BY <1>2, CleanBefore DEF Inv
  <2>2. CASE DeviceInitEnds
    <3>1. fsm_state' = "CARD_NOT_READY" /\ UNCHANGED <<reconf, reinit_hw, completions>>
      BY <2>2 DEF DeviceInitEnds
    <3>2. QED
      BY <2>1, <3>1 DEF WaitInv
  <2>3. CASE Device /\ ~DeviceInitEnds
    <3>1. UNCHANGED <<fsm_state, advance, reconf, reinit_hw, completions>>
      BY <2>3 DEF Device, LoadFirmware, CardReadyArrives, FirmwareConfirms, WlanReadyArrives
    <3>2. QED
      BY <2>1, <3>1 DEF WaitInv
  <2>4. ASSUME NEW h \in Handlers, Confirm(h) PROVE WaitInv'
    <3>1. h.state # "MAC_INIT_DONE"
      BY DEF Handlers, CommonHalReady, WlanHalReady, CommonDevConfirm, BootupConfirm,
             EepromMacConfirm, EepromRfConfirm, ResetMacConfirm, RadioCapsConfirm
    <3>2. /\ fsm_state # "MAC_INIT_DONE"
          /\ UNCHANGED <<fsm_state, reconf, reinit_hw, completions>>
      BY <2>4, <3>1 DEF Confirm
    <3>3. QED
      BY <2>1, <3>2 DEF WaitInv
  <2>5. CASE BbRfConfirm
    <3>1. /\ fsm_state # "MAC_INIT_DONE"
          /\ UNCHANGED <<fsm_state, reconf, reinit_hw, completions>>
      BY <2>5 DEF BbRfConfirm
    <3>2. QED
      BY <2>1, <3>1 DEF WaitInv
  <2>6. CASE Ignore
    BY <2>1, <2>6 DEF Ignore, WaitInv
  <2>7. CASE Assign
    <3>1. fsm_state' = "MAC_INIT_DONE" => advance' = "finish"
      BY <2>7 DEF Assign
    <3>2. UNCHANGED <<reconf, reinit_hw, completions>>
      BY <2>7 DEF Assign
    <3>3. QED
      BY <2>1, <3>1, <3>2 DEF WaitInv
  <2>8. CASE Finish
    <3>1. UNCHANGED <<reconf, reinit_hw>>
      BY <2>8 DEF Finish
    <3>2. completions \in Nat
      BY <2>1 DEF TypeOK
    <3>3. reinit_hw => completions' > 0
      BY <2>8, <3>2 DEF Finish
    <3>4. ~reinit_hw => completions' = completions
      BY <2>8 DEF Finish
    <3>5. reconf = "wait" => reinit_hw \/ completions > 0
      BY <2>1 DEF WaitInv
    <3>6. reinit_hw => completions' # 0
      BY <3>2, <3>3
    <3>7. QED
      BY <3>1, <3>3, <3>4, <3>5, <3>6 DEF WaitInv
  <2>9. CASE ClearReinit
    <3>1. advance = "clear" /\ reinit_hw' = FALSE /\ UNCHANGED <<reconf, completions>>
      BY <2>9 DEF ClearReinit
    <3>2. pm \notin {"suspended", "mark", "reinit"}
      BY <2>1, <2>9, NothingMoves DEF Rx
    <3>3. fsm_state = "MAC_INIT_DONE"
      BY <2>1, <3>1, <3>2 DEF StepInv
    <3>4. reconf = "wait" => completions # 0 \/ ~reinit_hw
      BY <2>1, <3>1, <3>3 DEF WaitInv
    <3>5. reconf = "wait" => completions > 0 \/ reinit_hw
      BY <2>1 DEF WaitInv
    <3>6. completions \in Nat
      BY <2>1 DEF TypeOK
    <3>7. completions # 0 => completions > 0
      BY <3>6
    <3>8. reconf = "wait" => completions > 0
      BY <3>4, <3>5, <3>7
    <3>9. QED
      BY <3>1, <3>8 DEF WaitInv
  <2>10. CASE MarkReinit
    <3>1. fsm_state = "FW_NOT_LOADED" /\ fsm_state' = fsm_state /\ reinit_hw' = TRUE
      BY <2>1, <2>10 DEF MarkReinit, StillInv
    <3>2. QED
      BY <3>1 DEF WaitInv
  <2>11. CASE ReinitDevice \/ RestoreEnds
    <3>1. UNCHANGED <<fsm_state, advance, reconf, reinit_hw, completions>>
      BY <2>11 DEF ReinitDevice, RestoreEnds
    <3>2. QED
      BY <2>1, <3>1 DEF WaitInv
  <2>12. CASE MacResume
    <3>1. UNCHANGED <<fsm_state, advance, reinit_hw, completions>>
      BY <2>12 DEF MacResume
    <3>2. reconf = "pending" /\ (reconf' = "wait" => reinit_hw) /\ reconf' # "pending"
      BY <2>12 DEF MacResume
    <3>3. QED
      BY <2>1, <3>1, <3>2 DEF WaitInv
  <2>13. CASE InitCompletes \/ Reconfigure
    <3>1. reconf' \in {"resumed", "none"}
      BY <2>13 DEF InitCompletes, Reconfigure
    <3>2. QED
      BY <3>1 DEF WaitInv
  <2>14. CASE Suspend \/ Freeze
    <3>1. reconf = "none" /\ reconf' = reconf
      BY <2>14 DEF Suspend, Freeze
    <3>2. QED
      BY <3>1 DEF WaitInv
  <2>15. CASE Resume
    <3>1. reconf \notin {"pending", "wait"} /\ reconf' = reconf
      BY <2>1, <2>15 DEF Resume, ReinitInv, TypeOK
    <3>2. QED
      BY <3>1 DEF WaitInv
  <2>16. CASE Thaw \/ FirmwareAsserts
    BY <2>16 DEF Thaw, FirmwareAsserts
  <2>17. QED
    BY <1>2, <2>2, <2>3, <2>4, <2>5, <2>6, <2>7, <2>8, <2>9, <2>10, <2>11, <2>12, <2>13,
       <2>14, <2>15, <2>16 DEF Next, Rx, Restore, Mac, Other
<1>3. QED
  BY <1>1, <1>2

LEMMA StallsNever ==
    ASSUME Inv, clean => PowerInv PROVE NeverStalls
<1> SUFFICES ASSUME clean, pm \in {"none", "up"}, fsm_state # "MAC_INIT_DONE", ~Underway
             PROVE  FALSE
  BY DEF NeverStalls
<1>1. TypeOK /\ PowerInv /\ StepInv
  BY DEF Inv
<1>2. rxq = <<>> /\ advance = "none" /\ Reached = fsm_state
  BY DEF Underway, Reached, FsmStates
<1>3. init = "idle"
  BY <1>1 DEF Underway, PowerInv, TypeOK
<1>4. fsm_state # "FW_NOT_LOADED"
  BY <1>1, <1>2, <1>3 DEF StepInv
<1>5. Interruptible /\ fw = "up"
  BY <1>1, <1>3, <1>4 DEF PowerInv, Interruptible
<1>6. mgmt_q = <<>> /\ "common" \notin posted
  BY <1>5 DEF Underway
<1>7. \A a \in Messages, b \in Messages : <<a>> # <<>> /\ <<a, b>> # <<>>
  BY ShortSequences
<1>8. fsm_state # "CARD_NOT_READY"
  BY <1>1, <1>2, <1>6, <1>7, NamesTyped DEF StepInv
<1>9. fsm_state # "COMMON_DEV_PARAMS_SENT"
  BY <1>1, <1>2, <1>6, <1>7, NamesTyped DEF StepInv, Travelling
<1>10. fsm_state # "BOOT_PARAMS_SENT"
  BY <1>1, <1>2, <1>6, <1>7, NamesTyped DEF StepInv, Travelling
<1>11. fsm_state \notin {"EEPROM_READ_MAC_ADDR", "EEPROM_READ_RF_TYPE"}
  BY <1>1, <1>2, <1>6, <1>7, NamesTyped DEF StepInv, Travelling
<1>12. fsm_state \notin {"RESET_MAC_SENT", "RADIO_CAPS_SENT", "BB_RF_PROG_SENT"}
  BY <1>1, <1>2, <1>6, <1>7, NamesTyped DEF StepInv, Travelling
<1>13. QED
  BY <1>1, <1>4, <1>8, <1>9, <1>10, <1>11, <1>12 DEF TypeOK, FsmStates

LEMMA WaiterHeard ==
    ASSUME Inv, clean => WaitInv PROVE ResumeHeard
<1>1. completions \in Nat
  BY DEF Inv, TypeOK
<1>2. completions = 0 \/ completions > 0
  BY <1>1
<1>3. QED
  BY <1>2 DEF ResumeHeard, WaitInv

-----------------------------------------------------------------------------
LEMMA RankTyped == \A s \in FsmStates : Rank[s] \in 0 .. 9
<1> SUFFICES ASSUME NEW s \in FsmStates PROVE Rank[s] \in 0 .. 9
  OBVIOUS
<1>1. Rank["FW_NOT_LOADED"] = 0 /\ Rank["CARD_NOT_READY"] = 1
  BY DEF Rank
<1>2. Rank["COMMON_DEV_PARAMS_SENT"] = 2 /\ Rank["BOOT_PARAMS_SENT"] = 3
  BY DEF Rank
<1>3. Rank["EEPROM_READ_MAC_ADDR"] = 4 /\ Rank["EEPROM_READ_RF_TYPE"] = 5
  BY DEF Rank
<1>4. Rank["RESET_MAC_SENT"] = 6 /\ Rank["RADIO_CAPS_SENT"] = 7
  BY DEF Rank
<1>5. Rank["BB_RF_PROG_SENT"] = 8 /\ Rank["MAC_INIT_DONE"] = 9
  BY DEF Rank
<1>6. QED
  BY <1>1, <1>2, <1>3, <1>4, <1>5 DEF FsmStates

\* A handler takes the boot to a later state.
LEMMA HandlersForward ==
    ASSUME NEW h \in Handlers
    PROVE  h.state \in FsmStates /\ h.to \in FsmStates /\ Rank[h.to] >= Rank[h.state] + 1
<1>1. CASE h = CommonHalReady
  BY <1>1 DEF CommonHalReady, Rank, FsmStates
<1>2. CASE h = WlanHalReady
  BY <1>2 DEF WlanHalReady, Rank, FsmStates
<1>3. CASE h = CommonDevConfirm
  BY <1>3 DEF CommonDevConfirm, Rank, FsmStates
<1>4. CASE h = BootupConfirm
  <2>1. h.state = "BOOT_PARAMS_SENT" /\ h.to \in {"RESET_MAC_SENT", "EEPROM_READ_MAC_ADDR"}
    BY <1>4 DEF BootupConfirm
  <2>2. QED
    BY <2>1 DEF Rank, FsmStates
<1>5. CASE h = EepromMacConfirm
  BY <1>5 DEF EepromMacConfirm, Rank, FsmStates
<1>6. CASE h = EepromRfConfirm
  BY <1>6 DEF EepromRfConfirm, Rank, FsmStates
<1>7. CASE h = ResetMacConfirm
  BY <1>7 DEF ResetMacConfirm, Rank, FsmStates
<1>8. CASE h = RadioCapsConfirm
  BY <1>8 DEF RadioCapsConfirm, Rank, FsmStates
<1>9. QED
  BY <1>1, <1>2, <1>3, <1>4, <1>5, <1>6, <1>7, <1>8 DEF Handlers

\* What Remaining is a sum of.
PartsOK ==
    /\ Rank[Reached] \in 0 .. 9
    /\ Unsent \in Nat /\ Unread \in Nat
    /\ Readies \in 0 .. 4 /\ Load \in 0 .. 6 /\ Line \in 0 .. 3

LEMMA PartsTyped == TypeOK => PartsOK
<1> SUFFICES ASSUME TypeOK PROVE PartsOK
  OBVIOUS
<1>1. Reached \in FsmStates
  BY DEF Reached, TypeOK
<1>2. Unsent \in Nat /\ Unread \in Nat
  BY DEF TypeOK, Unsent, Unread
<1>3. Readies \in 0 .. 4
  BY DEF Readies
<1>4. Load \in 0 .. 6 /\ Line \in 0 .. 3
  BY DEF Load, Line
<1>5. QED
  BY <1>1, <1>2, <1>3, <1>4, RankTyped DEF PartsOK

LEMMA RemainingTyped == PartsOK => Remaining \in Nat
  BY DEF PartsOK, Remaining

\* A handled message costs more than the frame it sends adds.
LEMMA ConfirmNearer ==
    ASSUME TypeOK, TypeOK', NEW h \in Handlers, Confirm(h), clean'
    PROVE  Remaining' < Remaining
<1>1. PartsOK /\ PartsOK'
  BY PartsTyped, PTL
<1>2. /\ advance = "none" /\ rxq # <<>> /\ rxq' = Tail(rxq) /\ fsm_state = h.state
      /\ mgmt_q' = Append(mgmt_q, h.send) /\ advance' = h.to
  BY DEF Confirm, Handling, Sends, Fails
<1>3. UNCHANGED <<posted, init>>
  BY DEF Confirm, card
<1>4. Reached = h.state /\ Reached' = h.to
  BY <1>2, HandlersForward DEF Reached, FsmStates
<1>5. Rank[Reached'] >= Rank[Reached] + 1
  BY <1>4, HandlersForward
<1>6. Unsent' = Unsent + 1 /\ Unread' = Unread - 1
  <2>1. h.send \in Frames
    BY HandlersTyped
  <2>2. QED
    BY <1>2, <2>1 DEF TypeOK, Unsent, Unread
<1>7. Readies' = Readies /\ Load' = Load
  BY <1>3 DEF Readies, Load
<1>8. Line = 0
  BY <1>2 DEF Line, FsmStates
<1>9. QED
  BY <1>1, <1>5, <1>6, <1>7, <1>8 DEF PartsOK, Remaining

LEMMA RxNearer ==
    ASSUME TypeOK, TypeOK', Rx, clean' PROVE Remaining' < Remaining
<1>1. PartsOK /\ PartsOK'
  BY PartsTyped, PTL
<1>2. Readies' = Readies /\ Load' = Load
  <2>1. UNCHANGED <<posted, init>>
    BY DEF Rx, Confirm, BbRfConfirm, Ignore, Assign, Finish, ClearReinit, card
  <2>2. QED
    BY <2>1 DEF Readies, Load
<1>3. CASE BbRfConfirm
  <2>1. /\ advance = "none" /\ fsm_state = "BB_RF_PROG_SENT" /\ fsm_state' = fsm_state
        /\ advance' \in {"none", "MAC_INIT_DONE"} /\ mgmt_q' = mgmt_q
        /\ rxq # <<>> /\ rxq' = Tail(rxq)
    BY <1>3 DEF BbRfConfirm, Handling
  <2>2. Unread' = Unread - 1 /\ Unsent' = Unsent
    BY <2>1 DEF TypeOK, Unread, Unsent
  <2>3. Reached = "BB_RF_PROG_SENT" /\ Line = 0
    BY <2>1 DEF Reached, Line, FsmStates
  <2>a. Line = 0
    BY <2>3
  <2>4. CASE advance' = "none"
    <3>1. Reached' = Reached /\ Line' = 0
      BY <2>1, <2>3, <2>4 DEF Reached, Line, FsmStates
    <3>2. QED
      BY <1>1, <1>2, <2>2, <2>a, <3>1 DEF PartsOK, Remaining
  <2>5. CASE advance' = "MAC_INIT_DONE"
    <3>1. Reached' = "MAC_INIT_DONE"
      BY <2>5 DEF Reached, FsmStates
    <3>2. Rank[Reached]' = 9 /\ Rank[Reached] = 8
      BY <2>3, <3>1 DEF Rank
    <3>3. QED
      <4>1. Remaining >= 10 + 3 * Unsent + Unread + Readies + Load
        BY <1>1, <2>a, <3>2 DEF PartsOK, Remaining
      <4>2. Remaining' <= 3 * Unsent' + Unread' + Readies' + Load' + 3
        <5>1. Rank[Reached]' >= 9
          BY <3>2
        <5>2. QED
          BY <1>1, <5>1 DEF PartsOK, Remaining
      <4>3. /\ Unsent \in Nat /\ Unread \in Nat /\ Readies \in 0 .. 4 /\ Load \in 0 .. 6
            /\ Remaining \in Nat
        BY <1>1, RemainingTyped DEF PartsOK
      <4>4. Remaining' \in Nat
        BY <1>1 DEF PartsOK, Remaining
      <4>5. Remaining' <= 3 * Unsent + (Unread - 1) + Readies + Load + 3
        BY <1>2, <2>2, <4>2
      <4>6. QED
        BY <4>1, <4>3, <4>4, <4>5
  <2>6. QED
    BY <2>1, <2>4, <2>5
<1>4. CASE Ignore
  <2>1. UNCHANGED <<fsm_state, advance, mgmt_q>> /\ rxq # <<>> /\ rxq' = Tail(rxq)
    BY <1>4 DEF Ignore, Handling
  <2>2. Unread' = Unread - 1 /\ Unsent' = Unsent
    BY <2>1 DEF TypeOK, Unread, Unsent
  <2>3. Reached' = Reached /\ Line' = Line
    BY <2>1 DEF Reached, Line
  <2>4. QED
    BY <1>1, <1>2, <2>2, <2>3 DEF PartsOK, Remaining
<1>5. CASE Assign
  <2>1. /\ advance \in FsmStates /\ fsm_state' = advance /\ UNCHANGED <<rxq, mgmt_q>>
        /\ advance' \in {"none", "finish"}
    BY <1>5 DEF Assign
  <2>2. Reached' = Reached /\ Unsent' = Unsent /\ Unread' = Unread
    BY <2>1 DEF Reached, FsmStates, Unsent, Unread
  <2>3. Line = 3 /\ Line' <= 2
    BY <2>1 DEF Line, FsmStates
  <2>4. QED
    BY <1>1, <1>2, <2>1, <2>2, <2>3 DEF PartsOK, Remaining
<1>6. CASE Finish
  <2>1. advance = "finish" /\ advance' \in {"clear", "none"} /\ UNCHANGED <<fsm_state, rxq, mgmt_q>>
    BY <1>6 DEF Finish
  <2>2. Reached' = Reached /\ Unsent' = Unsent /\ Unread' = Unread
    BY <2>1 DEF Reached, FsmStates, Unsent, Unread
  <2>3. Line = 2 /\ Line' <= 1
    BY <2>1 DEF Line, FsmStates
  <2>4. QED
    BY <1>1, <1>2, <2>1, <2>2, <2>3 DEF PartsOK, Remaining
<1>7. CASE ClearReinit
  <2>1. advance = "clear" /\ advance' = "none" /\ UNCHANGED <<fsm_state, rxq, mgmt_q>>
    BY <1>7 DEF ClearReinit
  <2>2. Reached' = Reached /\ Unsent' = Unsent /\ Unread' = Unread
    BY <2>1 DEF Reached, FsmStates, Unsent, Unread
  <2>3. Line = 1 /\ Line' = 0
    BY <2>1 DEF Line, FsmStates
  <2>4. QED
    BY <1>1, <1>2, <2>1, <2>2, <2>3 DEF PartsOK, Remaining
<1>8. QED
  BY <1>3, <1>4, <1>5, <1>6, <1>7, ConfirmNearer DEF Rx

LEMMA DeviceNearer ==
    ASSUME Inv, TypeOK', Device, clean, clean' PROVE Remaining' < Remaining
<1>0. TypeOK
  BY DEF Inv
<1>1. PartsOK /\ PartsOK'
  BY <1>0, PartsTyped, PTL
<1>2. CASE LoadFirmware
  <2>1. UNCHANGED <<fsm_state, advance, rxq, mgmt_q>> /\ init = "load" /\ init' = "end"
    BY <1>2 DEF LoadFirmware, boot
  <2>2. Reached' = Reached /\ Line' = Line /\ Load = 6 /\ Load' = 1
    BY <2>1 DEF Reached, Line, Load
  <2>3. Unsent' = Unsent /\ Unread' = Unread
    BY <2>1 DEF Unsent, Unread
  <2>4. QED
    BY <1>1, <2>2, <2>3 DEF PartsOK, Remaining
<1>3. CASE DeviceInitEnds
  <2>1. UNCHANGED <<advance, rxq, mgmt_q, posted>> /\ init = "end" /\ init' = "idle"
    BY <1>3 DEF DeviceInitEnds
  <2>2. advance = "none" /\ fsm_state = "FW_NOT_LOADED" /\ fsm_state' = "CARD_NOT_READY"
    BY <1>3, <2>1, LoadingIsQuiet DEF DeviceInitEnds
  <2>3. Reached = "FW_NOT_LOADED" /\ Reached' = "CARD_NOT_READY"
    BY <2>1, <2>2 DEF Reached, FsmStates
  <2>4. Rank[Reached] = 0 /\ Rank[Reached'] = 1
    BY <2>3 DEF Rank
  <2>5. Line' = Line /\ Readies' = Readies /\ Load = 1 /\ Load' = 0
    BY <2>1 DEF Line, Readies, Load
  <2>6. Unsent' = Unsent /\ Unread' = Unread
    BY <2>1 DEF Unsent, Unread
  <2>7. QED
    BY <1>1, <2>4, <2>5, <2>6 DEF PartsOK, Remaining
<1>4. CASE CardReadyArrives
  <2>1. /\ UNCHANGED <<fsm_state, advance, mgmt_q, init>>
        /\ "common" \in posted /\ posted' = posted \ {"common"}
        /\ rxq' = Append(rxq, "CARD_READY")
    BY <1>4 DEF CardReadyArrives
  <2>2. Unread' = Unread + 1 /\ Unsent' = Unsent
    BY <1>0, <2>1 DEF TypeOK, Messages, Unread, Unsent
  <2>3. Readies' = Readies - 2
    BY <2>1 DEF Readies
  <2>4. Reached' = Reached /\ Line' = Line /\ Load' = Load
    BY <2>1 DEF Reached, Line, Load
  <2>5. QED
    BY <1>1, <2>2, <2>3, <2>4 DEF PartsOK, Remaining
<1>5. CASE FirmwareConfirms
  <2>1. /\ UNCHANGED <<fsm_state, advance, posted, init>>
        /\ mgmt_q # <<>> /\ mgmt_q' = Tail(mgmt_q) /\ rxq' = Append(rxq, Head(mgmt_q))
    BY <1>5 DEF FirmwareConfirms, card
  <2>2. Unsent' = Unsent - 1
    BY <1>0, <2>1 DEF TypeOK, Unsent
  <2>3. Unread' = Unread + 1
    BY <1>0, <2>1 DEF TypeOK, Unread
  <2>4. Reached' = Reached /\ Line' = Line /\ Load' = Load /\ Readies' = Readies
    BY <2>1 DEF Reached, Line, Load, Readies
  <2>5. QED
    BY <1>1, <2>2, <2>3, <2>4 DEF PartsOK, Remaining
<1>6. CASE WlanReadyArrives
  <2>1. /\ UNCHANGED <<fsm_state, advance, init>>
        /\ mgmt_q # <<>> /\ mgmt_q' = Tail(mgmt_q)
        /\ "wlan" \in posted /\ posted' = posted \ {"wlan"}
    BY <1>6 DEF WlanReadyArrives
  <2>2. Unsent' = Unsent - 1
    BY <1>0, <2>1 DEF TypeOK, Unsent
  <2>3. PICK a \in {<<"CARD_READY">>, <<"COMMON_DEV_CONFIG", "CARD_READY">>,
                    <<"CARD_READY", "COMMON_DEV_CONFIG">>} : rxq' = rxq \o a
    BY <1>6 DEF WlanReadyArrives
  <2>4. /\ <<"CARD_READY">> \in Seq(Messages) /\ Len(<<"CARD_READY">>) = 1
        /\ <<"COMMON_DEV_CONFIG", "CARD_READY">> \in Seq(Messages)
        /\ Len(<<"COMMON_DEV_CONFIG", "CARD_READY">>) = 2
        /\ <<"CARD_READY", "COMMON_DEV_CONFIG">> \in Seq(Messages)
        /\ Len(<<"CARD_READY", "COMMON_DEV_CONFIG">>) = 2
    BY DEF Messages, Frames
  <2>5. Unread' <= Unread + 2
    <3>1. a \in Seq(Messages) /\ Len(a) <= 2
      <4>1. CASE a = <<"CARD_READY">>
        BY <2>4, <4>1
      <4>2. CASE a = <<"COMMON_DEV_CONFIG", "CARD_READY">>
        BY <2>4, <4>2
      <4>3. CASE a = <<"CARD_READY", "COMMON_DEV_CONFIG">>
        BY <2>4, <4>3
      <4>4. QED
        BY <4>1, <4>2, <4>3
    <3>2. rxq \in Seq(Messages)
      BY <1>0 DEF TypeOK
    <3>3. Len(rxq \o a) = Len(rxq) + Len(a) /\ Len(rxq) \in Nat /\ Len(a) \in Nat
      BY <3>1, <3>2
    <3>4. QED
      BY <2>3, <3>1, <3>3 DEF Unread
  <2>6. Readies' = Readies - 2
    BY <2>1 DEF Readies
  <2>7. Reached' = Reached /\ Line' = Line /\ Load' = Load
    BY <2>1 DEF Reached, Line, Load
  <2>8. QED
    BY <1>1, <2>2, <2>5, <2>6, <2>7 DEF PartsOK, Remaining
<1>7. QED
  BY <1>2, <1>3, <1>4, <1>5, <1>6 DEF Device

\* mac80211, the end of a restore and a freeze add nothing.
LEMMA OthersAddNothing ==
    ASSUME Mac \/ RestoreEnds \/ Freeze PROVE Remaining' = Remaining
<1>1. UNCHANGED <<fsm_state, advance, rxq, mgmt_q, posted, init>>
  BY DEF Mac, MacResume, InitCompletes, Reconfigure, RestoreEnds, Freeze, boot, card
<1>2. QED
  BY <1>1 DEF Remaining, Reached, Unsent, Unread, Readies, Load, Line

LEMMA NearerKept ==
    ASSUME Inv, Next, TypeOK' PROVE Nearer
<1>1. TypeOK
  BY DEF Inv
<1>2. QED
  BY <1>1, DeviceNearer, RxNearer, OthersAddNothing DEF Nearer

\* Of a boot that is over at most the card readies are left.
LEMMA AtRest ==
    PartsOK /\ Rank[Reached] = 9 /\ Unread = 0 /\ Unsent = 0 /\ Line = 0 /\ Load = 0
        => Remaining \in 0 .. MaxSteps
  BY DEF PartsOK, Remaining, MaxSteps

LEMMA BoundedKept ==
    ASSUME Inv, clean => PowerInv, BootBounded, Next, TypeOK'
    PROVE  BootBounded'
<1> SUFFICES ASSUME clean', Booting' PROVE Remaining' \in 0 .. MaxSteps
  BY DEF BootBounded
<1>1. TypeOK /\ ~RestoreBegins
  BY DEF Inv, RestoreBegins, Booting
<1>2. clean /\ PowerInv /\ StillInv
  BY <1>1, CleanBefore DEF Inv
<1>3. PartsOK' /\ Remaining' \in Nat
  <2>1. PartsOK'
    BY PartsTyped, PTL
  <2>2. QED
    BY <2>1 DEF PartsOK, Remaining
<1>4. PartsOK /\ Remaining \in Nat
  BY <1>1, PartsTyped, RemainingTyped
<1>5. CASE Device \/ Rx
  <2>1. Booting
    BY <1>1, <1>2, <1>5, NothingMoves DEF Booting, TypeOK
  <2>2. Remaining' < Remaining
    BY <1>1, <1>2, <1>5, DeviceNearer, RxNearer
  <2>3. QED
    BY <1>2, <1>3, <1>4, <2>1, <2>2 DEF BootBounded, MaxSteps
<1>6. CASE Mac \/ RestoreEnds \/ Freeze
  <2>1. Booting
    BY <1>6 DEF Booting, Mac, MacResume, InitCompletes, Reconfigure, RestoreEnds, Freeze, reset
  <2>2. QED
    BY <1>2, <1>6, <2>1, OthersAddNothing DEF BootBounded
<1>7. CASE ReinitDevice
  <2>1. rxq = <<>> /\ advance = "none" /\ fsm_state = "FW_NOT_LOADED" /\ posted = {}
    BY <1>2, <1>7 DEF ReinitDevice, StillInv, PowerInv
  <2>2. /\ rxq' = <<>> /\ advance' = "none" /\ fsm_state' = "FW_NOT_LOADED"
        /\ posted' = {} /\ mgmt_q' = <<>> /\ init' = "load"
    BY <1>7, <2>1 DEF ReinitDevice
  <2>3. Unread' = 0 /\ Unsent' = 0
    BY <2>2 DEF Unread, Unsent
  <2>4. Line' = 0 /\ Readies' = 0 /\ Load' = 6
    BY <2>2 DEF Line, Readies, Load, FsmStates
  <2>5. Reached' = "FW_NOT_LOADED" /\ Rank[Reached'] = 0
    BY <2>2 DEF Reached, FsmStates, Rank
  <2>6. Remaining' = 96
    BY <2>3, <2>4, <2>5 DEF Remaining
  <2>7. QED
    BY <2>6 DEF MaxSteps
<1>8. CASE Resume
  <2>1. Quiet /\ advance = "none" /\ init = "idle"
    BY <1>2, <1>8 DEF Resume, StillInv, PowerInv, Inv, InitInv, TypeOK
  <2>2. /\ rxq' = <<>> /\ mgmt_q' = <<>> /\ advance' = "none" /\ init' = "idle"
        /\ fsm_state' = "MAC_INIT_DONE"
    BY <1>8, <2>1 DEF Resume, Quiet, card
  <2>3. Unread' = 0 /\ Unsent' = 0
    BY <2>2 DEF Unread, Unsent
  <2>4. Line' = 0 /\ Load' = 0
    BY <2>2 DEF Line, Load, FsmStates
  <2>5. Rank[Reached]' = 9
    <3>1. Reached' = "MAC_INIT_DONE"
      BY <2>2 DEF Reached, FsmStates
    <3>2. QED
      BY <3>1 DEF Rank
  <2>6. (PartsOK /\ Rank[Reached] = 9 /\ Unread = 0 /\ Unsent = 0 /\ Line = 0 /\ Load = 0
            => Remaining \in 0 .. MaxSteps)'
    BY AtRest, PTL
  <2>7. QED
    BY <1>3, <2>3, <2>4, <2>5, <2>6
<1>9. CASE MarkReinit \/ Suspend \/ Thaw \/ FirmwareAsserts
  BY <1>9 DEF MarkReinit, Suspend, Thaw, FirmwareAsserts, Booting
<1>10. QED
  BY <1>1, <1>5, <1>6, <1>7, <1>8, <1>9 DEF Next, Restore, Other

-----------------------------------------------------------------------------
LEMMA AdvInit == Init => AdvInv
<1> SUFFICES ASSUME Init PROVE AdvInv
  OBVIOUS
<1>1. Inv
  BY InitBoot
<1>2. PowerInv /\ WaitInv
  BY DEF Init, PowerInv, WaitInv
<1>3. Unread = 0 /\ Unsent = 0 /\ Line = 0 /\ Readies = 0 /\ Load = 6
  BY DEF Init, Unread, Unsent, Line, Readies, Load, FsmStates
<1>4. Reached = "FW_NOT_LOADED" /\ Rank[Reached] = 0
  BY DEF Init, Reached, FsmStates, Rank
<1>5. Remaining = 96
  BY <1>3, <1>4 DEF Remaining
<1>6. QED
  BY <1>1, <1>2, <1>5 DEF AdvInv, BootBounded, MaxSteps

LEMMA AdvKept ==
    ASSUME AdvInv, [Next]_vars PROVE AdvInv'
<1>1. Inv /\ Inv' /\ TypeOK'
  BY InvKept DEF AdvInv, Inv
<1>2. ASSUME Next PROVE AdvInv'
  <2>1. clean' => PowerInv' /\ WaitInv'
    BY <1>1, <1>2, PowerKept, WaitKept DEF AdvInv
  <2>2. BootBounded'
    BY <1>1, <1>2, BoundedKept DEF AdvInv
  <2>3. QED
    BY <1>1, <2>1, <2>2 DEF AdvInv
<1>3. ASSUME UNCHANGED vars PROVE AdvInv'
  <2>1. UNCHANGED <<fsm_state, advance, rxq, mgmt_q, fw, posted, irq_on, init, reconf, pm,
                    reinit_hw, completions, clean>>
    BY <1>3 DEF vars, boot, card, mac, reset
  <2>2. Remaining' = Remaining
    BY <2>1 DEF Remaining, Reached, Unsent, Unread, Readies, Load, Line
  <2>3. QED
    BY <1>1, <2>1, <2>2 DEF AdvInv, PowerInv, WaitInv, BootBounded, Booting
<1>4. QED
  BY <1>2, <1>3

\* No clean boot stands still before the device is ready: the next card ready, frame
\* or confirmation is always there, and whoever is to handle it can.
THEOREM BootNeverStalls == Spec => []NeverStalls
<1>1. AdvInv /\ [Next]_vars => AdvInv'
  BY AdvKept
<1>2. AdvInv => NeverStalls
  BY StallsNever DEF AdvInv
<1>3. QED
  BY AdvInit, <1>1, <1>2, PTL DEF Spec

\* The wait in rsi_mac80211_resume, which has no limit, is always answered by a
\* completion that is there or still to come: none is signalled before it and lost.
THEOREM ResumeAnswered == Spec => []ResumeHeard
<1>1. AdvInv /\ [Next]_vars => AdvInv'
  BY AdvKept
<1>2. AdvInv => ResumeHeard
  BY WaiterHeard DEF AdvInv
<1>3. QED
  BY AdvInit, <1>1, <1>2, PTL DEF Spec

\* A clean boot, the first or one after a hibernation, takes the firmware and the rx
\* thread at most MaxSteps steps, each of which brings its end nearer.
THEOREM BootTerminates == Spec => []BootBounded /\ BootAdvances
<1>1. AdvInv /\ [Next]_vars => AdvInv'
  BY AdvKept
<1>2. ASSUME AdvInv, AdvInv', [Next]_vars PROVE [Nearer]_vars
  BY <1>2, NearerKept DEF AdvInv, Inv
<1>3. AdvInv /\ AdvInv' /\ [Next]_vars => [Nearer]_vars
  BY <1>2
<1>4. AdvInv => BootBounded
  BY DEF AdvInv
<1>5. QED
  BY AdvInit, <1>1, <1>3, <1>4, PTL DEF Spec, BootAdvances

=============================================================================
