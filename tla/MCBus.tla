------------------------------- MODULE MCBus --------------------------------
(* One of the two busses is at work, or the firmware is loaded over one of them. *)
EXTENDS SdioBus, UsbBus, FwLoad

VARIABLE part

allVars == <<vars, usbVars, fwVars>>

(* The parts that stand still start from one of their initial states. *)
MCInit ==
    /\ part \in {"sdio", "usb", "firmware"}
    /\ Init /\ UsbInit /\ FwInit
    /\ part # "firmware" =>
         /\ model = [chip |-> "9116", usb |-> TRUE, rest |-> TRUE]
         /\ loader.good /\ regout = NoAnswer

MCNext ==
    /\ UNCHANGED part
    /\ \/ part = "sdio" /\ Next /\ UNCHANGED <<usbVars, fwVars>>
       \/ part = "usb" /\ UsbNext /\ UNCHANGED <<vars, fwVars>>
       \/ part = "firmware" /\ FwNext /\ UNCHANGED <<vars, usbVars>>

MCFairness ==
    /\ WF_vars(part = "sdio" /\ card > 0 /\ Interrupt)
    /\ WF_vars(part = "sdio" /\ Handle)
    /\ WF_vars(part = "sdio" /\ Receive)
    /\ WF_vars(part = "sdio" /\ Disconnect)
    /\ WF_usbVars(part = "usb" /\ Handler)
    /\ WF_usbVars(part = "usb" /\ RxThread)
    /\ WF_usbVars(part = "usb" /\ UsbSuspend)
    /\ WF_usbVars(part = "usb" /\ UsbResume)
    /\ WF_usbVars(part = "usb" /\ TimerExpires)
    /\ WF_usbVars(part = "usb" /\ ResumeBegins /\ wanted)
    /\ WF_usbVars(part = "usb" /\ TxThread)
    /\ WF_usbVars(part = "usb" /\ Removal)
    /\ WF_fwVars(part = "firmware" /\ Driver)
    /\ WF_fwVars(part = "firmware" /\ BlTimerFires)

MCSpec == MCInit /\ [][MCNext]_<<part, allVars>> /\ MCFairness

(* Only the part that runs has to end. *)
FirmwareReturns == part = "firmware" => LoadReturns
=============================================================================
