-------------------------------- MODULE MCBt --------------------------------
(* Bluetooth beside Wi-Fi, and the test mode the two share: the HCI device with its coex
   queue, the character device that reads the same frames, and the packet error rate
   tests; one of them at a time. *)
EXTENDS BtLink, BtChar, PerMode

VARIABLE part

MCInit ==
    /\ part \in {"hci", "char", "per"}
    /\ BtInit /\ (part # "hci" => bt_usb)
    /\ CharInit
    /\ PerInit /\ (part # "per" => rf_eval)

MCNext ==
    /\ UNCHANGED part
    /\ \/ part = "hci" /\ BtNext /\ UNCHANGED <<charVars, perVars>>
       \/ part = "char" /\ CharNext /\ UNCHANGED <<btVars, perVars>>
       \/ part = "per" /\ PerNext /\ UNCHANGED <<btVars, charVars>>

MCFairness ==
    /\ WF_btVars(part = "hci" /\ Coex)
    /\ WF_btVars(part = "hci" /\ Detach)
    /\ WF_btVars(part = "hci" /\ Deinit)
    /\ WF_btVars(part = "hci" /\ (SendsRegParams \/ HciAttach \/ BtPacketUsed \/ BtPerAnswered))

MCSpec == MCInit /\ [][MCNext]_<<part, btVars, charVars, perVars>> /\ MCFairness

(* Only the part that runs has to end. *)
HciGone == part = "hci" => BtGone
=============================================================================
