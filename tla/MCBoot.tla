------------------------------- MODULE MCBoot -------------------------------
(* The control paths under one run: the boot with its hibernations, and, in a device
   that has booted, the scan of an idle station, the scan of an associated one, or
   the interface with its channel and remain-on-channel.  The parts share no variable,
   so a behaviour follows one of them. *)
EXTENDS BootFsm, ScanWork, BgScan, MacVif

VARIABLE part

MCChans == {[band |-> "2GHz", width |-> 20], [band |-> "5GHz", width |-> 40]}

MCInit == Init /\ ScanInit /\ BgInit /\ VifInit /\ part = "boot"

(* The first boot is over and nothing has gone wrong. *)
UpAndRunning ==
    /\ clean /\ attached = 1 /\ freezes = 0
    /\ pm = "none" /\ reconf = "none" /\ init = "idle"
    /\ fsm_state = "MAC_INIT_DONE" /\ advance = "none" /\ posted = {}

MCNext ==
    \/ part = "boot" /\ Next /\ UNCHANGED <<part, scanVars, bgVars, vifVars>>
    \/ /\ part = "boot" /\ UpAndRunning
       /\ part' \in {"scan", "bgscan", "vif"}
       /\ UNCHANGED <<vars, scanVars, bgVars, vifVars>>
    \/ part = "scan" /\ ScanNext /\ UNCHANGED <<part, vars, bgVars, vifVars>>
    \/ part = "bgscan" /\ BgNext /\ UNCHANGED <<part, vars, scanVars, vifVars>>
    \/ part = "vif" /\ VifNext /\ UNCHANGED <<part, vars, scanVars, bgVars>>

MCSpec ==
    /\ MCInit /\ [][MCNext]_<<part, vars, scanVars, bgVars, vifVars>>
    /\ WF_vars(part = "boot" /\ Device) /\ WF_vars(part = "boot" /\ Rx)
    /\ WF_vars(part = "boot" /\ Restore) /\ WF_vars(part = "boot" /\ Mac)
    /\ WF_scanVars(part = "scan" /\ Worker) /\ WF_scanVars(part = "scan" /\ Clock)
    /\ WF_scanVars(part = "scan" /\ Called)
    /\ WF_bgVars(part = "bgscan" /\ BgHandler) /\ WF_bgVars(part = "bgscan" /\ BgCancel)
    /\ WF_bgVars(part = "bgscan" /\ DeviceScans)
    /\ WF_vifVars(part = "vif" /\ TimerFires) /\ SF_vifVars(part = "vif" /\ RocTimeout)
    /\ WF_vifVars(part = "vif" /\ RocDone)
=============================================================================
