------------------------------- MODULE MCMac -------------------------------
(* What the driver keeps for mac80211 and tells the device: the stations with their
   keys and sessions, the parameters, power save, and the measurements the access point
   asks for.  The parts share no variable; a behaviour belongs to one, and the choices
   the others make at the start are fixed. *)
EXTENDS StaTable, MacParams, PowerSave, RrmQueue, TLC

VARIABLE part

MCGroups == {{"power", "rts"}, {"rts", "protection", "rate", "beacon"},
             {"first", "last", "power"}, {"antenna"}}

MCSymmetry == Permutations(Stas)

MCInit ==
    /\ part \in {"sta", "par", "ps", "rrm"}
    /\ StaInit /\ (part # "sta" => role = "AP")
    /\ ParInit /\ (part # "par" => group = {"antenna"})
    /\ PsInit  /\ (part # "ps" => ~monitor)
    /\ RrmInit

MCNext ==
    \/ part = "sta" /\ StaNext /\ UNCHANGED <<part, parVars, psVars, rrmVars>>
    \/ part = "par" /\ ParNext /\ UNCHANGED <<part, staVars, psVars, rrmVars>>
    \/ part = "ps" /\ PsNext /\ UNCHANGED <<part, staVars, parVars, rrmVars>>
    \/ part = "rrm" /\ RrmNext /\ UNCHANGED <<part, staVars, parVars, psVars>>

MCSpec == MCInit /\ [][MCNext]_<<part, staVars, parVars, psVars, rrmVars>>
=============================================================================
