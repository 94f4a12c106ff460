------------------------------- MODULE MCData -------------------------------
(* The data path in its three parts, a driver's life from probe to disconnect, and a TWT *)
(* negotiation; one of them at a time.                                                   *)
EXTENDS DataPath, DriverLife, TwtLink

VARIABLE part

dataPartVars == <<dataVars, lifeVars, twtVars>>

MCStopOwn == [BK |-> 2, BE |-> 4, VI |-> 4, VO |-> 3]

(* The parts that stand still start from one of their initial states. *)
MCInit ==
    /\ part \in {"send", "flow", "receive", "life", "twt"}
    /\ DataInit /\ LifeInit /\ TwtInit
    /\ part # "send" => ~ ap
    /\ part # "flow" => edca = [acm |-> FALSE, late |-> FALSE]
    /\ part # "life" => line = "usb"
    /\ part # "twt" => ~ saves

MCNext ==
    /\ UNCHANGED part
    /\ \/ part = "send" /\ TxPathNext /\ UNCHANGED <<flowVars, rxVars, lifeVars, twtVars>>
       \/ part = "flow" /\ FlowNext /\ UNCHANGED <<txPathVars, rxVars, lifeVars, twtVars>>
       \/ part = "receive" /\ RxNext /\ UNCHANGED <<txPathVars, flowVars, lifeVars, twtVars>>
       \/ part = "life" /\ LifeNext /\ UNCHANGED <<dataVars, twtVars>>
       \/ part = "twt" /\ TwtNext /\ UNCHANGED <<dataVars, lifeVars>>

MCSpec == MCInit /\ [][MCNext]_<<part, dataPartVars>>
=============================================================================
