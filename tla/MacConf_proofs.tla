--------------------------- MODULE MacConf_proofs ---------------------------
(***************************************************************************)
(* Proofs about what the driver keeps for mac80211: RrmQueue, MacParams,   *)
(* PowerSave and StaTable, each from its own specification and for every   *)
(* value of the constants.                                                 *)
(*                                                                         *)
(* RrmQueue.  None of the four parts of RrmInv is inductive.  What carries *)
(* them is that the device measures at most what the pending frame asked   *)
(* for, while that frame is there and the driver bars the queue            *)
(* (MeasuresPending), and that rrm_enq_state and rrm_state, which the code *)
(* sets and clears in different lines, say the same (BarredWhileSent).     *)
(*                                                                         *)
(* MacParams.  The fields of rsi_common have what mac80211 wants           *)
(* (FieldsFollow), so that a frame that gets through tells it.             *)
(*                                                                         *)
(* PowerSave.  The last message under way is the last one sent (LastTold), *)
(* and ps_state is on its side whenever nobody is between a send and its   *)
(* write (StateFollows).                                                   *)
(*                                                                         *)
(* StaTable.  What StaInv says of a drained queue is carried by what the   *)
(* queue holds meanwhile: one notification of a number at most, saying     *)
(* what the device should know (NotesInv), and a last key that is the      *)
(* peer's (KeysInv); the table itself by TableInv and OfPeers, the         *)
(* starting numbers by OneStart.                                           *)
(***************************************************************************)
EXTENDS RrmQueue, MacParams, PowerSave, StaTable, FiniteSetTheorems, WellFoundedInduction,
        SequenceTheorems, TLAPS

MeasuresPending ==
    RrmFree({"again"}) =>
        /\ measuring \subseteq {rrm_pending_frame.asks}
        /\ measuring # {} => /\ rrm_pending_frame.there = TRUE
                             /\ rrm_enq_state = TRUE

BarredWhileSent == rrm_enq_state = TRUE <=> rrm_state = "REQ_SENT"

IInv ==
    /\ RrmTypeOK
    /\ MeasuresPending
    /\ BarredWhileSent
    /\ ReportBelongs
    /\ ReportToCome
    /\ WaitsBehindOne

-----------------------------------------------------------------------------
\* A trouble is never forgotten: what is free of troubles after a step was before it.
LEMMA TroublesStay ==
    ASSUME NEW was, NEW is, was \subseteq is, NEW S, is \cap S = {}
    PROVE  was \cap S = {}
OBVIOUS

\* What a served request does to the types, from any values its caller leaves
\* (rsi_rrm_sched_req).
LEMMA SchedTyped ==
    ASSUME RrmAssumption,
           NEW q \in Seq(RrmFrames), Len(q) <= MaxRrmQueue,
           NEW enq \in BOOLEAN,
           NEW state \in {"IDLE", "REQ_SENT", "RESP_RCVD"},
           NEW pending \in [asks : RrmFrames, there : BOOLEAN] \cup {NoFrame},
           NEW m \in SUBSET Measurements,
           NEW upset \in SUBSET {"unsent", "other_type", "no_request", "again", "forgotten"},
           SchedReq(q, enq, state, pending, m, upset),
           bad_report' \in BOOLEAN
    PROVE  RrmTypeOK'
<1>1. CASE q = <<>> \/ ~MaySchedule(enq)
  BY <1>1 DEF SchedReq, RrmTypeOK
<1>2. CASE ~(q = <<>> \/ ~MaySchedule(enq))
  <2> DEFINE f == Head(q)
  <2>1. f \in RrmFrames /\ Tail(q) \in Seq(RrmFrames) /\ Len(Tail(q)) <= MaxRrmQueue
    BY <1>2 DEF RrmAssumption
  <2>2. /\ rrm_queue' = Tail(q)
        /\ rrm_pending_frame' = [asks |-> f, there |-> TRUE]
        /\ rrm_enq_state' = (enq \/ Awaited(f))
        /\ rrm_state' \in {"REQ_SENT", state}
        /\ measuring' \in {m, m \cup ({f} \cap Measurements)}
        /\ \E sent \in BOOLEAN : rrmUpset' = upset \cup RrmTrouble(f, sent)
    BY <1>2 DEF SchedReq
  <2>3. rrm_enq_state' \in BOOLEAN
    BY <2>2 DEF Awaited
  <2>4. rrmUpset' \subseteq {"unsent", "other_type", "no_request", "again", "forgotten"}
    BY <2>1, <2>2 DEF RrmTrouble, RrmFrames, Measurements
  <2>5. rrm_queue' \in Seq(RrmFrames) /\ Len(rrm_queue') <= MaxRrmQueue
    BY <2>1, <2>2
  <2>6. rrm_pending_frame' \in [asks : RrmFrames, there : BOOLEAN]
    BY <2>1, <2>2
  <2>7. rrm_state' \in {"IDLE", "REQ_SENT", "RESP_RCVD"} /\ measuring' \subseteq Measurements
    BY <2>2
  <2> QED BY <2>3, <2>4, <2>5, <2>6, <2>7 DEF RrmTypeOK
<1> QED BY <1>1, <1>2

\* What a served request establishes when the queue is not barred (rsi_rrm_sched_req with
\* rrm_enq_state clear, no measurement under way that the device did not repeat).
LEMMA SchedServes ==
    ASSUME NEW q \in Seq(RrmFrames), NEW state, NEW pending, NEW m, NEW upset,
           state # "REQ_SENT",
           upset \cap {"again"} = {} => m = {},
           SchedReq(q, FALSE, state, pending, m, upset)
    PROVE  /\ upset \subseteq rrmUpset'
           /\ MeasuresPending' /\ BarredWhileSent' /\ ReportToCome'
           /\ WaitsBehindOne'
<1>1. CASE q = <<>>
  <2>1. /\ rrm_queue' = <<>> /\ rrm_enq_state' = FALSE /\ rrm_state' = state
        /\ measuring' = m /\ rrmUpset' = upset
    BY <1>1 DEF SchedReq
  <2> QED BY <2>1 DEF MeasuresPending, BarredWhileSent, ReportToCome, WaitsBehindOne, RrmFree
<1>2. CASE q # <<>>
  <2> DEFINE f == Head(q)
  <2>1. f \in RrmFrames
    BY <1>2
  <2>2. PICK sent \in BOOLEAN :
          /\ rrm_queue' = Tail(q)
          /\ rrm_pending_frame' = [asks |-> f, there |-> TRUE]
          /\ rrm_enq_state' = (FALSE \/ Awaited(f))
          /\ rrm_state' = IF Awaited(f) THEN "REQ_SENT" ELSE state
          /\ measuring' = IF sent /\ f \in Measurements THEN m \cup {f} ELSE m
          /\ rrmUpset' = upset \cup RrmTrouble(f, sent)
    BY <1>2 DEF SchedReq, MaySchedule
  <2>3. BarredWhileSent'
    BY <2>2 DEF BarredWhileSent, Awaited
  <2>4. MeasuresPending'
    <3> SUFFICES ASSUME RrmFree({"again"})' PROVE MeasuresPending'
      BY DEF MeasuresPending
    <3>1. m = {}
      BY <2>2 DEF RrmFree
    <3>2. measuring' \subseteq {f} /\ (measuring' # {} => f \in Measurements)
      BY <2>2, <3>1
    <3>3. f \in Measurements => Awaited(f)
      BY DEF Awaited, Measurements
    <3> QED BY <2>2, <3>2, <3>3 DEF MeasuresPending
  <2>5. ReportToCome'
    <3> SUFFICES ASSUME RrmFree({"unsent", "forgotten", "other_type"})', rrm_state' = "REQ_SENT"
                 PROVE  measuring' # {}
      BY DEF ReportToCome
    <3>1. Awaited(f)
      BY <2>2
    <3>2. f \in Measurements
      BY <2>1, <2>2, <3>1 DEF RrmFree, RrmTrouble, RrmFrames, Awaited
    <3>3. sent
      BY <2>2, <3>2 DEF RrmFree, RrmTrouble
    <3> QED BY <2>2, <3>2, <3>3
  <2>6. WaitsBehindOne'
    <3> SUFFICES ASSUME RrmFree({"no_request"})' PROVE rrm_state' = "REQ_SENT"
      BY DEF WaitsBehindOne
    <3>1. f # "no_request"
      BY <2>1, <2>2 DEF RrmFree, RrmTrouble, Measurements
    <3> QED BY <2>2, <3>1 DEF Awaited
  <2>7. upset \subseteq rrmUpset'
    BY <2>2
  <2> QED BY <2>3, <2>4, <2>5, <2>6, <2>7
<1> QED BY <1>1, <1>2

-----------------------------------------------------------------------------
LEMMA RrmInitial == RrmAssumption /\ RrmInit => IInv
<1> SUFFICES ASSUME RrmAssumption, RrmInit PROVE IInv
  OBVIOUS
<1>1. RrmTypeOK
  <2>1. rrm_queue \in Seq(RrmFrames) /\ Len(rrm_queue) <= MaxRrmQueue
    BY DEF RrmInit, RrmAssumption
  <2>2. rrm_enq_state \in BOOLEAN /\ bad_report \in BOOLEAN
    BY DEF RrmInit
  <2> QED BY <2>1, <2>2 DEF RrmInit, RrmTypeOK
<1>2. MeasuresPending /\ BarredWhileSent /\ ReportBelongs /\ ReportToCome /\ WaitsBehindOne
  BY DEF RrmInit, MeasuresPending, BarredWhileSent, ReportBelongs, ReportToCome, WaitsBehindOne
<1> QED BY <1>1, <1>2 DEF IInv

\* A radio measurement frame arrives: it is queued behind the measurement under way, or
\* served at once.
LEMMA FrameKeeps ==
    ASSUME RrmAssumption, IInv, NEW f \in RrmFrames, RadioActionFrame(f)
    PROVE  IInv'
<1> DEFINE q == Append(rrm_queue, f)
<1>1. q \in Seq(RrmFrames) /\ Len(q) <= MaxRrmQueue /\ q # <<>>
  BY DEF IInv, RrmTypeOK, RadioActionFrame, RrmAssumption
<1>2. bad_report' = bad_report
  BY DEF RadioActionFrame
<1>3. CASE rrm_state = "REQ_SENT"
  <2>1. rrm_queue' = q /\ UNCHANGED <<rrm_pending_frame, rrm_state, rrm_enq_state, measuring, rrmUpset>>
    BY <1>3 DEF RadioActionFrame
  <2>2. RrmTypeOK'
    BY <1>1, <1>2, <2>1 DEF IInv, RrmTypeOK
  <2>3. MeasuresPending' /\ BarredWhileSent' /\ ReportBelongs' /\ ReportToCome' /\ WaitsBehindOne'
    BY <1>2, <1>3, <2>1
    DEF IInv, MeasuresPending, BarredWhileSent, ReportBelongs, ReportToCome, WaitsBehindOne, RrmFree
  <2> QED BY <2>2, <2>3 DEF IInv
<1>4. CASE rrm_state # "REQ_SENT"
  <2>1. rrm_enq_state = FALSE
    BY <1>4 DEF IInv, BarredWhileSent, RrmTypeOK
  <2>2. SchedReq(q, FALSE, rrm_state, rrm_pending_frame, measuring, rrmUpset)
    BY <1>4, <2>1 DEF RadioActionFrame
  <2>3. rrmUpset \cap {"again"} = {} => measuring = {}
    BY <2>1 DEF IInv, MeasuresPending, RrmFree
  <2>4. RrmTypeOK'
    BY <1>1, <1>2, <2>2, SchedTyped DEF IInv, RrmTypeOK
  <2>5. /\ rrmUpset \subseteq rrmUpset'
        /\ MeasuresPending' /\ BarredWhileSent' /\ ReportToCome' /\ WaitsBehindOne'
    BY <1>1, <1>4, <2>2, <2>3, SchedServes
  <2>6. ReportBelongs'
    BY <1>2, <2>5 DEF IInv, ReportBelongs, RrmFree
  <2> QED BY <2>4, <2>5, <2>6 DEF IInv
<1> QED BY <1>3, <1>4

\* The device reports: the report is built out of the pending frame, and the next request
\* is served.
LEMMA ReportKeeps ==
    ASSUME RrmAssumption, IInv, NEW type \in Measurements, MeasReport(type)
    PROVE  IInv'
<1>1. PICK built \in BOOLEAN :
        /\ PrepareReport(type, built)
        /\ SchedReq(rrm_queue, FALSE, "RESP_RCVD", PendingAfter(built), measuring \ {type},
                    IF type \in measuring THEN rrmUpset ELSE rrmUpset \cup {"again"})
  BY DEF MeasReport
<1> DEFINE upset == IF type \in measuring THEN rrmUpset ELSE rrmUpset \cup {"again"}
<1>2. upset \subseteq {"unsent", "other_type", "no_request", "again", "forgotten"}
  BY DEF IInv, RrmTypeOK
<1>3. PendingAfter(built) \in [asks : RrmFrames, there : BOOLEAN] \cup {NoFrame}
  <2>1. rrm_pending_frame \in [asks : RrmFrames, there : BOOLEAN]
    BY DEF IInv, RrmTypeOK, MeasReport
  <2> QED BY <2>1 DEF PendingAfter
<1>4. bad_report' \in BOOLEAN
  BY <1>1 DEF PrepareReport
<1>5. RrmTypeOK'
  <2>1. /\ rrm_queue \in Seq(RrmFrames) /\ Len(rrm_queue) <= MaxRrmQueue
        /\ measuring \ {type} \in SUBSET Measurements
    BY DEF IInv, RrmTypeOK
  <2> HIDE DEF upset
  <2> QED BY <1>1, <1>2, <1>3, <1>4, <2>1, SchedTyped DEF upset
<1>6. upset \cap {"again"} = {} =>
        /\ type \in measuring /\ measuring \ {type} = {} /\ ~bad_report
        /\ rrm_pending_frame.asks = type /\ rrm_pending_frame.there = TRUE
  <2> SUFFICES ASSUME upset \cap {"again"} = {}
               PROVE  /\ type \in measuring /\ measuring \ {type} = {} /\ ~bad_report
                      /\ rrm_pending_frame.asks = type /\ rrm_pending_frame.there = TRUE
    OBVIOUS
  <2>1. type \in measuring /\ RrmFree({"again"})
    BY DEF RrmFree
  <2> QED BY <2>1 DEF IInv, MeasuresPending, ReportBelongs
<1>7. /\ upset \subseteq rrmUpset'
      /\ MeasuresPending' /\ BarredWhileSent' /\ ReportToCome' /\ WaitsBehindOne'
  <2>1. rrm_queue \in Seq(RrmFrames)
    BY DEF IInv, RrmTypeOK
  <2>2. SchedReq(rrm_queue, FALSE, "RESP_RCVD", PendingAfter(built), measuring \ {type}, upset)
    BY <1>1
  <2> HIDE DEF upset
  <2> QED BY <1>6, <2>1, <2>2, SchedServes
<1>8. ReportBelongs'
  <2> SUFFICES ASSUME RrmFree({"again"})' PROVE ~bad_report'
    BY DEF ReportBelongs
  <2>1. upset \cap {"again"} = {}
    BY <1>7 DEF RrmFree
  <2>2. rrm_pending_frame = [asks |-> type, there |-> TRUE]
    BY <1>6, <2>1 DEF IInv, RrmTypeOK, NoFrame
  <2> QED BY <1>1, <1>6, <2>1, <2>2 DEF PrepareReport
<1> QED BY <1>5, <1>7, <1>8 DEF IInv

\* The device drops its measurement with the connection.
LEMMA ForgottenKeeps == ASSUME IInv, Forgotten PROVE IInv'
<1>1. /\ measuring' = {} /\ rrmUpset' = rrmUpset \cup {"forgotten"}
      /\ UNCHANGED <<rrm_queue, rrm_pending_frame, rrm_state, rrm_enq_state, bad_report>>
  BY DEF Forgotten
<1>2. RrmTypeOK'
  BY <1>1 DEF IInv, RrmTypeOK
<1>3. MeasuresPending' /\ BarredWhileSent' /\ ReportBelongs' /\ ReportToCome' /\ WaitsBehindOne'
  BY <1>1 DEF IInv, MeasuresPending, BarredWhileSent, ReportBelongs, ReportToCome,
     WaitsBehindOne, RrmFree
<1> QED BY <1>2, <1>3 DEF IInv

LEMMA RrmStep == RrmAssumption /\ IInv /\ [RrmNext]_rrmVars => IInv'
<1> SUFFICES ASSUME RrmAssumption, IInv, [RrmNext]_rrmVars PROVE IInv'
  OBVIOUS
<1>1. CASE \E f \in RrmFrames : RadioActionFrame(f)
  BY <1>1, FrameKeeps
<1>2. CASE \E t \in Measurements : MeasReport(t)
  BY <1>2, ReportKeeps
<1>3. CASE Forgotten
  BY <1>3, ForgottenKeeps
<1>4. CASE UNCHANGED rrmVars
  BY <1>4 DEF rrmVars, IInv, RrmTypeOK, MeasuresPending, BarredWhileSent, ReportBelongs,
     ReportToCome,
              WaitsBehindOne, RrmFree
<1> QED BY <1>1, <1>2, <1>3, <1>4 DEF RrmNext

\* What the driver relies on follows: at most one measurement, as it is the pending frame's.
LEMMA AtMostOne == IInv => RrmInv
<1> SUFFICES ASSUME IInv, RrmFree({"again"}) PROVE Cardinality(measuring) <= 1
  BY DEF IInv, RrmInv, OneMeasurement
<1> DEFINE one == {rrm_pending_frame.asks}
<1>1. IsFiniteSet(one) /\ Cardinality(one) = 1
  BY FS_Singleton
<1>2. measuring \subseteq one
  BY DEF IInv, MeasuresPending
<1>3. Cardinality(measuring) <= Cardinality(one)
  BY <1>1, <1>2, FS_Subset
<1> QED BY <1>1, <1>3

\* Radio measurements (rsi_91x_rrm.c): one is under way at a time, its report is built out
\* of the frame that asked for it, the driver waits only for a report that can come, and
\* requests wait only behind a measurement, whatever the troubles other than those named.
THEOREM MeasurementsInOrder == RrmSpec => []RrmInv
<1>1. RrmInit => IInv
  BY RrmInitial, RrmAssumption
<1>2. IInv /\ [RrmNext]_rrmVars => IInv'
  BY RrmStep, RrmAssumption
<1>3. IInv => RrmInv
  BY AtMostOne
<1> QED BY <1>1, <1>2, <1>3, PTL DEF RrmSpec

\* Every variable of the measurements keeps its type.
THEOREM RrmTypes == RrmSpec => []RrmTypeOK
<1>1. RrmInit => IInv
  BY RrmInitial, RrmAssumption
<1>2. IInv /\ [RrmNext]_rrmVars => IInv'
  BY RrmStep, RrmAssumption
<1>3. IInv => RrmTypeOK
  BY DEF IInv
<1> QED BY <1>1, <1>2, <1>3, PTL DEF RrmSpec

-----------------------------------------------------------------------------
(* The parameters.                                                         *)

\* rsi_common has what mac80211 wants of the parameters the properties are about.
FieldsFollow ==
    /\ \A p \in {"power", "beacon", "first", "last"} : common[p] = want[p]
    /\ common["antenna"] \in {0, 1}

ParIInv ==
    /\ ParTypeOK
    /\ FieldsFollow
    /\ joined => Up
    /\ Reached("power")
    /\ BeaconIntervalFollows
    /\ EdcaTold
    /\ AntennaTruth

\* The parameters frames carry.
LEMMA BundlesAreParams ==
    /\ {RadioParams, VapUpdate, VapCaps, RadioCaps, AntSel, ScanRequest, {}} \subseteq SUBSET Params
    /\ \A p \in Params : {p} \in SUBSET Params
    /\ {"power", "rts", "protection", "rate", "beacon", "first", "last", "antenna"} = Params
  BY DEF RadioParams, VapUpdate, VapCaps, RadioCaps, AntSel, ScanRequest, Params

LEMMA ParStepTyped ==
    ASSUME ParTypeOK, common["antenna"] \in {0, 1}, ParNext PROVE ParTypeOK'
<1> USE MacParamsAssumption, BundlesAreParams DEF ParTypeOK
<1>1. CASE ConfigPower
  <2>1. PICK v \in Values, ok \in BOOLEAN :
            /\ want' = [want EXCEPT !["power"] = v]
            /\ IF PowerKnown(v) THEN UNCHANGED <<common, told, lostFor>>
                                ELSE SendsFor(RadioParams, {"power"}, SetCommon("power", v), ok)
            /\ UNCHANGED <<vifType, joined, wmm, parUpset, group>>
    BY <1>1, ZenonT(60) DEF ConfigPower
  <2>2. CASE PowerKnown(v)
    BY <2>1, <2>2
  <2>3. CASE ~PowerKnown(v)
    <3>1. SetCommon("power", v) \in [Params \union {"obm"} -> Values]
      BY DEF SetCommon
    <3>2. common' \in [Params \union {"obm"} -> Values] /\ told' \in [Params -> Values]
          /\ lostFor' \subseteq Params
      BY <2>1, <2>3, <3>1 DEF SendsFor, FrameTold, FrameLost
    <3>3. QED
      BY <2>1, <3>2
  <2>4. QED
    BY <2>2, <2>3
<1>2. CASE Tune
  BY <1>2 DEF Tune, SendsFor, FrameTold, FrameLost, SetCommon, ScanRequest
<1>3. CASE SetRts
  BY <1>3 DEF SetRts, SendsFor, FrameTold, FrameLost, SetCommon, VapUpdate
<1>4. CASE ConfigMonitor
  BY <1>4 DEF ConfigMonitor, SendsFor, FrameTold, FrameLost, SetCommon, VapUpdate
<1>5. CASE SetProtection
  BY <1>5 DEF SetProtection, SendsFor, FrameTold, FrameLost, SetCommon, VapUpdate
<1>6. CASE SetRateMask
  BY <1>6 DEF SetRateMask, SendsFor, FrameTold, FrameLost, SetCommon, VapUpdate
<1>7. CASE SetBeaconInterval
  <2>1. PICK v \in Values, ok \in BOOLEAN :
            /\ want' = [want EXCEPT !["beacon"] = v]
            /\ IF common["beacon"] = v THEN UNCHANGED <<common, told, lostFor>>
               ELSE IF BeaconSent THEN SendsFor(VapCaps, {"beacon"}, SetCommon("beacon", v), ok)
               ELSE common' = SetCommon("beacon", v) /\ UNCHANGED <<told, lostFor>>
            /\ UNCHANGED <<vifType, joined, wmm, parUpset, group>>
    BY <1>7, ZenonT(60) DEF SetBeaconInterval
  <2>2. SetCommon("beacon", v) \in [Params \union {"obm"} -> Values]
    BY DEF SetCommon
  <2>3. common' \in [Params \union {"obm"} -> Values] /\ told' \in [Params -> Values]
        /\ lostFor' \subseteq Params
    <3>1. CASE common["beacon"] = v
      BY <2>1, <3>1
    <3>2. CASE common["beacon"] # v /\ BeaconSent
      BY <2>1, <2>2, <3>2 DEF SendsFor, FrameTold, FrameLost
    <3>3. CASE common["beacon"] # v /\ ~BeaconSent
      BY <2>1, <2>2, <3>3
    <3>4. QED
      BY <3>1, <3>2, <3>3
  <2>4. QED
    BY <2>1, <2>3
<1>8. CASE ConfTx
  <2>1. PICK q \in {"first", "last"}, v \in Values, ok \in BOOLEAN :
            /\ q \in group
            /\ Up /\ q # wmm
            /\ wmm' = q
            /\ want' = [want EXCEPT ![q] = v]
            /\ IF EdcaComplete(q)
                 THEN SendsFor(RadioCaps, RadioCaps, SetCommon(q, v), ok)
                 ELSE common' = SetCommon(q, v) /\ UNCHANGED <<told, lostFor>>
            /\ parUpset' = IF vifType = "STATION" /\ joined THEN parUpset \union {"wmm"} ELSE parUpset
            /\ UNCHANGED <<vifType, joined, group>>
    BY <1>8 DEF ConfTx
  <2>2. SetCommon(q, v) \in [Params \union {"obm"} -> Values]
    BY DEF SetCommon
  <2>3. common' \in [Params \union {"obm"} -> Values] /\ told' \in [Params -> Values]
        /\ lostFor' \subseteq Params
    <3>1. CASE EdcaComplete(q)
      <4> DEFINE c == SetCommon(q, v)
      <4>1. c \in [Params \union {"obm"} -> Values] /\ RadioCaps \subseteq Params
        BY <2>2
      <4>2. SendsFor(RadioCaps, RadioCaps, c, ok)
        BY <2>1, <3>1
      <4> HIDE DEF c
      <4>3. QED
        BY <4>1, <4>2 DEF SendsFor, FrameTold, FrameLost
    <3>2. CASE ~EdcaComplete(q)
      BY <2>1, <2>2, <3>2
    <3>3. QED
      BY <3>1, <3>2
  <2>4. want' \in [Params -> Values] /\ wmm' \in {"first", "last"} /\ parUpset' \subseteq {"wmm", "restored"}
    BY <2>1
  <2>5. QED
    BY <2>1, <2>3, <2>4
<1>9. CASE Join
  <2>1. PICK ok \in BOOLEAN :
            /\ joined' = TRUE
            /\ \/ SendsFor(RadioCaps, RadioCaps, common, ok)
               \/ UNCHANGED <<common, told, lostFor>>
            /\ parUpset' \subseteq parUpset \union {"wmm"}
            /\ UNCHANGED <<vifType, want, wmm, group>>
    BY <1>9 DEF Join
  <2>2. common' \in [Params \union {"obm"} -> Values] /\ told' \in [Params -> Values]
        /\ lostFor' \subseteq Params
    <3>1. CASE SendsFor(RadioCaps, RadioCaps, common, ok)
      BY <3>1 DEF SendsFor, FrameTold, FrameLost
    <3>2. CASE UNCHANGED <<common, told, lostFor>>
      BY <3>2
    <3>3. QED
      BY <2>1, <3>1, <3>2
  <2>3. QED
    BY <2>1, <2>2
<1>10. CASE Leave
  BY <1>10 DEF Leave
<1>11. CASE AddVif
  <2> DEFINE ft == FrameTold(VapCaps, common, TRUE)
  <2>1. ft \in [Params -> Values]
    BY DEF FrameTold
  <2> HIDE DEF ft
  <2>2. [ft EXCEPT !["protection"] = 0, !["rate"] = 0] \in [Params -> Values]
    BY <2>1
  <2>3. told' = [ft EXCEPT !["protection"] = 0, !["rate"] = 0]
    BY <1>11 DEF AddVif, ft
  <2>4. QED
    BY <1>11, <2>2, <2>3 DEF AddVif
<1>12. CASE RemoveVif
  BY <1>12 DEF RemoveVif
<1>13. CASE SetAntenna
  BY <1>13 DEF SetAntenna, SetCommon
<1>14. CASE ScanChangesAntenna
  BY <1>14 DEF ScanChangesAntenna, OtherAntenna, AntennaInUse
<1>15. CASE ParRestore
  <2>1. AfterDefaults \in [Params \union {"obm"} -> Values]
    BY DEF AfterDefaults
  <2>2. common' \in [Params \union {"obm"} -> Values]
    BY <1>15, <2>1 DEF ParRestore, Reconfigured
  <2>3. told' \in [Params -> Values]
    BY <1>15 DEF ParRestore
  <2>4. QED
    <3>1. want' \in [Params -> Values] /\ lostFor' \subseteq Params
      BY <1>15 DEF ParRestore
    <3>2. joined' \in BOOLEAN /\ parUpset' \subseteq {"wmm", "restored"}
      BY <1>15 DEF ParRestore
    <3>3. vifType' = vifType /\ wmm' = wmm /\ group' = group
      BY <1>15 DEF ParRestore
    <3>4. QED
      BY <2>2, <2>3, <3>1, <3>2, <3>3
<1>16. QED
  BY <1>1, <1>2, <1>3, <1>4, <1>5, <1>6, <1>7, <1>8, <1>9, <1>10, <1>11, <1>12, <1>13, <1>14,
     <1>15 DEF ParNext

LEMMA ParStepKeepsInv ==
    ASSUME ParIInv, [ParNext]_parVars PROVE ParIInv'
<1> USE MacParamsAssumption DEF ParIInv, ParTypeOK, FieldsFollow, Up, Reached,
BeaconIntervalFollows,
            EdcaTold, AntennaTruth, RadioCaps, Params
<1>1. CASE ConfigPower
  <2>1. ParTypeOK'
    BY <1>1, ParStepTyped DEF ParNext
  <2>2. FieldsFollow' /\ (joined' => Up')
    BY <1>1 DEF ConfigPower, SendsFor, FrameTold, FrameLost, SetCommon, PowerKnown, RadioParams
  <2>3. Reached("power")' /\ BeaconIntervalFollows'
    BY <1>1 DEF ConfigPower, SendsFor, FrameTold, FrameLost, SetCommon, PowerKnown, RadioParams
  <2>4. EdcaTold' /\ AntennaTruth'
    BY <1>1 DEF ConfigPower, SendsFor, FrameTold, FrameLost, SetCommon, PowerKnown, RadioParams
  <2>5. QED
    BY <2>1, <2>2, <2>3, <2>4
<1>2. CASE Tune
  <2>1. ParTypeOK'
    BY <1>2, ParStepTyped DEF ParNext
  <2>2. FieldsFollow' /\ (joined' => Up')
    BY <1>2 DEF Tune, SendsFor, FrameTold, FrameLost, SetCommon, ScanRequest
  <2>3. Reached("power")' /\ BeaconIntervalFollows'
    BY <1>2 DEF Tune, SendsFor, FrameTold, FrameLost, SetCommon, ScanRequest
  <2>4. EdcaTold' /\ AntennaTruth'
    BY <1>2 DEF Tune, SendsFor, FrameTold, FrameLost, SetCommon, ScanRequest
  <2>5. QED
    BY <2>1, <2>2, <2>3, <2>4
<1>3. CASE SetRts
  <2>1. ParTypeOK'
    BY <1>3, ParStepTyped DEF ParNext
  <2>2. FieldsFollow' /\ (joined' => Up')
    BY <1>3 DEF SetRts, SendsFor, FrameTold, FrameLost, SetCommon, VapUpdate
  <2>3. Reached("power")' /\ BeaconIntervalFollows'
    BY <1>3 DEF SetRts, SendsFor, FrameTold, FrameLost, SetCommon, VapUpdate
  <2>4. EdcaTold' /\ AntennaTruth'
    BY <1>3 DEF SetRts, SendsFor, FrameTold, FrameLost, SetCommon, VapUpdate
  <2>5. QED
    BY <2>1, <2>2, <2>3, <2>4
<1>4. CASE ConfigMonitor
  <2>1. ParTypeOK'
    BY <1>4, ParStepTyped DEF ParNext
  <2>2. FieldsFollow' /\ (joined' => Up')
    BY <1>4 DEF ConfigMonitor, SendsFor, FrameTold, FrameLost, SetCommon, VapUpdate
  <2>3. Reached("power")' /\ BeaconIntervalFollows'
    BY <1>4 DEF ConfigMonitor, SendsFor, FrameTold, FrameLost, SetCommon, VapUpdate
  <2>4. EdcaTold' /\ AntennaTruth'
    BY <1>4 DEF ConfigMonitor, SendsFor, FrameTold, FrameLost, SetCommon, VapUpdate
  <2>5. QED
    BY <2>1, <2>2, <2>3, <2>4
<1>5. CASE SetProtection
  <2>1. ParTypeOK'
    BY <1>5, ParStepTyped DEF ParNext
  <2>2. FieldsFollow' /\ (joined' => Up')
    BY <1>5 DEF SetProtection, SendsFor, FrameTold, FrameLost, SetCommon, VapUpdate
  <2>3. Reached("power")' /\ BeaconIntervalFollows'
    BY <1>5 DEF SetProtection, SendsFor, FrameTold, FrameLost, SetCommon, VapUpdate
  <2>4. EdcaTold' /\ AntennaTruth'
    BY <1>5 DEF SetProtection, SendsFor, FrameTold, FrameLost, SetCommon, VapUpdate
  <2>5. QED
    BY <2>1, <2>2, <2>3, <2>4
<1>6. CASE SetRateMask
  <2>1. ParTypeOK'
    BY <1>6, ParStepTyped DEF ParNext
  <2>2. FieldsFollow' /\ (joined' => Up')
    BY <1>6 DEF SetRateMask, SendsFor, FrameTold, FrameLost, SetCommon, VapUpdate
  <2>3. Reached("power")' /\ BeaconIntervalFollows'
    BY <1>6 DEF SetRateMask, SendsFor, FrameTold, FrameLost, SetCommon, VapUpdate
  <2>4. EdcaTold' /\ AntennaTruth'
    BY <1>6 DEF SetRateMask, SendsFor, FrameTold, FrameLost, SetCommon, VapUpdate
  <2>5. QED
    BY <2>1, <2>2, <2>3, <2>4
<1>7. CASE SetBeaconInterval
  <2>1. ParTypeOK'
    BY <1>7, ParStepTyped DEF ParNext
  <2>2. FieldsFollow' /\ (joined' => Up')
    BY <1>7 DEF SetBeaconInterval, SendsFor, FrameTold, FrameLost, SetCommon, BeaconSent, VapCaps
  <2>3. Reached("power")' /\ BeaconIntervalFollows'
    BY <1>7 DEF SetBeaconInterval, SendsFor, FrameTold, FrameLost, SetCommon, BeaconSent, VapCaps
  <2>4. EdcaTold' /\ AntennaTruth'
    BY <1>7 DEF SetBeaconInterval, SendsFor, FrameTold, FrameLost, SetCommon, BeaconSent, VapCaps
  <2>5. QED
    BY <2>1, <2>2, <2>3, <2>4
<1>8. CASE ConfTx
  <2>1. ParTypeOK'
    BY <1>8, ParStepTyped DEF ParNext
  <2>2. FieldsFollow' /\ (joined' => Up')
    BY <1>8 DEF ConfTx, SendsFor, FrameTold, FrameLost, SetCommon, EdcaComplete
  <2>3. Reached("power")' /\ BeaconIntervalFollows'
    BY <1>8 DEF ConfTx, SendsFor, FrameTold, FrameLost, SetCommon, EdcaComplete
  <2>4. EdcaTold' /\ AntennaTruth'
    BY <1>8 DEF ConfTx, SendsFor, FrameTold, FrameLost, SetCommon, EdcaComplete
  <2>5. QED
    BY <2>1, <2>2, <2>3, <2>4
<1>9. CASE Join
  <2>1. ParTypeOK'
    BY <1>9, ParStepTyped DEF ParNext
  <2>2. FieldsFollow' /\ (joined' => Up')
    BY <1>9 DEF Join, SendsFor, FrameTold, FrameLost, SetCommon
  <2>3. Reached("power")' /\ BeaconIntervalFollows'
    BY <1>9 DEF Join, SendsFor, FrameTold, FrameLost, SetCommon
  <2>4. EdcaTold' /\ AntennaTruth'
    BY <1>9 DEF Join, SendsFor, FrameTold, FrameLost, SetCommon
  <2>5. QED
    BY <2>1, <2>2, <2>3, <2>4
<1>10. CASE Leave
  <2>1. ParTypeOK'
    BY <1>10, ParStepTyped DEF ParNext
  <2>2. FieldsFollow' /\ (joined' => Up')
    BY <1>10 DEF Leave
  <2>3. Reached("power")' /\ BeaconIntervalFollows'
    BY <1>10 DEF Leave
  <2>4. EdcaTold' /\ AntennaTruth'
    BY <1>10 DEF Leave
  <2>5. QED
    BY <2>1, <2>2, <2>3, <2>4
<1>11. CASE AddVif
  <2>1. ParTypeOK'
    BY <1>11, ParStepTyped DEF ParNext
  <2>2. FieldsFollow' /\ (joined' => Up')
    BY <1>11 DEF AddVif, FrameTold, VapCaps
  <2>3. Reached("power")' /\ BeaconIntervalFollows'
    BY <1>11 DEF AddVif, FrameTold, VapCaps
  <2>4. EdcaTold' /\ AntennaTruth'
    <3> DEFINE ft == FrameTold(VapCaps, common, TRUE)
    <3>a. /\ ft \in [Params -> Values]
          /\ \A p \in {"first", "last", "antenna"} : ft[p] = told[p]
      BY DEF FrameTold, VapCaps
    <3> HIDE DEF ft
    <3>b. told' = [ft EXCEPT !["protection"] = 0, !["rate"] = 0]
      BY <1>11 DEF AddVif, ft
    <3>1. \A p \in {"first", "last", "antenna"} : told'[p] = told[p]
      BY <3>a, <3>b
    <3>2. /\ \A p \in {"first", "last"} : p \in lostFor' <=> p \in lostFor
          /\ joined' = joined /\ UNCHANGED <<want, common, wmm, parUpset>>
      BY <1>11 DEF AddVif, VapCaps
    <3>3. QED
      BY <3>1, <3>2
  <2>5. QED
    BY <2>1, <2>2, <2>3, <2>4
<1>12. CASE RemoveVif
  <2>1. ParTypeOK'
    BY <1>12, ParStepTyped DEF ParNext
  <2>2. FieldsFollow' /\ (joined' => Up')
    BY <1>12 DEF RemoveVif
  <2>3. Reached("power")' /\ BeaconIntervalFollows'
    BY <1>12 DEF RemoveVif
  <2>4. EdcaTold' /\ AntennaTruth'
    BY <1>12 DEF RemoveVif
  <2>5. QED
    BY <2>1, <2>2, <2>3, <2>4
<1>13. CASE SetAntenna
  <2>1. ParTypeOK'
    BY <1>13, ParStepTyped DEF ParNext
  <2>2. FieldsFollow' /\ (joined' => Up')
    BY <1>13 DEF SetAntenna, SetCommon
  <2>3. Reached("power")' /\ BeaconIntervalFollows'
    BY <1>13 DEF SetAntenna, SetCommon
  <2>4. EdcaTold' /\ AntennaTruth'
    BY <1>13 DEF SetAntenna, SetCommon
  <2>5. QED
    BY <2>1, <2>2, <2>3, <2>4
<1>14. CASE ScanChangesAntenna
  <2>1. ParTypeOK'
    BY <1>14, ParStepTyped DEF ParNext
  <2>2. FieldsFollow' /\ (joined' => Up')
    BY <1>14 DEF ScanChangesAntenna, OtherAntenna, AntennaInUse
  <2>3. Reached("power")' /\ BeaconIntervalFollows'
    BY <1>14 DEF ScanChangesAntenna, OtherAntenna, AntennaInUse
  <2>4. EdcaTold' /\ AntennaTruth'
    BY <1>14 DEF ScanChangesAntenna, OtherAntenna, AntennaInUse
  <2>5. QED
    BY <2>1, <2>2, <2>3, <2>4
<1>15. CASE ParRestore
  <2>1. ParTypeOK'
    BY <1>15, ParStepTyped DEF ParNext
  <2>2. FieldsFollow' /\ (joined' => Up')
    <3>1. common' = [AfterDefaults EXCEPT !["power"] = want["power"], !["rts"] = want["rts"]]
          /\ want' = [want EXCEPT !["beacon"] = 0] /\ joined' = FALSE
      BY <1>15 DEF ParRestore, Reconfigured
    <3>2. AfterDefaults = [p \in Params \union {"obm"} |->
                            IF p \in {"power", "rts", "beacon"} THEN 0 ELSE common[p]]
      BY DEF AfterDefaults, Defaults
    <3>3. /\ common'["power"] = want["power"] /\ common'["beacon"] = 0
          /\ common'["first"] = common["first"] /\ common'["last"] = common["last"]
          /\ common'["antenna"] = common["antenna"]
      BY <3>1, <3>2
    <3>4. /\ want'["power"] = want["power"] /\ want'["beacon"] = 0
          /\ want'["first"] = want["first"] /\ want'["last"] = want["last"]
      BY <3>1
    <3>5. QED
      BY <3>1, <3>3, <3>4
  <2>3. Reached("power")' /\ BeaconIntervalFollows'
    BY <1>15 DEF ParRestore, Reconfigured, AfterDefaults, Defaults
  <2>4. EdcaTold' /\ AntennaTruth'
    BY <1>15 DEF ParRestore, Reconfigured, AfterDefaults, Defaults
  <2>5. QED
    BY <2>1, <2>2, <2>3, <2>4
<1>16. CASE UNCHANGED parVars
  BY <1>16 DEF parVars
<1>17. QED
  BY <1>1, <1>2, <1>3, <1>4, <1>5, <1>6, <1>7, <1>8, <1>9, <1>10, <1>11, <1>12, <1>13, <1>14,
     <1>15, <1>16 DEF ParNext

LEMMA ParInitInv == ParInit => ParIInv
<1> SUFFICES ASSUME ParInit PROVE ParIInv
  OBVIOUS
<1>1. ParTypeOK
  BY MacParamsAssumption DEF ParInit, ParTypeOK
<1>2. /\ \A p \in Params : want[p] = 0 /\ told[p] = 0 /\ common[p] = 0
      /\ ~joined /\ lostFor = {}
  BY DEF ParInit
<1>3. QED
  BY <1>1, <1>2 DEF ParIInv, FieldsFollow, Reached, BeaconIntervalFollows, EdcaTold, AntennaTruth,
     RadioCaps, Params

\* The device has the parameters mac80211 configured (power, beacon interval, EDCA) and the
\* antenna the driver believes, but for what a lost frame leaves (rsi_mac80211_config,
\* conf_tx, set_antenna, bss_info_changed and the frames they send).
THEOREM ParametersReachDevice == ParSpec => []ParInv
<1>1. ParIInv => ParInv
  BY DEF ParIInv, ParInv, PowerFollows
<1>2. QED
  BY <1>1, ParInitInv, ParStepKeepsInv, PTL DEF ParSpec

-----------------------------------------------------------------------------
(* Power save.                                                             *)

Clean == psUpset = {}
Kind == IF sleeping = "awake" THEN "wake" ELSE sleeping

\* The last thing sent is the last request, or what the device did last; a thread that has
\* not written ps_state yet sent it.
LastTold ==
    /\ IF requests = <<>> THEN lastSent = Kind ELSE requests[Len(requests)] = lastSent
    /\ confirms # <<>> => confirms[Len(confirms)] = Kind
    /\ \A t \in PsThreads : ~Idle(t) =>
          /\ writer[t] = "disable" <=> lastSent = "wake"
          /\ requests # <<>> \/ confirms # <<>>
    /\ \A t, u \in PsThreads : ~Idle(t) /\ ~Idle(u) => t = u

\* Once written, ps_state is on the side of the last request, and waits only for what is
\* under way.
StateFollows ==
    Quiet =>
        /\ lastSent = "wake" <=> ps_state \in {"NONE", "DISABLE_REQ_SENT"}
        /\ requests = <<>> /\ confirms = <<>> => ps_state \in {"NONE", "ENABLED"}

NeverDeep ==
    link = "station" =>
        sleeping # "deep" /\ \A i \in 1 .. Len(requests) : requests[i] # "deep"

\* Traffic ends a power save that is on, and starts the timer before the state is written.
TrafficWaits ==
    /\ Quiet /\ ps_state = "ENABLED" => ~trafficOff
    /\ trafficOff /\ user_ps_en =>
          /\ Quiet => traffic_timer \/ ps_state = "ENABLE_REQ_SENT"
          /\ (\E t \in PsThreads : writer[t] = "disable") => traffic_timer

PsIInv ==
    /\ PsTypeOK
    /\ trafficOff => link = "station"
    /\ Clean => LastTold /\ StateFollows /\ NeverDeep /\ TrafficWaits

\* What SMT needs of sequences here.
LEMMA AppendFacts ==
    ASSUME NEW S, NEW s \in Seq(S), NEW e \in S
    PROVE  /\ Append(s, e) \in Seq(S) /\ Append(s, e) # <<>>
           /\ Len(Append(s, e)) = Len(s) + 1
           /\ Append(s, e)[Len(s) + 1] = e
           /\ \A i \in 1 .. Len(s) : Append(s, e)[i] = s[i]
OBVIOUS

LEMMA TailFacts ==
    ASSUME NEW S, NEW s \in Seq(S), s # <<>>
    PROVE  /\ Tail(s) \in Seq(S) /\ Head(s) \in S /\ Head(s) = s[1]
           /\ Len(s) \in Nat \ {0} /\ Len(Tail(s)) = Len(s) - 1
           /\ Tail(s) = <<>> <=> Len(s) = 1
           /\ \A i \in 1 .. Len(s) - 1 : Tail(s)[i] = s[i + 1]
<1>1. Len(s) \in Nat \ {0}
  BY EmptySeq
<1>2. /\ Tail(s) \in Seq(S) /\ Head(s) \in S /\ Len(Tail(s)) = Len(s) - 1
      /\ \A i \in 1 .. Len(Tail(s)) : Tail(s)[i] = s[i + 1]
  BY HeadTailProperties
<1>3. Tail(s) = <<>> <=> Len(Tail(s)) = 0
  BY <1>2, EmptySeq
<1>4. Head(s) = s[1]
  OBVIOUS
<1>5. QED
  BY <1>1, <1>2, <1>3, <1>4

LEMMA TwoMoreFacts ==
    ASSUME NEW S, NEW s \in Seq(S), NEW d \in S, NEW e \in S
    PROVE  /\ s \o <<d, e>> \in Seq(S) /\ s \o <<d, e>> # <<>>
           /\ Len(s \o <<d, e>>) = Len(s) + 2
           /\ (s \o <<d, e>>)[Len(s) + 1] = d /\ (s \o <<d, e>>)[Len(s) + 2] = e
           /\ \A i \in 1 .. Len(s) : (s \o <<d, e>>)[i] = s[i]
OBVIOUS

\* The parts that a send can disturb, before it is known what else the action does.
LEMMA SendsTyped ==
    ASSUME PsTypeOK, NEW t \in PsThreads, NEW what \in {"enable", "disable"}, Sends(t, what),
           confirms' = confirms
    PROVE  /\ requests' \in Seq(Requests) /\ Len(requests') + Len(confirms') <= MAX_REQS
           /\ lastSent' \in Requests
           /\ writer' \in [PsThreads -> {"idle", "enable", "disable"}]
           /\ psUpset' \subseteq {"lost", "early", "crossed"}
<1>1. Request(what) \in Requests
  BY DEF Request, SleepKind, Requests
<1>2. CASE requests' = Append(requests, Request(what))
  <2>1. requests' \in Seq(Requests) /\ Len(requests') = Len(requests) + 1
    BY <1>1, <1>2, AppendFacts DEF PsTypeOK
  <2>2. Len(requests') + Len(confirms') <= MAX_REQS
    BY <2>1, PowerSaveAssumption DEF Sends, Room, PsTypeOK
  <2>3. QED
    BY <1>1, <2>1, <2>2 DEF Sends, PsTypeOK
<1>3. CASE UNCHANGED <<requests, lastSent, writer>>
  BY <1>3 DEF Sends, PsTypeOK
<1>4. QED
  BY <1>2, <1>3 DEF Sends

LEMMA SendsFacts ==
    ASSUME PsIInv, NEW t \in PsThreads, NEW what \in {"enable", "disable"}, Sends(t, what),
           what = "disable" => ps_state = "ENABLED",
           UNCHANGED <<confirms, sleeping, link>>, Clean'
    PROVE  /\ Clean /\ Quiet /\ ~Quiet'
           /\ writer' = [writer EXCEPT ![t] = what]
           /\ \A u \in PsThreads : writer'[u] = IF u = t THEN what ELSE "idle"
           /\ LastTold' /\ NeverDeep'
           /\ lastSent' = "wake" => lastSent # "wake"
<1>1. /\ Clean /\ Quiet
      /\ requests' = Append(requests, Request(what)) /\ lastSent' = Request(what)
      /\ writer' = [writer EXCEPT ![t] = what]
  BY DEF Sends, Clean, Crossing, Quiet, Idle
<1>2. \A u \in PsThreads : writer'[u] = IF u = t THEN what ELSE "idle"
  BY <1>1 DEF Quiet, Idle, PsIInv, PsTypeOK
<1>3. /\ requests' # <<>> /\ Len(requests') = Len(requests) + 1
      /\ requests'[Len(requests')] = lastSent'
      /\ \A i \in 1 .. Len(requests) : requests'[i] = requests[i]
      /\ Len(requests) \in Nat
  BY <1>1, AppendFacts DEF Request, SleepKind, Requests, PsIInv, PsTypeOK
<1>4. Request(what) = "wake" <=> what = "disable"
  BY DEF Request, SleepKind
<1>5. LastTold'
  BY <1>1, <1>2, <1>3, <1>4 DEF LastTold, Kind, Idle, PsIInv
<1>6. NeverDeep'
  <2>1. SUFFICES ASSUME link = "station" PROVE NeverDeep'
    BY DEF NeverDeep
  <2>2. lastSent' # "deep"
    BY <1>1, <2>1 DEF Request, SleepKind
  <2>3. QED
    BY <1>1, <1>3, <2>1, <2>2 DEF NeverDeep, PsIInv
<1>7. ~Quiet'
  BY <1>2 DEF Quiet, Idle
<1>8. lastSent' = "wake" => lastSent # "wake"
  BY <1>1, <1>4 DEF PsIInv, StateFollows
<1>9. QED
  BY <1>1, <1>2, <1>5, <1>6, <1>7, <1>8

LEMMA PsInitInv == PsInit => PsIInv
<1> SUFFICES ASSUME PsInit PROVE PsIInv
  OBVIOUS
<1>1. PsTypeOK
  <2>1. /\ requests \in Seq(Requests) /\ confirms \in Seq(Requests)
        /\ Len(requests) + Len(confirms) <= MAX_REQS
    BY PowerSaveAssumption DEF PsInit
  <2>2. writer \in [PsThreads -> {"idle", "enable", "disable"}]
    BY DEF PsInit
  <2>3. lastSent \in Requests
    BY DEF PsInit, Requests
  <2>4. QED
    BY <2>1, <2>2, <2>3 DEF PsInit, PsTypeOK
<1>2. QED
  BY <1>1 DEF PsInit, PsIInv, LastTold, StateFollows, NeverDeep, TrafficWaits, Kind, Quiet, Idle

\* The operations that do nothing but send, and mark what they know of the user's wish.
LEMMA PureSendsKeepInv ==
    ASSUME PsIInv, StopsAsleep \/ WakeToAct \/ ScanSleeps \/ HandshakeDone PROVE PsIInv'
<1>1. PICK t \in PsThreads, what \in {"enable", "disable"} :
          /\ Sends(t, what)
          /\ what = "disable" => ps_state = "ENABLED"
          /\ UNCHANGED <<monitor, ps_state, user_ps_en, link, lmac, traffic_timer, confirms,
                         sleeping, trafficOff>>
  <2>1. CASE StopsAsleep
    BY <2>1 DEF StopsAsleep, PsThreads
  <2>2. CASE WakeToAct
    BY <2>2 DEF WakeToAct, MayWake, PsThreads
  <2>3. CASE ScanSleeps
    BY <2>3 DEF ScanSleeps, PsThreads
  <2>4. CASE HandshakeDone
    BY <2>4 DEF HandshakeDone, PsThreads
  <2>5. QED
    BY <2>1, <2>2, <2>3, <2>4
<1>2. PsTypeOK'
  BY <1>1, SendsTyped DEF PsIInv, PsTypeOK
<1>3. ASSUME Clean' PROVE LastTold' /\ StateFollows' /\ NeverDeep' /\ TrafficWaits'
  <2>1. /\ Clean /\ Quiet /\ ~Quiet' /\ LastTold' /\ NeverDeep'
        /\ \A u \in PsThreads : writer'[u] = IF u = t THEN what ELSE "idle"
    BY <1>1, <1>3, SendsFacts
  <2>2. StateFollows'
    BY <2>1 DEF StateFollows
  <2>3. what = "disable" => ~trafficOff
    BY <1>1, <2>1 DEF PsIInv, TrafficWaits
  <2>4. TrafficWaits'
    BY <1>1, <2>1, <2>3 DEF TrafficWaits
  <2>5. QED
    BY <2>1, <2>2, <2>4
<1>4. QED
  BY <1>1, <1>2, <1>3 DEF PsIInv

LEMMA ConfigPsKeepsInv ==
    ASSUME PsIInv, ConfigPs PROVE PsIInv'
<1>1. /\ user_ps_en' \in BOOLEAN
      /\ UNCHANGED <<monitor, ps_state, link, lmac, traffic_timer, confirms, sleeping, trafficOff>>
  BY DEF ConfigPs, SendsNothing, PsIInv, PsTypeOK
<1>2. CASE Sends("mac", "enable") /\ ~user_ps_en
  <2>1. PsTypeOK'
    BY <1>1, <1>2, SendsTyped DEF PsThreads, PsIInv, PsTypeOK
  <2>2. ASSUME Clean' PROVE LastTold' /\ StateFollows' /\ NeverDeep' /\ TrafficWaits'
    <3>1. /\ ~Quiet' /\ LastTold' /\ NeverDeep'
          /\ \A u \in PsThreads : writer'[u] = IF u = "mac" THEN "enable" ELSE "idle"
      BY <1>1, <1>2, <2>2, SendsFacts DEF PsThreads
    <3>2. QED
      BY <1>1, <3>1 DEF StateFollows, TrafficWaits
  <2>3. QED
    BY <1>1, <2>1, <2>2 DEF PsIInv
<1>3. CASE Sends("mac", "disable") /\ ps_state = "ENABLED" /\ user_ps_en' = FALSE
  <2>1. PsTypeOK'
    BY <1>1, <1>3, SendsTyped DEF PsThreads, PsIInv, PsTypeOK
  <2>2. ASSUME Clean' PROVE LastTold' /\ StateFollows' /\ NeverDeep' /\ TrafficWaits'
    <3>1. ~Quiet' /\ LastTold' /\ NeverDeep'
      BY <1>1, <1>3, <2>2, SendsFacts DEF PsThreads
    <3>2. QED
      BY <1>1, <1>3, <3>1 DEF StateFollows, TrafficWaits
  <2>3. QED
    BY <1>1, <2>1, <2>2 DEF PsIInv
<1>4. CASE SendsNothing /\ UNCHANGED user_ps_en
  BY <1>1, <1>4 DEF SendsNothing, PsIInv, PsTypeOK, Clean, LastTold, StateFollows, NeverDeep,
     TrafficWaits, Kind, Quiet, Idle
<1>5. QED
  BY <1>2, <1>3, <1>4 DEF ConfigPs

\* check_data_load, from the threads that see traffic of an associated station.
LEMMA LoadCheckedKeepsInv ==
    ASSUME PsIInv, NEW t \in PsThreads, LoadChecked(t), link = "station",
           lmac' \in [off : BOOLEAN, paused : BOOLEAN],
           UNCHANGED <<monitor, ps_state, user_ps_en, link, confirms, sleeping>>
    PROVE  PsIInv'
<1>1. CASE Sends(t, "disable") /\ ps_state = "ENABLED"
  <2>1. trafficOff' = TRUE /\ traffic_timer' = TRUE
    BY <1>1 DEF LoadChecked, TimerStarted
  <2>2. PsTypeOK'
    BY <1>1, <2>1, SendsTyped DEF PsIInv, PsTypeOK
  <2>3. ASSUME Clean' PROVE LastTold' /\ StateFollows' /\ NeverDeep' /\ TrafficWaits'
    <3>1. ~Quiet' /\ LastTold' /\ NeverDeep'
      BY <1>1, <2>3, SendsFacts
    <3>2. QED
      BY <2>1, <3>1 DEF StateFollows, TrafficWaits
  <2>4. QED
    BY <2>2, <2>3 DEF PsIInv
<1>2. CASE SendsNothing /\ ps_state # "ENABLED"
  <2>1. /\ traffic_timer' = TRUE /\ trafficOff' = trafficOff
        /\ UNCHANGED <<requests, lastSent, writer, psUpset>>
    BY <1>2 DEF LoadChecked, TimerStarted, SendsNothing
  <2>2. PsTypeOK'
    BY <2>1 DEF PsIInv, PsTypeOK
  <2>3. QED
    BY <1>2, <2>1, <2>2 DEF PsIInv, Clean, LastTold, StateFollows, NeverDeep, TrafficWaits, Kind,
       Quiet, Idle
<1>3. QED
  BY <1>1, <1>2 DEF LoadChecked

LEMMA TrafficKeepsInv ==
    ASSUME PsIInv, Traffic \/ LmacDisables PROVE PsIInv'
<1>1. CASE Traffic
  BY <1>1, LoadCheckedKeepsInv DEF Traffic, PsThreads, PsIInv, PsTypeOK
<1>2. CASE LmacDisables
  <2>1. /\ lmac' \in [off : BOOLEAN, paused : BOOLEAN]
        /\ UNCHANGED <<monitor, ps_state, user_ps_en, link, confirms, sleeping>>
    BY <1>2 DEF LmacDisables, PsIInv, PsTypeOK
  <2>2. CASE user_ps_en /\ link = "station"
    BY <1>2, <2>1, <2>2, LoadCheckedKeepsInv DEF LmacDisables, PsThreads
  <2>3. CASE ~(user_ps_en /\ link = "station")
    <3>1. UNCHANGED <<requests, lastSent, writer, psUpset, trafficOff, traffic_timer>>
      BY <1>2, <2>3 DEF LmacDisables, SendsNothing
    <3>2. QED
      BY <2>1, <3>1 DEF PsIInv, PsTypeOK, Clean, LastTold, StateFollows, NeverDeep, TrafficWaits,
         Kind, Quiet, Idle
  <2>4. QED
    BY <2>2, <2>3
<1>3. QED
  BY <1>1, <1>2

\* The timer: without a station, or a wish to save power, it stops; it sends when the state is
\* NONE, and otherwise goes on unless the power save is on.
LEMMA TimerFiresKeepsInv ==
    ASSUME PsIInv, TimerFires PROVE PsIInv'
<1>1. /\ UNCHANGED <<monitor, ps_state, user_ps_en, link, confirms, sleeping, trafficOff>>
      /\ traffic_timer' \in BOOLEAN /\ lmac' \in [off : BOOLEAN, paused : BOOLEAN]
  BY DEF TimerFires, Rearms, PsIInv, PsTypeOK
<1>2. CASE link # "station" \/ ~user_ps_en
  <2>1. UNCHANGED <<requests, lastSent, writer, psUpset>>
    BY <1>2 DEF TimerFires, SendsNothing
  <2>2. ~(trafficOff /\ user_ps_en)
    BY <1>2 DEF PsIInv
  <2>3. PsTypeOK'
    BY <1>1, <2>1 DEF PsIInv, PsTypeOK
  <2>4. QED
    BY <1>1, <2>1, <2>2, <2>3 DEF PsIInv, Clean, LastTold, StateFollows, NeverDeep, TrafficWaits,
       Kind, Quiet, Idle
<1>3. CASE ~(link # "station" \/ ~user_ps_en) /\ ~lmac.paused /\ ps_state = "NONE"
  <2>1. Sends("timer", "enable")
    BY <1>3 DEF TimerFires
  <2>2. PsTypeOK'
    BY <1>1, <2>1, SendsTyped DEF PsThreads, PsIInv, PsTypeOK
  <2>3. ASSUME Clean' PROVE LastTold' /\ StateFollows' /\ NeverDeep' /\ TrafficWaits'
    <3>1. /\ ~Quiet' /\ LastTold' /\ NeverDeep'
          /\ \A u \in PsThreads : writer'[u] = IF u = "timer" THEN "enable" ELSE "idle"
      BY <1>1, <2>1, <2>3, SendsFacts DEF PsThreads
    <3>2. QED
      BY <1>1, <3>1 DEF StateFollows, TrafficWaits
  <2>4. QED
    BY <1>1, <2>2, <2>3 DEF PsIInv
<1>4. CASE ~(link # "station" \/ ~user_ps_en) /\ ~(~lmac.paused /\ ps_state = "NONE")
  <2>1. /\ traffic_timer' = (ps_state # "ENABLED")
        /\ psUpset' = IF Quiet THEN psUpset ELSE psUpset \union {"early"}
        /\ UNCHANGED <<requests, lastSent, writer>>
    BY <1>4 DEF TimerFires, Rearms
  <2>2. PsTypeOK'
    BY <1>1, <2>1 DEF PsIInv, PsTypeOK
  <2>3. ASSUME Clean' PROVE LastTold' /\ StateFollows' /\ NeverDeep' /\ TrafficWaits'
    <3>1. Clean /\ Quiet /\ Quiet'
      BY <2>1, <2>3 DEF Clean, Quiet, Idle
    <3>2. LastTold' /\ StateFollows' /\ NeverDeep'
      BY <1>1, <2>1, <3>1 DEF PsIInv, LastTold, StateFollows, NeverDeep, Kind, Quiet, Idle
    <3>3. \A t \in PsThreads : writer'[t] = "idle"
      BY <3>1 DEF Quiet, Idle
    <3>4. TrafficWaits'
      BY <1>1, <2>1, <3>1, <3>3 DEF PsIInv, TrafficWaits
    <3>5. QED
      BY <3>2, <3>4
  <2>4. QED
    BY <1>1, <2>2, <2>3 DEF PsIInv
<1>5. QED
  BY <1>2, <1>3, <1>4

\* The second half of a send.
LEMMA WritesKeepsInv ==
    ASSUME PsIInv, Writes PROVE PsIInv'
<1>1. PICK t \in PsThreads :
          /\ ~Idle(t)
          /\ ps_state' = IF writer[t] = "enable" THEN "ENABLE_REQ_SENT" ELSE "DISABLE_REQ_SENT"
          /\ user_ps_en' = CASE writer[t] = "enable" -> TRUE
                             [] writer[t] = "disable" /\ UserDisables -> FALSE
                             [] OTHER -> user_ps_en
          /\ writer' = [writer EXCEPT ![t] = "idle"]
          /\ UNCHANGED <<monitor, link, lmac, traffic_timer, requests, confirms, sleeping,
                         trafficOff, lastSent, psUpset>>
  BY DEF Writes
<1>2. PsTypeOK'
  <2>1. user_ps_en' \in BOOLEAN
    BY <1>1 DEF PsIInv, PsTypeOK
  <2>2. QED
    BY <1>1, <2>1 DEF PsIInv, PsTypeOK
<1>3. writer[t] \in {"enable", "disable"}
  BY <1>1 DEF PsIInv, PsTypeOK, Idle
<1>4. ASSUME Clean' PROVE LastTold' /\ StateFollows' /\ NeverDeep' /\ TrafficWaits'
  <2>1. /\ Clean /\ LastTold
        /\ writer[t] = "disable" <=> lastSent = "wake"
        /\ requests # <<>> \/ confirms # <<>>
    BY <1>1, <1>4 DEF PsIInv, Clean, LastTold
  <2>2. \A u \in PsThreads : writer'[u] = "idle"
    BY <1>1, <2>1 DEF LastTold, Idle, PsIInv, PsTypeOK
  <2>3. LastTold' /\ NeverDeep'
    BY <1>1, <2>1, <2>2 DEF PsIInv, LastTold, NeverDeep, Kind, Idle
  <2>4. StateFollows'
    BY <1>1, <1>3, <2>1 DEF StateFollows
  <2>5. TrafficWaits'
    <3>1. CASE writer[t] = "enable"
      BY <1>1, <2>2, <3>1 DEF TrafficWaits
    <3>2. CASE writer[t] = "disable"
      <4>1. ps_state' = "DISABLE_REQ_SENT" /\ (user_ps_en' => user_ps_en)
        BY <1>1, <3>2
      <4>2. trafficOff /\ user_ps_en => traffic_timer
        BY <2>1, <3>2 DEF PsIInv, TrafficWaits
      <4>3. QED
        BY <1>1, <2>2, <4>1, <4>2 DEF TrafficWaits
    <3>3. QED
      BY <1>3, <3>1, <3>2
  <2>6. QED
    BY <2>3, <2>4, <2>5
<1>5. QED
  BY <1>1, <1>2, <1>4 DEF PsIInv

\* The device takes the next request and confirms it.
LEMMA DeviceSleepsKeepsInv ==
    ASSUME PsIInv, DeviceSleeps PROVE PsIInv'
<1>1. /\ requests # <<>> /\ requests' = Tail(requests)
      /\ sleeping' = IF Head(requests) = "wake" THEN "awake" ELSE Head(requests)
      /\ confirms' = Append(confirms, Head(requests))
      /\ UNCHANGED <<monitor, ps_state, user_ps_en, writer, link, lmac, traffic_timer, trafficOff,
                     lastSent, psUpset>>
  BY DEF DeviceSleeps
<1>2. requests \in Seq(Requests) /\ confirms \in Seq(Requests)
  BY DEF PsIInv, PsTypeOK
<1>3. /\ requests' \in Seq(Requests) /\ Head(requests) \in Requests /\ Head(requests) = requests[1]
      /\ Len(requests) \in Nat \ {0} /\ Len(requests') = Len(requests) - 1
      /\ requests' = <<>> <=> Len(requests) = 1
      /\ \A i \in 1 .. Len(requests) - 1 : requests'[i] = requests[i + 1]
  BY <1>1, <1>2, TailFacts
<1>4. /\ confirms' \in Seq(Requests) /\ confirms' # <<>> /\ Len(confirms') = Len(confirms) + 1
      /\ confirms'[Len(confirms')] = Head(requests) /\ Len(confirms) \in Nat
  BY <1>1, <1>2, <1>3, AppendFacts
<1>5. sleeping' \in {"awake", "deep", "connected"} /\ Kind' = Head(requests)
  BY <1>1, <1>3 DEF Requests, Kind
<1>6. PsTypeOK'
  BY <1>1, <1>3, <1>4, <1>5 DEF PsIInv, PsTypeOK
<1>7. ASSUME Clean' PROVE LastTold' /\ StateFollows' /\ NeverDeep' /\ TrafficWaits'
  <2>1. Clean /\ LastTold /\ lastSent = requests[Len(requests)]
    BY <1>1, <1>7 DEF PsIInv, Clean, LastTold
  <2>2. IF requests' = <<>> THEN lastSent' = Kind' ELSE requests'[Len(requests')] = lastSent'
    BY <1>1, <1>3, <1>5, <2>1
  <2>3. LastTold'
    BY <1>1, <1>4, <1>5, <2>1, <2>2 DEF LastTold, Idle
  <2>4. StateFollows'
    BY <1>1, <1>4, <2>1 DEF PsIInv, StateFollows, Quiet, Idle
  <2>5. NeverDeep'
    <3>1. SUFFICES ASSUME link = "station" PROVE NeverDeep'
      BY <1>1 DEF NeverDeep
    <3>2. \A i \in 1 .. Len(requests) : requests[i] # "deep"
      BY <2>1, <3>1 DEF PsIInv, NeverDeep
    <3>3. Head(requests) # "deep" /\ \A i \in 1 .. Len(requests') : requests'[i] # "deep"
      BY <1>3, <3>2
    <3>4. QED
      BY <1>1, <3>3 DEF NeverDeep
  <2>6. TrafficWaits'
    BY <1>1, <2>1 DEF PsIInv, TrafficWaits, Quiet, Idle
  <2>7. QED
    BY <2>3, <2>4, <2>5, <2>6
<1>8. QED
  BY <1>1, <1>6, <1>7 DEF PsIInv

LEMMA PsConfirmKeepsInv ==
    ASSUME PsIInv, PsConfirm PROVE PsIInv'
<1>1. /\ confirms # <<>> /\ confirms' = Tail(confirms)
      /\ psUpset' = IF Quiet THEN psUpset ELSE psUpset \union {"early"}
      /\ ps_state' = Confirmed(Head(confirms))
      /\ trafficOff' = (trafficOff /\ ps_state' # "ENABLED")
      /\ UNCHANGED <<monitor, user_ps_en, writer, link, lmac, traffic_timer, requests, sleeping,
                     lastSent>>
  BY DEF PsConfirm
<1>2. requests \in Seq(Requests) /\ confirms \in Seq(Requests)
  BY DEF PsIInv, PsTypeOK
<1>3. /\ confirms' \in Seq(Requests) /\ Head(confirms) \in Requests /\ Head(confirms) = confirms[1]
      /\ Len(confirms) \in Nat \ {0} /\ Len(confirms') = Len(confirms) - 1
      /\ confirms' = <<>> <=> Len(confirms) = 1
      /\ \A i \in 1 .. Len(confirms) - 1 : confirms'[i] = confirms[i + 1]
  BY <1>1, <1>2, TailFacts
<1>4. ps_state' \in {"NONE", "ENABLE_REQ_SENT", "DISABLE_REQ_SENT", "ENABLED"}
  BY <1>1 DEF Confirmed, PsIInv, PsTypeOK
<1>5. PsTypeOK'
  <2>1. trafficOff' \in BOOLEAN /\ psUpset' \subseteq {"lost", "early", "crossed"}
    BY <1>1 DEF PsIInv, PsTypeOK
  <2>2. Len(requests') + Len(confirms') <= MAX_REQS
    BY <1>1, <1>2, <1>3, PowerSaveAssumption DEF PsIInv, PsTypeOK
  <2>3. QED
    BY <1>1, <1>3, <1>4, <2>1, <2>2 DEF PsIInv, PsTypeOK
<1>6. ASSUME Clean' PROVE LastTold' /\ StateFollows' /\ NeverDeep' /\ TrafficWaits'
  <2>1. Clean /\ LastTold /\ Quiet /\ StateFollows
    BY <1>1, <1>6 DEF PsIInv, Clean
  <2>2. \A t \in PsThreads : writer'[t] = "idle"
    BY <1>1, <2>1 DEF Quiet, Idle
  <2>3. confirms' # <<>> => confirms'[Len(confirms')] = confirms[Len(confirms)]
    BY <1>3
  <2>4. LastTold'
    BY <1>1, <2>1, <2>2, <2>3 DEF LastTold, Kind, Idle
  <2>5. requests' = <<>> /\ confirms' = <<>> => Head(confirms) = lastSent
    BY <1>1, <1>3, <2>1 DEF LastTold
  <2>6. StateFollows'
    <3>1. lastSent = "wake" <=> ps_state' \in {"NONE", "DISABLE_REQ_SENT"}
      BY <1>1, <2>1 DEF StateFollows, Confirmed, PsIInv, PsTypeOK
    <3>2. requests' = <<>> /\ confirms' = <<>> => ps_state' \in {"NONE", "ENABLED"}
      BY <1>1, <2>1, <2>5 DEF StateFollows, Confirmed, PsIInv, PsTypeOK
    <3>3. QED
      BY <1>1, <3>1, <3>2 DEF StateFollows
  <2>7. NeverDeep'
    BY <1>1, <2>1 DEF PsIInv, NeverDeep
  <2>8. TrafficWaits'
    <3>1. ps_state = "ENABLE_REQ_SENT" => ps_state' \in {"ENABLE_REQ_SENT", "ENABLED"}
      BY <1>1, <1>3, <2>1 DEF Confirmed, Requests
    <3>2. QED
      BY <1>1, <2>1, <2>2, <3>1 DEF PsIInv, TrafficWaits
  <2>9. QED
    BY <2>4, <2>6, <2>7, <2>8
<1>7. QED
  BY <1>1, <1>5, <1>6 DEF PsIInv

\* U-APSD sends both requests and leaves the state.
LEMMA ConfUapsdKeepsInv ==
    ASSUME PsIInv, ConfUapsd PROVE PsIInv'
<1>1. /\ link = "station" /\ ps_state = "ENABLED" /\ Quiet
      /\ Room(2)
      /\ requests' = requests \o <<"wake", "connected">> /\ lastSent' = "connected"
      /\ UNCHANGED <<monitor, ps_state, user_ps_en, writer, link, lmac, traffic_timer, confirms,
                     sleeping, trafficOff, psUpset>>
  BY DEF ConfUapsd, Crossing, Quiet, Idle, SleepKind
<1>2. requests \in Seq(Requests) /\ {"wake", "connected"} \subseteq Requests
  BY DEF PsIInv, PsTypeOK, Requests
<1>3. /\ requests' \in Seq(Requests) /\ requests' # <<>> /\ Len(requests') = Len(requests) + 2
      /\ requests'[Len(requests) + 1] = "wake" /\ requests'[Len(requests) + 2] = "connected"
      /\ \A i \in 1 .. Len(requests) : requests'[i] = requests[i]
      /\ Len(requests) \in Nat
  BY <1>1, <1>2, TwoMoreFacts
<1>4. PsTypeOK'
  <2>1. Len(requests') + Len(confirms') <= MAX_REQS
    BY <1>1, <1>3, PowerSaveAssumption DEF Room, PsIInv, PsTypeOK
  <2>2. QED
    BY <1>1, <1>2, <1>3, <2>1 DEF PsIInv, PsTypeOK
<1>5. ASSUME Clean' PROVE LastTold' /\ StateFollows' /\ NeverDeep' /\ TrafficWaits'
  <2>1. Clean /\ LastTold /\ StateFollows /\ NeverDeep /\ TrafficWaits
    BY <1>1, <1>5 DEF PsIInv, Clean
  <2>2. \A t \in PsThreads : writer'[t] = "idle"
    BY <1>1 DEF Quiet, Idle
  <2>3. LastTold'
    BY <1>1, <1>3, <2>1, <2>2 DEF LastTold, Kind, Idle
  <2>4. StateFollows'
    BY <1>1, <1>3, <2>1 DEF StateFollows
  <2>5. NeverDeep'
    <3>1. \A i \in 1 .. Len(requests') : requests'[i] # "deep"
      BY <1>1, <1>3, <2>1 DEF NeverDeep
    <3>2. QED
      BY <1>1, <2>1, <3>1 DEF NeverDeep
  <2>6. TrafficWaits'
    BY <1>1, <2>1, <2>2 DEF TrafficWaits
  <2>7. QED
    BY <2>3, <2>4, <2>5, <2>6
<1>6. QED
  BY <1>1, <1>4, <1>5 DEF PsIInv

LEMMA LinkKeepsInv ==
    ASSUME PsIInv, LinkUp \/ LinkDown \/ LmacPauses \/ UNCHANGED psVars PROVE PsIInv'
<1>1. CASE LinkUp
  <2>1. PsTypeOK'
    BY <1>1 DEF LinkUp, PsIInv, PsTypeOK
  <2>2. /\ requests = <<>> /\ confirms = <<>> /\ link = "idle"
        /\ Quiet /\ ps_state \notin {"ENABLED", "ENABLE_REQ_SENT"}
        /\ UNCHANGED <<monitor, ps_state, user_ps_en, writer, lmac, traffic_timer, requests,
                       confirms, sleeping, trafficOff, lastSent, psUpset>>
    BY <1>1 DEF LinkUp
  <2>3. ASSUME Clean PROVE NeverDeep'
    <3>1. lastSent = "wake" /\ lastSent = Kind
      BY <2>2, <2>3 DEF PsIInv, PsTypeOK, StateFollows, LastTold
    <3>2. sleeping # "deep" /\ Len(requests) = 0
      BY <2>2, <3>1 DEF Kind
    <3>3. QED
      BY <2>2, <3>2 DEF NeverDeep
  <2>4. ~trafficOff
    BY <2>2 DEF PsIInv
  <2>5. QED
    BY <2>1, <2>2, <2>3, <2>4 DEF PsIInv, Clean, LastTold, StateFollows, TrafficWaits, Kind,
       Quiet, Idle
<1>2. CASE LinkDown
  <2>1. PsTypeOK'
    BY <1>2 DEF LinkDown, PsIInv, PsTypeOK
  <2>2. /\ link' = "idle" /\ trafficOff' = FALSE
        /\ UNCHANGED <<monitor, ps_state, user_ps_en, writer, lmac, traffic_timer, requests,
                       confirms, sleeping, lastSent, psUpset>>
    BY <1>2 DEF LinkDown
  <2>3. QED
    BY <2>1, <2>2 DEF PsIInv, Clean, LastTold, StateFollows, NeverDeep, TrafficWaits, Kind,
       Quiet, Idle
<1>3. CASE LmacPauses
  <2>1. /\ traffic_timer => traffic_timer'
        /\ traffic_timer' \in BOOLEAN /\ lmac' \in [off : BOOLEAN, paused : BOOLEAN]
        /\ UNCHANGED <<monitor, ps_state, user_ps_en, writer, link, requests, confirms, sleeping,
                       trafficOff, lastSent, psUpset>>
    BY <1>3 DEF LmacPauses, PsIInv, PsTypeOK
  <2>2. PsTypeOK'
    BY <2>1 DEF PsIInv, PsTypeOK
  <2>3. QED
    BY <2>1, <2>2 DEF PsIInv, Clean, LastTold, StateFollows, NeverDeep, TrafficWaits, Kind,
       Quiet, Idle
<1>4. CASE UNCHANGED psVars
  <2>1. PsTypeOK'
    BY <1>4 DEF psVars, PsIInv, PsTypeOK
  <2>2. QED
    BY <1>4, <2>1 DEF psVars, PsIInv, Clean, LastTold, StateFollows, NeverDeep, TrafficWaits, Kind,
       Quiet, Idle
<1>5. QED
  BY <1>1, <1>2, <1>3, <1>4

LEMMA PsStepKeepsInv ==
    ASSUME PsIInv, [PsNext]_psVars PROVE PsIInv'
  BY PureSendsKeepInv, ConfigPsKeepsInv, TrafficKeepsInv, TimerFiresKeepsInv, WritesKeepsInv,
     DeviceSleepsKeepsInv, PsConfirmKeepsInv, ConfUapsdKeepsInv, LinkKeepsInv DEF PsNext

LEMMA PsIInvImpliesInv == PsIInv => PsInv
<1> SUFFICES ASSUME PsIInv PROVE PsInv
  OBVIOUS
<1>1. PsAgrees
  <2>1. SUFFICES ASSUME PsSettled PROVE ps_state = IF sleeping = "awake" THEN "NONE" ELSE "ENABLED"
    BY DEF PsAgrees
  <2>2. /\ Quiet /\ requests = <<>> /\ confirms = <<>>
        /\ LastTold /\ StateFollows
    BY <2>1 DEF PsSettled, PsIInv, Clean
  <2>3. /\ lastSent = Kind /\ ps_state \in {"NONE", "ENABLED"}
        /\ lastSent = "wake" <=> ps_state \in {"NONE", "DISABLE_REQ_SENT"}
    BY <2>2 DEF LastTold, StateFollows
  <2>4. Kind = "wake" <=> sleeping = "awake"
    BY DEF Kind, PsIInv, PsTypeOK
  <2>5. QED
    BY <2>3, <2>4
<1>2. TrafficEnds
  BY DEF PsIInv, TrafficEnds, TrafficWaits, Clean
<1>3. SleepsConnected
  BY DEF PsIInv, SleepsConnected, NeverDeep, Clean, PsSettled
<1>4. QED
  BY <1>1, <1>2, <1>3 DEF PsInv, PsIInv

\* Only a send of rsi_disable_ps asks for a wake-up by itself, and ps_state was ENABLED.
LEMMA PsStepWakesSleeper ==
    ASSUME PsIInv, [PsNext]_psVars, psUpset' = {}, Len(requests') = Len(requests) + 1,
           lastSent' = "wake"
    PROVE  lastSent # "wake"
<1>0. requests \in Seq(Requests) /\ confirms \in Seq(Requests) /\ Len(requests) \in Nat
  BY DEF PsIInv, PsTypeOK
<1>1. SUFFICES ASSUME lastSent = "wake" PROVE FALSE
  OBVIOUS
<1>2. ~(lastSent' = lastSent /\ requests' = requests)
  BY <1>0
<1>3. ASSUME NEW t \in PsThreads, NEW what \in {"enable", "disable"}, Sends(t, what),
             what = "disable" => ps_state = "ENABLED",
             UNCHANGED <<confirms, sleeping, link>>
      PROVE  FALSE
  BY <1>1, <1>3, SendsFacts DEF Clean
<1>4. ~SendsNothing
  BY <1>2 DEF SendsNothing
<1>5. CASE StopsAsleep \/ WakeToAct \/ ScanSleeps \/ HandshakeDone
  BY <1>3, <1>5 DEF StopsAsleep, WakeToAct, MayWake, ScanSleeps, HandshakeDone, PsThreads
<1>6. CASE ConfigPs
  BY <1>3, <1>4, <1>6 DEF ConfigPs, PsThreads
<1>7. CASE Traffic \/ LmacDisables
  BY <1>3, <1>4, <1>7 DEF Traffic, LmacDisables, LoadChecked, PsThreads
<1>8. CASE TimerFires
  <2>1. CASE Sends("timer", "enable")
    BY <1>3, <1>8, <2>1 DEF TimerFires, PsThreads
  <2>2. CASE ~Sends("timer", "enable")
    BY <1>2, <1>4, <1>8, <2>2 DEF TimerFires
  <2>3. QED
    BY <2>1, <2>2
<1>9. CASE DeviceSleeps
  <2>1. Len(requests') = Len(requests) - 1
    BY <1>0, <1>9, TailFacts DEF DeviceSleeps
  <2>2. QED
    BY <1>0, <2>1
<1>10. CASE ConfUapsd
  BY <1>10 DEF ConfUapsd, SleepKind
<1>11. CASE Writes \/ PsConfirm \/ LinkUp \/ LinkDown \/ LmacPauses \/ UNCHANGED psVars
  BY <1>2, <1>11 DEF Writes, PsConfirm, LinkUp, LinkDown, LmacPauses, psVars
<1>12. QED
  BY <1>5, <1>6, <1>7, <1>8, <1>9, <1>10, <1>11 DEF PsNext

\* Once all is confirmed, ps_state is the device's state; a power save that traffic ended is on
\* its way back; an associated station's sleep is a connected one (rsi_91x_ps.c).
THEOREM PowerSaveAgrees == PsSpec => []PsInv
  BY PsInitInv, PsStepKeepsInv, PsIInvImpliesInv, PTL DEF PsSpec

\* A wake-up is sent only to a device that was told to sleep (rsi_disable_ps).
THEOREM OnlySleepersAreWoken == PsSpec => WakesSleeper
<1>1. PsSpec => []PsIInv
  BY PsInitInv, PsStepKeepsInv, PTL DEF PsSpec
<1>2. ASSUME PsIInv, [PsNext]_psVars
      PROVE  [psUpset' = {} /\ Len(requests') = Len(requests) + 1 /\ lastSent' = "wake"
                => lastSent # "wake"]_psVars
  BY <1>2, PsStepWakesSleeper
<1>3. QED
  BY <1>1, <1>2, PTL DEF PsSpec, WakesSleeper

-----------------------------------------------------------------------------
(* StaTable. *)

\* The entries in use.
Taken == {i \in Slots : stations[i] # NoSta}

\* Who is who: an entry for each peer of an access point, at most one access point of a
\* station; a restore leaves the count too high, never too low.
TableInv ==
    /\ role = "AP" => linked = {}
    /\ role = "STATION" =>
         /\ num_stations = 0
         /\ \A a, b \in uploaded : a = b
         /\ \A a, b \in linked : a = b
    /\ \A i \in Slots : stations[i] # NoSta => role = "AP" /\ stations[i] \in uploaded
    /\ role = "AP" => \A s \in uploaded : \E i \in Slots : stations[i] = s
    /\ \A i, j \in Slots : stations[i] = stations[j] /\ stations[i] # NoSta => i = j
    /\ Cardinality(Taken) <= num_stations
    /\ Without({"restored"}) => num_stations = Cardinality(Taken)

\* Keys and sessions belong to peers mac80211 has uploaded.
OfPeers ==
    /\ keyed \subseteq uploaded
    /\ \A s \in Stas, t \in Tids : session[<<s, t>>] # "none" => s \in uploaded

\* The peer the device should know under a number.
PeerOf(i) ==
    IF role = "AP" THEN stations[i]
    ELSE IF i = 0 /\ linked # {} THEN CHOOSE s \in linked : TRUE ELSE NoSta

IsNote(f, i) == f.kind \in {"add", "delete"} /\ f.id = i

\* Of each number the queue has one notification at most, and it says what the device
\* should know; without one the device knows it.
NotesInv ==
    Without({"lost", "overtaken"}) =>
        \A i \in Slots :
            /\ \A m, n \in DOMAIN mgmtQ : IsNote(mgmtQ[m], i) /\ IsNote(mgmtQ[n], i) => m = n
            /\ \A n \in DOMAIN mgmtQ : IsNote(mgmtQ[n], i) =>
                 PeerOf(i) = (IF mgmtQ[n].kind = "add" THEN mgmtQ[n].sta ELSE NoSta)
            /\ (\A n \in DOMAIN mgmtQ : ~IsNote(mgmtQ[n], i)) => fwPeer[i] = PeerOf(i)

IsKey(f, i) == f.kind = "key" /\ f.id = i

\* The last key in the queue for a number is that of the peer.
HasKey(i, s) ==
    \/ \E n \in DOMAIN mgmtQ :
         /\ IsKey(mgmtQ[n], i) /\ mgmtQ[n].sta = s
         /\ \A m \in DOMAIN mgmtQ : m > n => ~IsKey(mgmtQ[m], i)
    \/ (\A m \in DOMAIN mgmtQ : ~IsKey(mgmtQ[m], i)) /\ fwKey[i] = s

KeysInv == Without({"lost"}) => \A s \in keyed : HasKey(StaId(Entry(s)), s)

\* One session of a peer starts at a time, and its number is the one stored.
OneStart ==
    Without({"two_starts"}) =>
        \A s \in Stas, t \in Tids : session[<<s, t>>] = "started" =>
            /\ seq_start[Entry(s)] = t
            /\ \A u \in Tids : session[<<s, u>>] = "started" => u = t

\* The inductive invariant.
StaIInv ==
    /\ StaTypeOK /\ TableInv /\ OfPeers /\ NotesInv /\ KeysInv
    /\ OneStart /\ StartsAsAgreed /\ MayAggregateAgain

-----------------------------------------------------------------------------
\* A set of numbers has a least one.
LEMMA LeastOne ==
    ASSUME NEW T \in SUBSET Nat, T # {} PROVE \E m \in T : \A k \in T : m <= k
<1> DEFINE R == OpToRel(<, Nat)
<1>1. IsWellFoundedOn(R, Nat)
  BY NatLessThanWellFounded
<1>2. \A x, y \in Nat : <<x, y>> \notin R => y <= x
  BY DEF OpToRel
<1> HIDE DEF R
<1>3. PICK m \in T : \A k \in T : ~(<<k, m>> \in R)
  BY <1>1, WFMin
<1> QED BY <1>2, <1>3

\* Numbers of entries and of peers.
LEMMA NumbersTyped ==
    ASSUME StaTableAssumption
    PROVE  /\ Own \in Nat /\ Own \notin Slots /\ 0 \in Slots /\ Slots \subseteq Nat
           /\ \A i \in Slots : StaId(i) = i
           /\ StaId(Own) = 0
           /\ \A i \in Slots \union {Own} : StaId(i) \in Slots
BY DEF StaTableAssumption, Own, Slots, StaId

LEMMA SlotsFinite ==
    ASSUME StaTableAssumption
    PROVE  /\ IsFiniteSet(Slots) /\ Cardinality(Slots) = MaxStations
           /\ \A T \in SUBSET Slots : IsFiniteSet(T) /\ Cardinality(T) \in Nat /\ Cardinality(T) <= MaxStations
<1>1. IsFiniteSet(0 .. MaxStations - 1) /\ Cardinality(0 .. MaxStations - 1) = MaxStations
  BY FS_Interval DEF StaTableAssumption
<1>2. IsFiniteSet(Slots) /\ Cardinality(Slots) = MaxStations
  BY <1>1 DEF Slots
<1>3. \A T \in SUBSET Slots : IsFiniteSet(T) /\ Cardinality(T) <= Cardinality(Slots)
  BY <1>2, FS_Subset
<1>4. \A T \in SUBSET Slots : Cardinality(T) \in Nat
  BY <1>3, FS_CardinalityType
<1> QED BY <1>2, <1>3, <1>4

\* The entry of a peer mac80211 has uploaded.
LEMMA EntrySays ==
    ASSUME StaTableAssumption, StaTypeOK, TableInv, NEW s \in uploaded
    PROVE  /\ role = "AP" => Entry(s) \in Slots /\ stations[Entry(s)] = s /\ SlotOf(s) = Entry(s) /\ Known(s)
           /\ role = "STATION" => Entry(s) = Own
           /\ Entry(s) \in Slots \union {Own} /\ StaId(Entry(s)) \in Slots
           /\ \A i \in Slots : stations[i] = s => Entry(s) = i
<1>1. CASE role = "AP"
  <2>1. PICK i \in Slots : stations[i] = s
    BY <1>1 DEF TableInv
  <2>2. s # NoSta
    BY DEF StaTypeOK, StaTableAssumption
  <2>3. SlotOf(s) \in Slots /\ stations[SlotOf(s)] = s
    BY <2>1 DEF SlotOf
  <2>4. Entry(s) = SlotOf(s)
    BY <1>1 DEF Entry
  <2>5. \A j \in Slots : stations[j] = s => SlotOf(s) = j
    BY <2>2, <2>3 DEF TableInv
  <2>6. Known(s)
    BY <2>1 DEF Known
  <2> QED BY <1>1, <2>3, <2>4, <2>5, <2>6, NumbersTyped
<1>2. CASE role = "STATION"
  <2>1. Entry(s) = Own
    BY <1>2 DEF Entry
  <2>2. \A i \in Slots : stations[i] # s
    BY <1>2 DEF TableInv, StaTypeOK, StaTableAssumption
  <2> QED BY <1>2, <2>1, <2>2, NumbersTyped
<1> QED BY <1>1, <1>2 DEF StaTypeOK

\* It stays as long as the table keeps the peer where it is.
LEMMA EntryKept ==
    ASSUME StaTableAssumption, StaTypeOK, TableInv, StaTypeOK', TableInv', role' = role,
           NEW s \in uploaded, s \in uploaded',
           \A i \in Slots : stations[i] = s => stations'[i] = s
    PROVE  Entry(s)' = Entry(s)
<1>1. CASE role = "AP"
  <2>1. Entry(s) \in Slots /\ stations'[Entry(s)] = s
    BY <1>1, EntrySays
  <2>2. s # NoSta
    BY DEF StaTypeOK, StaTableAssumption
  <2>3. SlotOf(s)' \in Slots /\ stations'[SlotOf(s)'] = s
    BY <2>1 DEF SlotOf
  <2>4. SlotOf(s)' = Entry(s)
    BY <2>1, <2>2, <2>3 DEF TableInv
  <2>5. Entry(s)' = SlotOf(s)'
    BY <1>1 DEF Entry
  <2> QED BY <2>4, <2>5
<1>2. CASE role = "STATION"
  BY <1>2 DEF Entry
<1> QED BY <1>1, <1>2 DEF StaTypeOK

\* Which entry a new peer gets.
LEMMA FreeSlotSays ==
    ASSUME StaTableAssumption, StaTypeOK, TableInv, ~TableFull
    PROVE  FreeSlot \in Slots /\ stations[FreeSlot] = NoSta
<1> DEFINE Free == {i \in Slots : stations[i] = NoSta}
<1>1. Free # {}
  <2>1. Taken \in SUBSET Slots
    BY DEF Taken
  <2>2. Cardinality(Taken) < MaxStations
    BY <2>1, SlotsFinite DEF TableInv, TableFull, StaTypeOK, StaTableAssumption
  <2>3. Taken # Slots
    BY <2>2, SlotsFinite DEF StaTableAssumption
  <2> QED BY <2>1, <2>3 DEF Taken
<1>2. Free \subseteq Nat
  BY NumbersTyped
<1>3. PICK i \in Free : \A j \in Free : i <= j
  BY <1>1, <1>2, LeastOne
<1>4. /\ i \in Slots /\ stations[i] = NoSta
      /\ \A j \in Slots : stations[j] = NoSta => i <= j
  BY <1>3
<1> QED BY <1>4 DEF FreeSlot

\* The queue with a frame more at either end, and with the first one gone.
LEMMA Prepended ==
    ASSUME NEW q \in Seq(Frame), NEW f \in Frame, NEW r, r = <<f>> \o q
    PROVE  /\ r \in Seq(Frame) /\ DOMAIN q = 1 .. Len(q) /\ Len(q) \in Nat
           /\ DOMAIN r = 1 .. Len(q) + 1 /\ r[1] = f
           /\ \A n \in DOMAIN q : r[n + 1] = q[n]
<1>1. <<f>> \in Seq(Frame) /\ Len(<<f>>) = 1 /\ <<f>>[1] = f
  OBVIOUS
<1>2. /\ r \in Seq(Frame) /\ Len(r) = 1 + Len(q)
      /\ \A i \in 1 .. 1 + Len(q) : r[i] = IF i <= 1 THEN <<f>>[i] ELSE q[i - 1]
  BY <1>1, ConcatProperties
<1>3. DOMAIN q = 1 .. Len(q) /\ Len(q) \in Nat /\ DOMAIN r = 1 .. Len(r)
  BY <1>2, LenProperties
<1>4. r[1] = f
  BY <1>1, <1>2, <1>3
<1>5. ASSUME NEW n \in DOMAIN q PROVE r[n + 1] = q[n]
  BY <1>2, <1>3, <1>5
<1> QED BY <1>2, <1>3, <1>4, <1>5

LEMMA Appended ==
    ASSUME NEW q \in Seq(Frame), NEW f \in Frame, NEW r, r = Append(q, f)
    PROVE  /\ r \in Seq(Frame) /\ DOMAIN q = 1 .. Len(q) /\ Len(q) \in Nat
           /\ DOMAIN r = 1 .. Len(q) + 1 /\ r[Len(q) + 1] = f
           /\ \A n \in DOMAIN q : r[n] = q[n]
<1>1. DOMAIN q = 1 .. Len(q) /\ Len(q) \in Nat
  BY LenProperties
<1>2. r \in Seq(Frame) /\ Len(r) = Len(q) + 1 /\ r[Len(q) + 1] = f
  BY AppendProperties
<1>3. \A n \in 1 .. Len(q) : r[n] = q[n]
  BY AppendProperties
<1>4. DOMAIN r = 1 .. Len(r)
  BY <1>2, LenProperties
<1> QED BY <1>1, <1>2, <1>3, <1>4

LEMMA FirstGone ==
    ASSUME NEW q \in Seq(Frame), q # << >>, NEW r, r = Tail(q)
    PROVE  /\ r \in Seq(Frame) /\ DOMAIN q = 1 .. Len(q) /\ Len(q) \in Nat \ {0}
           /\ DOMAIN r = 1 .. Len(q) - 1 /\ Head(q) = q[1] /\ q[1] \in Frame
           /\ \A n \in DOMAIN r : r[n] = q[n + 1]
<1>1. DOMAIN q = 1 .. Len(q) /\ Len(q) \in Nat \ {0}
  BY LenProperties, EmptySeq
<1>2. r \in Seq(Frame) /\ Len(r) = Len(q) - 1 /\ Head(q) \in Frame /\ Head(q) = q[1]
  BY HeadTailProperties
<1>3. \A n \in 1 .. Len(r) : r[n] = q[n + 1]
  BY HeadTailProperties
<1>4. DOMAIN r = 1 .. Len(r)
  BY <1>2, LenProperties
<1> QED BY <1>1, <1>2, <1>3, <1>4

-----------------------------------------------------------------------------
\* What sending does: a frame more at its end of the queue, or a loss.
LEMMA SentSays ==
    ASSUME mgmtQ \in Seq(Frame), NEW f \in Frame, NEW ok \in BOOLEAN, NEW more, Sent(f, ok, more)
    PROVE  /\ staUpset \subseteq staUpset' /\ more \subseteq staUpset'
           /\ staUpset' \subseteq staUpset \cup more \cup {"lost", "overtaken"}
           /\ mgmtQ' \in Seq(Frame)
           /\ \/ ok = FALSE /\ mgmtQ' = mgmtQ /\ "lost" \in staUpset'
              \/ /\ ok = TRUE /\ f.kind \in {"add", "delete"} /\ mgmtQ' = <<f>> \o mgmtQ
                 /\ Overtakes(f) => "overtaken" \in staUpset'
              \/ ok = TRUE /\ f.kind \notin {"add", "delete"} /\ mgmtQ' = Append(mgmtQ, f)
<1>1. /\ mgmtQ' = IF ok THEN Enqueued(mgmtQ, f) ELSE mgmtQ
      /\ staUpset' = staUpset \union more
                     \union (IF ok THEN {} ELSE {"lost"})
                     \union (IF ok /\ Overtakes(f) THEN {"overtaken"} ELSE {})
  BY DEF Sent
<1>2. /\ staUpset \subseteq staUpset' /\ more \subseteq staUpset'
      /\ staUpset' \subseteq staUpset \cup more \cup {"lost", "overtaken"}
  BY <1>1
<1>3. CASE ok = FALSE
  <2>1. mgmtQ' = mgmtQ /\ "lost" \in staUpset'
    BY <1>1, <1>3
  <2> QED BY <1>2, <1>3, <2>1
<1>4. CASE ok = TRUE /\ f.kind \in {"add", "delete"}
  <2>1. mgmtQ' = <<f>> \o mgmtQ
    BY <1>1, <1>4 DEF Enqueued
  <2>2. Overtakes(f) => "overtaken" \in staUpset'
    BY <1>1, <1>4
  <2>3. mgmtQ' \in Seq(Frame)
    BY <2>1, Prepended
  <2> QED BY <1>2, <1>4, <2>1, <2>2, <2>3
<1>5. CASE ok = TRUE /\ f.kind \notin {"add", "delete"}
  <2>1. mgmtQ' = Append(mgmtQ, f)
    BY <1>1, <1>5 DEF Enqueued
  <2>2. mgmtQ' \in Seq(Frame)
    BY <2>1, Appended
  <2> QED BY <1>2, <1>5, <2>1, <2>2
<1> QED BY <1>3, <1>4, <1>5

LEMMA LossyTyped == Lossy \subseteq BOOLEAN
BY DEF Lossy

\* What is excluded after a step was excluded before it.
LEMMA Excluded ==
    ASSUME staUpset \subseteq staUpset', NEW T, Without(T)'
    PROVE  Without(T)
BY DEF Without

\* The notifications in the queue still say what the device should know, ...
LEMMA NotesKept ==
    ASSUME StaTypeOK, NotesInv, staUpset \subseteq staUpset', fwPeer' = fwPeer,
           \A i \in Slots : PeerOf(i)' = PeerOf(i),
           \/ mgmtQ' = mgmtQ
           \/ \E f \in Frame : f.kind \notin {"add", "delete"} /\ mgmtQ' = Append(mgmtQ, f)
    PROVE  NotesInv'
<1> SUFFICES ASSUME Without({"lost", "overtaken"})', NEW i \in Slots
             PROVE  /\ \A m, n \in DOMAIN mgmtQ' : IsNote(mgmtQ'[m], i) /\ IsNote(mgmtQ'[n], i) => m = n
                    /\ \A n \in DOMAIN mgmtQ' : IsNote(mgmtQ'[n], i) =>
                         PeerOf(i) = (IF mgmtQ'[n].kind = "add" THEN mgmtQ'[n].sta ELSE NoSta)
                    /\ (\A n \in DOMAIN mgmtQ' : ~IsNote(mgmtQ'[n], i)) => fwPeer[i] = PeerOf(i)
  BY DEF NotesInv, IsNote
<1>1. Without({"lost", "overtaken"})
  BY Excluded
<1>2. CASE mgmtQ' = mgmtQ
  BY <1>1, <1>2 DEF NotesInv
<1>3. CASE \E f \in Frame : f.kind \notin {"add", "delete"} /\ mgmtQ' = Append(mgmtQ, f)
  <2>1. PICK f \in Frame : f.kind \notin {"add", "delete"} /\ mgmtQ' = Append(mgmtQ, f)
    BY <1>3
  <2>2. /\ DOMAIN mgmtQ = 1 .. Len(mgmtQ) /\ Len(mgmtQ) \in Nat
        /\ DOMAIN mgmtQ' = 1 .. Len(mgmtQ) + 1 /\ mgmtQ'[Len(mgmtQ) + 1] = f
        /\ \A n \in DOMAIN mgmtQ : mgmtQ'[n] = mgmtQ[n]
    BY <2>1, Appended DEF StaTypeOK
  <2>3. \A n \in DOMAIN mgmtQ' : IsNote(mgmtQ'[n], i) => n \in DOMAIN mgmtQ /\ mgmtQ'[n] = mgmtQ[n]
    <3> SUFFICES ASSUME NEW n \in DOMAIN mgmtQ', IsNote(mgmtQ'[n], i)
                 PROVE  n \in DOMAIN mgmtQ /\ mgmtQ'[n] = mgmtQ[n]
      OBVIOUS
    <3>1. ~IsNote(f, i)
      BY <2>1 DEF IsNote
    <3>2. n # Len(mgmtQ) + 1
      BY <2>2, <3>1
    <3>3. n \in DOMAIN mgmtQ
      BY <2>2, <3>2
    <3> QED BY <2>2, <3>3
  <2>4. \A n \in DOMAIN mgmtQ : n \in DOMAIN mgmtQ' /\ mgmtQ'[n] = mgmtQ[n]
    BY <2>2
  <2> QED BY <1>1, <2>3, <2>4 DEF NotesInv
<1> QED BY <1>2, <1>3

\* ... also with one more, which finds none of its number.
LEMMA NotesMore ==
    ASSUME StaTypeOK, NotesInv, staUpset \subseteq staUpset', fwPeer' = fwPeer,
           NEW f \in Frame, f.kind \in {"add", "delete"}, mgmtQ' = <<f>> \o mgmtQ,
           Overtakes(f) => "overtaken" \in staUpset',
           PeerOf(f.id)' = (IF f.kind = "add" THEN f.sta ELSE NoSta),
           \A i \in Slots : i # f.id => PeerOf(i)' = PeerOf(i)
    PROVE  NotesInv'
<1> SUFFICES ASSUME Without({"lost", "overtaken"})', NEW i \in Slots
             PROVE  /\ \A m, n \in DOMAIN mgmtQ' : IsNote(mgmtQ'[m], i) /\ IsNote(mgmtQ'[n], i) => m = n
                    /\ \A n \in DOMAIN mgmtQ' : IsNote(mgmtQ'[n], i) =>
                         PeerOf(i)' = (IF mgmtQ'[n].kind = "add" THEN mgmtQ'[n].sta ELSE NoSta)
                    /\ (\A n \in DOMAIN mgmtQ' : ~IsNote(mgmtQ'[n], i)) => fwPeer[i] = PeerOf(i)'
  BY DEF NotesInv, IsNote
<1>1. Without({"lost", "overtaken"}) /\ ~Overtakes(f)
  BY Excluded DEF Without
<1>2. /\ DOMAIN mgmtQ = 1 .. Len(mgmtQ) /\ Len(mgmtQ) \in Nat
      /\ DOMAIN mgmtQ' = 1 .. Len(mgmtQ) + 1 /\ mgmtQ'[1] = f
      /\ \A n \in DOMAIN mgmtQ : mgmtQ'[n + 1] = mgmtQ[n]
  BY Prepended DEF StaTypeOK
<1>3. \A n \in DOMAIN mgmtQ' : n = 1 \/ (n - 1 \in DOMAIN mgmtQ /\ mgmtQ'[n] = mgmtQ[n - 1])
  <2> SUFFICES ASSUME NEW n \in DOMAIN mgmtQ', n # 1
               PROVE  n - 1 \in DOMAIN mgmtQ /\ mgmtQ'[n] = mgmtQ[n - 1]
    OBVIOUS
  <2>1. n - 1 \in DOMAIN mgmtQ /\ (n - 1) + 1 = n
    BY <1>2
  <2> QED BY <1>2, <2>1
<1>4. \A n \in DOMAIN mgmtQ : n + 1 \in DOMAIN mgmtQ' /\ mgmtQ'[n + 1] = mgmtQ[n]
  BY <1>2
<1>5. CASE i = f.id
  <2>1. \A n \in DOMAIN mgmtQ : ~IsNote(mgmtQ[n], i)
    BY <1>1, <1>5 DEF Overtakes, IsNote
  <2>2. \A n \in DOMAIN mgmtQ' : IsNote(mgmtQ'[n], i) => n = 1
    BY <1>3, <2>1
  <2>3. IsNote(mgmtQ'[1], i) /\ 1 \in DOMAIN mgmtQ'
    BY <1>2, <1>5 DEF IsNote
  <2> QED BY <1>2, <1>5, <2>2, <2>3, ZenonT(60)
<1>6. CASE i # f.id
  <2>1. \A n \in DOMAIN mgmtQ' : IsNote(mgmtQ'[n], i) => n - 1 \in DOMAIN mgmtQ /\ mgmtQ'[n] = mgmtQ[n - 1]
    BY <1>2, <1>3, <1>6 DEF IsNote
  <2>2. \A m, n \in DOMAIN mgmtQ : IsNote(mgmtQ[m], i) /\ IsNote(mgmtQ[n], i) => m = n
    BY <1>1 DEF NotesInv
  <2>3. \A m, n \in DOMAIN mgmtQ' : IsNote(mgmtQ'[m], i) /\ IsNote(mgmtQ'[n], i) => m = n
    <3> SUFFICES ASSUME NEW m \in DOMAIN mgmtQ', NEW n \in DOMAIN mgmtQ',
                        IsNote(mgmtQ'[m], i), IsNote(mgmtQ'[n], i)
                 PROVE  m = n
      OBVIOUS
    <3>1. m - 1 = n - 1
      BY <2>1, <2>2
    <3> QED BY <1>2, <3>1
  <2>4. \A n \in DOMAIN mgmtQ' : IsNote(mgmtQ'[n], i) =>
             PeerOf(i) = (IF mgmtQ'[n].kind = "add" THEN mgmtQ'[n].sta ELSE NoSta)
    BY <1>1, <2>1 DEF NotesInv
  <2>5. (\A n \in DOMAIN mgmtQ' : ~IsNote(mgmtQ'[n], i)) => fwPeer[i] = PeerOf(i)
    <3>1. (\A n \in DOMAIN mgmtQ' : ~IsNote(mgmtQ'[n], i)) => (\A n \in DOMAIN mgmtQ : ~IsNote(mgmtQ[n], i))
      BY <1>4
    <3> QED BY <1>1, <3>1 DEF NotesInv
  <2>6. PeerOf(i)' = PeerOf(i)
    BY <1>6
  <2> QED BY <2>3, <2>4, <2>5, <2>6
<1> QED BY <1>5, <1>6

-----------------------------------------------------------------------------
LEMMA FramesTyped ==
    ASSUME StaTableAssumption, NEW i \in Slots \cup {Own}, NEW s \in Stas, NEW t \in Tids
    PROVE  /\ \A kind \in {"add", "delete"} :
                /\ Notify(kind, i, s) \in Frame /\ Notify(kind, i, s).kind = kind
                /\ Notify(kind, i, s).id = StaId(i) /\ Notify(kind, i, s).sta = s
           /\ LoadKey(i, s) \in Frame /\ LoadKey(i, s).kind = "key"
           /\ LoadKey(i, s).id = StaId(i) /\ LoadKey(i, s).sta = s
           /\ \A start \in Tids \cup {NoTid} :
                /\ Aggr(t, start) \in Frame /\ Aggr(t, start).kind = "ba"
                /\ Aggr(t, start).tid = t /\ Aggr(t, start).start = start
<1>1. StaId(i) \in Slots
  BY NumbersTyped
<1>2. ASSUME NEW kind \in {"add", "delete"}
      PROVE  /\ Notify(kind, i, s) \in Frame /\ Notify(kind, i, s).kind = kind
             /\ Notify(kind, i, s).id = StaId(i) /\ Notify(kind, i, s).sta = s
  BY <1>1 DEF Notify, Frame
<1>3. /\ LoadKey(i, s) \in Frame /\ LoadKey(i, s).kind = "key"
      /\ LoadKey(i, s).id = StaId(i) /\ LoadKey(i, s).sta = s
  BY <1>1 DEF LoadKey, Frame
<1>4. ASSUME NEW start \in Tids \cup {NoTid}
      PROVE  /\ Aggr(t, start) \in Frame /\ Aggr(t, start).kind = "ba"
             /\ Aggr(t, start).tid = t /\ Aggr(t, start).start = start
  BY DEF Aggr, Frame
<1> QED BY <1>2, <1>3, <1>4

\* A frame more, which is no key of the number, does not change the last key of it.
LEMMA KeyStays ==
    ASSUME StaTypeOK, NEW i, NEW s, HasKey(i, s), fwKey' = fwKey,
           \/ mgmtQ' = mgmtQ
           \/ \E f \in Frame : /\ ~IsKey(f, i)
                               /\ mgmtQ' = <<f>> \o mgmtQ \/ mgmtQ' = Append(mgmtQ, f)
    PROVE  HasKey(i, s)'
<1>1. CASE mgmtQ' = mgmtQ
  BY <1>1 DEF HasKey, IsKey
<1>2. ASSUME NEW f \in Frame, ~IsKey(f, i), mgmtQ' = <<f>> \o mgmtQ
      PROVE  HasKey(i, s)'
  <2>1. /\ DOMAIN mgmtQ = 1 .. Len(mgmtQ) /\ Len(mgmtQ) \in Nat
        /\ DOMAIN mgmtQ' = 1 .. Len(mgmtQ) + 1 /\ mgmtQ'[1] = f
        /\ \A n \in DOMAIN mgmtQ : mgmtQ'[n + 1] = mgmtQ[n]
    BY <1>2, Prepended DEF StaTypeOK
  <2>2. \A m \in DOMAIN mgmtQ' : IsKey(mgmtQ'[m], i) =>
             m \in Int /\ m - 1 \in DOMAIN mgmtQ /\ mgmtQ'[m] = mgmtQ[m - 1]
    <3> SUFFICES ASSUME NEW m \in DOMAIN mgmtQ', IsKey(mgmtQ'[m], i)
                 PROVE  m \in Int /\ m - 1 \in DOMAIN mgmtQ /\ mgmtQ'[m] = mgmtQ[m - 1]
      OBVIOUS
    <3>1. m # 1
      BY <1>2, <2>1
    <3>2. m \in Int /\ m - 1 \in DOMAIN mgmtQ /\ (m - 1) + 1 = m
      BY <2>1, <3>1
    <3> QED BY <2>1, <3>2
  <2>3. CASE \E n \in DOMAIN mgmtQ : /\ IsKey(mgmtQ[n], i) /\ mgmtQ[n].sta = s
                                     /\ \A m \in DOMAIN mgmtQ : m > n => ~IsKey(mgmtQ[m], i)
    <3>1. PICK n \in DOMAIN mgmtQ : /\ IsKey(mgmtQ[n], i) /\ mgmtQ[n].sta = s
                                    /\ \A m \in DOMAIN mgmtQ : m > n => ~IsKey(mgmtQ[m], i)
      BY <2>3
    <3>2. n + 1 \in DOMAIN mgmtQ' /\ mgmtQ'[n + 1] = mgmtQ[n] /\ n \in Nat
      BY <2>1
    <3>3. ASSUME NEW m \in DOMAIN mgmtQ', m > n + 1 PROVE ~IsKey(mgmtQ'[m], i)
      <4> SUFFICES ASSUME IsKey(mgmtQ'[m], i) PROVE FALSE
        OBVIOUS
      <4>1. m \in Int /\ m - 1 \in DOMAIN mgmtQ /\ IsKey(mgmtQ[m - 1], i)
        BY <2>2
      <4>2. m - 1 > n
        BY <3>2, <3>3, <4>1
      <4> QED BY <3>1, <4>1, <4>2
    <3>4. IsKey(mgmtQ'[n + 1], i) /\ mgmtQ'[n + 1].sta = s
      BY <3>1, <3>2
    <3> QED BY <3>2, <3>3, <3>4 DEF HasKey, IsKey
  <2>4. CASE (\A m \in DOMAIN mgmtQ : ~IsKey(mgmtQ[m], i)) /\ fwKey[i] = s
    <3>1. \A m \in DOMAIN mgmtQ' : ~IsKey(mgmtQ'[m], i)
      BY <2>2, <2>4
    <3> QED BY <2>4, <3>1 DEF HasKey, IsKey
  <2> QED BY <2>3, <2>4 DEF HasKey
<1>3. ASSUME NEW f \in Frame, ~IsKey(f, i), mgmtQ' = Append(mgmtQ, f)
      PROVE  HasKey(i, s)'
  <2>1. /\ DOMAIN mgmtQ = 1 .. Len(mgmtQ) /\ Len(mgmtQ) \in Nat
        /\ DOMAIN mgmtQ' = 1 .. Len(mgmtQ) + 1 /\ mgmtQ'[Len(mgmtQ) + 1] = f
        /\ \A n \in DOMAIN mgmtQ : mgmtQ'[n] = mgmtQ[n]
    BY <1>3, Appended DEF StaTypeOK
  <2>2. \A m \in DOMAIN mgmtQ' : IsKey(mgmtQ'[m], i) => m \in DOMAIN mgmtQ /\ mgmtQ'[m] = mgmtQ[m]
    <3> SUFFICES ASSUME NEW m \in DOMAIN mgmtQ', IsKey(mgmtQ'[m], i)
                 PROVE  m \in DOMAIN mgmtQ /\ mgmtQ'[m] = mgmtQ[m]
      OBVIOUS
    <3>1. m # Len(mgmtQ) + 1
      BY <1>3, <2>1
    <3>2. m \in DOMAIN mgmtQ
      BY <2>1, <3>1
    <3> QED BY <2>1, <3>2
  <2>3. \A n \in DOMAIN mgmtQ : n \in DOMAIN mgmtQ' /\ mgmtQ'[n] = mgmtQ[n]
    BY <2>1
  <2>4. CASE \E n \in DOMAIN mgmtQ : /\ IsKey(mgmtQ[n], i) /\ mgmtQ[n].sta = s
                                     /\ \A m \in DOMAIN mgmtQ : m > n => ~IsKey(mgmtQ[m], i)
    <3>1. PICK n \in DOMAIN mgmtQ : /\ IsKey(mgmtQ[n], i) /\ mgmtQ[n].sta = s
                                    /\ \A m \in DOMAIN mgmtQ : m > n => ~IsKey(mgmtQ[m], i)
      BY <2>4
    <3>2. n \in DOMAIN mgmtQ' /\ IsKey(mgmtQ'[n], i) /\ mgmtQ'[n].sta = s
      BY <2>3, <3>1
    <3>3. \A m \in DOMAIN mgmtQ' : m > n => ~IsKey(mgmtQ'[m], i)
      BY <2>2, <3>1
    <3> QED BY <3>2, <3>3 DEF HasKey, IsKey
  <2>5. CASE (\A m \in DOMAIN mgmtQ : ~IsKey(mgmtQ[m], i)) /\ fwKey[i] = s
    <3>1. \A m \in DOMAIN mgmtQ' : ~IsKey(mgmtQ'[m], i)
      BY <2>2, <2>5
    <3> QED BY <2>5, <3>1 DEF HasKey, IsKey
  <2> QED BY <2>4, <2>5 DEF HasKey
<1> QED BY <1>1, <1>2, <1>3

\* A key at the end of the queue is the last one.
LEMMA KeyMore ==
    ASSUME StaTypeOK, NEW i, NEW s, NEW f \in Frame, f.kind = "key", f.id = i, f.sta = s,
           mgmtQ' = Append(mgmtQ, f)
    PROVE  HasKey(i, s)'
<1>1. /\ DOMAIN mgmtQ = 1 .. Len(mgmtQ) /\ Len(mgmtQ) \in Nat
      /\ DOMAIN mgmtQ' = 1 .. Len(mgmtQ) + 1 /\ mgmtQ'[Len(mgmtQ) + 1] = f
  BY Appended DEF StaTypeOK
<1>2. Len(mgmtQ) + 1 \in DOMAIN mgmtQ'
  BY <1>1
<1>3. IsKey(mgmtQ'[Len(mgmtQ) + 1], i) /\ mgmtQ'[Len(mgmtQ) + 1].sta = s
  BY <1>1 DEF IsKey
<1>4. \A m \in DOMAIN mgmtQ' : ~(m > Len(mgmtQ) + 1)
  BY <1>1
<1> QED BY <1>2, <1>3, <1>4 DEF HasKey, IsKey

\* The starting numbers the device has and gets.
LEMMA StartsKept ==
    ASSUME StaTypeOK, StartsAsAgreed, staUpset \subseteq staUpset', fwStart' = fwStart,
           \/ mgmtQ' = mgmtQ
           \/ \E f \in Frame : /\ Without({"two_starts"}) /\ f.kind = "ba" => f.start \in {f.tid, NoTid}
                               /\ mgmtQ' = <<f>> \o mgmtQ \/ mgmtQ' = Append(mgmtQ, f)
    PROVE  StartsAsAgreed'
<1> SUFFICES ASSUME Without({"two_starts"})'
             PROVE  /\ \A t \in Tids : fwStart[t] \in {t, NoTid}
                    /\ \A n \in DOMAIN mgmtQ' : mgmtQ'[n].kind = "ba" => mgmtQ'[n].start \in {mgmtQ'[n].tid, NoTid}
  BY DEF StartsAsAgreed
<1>1. Without({"two_starts"})
  BY Excluded
<1>2. /\ \A t \in Tids : fwStart[t] \in {t, NoTid}
      /\ \A n \in DOMAIN mgmtQ : mgmtQ[n].kind = "ba" => mgmtQ[n].start \in {mgmtQ[n].tid, NoTid}
  BY <1>1 DEF StartsAsAgreed
<1>3. CASE mgmtQ' = mgmtQ
  BY <1>2, <1>3
<1>4. ASSUME NEW f \in Frame, f.kind = "ba" => f.start \in {f.tid, NoTid}, mgmtQ' = <<f>> \o mgmtQ,
             NEW n \in DOMAIN mgmtQ', mgmtQ'[n].kind = "ba"
      PROVE  mgmtQ'[n].start \in {mgmtQ'[n].tid, NoTid}
  <2>1. /\ DOMAIN mgmtQ = 1 .. Len(mgmtQ) /\ Len(mgmtQ) \in Nat
        /\ DOMAIN mgmtQ' = 1 .. Len(mgmtQ) + 1 /\ mgmtQ'[1] = f
        /\ \A k \in DOMAIN mgmtQ : mgmtQ'[k + 1] = mgmtQ[k]
    BY <1>4, Prepended DEF StaTypeOK
  <2>2. CASE n = 1
    BY <1>4, <2>1, <2>2
  <2>3. CASE n # 1
    <3>1. n - 1 \in DOMAIN mgmtQ /\ (n - 1) + 1 = n
      BY <2>1, <2>3
    <3>2. mgmtQ'[n] = mgmtQ[n - 1]
      BY <2>1, <3>1
    <3> QED BY <1>2, <1>4, <3>1, <3>2
  <2> QED BY <2>2, <2>3
<1>5. ASSUME NEW f \in Frame, f.kind = "ba" => f.start \in {f.tid, NoTid}, mgmtQ' = Append(mgmtQ, f),
             NEW n \in DOMAIN mgmtQ', mgmtQ'[n].kind = "ba"
      PROVE  mgmtQ'[n].start \in {mgmtQ'[n].tid, NoTid}
  <2>1. /\ DOMAIN mgmtQ = 1 .. Len(mgmtQ) /\ Len(mgmtQ) \in Nat
        /\ DOMAIN mgmtQ' = 1 .. Len(mgmtQ) + 1 /\ mgmtQ'[Len(mgmtQ) + 1] = f
        /\ \A k \in DOMAIN mgmtQ : mgmtQ'[k] = mgmtQ[k]
    BY <1>5, Appended DEF StaTypeOK
  <2>2. CASE n = Len(mgmtQ) + 1
    BY <1>5, <2>1, <2>2
  <2>3. CASE n # Len(mgmtQ) + 1
    <3>1. n \in DOMAIN mgmtQ
      BY <2>1, <2>3
    <3> QED BY <1>2, <1>5, <2>1, <3>1
  <2> QED BY <2>2, <2>3
<1> QED BY <1>1, <1>2, <1>3, <1>4, <1>5

-----------------------------------------------------------------------------
LEMMA FrameSays ==
    ASSUME NEW f \in Frame
    PROVE  /\ f.kind \in {"add", "delete", "key", "ba"}
           /\ f.kind # "ba" => f.id \in Slots /\ f.sta \in Stas
           /\ f.kind = "ba" => f.tid \in Tids /\ f.start \in Tids \cup {NoTid}
BY DEF Frame

\* The first frame leaves the queue and takes effect in the device.
LEMMA DeliverSays ==
    ASSUME StaTypeOK, DeliverFrame
    PROVE  \E f \in Frame :
             /\ mgmtQ' \in Seq(Frame) /\ DOMAIN mgmtQ = 1 .. Len(mgmtQ) /\ Len(mgmtQ) \in Nat \ {0}
             /\ mgmtQ[1] = f /\ DOMAIN mgmtQ' = 1 .. Len(mgmtQ) - 1
             /\ \A n \in DOMAIN mgmtQ' : mgmtQ'[n] = mgmtQ[n + 1]
             /\ f.kind = "add" => fwPeer' = [fwPeer EXCEPT ![f.id] = f.sta]
             /\ f.kind = "delete" => fwPeer' = [fwPeer EXCEPT ![f.id] = NoSta]
             /\ f.kind \notin {"add", "delete"} => fwPeer' = fwPeer
             /\ fwKey' = IF f.kind = "key" THEN [fwKey EXCEPT ![f.id] = f.sta] ELSE fwKey
             /\ fwStart' = IF f.kind = "ba" THEN [fwStart EXCEPT ![f.tid] = f.start] ELSE fwStart
<1>1. mgmtQ \in Seq(Frame) /\ mgmtQ # << >> /\ mgmtQ' = Tail(mgmtQ)
  BY DEF StaTypeOK, DeliverFrame
<1>2. /\ mgmtQ' \in Seq(Frame) /\ DOMAIN mgmtQ = 1 .. Len(mgmtQ) /\ Len(mgmtQ) \in Nat \ {0}
      /\ DOMAIN mgmtQ' = 1 .. Len(mgmtQ) - 1 /\ Head(mgmtQ) = mgmtQ[1] /\ mgmtQ[1] \in Frame
      /\ \A n \in DOMAIN mgmtQ' : mgmtQ'[n] = mgmtQ[n + 1]
  BY <1>1, FirstGone
<1> DEFINE f == mgmtQ[1]
<1>3. /\ fwPeer' = CASE f.kind = "add"    -> [fwPeer EXCEPT ![f.id] = f.sta]
                     [] f.kind = "delete" -> [fwPeer EXCEPT ![f.id] = NoSta]
                     [] OTHER             -> fwPeer
      /\ fwKey' = IF f.kind = "key" THEN [fwKey EXCEPT ![f.id] = f.sta] ELSE fwKey
      /\ fwStart' = IF f.kind = "ba" THEN [fwStart EXCEPT ![f.tid] = f.start] ELSE fwStart
  BY <1>2 DEF DeliverFrame
<1>4. /\ f.kind = "add" => fwPeer' = [fwPeer EXCEPT ![f.id] = f.sta]
      /\ f.kind = "delete" => fwPeer' = [fwPeer EXCEPT ![f.id] = NoSta]
      /\ f.kind \notin {"add", "delete"} => fwPeer' = fwPeer
  BY <1>3
<1>5. f \in Frame
  BY <1>2
<1>6. /\ mgmtQ[1] = f /\ mgmtQ' \in Seq(Frame)
      /\ DOMAIN mgmtQ = 1 .. Len(mgmtQ) /\ Len(mgmtQ) \in Nat \ {0}
      /\ DOMAIN mgmtQ' = 1 .. Len(mgmtQ) - 1
      /\ \A n \in DOMAIN mgmtQ' : mgmtQ'[n] = mgmtQ[n + 1]
  BY <1>2
<1> HIDE DEF f
<1> QED BY <1>3, <1>4, <1>5, <1>6

LEMMA DeliverKeeps ==
    ASSUME StaTableAssumption, StaIInv, DeliverFrame
    PROVE  StaIInv'
<1>1. PICK f \in Frame :
             /\ mgmtQ' \in Seq(Frame) /\ DOMAIN mgmtQ = 1 .. Len(mgmtQ) /\ Len(mgmtQ) \in Nat \ {0}
             /\ mgmtQ[1] = f /\ DOMAIN mgmtQ' = 1 .. Len(mgmtQ) - 1
             /\ \A n \in DOMAIN mgmtQ' : mgmtQ'[n] = mgmtQ[n + 1]
             /\ f.kind = "add" => fwPeer' = [fwPeer EXCEPT ![f.id] = f.sta]
             /\ f.kind = "delete" => fwPeer' = [fwPeer EXCEPT ![f.id] = NoSta]
             /\ f.kind \notin {"add", "delete"} => fwPeer' = fwPeer
             /\ fwKey' = IF f.kind = "key" THEN [fwKey EXCEPT ![f.id] = f.sta] ELSE fwKey
             /\ fwStart' = IF f.kind = "ba" THEN [fwStart EXCEPT ![f.tid] = f.start] ELSE fwStart
  BY DeliverSays DEF StaIInv
<1>2. /\ f.kind \in {"add", "delete", "key", "ba"}
      /\ f.kind # "ba" => f.id \in Slots /\ f.sta \in Stas
      /\ f.kind = "ba" => f.tid \in Tids /\ f.start \in Tids \cup {NoTid}
  BY FrameSays
<1>3. UNCHANGED <<role, uploaded, linked, keyed, session, stations, num_stations, start_tx_aggr,
                  seq_start, staUpset>>
  BY DEF DeliverFrame, macVars, tableVars
<1>4. /\ fwPeer \in [Slots -> Peers] /\ fwKey \in [Slots -> Peers]
      /\ fwStart \in [Tids -> Tids \union {NoTid}]
  BY DEF StaIInv, StaTypeOK
<1>5. fwPeer' \in [Slots -> Peers]
  BY <1>1, <1>2, <1>4 DEF Peers
<1>6. fwKey' \in [Slots -> Peers]
  BY <1>1, <1>2, <1>4 DEF Peers
<1>7. fwStart' \in [Tids -> Tids \union {NoTid}]
  BY <1>1, <1>2, <1>4
<1>8. StaTypeOK'
  BY <1>1, <1>3, <1>5, <1>6, <1>7 DEF StaIInv, StaTypeOK
<1>9. TableInv' /\ OfPeers' /\ OneStart' /\ MayAggregateAgain'
  <2>1. TableInv'
    BY <1>3 DEF StaIInv, TableInv, Taken, Without
  <2>2. OfPeers'
    BY <1>3 DEF StaIInv, OfPeers
  <2>3. OneStart'
    BY <1>3 DEF StaIInv, OneStart, Without, Entry, SlotOf
  <2>4. MayAggregateAgain'
    BY <1>3 DEF StaIInv, MayAggregateAgain, Without, Entry, SlotOf
  <2> QED BY <2>1, <2>2, <2>3, <2>4
<1>10. \A m \in DOMAIN mgmtQ : m = 1 \/ (m - 1 \in DOMAIN mgmtQ' /\ mgmtQ'[m - 1] = mgmtQ[m])
  <2> SUFFICES ASSUME NEW m \in DOMAIN mgmtQ, m # 1
               PROVE  m - 1 \in DOMAIN mgmtQ' /\ mgmtQ'[m - 1] = mgmtQ[m]
    OBVIOUS
  <2>1. m - 1 \in DOMAIN mgmtQ' /\ (m - 1) + 1 = m
    BY <1>1
  <2> QED BY <1>1, <2>1
<1>11. \A m \in DOMAIN mgmtQ' : m + 1 \in DOMAIN mgmtQ /\ m \in Nat \ {0} /\ mgmtQ'[m] = mgmtQ[m + 1]
  BY <1>1
<1>12. 1 \in DOMAIN mgmtQ
  BY <1>1
<1>13. NotesInv'
  <2> SUFFICES ASSUME Without({"lost", "overtaken"})', NEW i \in Slots
               PROVE  /\ \A m, n \in DOMAIN mgmtQ' : IsNote(mgmtQ'[m], i) /\ IsNote(mgmtQ'[n], i) => m = n
                      /\ \A n \in DOMAIN mgmtQ' : IsNote(mgmtQ'[n], i) =>
                           PeerOf(i)' = (IF mgmtQ'[n].kind = "add" THEN mgmtQ'[n].sta ELSE NoSta)
                      /\ (\A n \in DOMAIN mgmtQ' : ~IsNote(mgmtQ'[n], i)) => fwPeer'[i] = PeerOf(i)'
    BY DEF NotesInv, IsNote
  <2>1. PeerOf(i)' = PeerOf(i)
    BY <1>3 DEF PeerOf
  <2>2. /\ \A m, n \in DOMAIN mgmtQ : IsNote(mgmtQ[m], i) /\ IsNote(mgmtQ[n], i) => m = n
        /\ \A n \in DOMAIN mgmtQ : IsNote(mgmtQ[n], i) =>
             PeerOf(i) = (IF mgmtQ[n].kind = "add" THEN mgmtQ[n].sta ELSE NoSta)
        /\ (\A n \in DOMAIN mgmtQ : ~IsNote(mgmtQ[n], i)) => fwPeer[i] = PeerOf(i)
    BY <1>3 DEF StaIInv, NotesInv, Without
  <2>3. \A m, n \in DOMAIN mgmtQ' : IsNote(mgmtQ'[m], i) /\ IsNote(mgmtQ'[n], i) => m = n
    <3> SUFFICES ASSUME NEW m \in DOMAIN mgmtQ', NEW n \in DOMAIN mgmtQ',
                        IsNote(mgmtQ'[m], i), IsNote(mgmtQ'[n], i)
                 PROVE  m = n
      OBVIOUS
    <3>1. m + 1 = n + 1
      BY <1>11, <2>2
    <3> QED BY <1>11, <3>1
  <2>4. \A n \in DOMAIN mgmtQ' : IsNote(mgmtQ'[n], i) =>
           PeerOf(i) = (IF mgmtQ'[n].kind = "add" THEN mgmtQ'[n].sta ELSE NoSta)
    BY <1>11, <2>2
  <2>5. ASSUME \A n \in DOMAIN mgmtQ' : ~IsNote(mgmtQ'[n], i)
        PROVE  fwPeer'[i] = PeerOf(i)
    <3>1. CASE IsNote(f, i)
      <4>1. PeerOf(i) = (IF f.kind = "add" THEN f.sta ELSE NoSta)
        BY <1>1, <1>12, <2>2, <3>1
      <4>2. f.kind \in {"add", "delete"} /\ f.id = i
        BY <3>1 DEF IsNote
      <4> QED BY <1>1, <1>4, <4>1, <4>2
    <3>2. CASE ~IsNote(f, i)
      <4>1. \A n \in DOMAIN mgmtQ : ~IsNote(mgmtQ[n], i)
        BY <1>1, <1>10, <2>5, <3>2
      <4>2. fwPeer[i] = PeerOf(i)
        BY <2>2, <4>1
      <4>3. fwPeer'[i] = fwPeer[i]
        BY <1>1, <1>2, <1>4, <3>2 DEF IsNote
      <4> QED BY <4>2, <4>3
    <3> QED BY <3>1, <3>2
  <2> QED BY <2>1, <2>3, <2>4, <2>5
<1>14. KeysInv'
  <2>1. ASSUME NEW i \in Slots, NEW s \in Stas, HasKey(i, s) PROVE HasKey(i, s)'
    <3>1. CASE \E n \in DOMAIN mgmtQ : /\ IsKey(mgmtQ[n], i) /\ mgmtQ[n].sta = s
                                       /\ \A m \in DOMAIN mgmtQ : m > n => ~IsKey(mgmtQ[m], i)
      <4>1. PICK n \in DOMAIN mgmtQ : /\ IsKey(mgmtQ[n], i) /\ mgmtQ[n].sta = s
                                      /\ \A m \in DOMAIN mgmtQ : m > n => ~IsKey(mgmtQ[m], i)
        BY <3>1
      <4>2. CASE n = 1
        <5>1. \A m \in DOMAIN mgmtQ' : ~IsKey(mgmtQ'[m], i)
          <6> SUFFICES ASSUME NEW m \in DOMAIN mgmtQ' PROVE ~IsKey(mgmtQ'[m], i)
            OBVIOUS
          <6>1. m + 1 \in DOMAIN mgmtQ /\ m + 1 > n /\ mgmtQ'[m] = mgmtQ[m + 1]
            BY <1>11, <4>2
          <6> QED BY <4>1, <6>1
        <5>2. f.kind = "key" /\ f.id = i /\ f.sta = s
          BY <1>1, <4>1, <4>2 DEF IsKey
        <5>3. fwKey'[i] = s
          BY <1>1, <1>4, <5>2
        <5> QED BY <5>1, <5>3 DEF HasKey, IsKey
      <4>3. CASE n # 1
        <5>1. n - 1 \in DOMAIN mgmtQ' /\ mgmtQ'[n - 1] = mgmtQ[n] /\ n \in Int
          BY <1>1, <1>10, <4>3
        <5>2. \A m \in DOMAIN mgmtQ' : m > n - 1 => ~IsKey(mgmtQ'[m], i)
          <6> SUFFICES ASSUME NEW m \in DOMAIN mgmtQ', m > n - 1 PROVE ~IsKey(mgmtQ'[m], i)
            OBVIOUS
          <6>1. m + 1 \in DOMAIN mgmtQ /\ m + 1 > n /\ mgmtQ'[m] = mgmtQ[m + 1]
            BY <1>11, <5>1
          <6> QED BY <4>1, <6>1
        <5>3. IsKey(mgmtQ'[n - 1], i) /\ mgmtQ'[n - 1].sta = s
          BY <4>1, <5>1
        <5> QED BY <5>1, <5>2, <5>3 DEF HasKey, IsKey
      <4> QED BY <4>2, <4>3
    <3>2. CASE (\A m \in DOMAIN mgmtQ : ~IsKey(mgmtQ[m], i)) /\ fwKey[i] = s
      <4>1. \A m \in DOMAIN mgmtQ' : ~IsKey(mgmtQ'[m], i)
        BY <1>11, <3>2
      <4>2. ~(f.kind = "key" /\ f.id = i)
        BY <1>1, <1>12, <3>2 DEF IsKey
      <4>3. fwKey'[i] = s
        BY <1>1, <1>2, <1>4, <3>2, <4>2
      <4> QED BY <4>1, <4>3 DEF HasKey, IsKey
    <3> QED BY <2>1, <3>1, <3>2 DEF HasKey
  <2> SUFFICES ASSUME Without({"lost"})', NEW s \in keyed'
               PROVE  HasKey(StaId(Entry(s)), s)'
    BY DEF KeysInv
  <2>2. s \in uploaded /\ s \in Stas
    BY <1>3 DEF StaIInv, OfPeers, StaTypeOK
  <2>3. PICK i \in Slots : i = StaId(Entry(s))
    BY <2>2, EntrySays DEF StaIInv
  <2>4. HasKey(i, s)
    BY <1>3, <2>3 DEF StaIInv, KeysInv, Without
  <2>5. StaId(Entry(s))' = i
    BY <1>3, <2>3 DEF StaId, Entry, SlotOf
  <2> QED BY <2>1, <2>2, <2>4, <2>5 DEF HasKey, IsKey
<1>15. StartsAsAgreed'
  <2> SUFFICES ASSUME Without({"two_starts"})'
               PROVE  /\ \A t \in Tids : fwStart'[t] \in {t, NoTid}
                      /\ \A n \in DOMAIN mgmtQ' : mgmtQ'[n].kind = "ba" => mgmtQ'[n].start \in {mgmtQ'[n].tid, NoTid}
    BY DEF StartsAsAgreed
  <2>1. /\ \A t \in Tids : fwStart[t] \in {t, NoTid}
        /\ \A n \in DOMAIN mgmtQ : mgmtQ[n].kind = "ba" => mgmtQ[n].start \in {mgmtQ[n].tid, NoTid}
    BY <1>3 DEF StaIInv, StartsAsAgreed, Without
  <2>2. f.kind = "ba" => f.start \in {f.tid, NoTid}
    BY <1>1, <1>12, <2>1
  <2>3. \A t \in Tids : fwStart'[t] \in {t, NoTid}
    BY <1>1, <1>2, <1>4, <2>1, <2>2
  <2>4. \A n \in DOMAIN mgmtQ' : mgmtQ'[n].kind = "ba" => mgmtQ'[n].start \in {mgmtQ'[n].tid, NoTid}
    BY <1>11, <2>1
  <2> QED BY <2>3, <2>4
<1> QED BY <1>8, <1>9, <1>13, <1>14, <1>15 DEF StaIInv

-----------------------------------------------------------------------------
\* A step that leaves the peers where they are.
LEMMA PeersStay ==
    ASSUME TableInv, UNCHANGED <<role, uploaded, linked, stations, num_stations>>,
           staUpset \subseteq staUpset'
    PROVE  /\ TableInv'
           /\ \A s \in Stas : Entry(s)' = Entry(s)
           /\ \A s \in Stas : StaId(Entry(s))' = StaId(Entry(s))
           /\ \A i \in Slots : PeerOf(i)' = PeerOf(i)
<1>1. TableInv'
  BY DEF TableInv, Taken, Without
<1>2. \A s \in Stas : Entry(s)' = Entry(s)
  BY DEF Entry, SlotOf
<1>3. \A s \in Stas : StaId(Entry(s))' = StaId(Entry(s))
  BY DEF Entry, SlotOf, StaId
<1>4. \A i \in Slots : PeerOf(i)' = PeerOf(i)
  BY DEF PeerOf
<1> QED BY <1>1, <1>2, <1>3, <1>4

\* Two peers do not share an entry.
LEMMA EntryOne ==
    ASSUME StaTableAssumption, StaTypeOK, TableInv, NEW s \in uploaded, NEW r \in uploaded,
           Entry(s) = Entry(r)
    PROVE  s = r
<1>1. CASE role = "AP"
  BY <1>1, EntrySays
<1>2. CASE role = "STATION"
  BY <1>2 DEF TableInv
<1> QED BY <1>1, <1>2 DEF StaTypeOK

\* The keys, while no key joins the queue.
LEMMA KeysKept ==
    ASSUME StaTableAssumption, StaTypeOK, TableInv, OfPeers, KeysInv,
           staUpset \subseteq staUpset', fwKey' = fwKey, keyed' \subseteq keyed,
           \A s \in keyed' : StaId(Entry(s))' = StaId(Entry(s)),
           \/ mgmtQ' = mgmtQ
           \/ \E f \in Frame : f.kind # "key" /\ (mgmtQ' = <<f>> \o mgmtQ \/ mgmtQ' = Append(mgmtQ, f))
    PROVE  KeysInv'
<1> SUFFICES ASSUME Without({"lost"})', NEW s \in keyed'
             PROVE  HasKey(StaId(Entry(s)), s)'
  BY DEF KeysInv
<1>1. Without({"lost"}) /\ s \in keyed /\ s \in uploaded
  BY Excluded DEF OfPeers
<1>2. PICK i \in Slots : i = StaId(Entry(s))
  BY <1>1, EntrySays
<1>3. HasKey(i, s)
  BY <1>1, <1>2 DEF KeysInv
<1>4. \/ mgmtQ' = mgmtQ
      \/ \E f \in Frame : /\ ~IsKey(f, i)
                          /\ mgmtQ' = <<f>> \o mgmtQ \/ mgmtQ' = Append(mgmtQ, f)
  BY DEF IsKey
<1>5. HasKey(i, s)'
  BY <1>3, <1>4, KeyStays
<1>6. StaId(Entry(s))' = i
  BY <1>2
<1> QED BY <1>5, <1>6 DEF HasKey

\* The keys, when one is loaded.
LEMMA KeysMore ==
    ASSUME StaTableAssumption, StaTypeOK, TableInv, OfPeers, KeysInv,
           staUpset \subseteq staUpset', fwKey' = fwKey, NEW r \in uploaded,
           keyed' \subseteq keyed \cup {r}, UNCHANGED <<role, uploaded, linked, stations, num_stations>>,
           mgmtQ' = Append(mgmtQ, LoadKey(Entry(r), r))
    PROVE  KeysInv'
<1> SUFFICES ASSUME Without({"lost"})', NEW s \in keyed'
             PROVE  HasKey(StaId(Entry(s)), s)'
  BY DEF KeysInv
<1>1. Without({"lost"}) /\ s \in uploaded /\ s \in Stas /\ r \in Stas
  BY Excluded DEF OfPeers, StaTypeOK
<1>2. PICK i \in Slots : i = StaId(Entry(s))
  BY <1>1, EntrySays
<1>3. StaId(Entry(s))' = i
  BY <1>1, <1>2, PeersStay
<1>4. Entry(r) \in Slots \cup {Own} /\ StaId(Entry(r)) \in Slots
  BY EntrySays
<1>5. PICK f \in Frame : f = LoadKey(Entry(r), r)
  <2>1. LoadKey(Entry(r), r) \in Frame
    BY <1>4 DEF LoadKey, Frame, StaTypeOK
  <2> QED BY <2>1
<1>6. f.kind = "key" /\ f.id = StaId(Entry(r)) /\ f.sta = r /\ mgmtQ' = Append(mgmtQ, f)
  BY <1>5 DEF LoadKey
<1>7. CASE s = r
  BY <1>2, <1>3, <1>6, <1>7, KeyMore DEF HasKey
<1>8. CASE s # r
  <2>1. s \in keyed
    BY <1>8
  <2>2. HasKey(i, s)
    BY <1>1, <1>2, <2>1 DEF KeysInv
  <2>3. StaId(Entry(r)) # i
    <3>1. CASE role = "AP"
      <4>1. Entry(r) \in Slots /\ Entry(s) \in Slots /\ Entry(r) # Entry(s)
        BY <1>1, <1>8, <3>1, EntrySays, EntryOne
      <4> QED BY <1>2, <4>1, NumbersTyped
    <3>2. CASE role = "STATION"
      BY <1>1, <1>8, <3>2 DEF TableInv
    <3> QED BY <3>1, <3>2 DEF StaTypeOK
  <2>4. ~IsKey(f, i)
    BY <1>6, <2>3 DEF IsKey
  <2>5. HasKey(i, s)'
    BY <1>6, <2>2, <2>4, KeyStays
  <2> QED BY <1>3, <2>5 DEF HasKey
<1> QED BY <1>7, <1>8

-----------------------------------------------------------------------------
LEMMA SetKeyKeeps ==
    ASSUME StaTableAssumption, StaIInv, NEW s \in Stas, SetKey(s) \/ DisableKey(s)
    PROVE  StaIInv'
<1>1. /\ StaTypeOK /\ TableInv /\ OfPeers /\ NotesInv /\ KeysInv
      /\ OneStart /\ StartsAsAgreed /\ MayAggregateAgain
  BY DEF StaIInv
<1>2. PICK ok \in BOOLEAN :
        /\ s \in uploaded
        /\ \/ keyed' = IF ok THEN keyed \union {s} ELSE keyed
           \/ keyed' = keyed \ {s}
        /\ Sent(LoadKey(Entry(s), s), ok, {})
        /\ UNCHANGED <<role, uploaded, linked, session, tableVars, deviceVars>>
  BY <1>1, LossyTyped DEF SetKey, DisableKey, KeyPeer, OfPeers
<1>3. UNCHANGED <<role, uploaded, linked, session, stations, num_stations, start_tx_aggr,
                  seq_start, fwPeer, fwKey, fwStart>>
  BY <1>2 DEF tableVars, deviceVars
<1>4. PICK f \in Frame : f = LoadKey(Entry(s), s)
  <2>1. Entry(s) \in Slots \cup {Own} /\ StaId(Entry(s)) \in Slots
    BY <1>1, <1>2, EntrySays
  <2>2. LoadKey(Entry(s), s) \in Frame
    BY <2>1 DEF LoadKey, Frame
  <2> QED BY <2>2
<1>5. f.kind = "key"
  BY <1>4 DEF LoadKey
<1>6. /\ staUpset \subseteq staUpset' /\ staUpset' \subseteq staUpset \cup {"lost", "overtaken"}
      /\ mgmtQ' \in Seq(Frame)
      /\ \/ ok = FALSE /\ mgmtQ' = mgmtQ
         \/ ok = TRUE /\ mgmtQ' = Append(mgmtQ, f)
  <2>1. Sent(f, ok, {})
    BY <1>2, <1>4
  <2>2. /\ staUpset \subseteq staUpset' /\ staUpset' \subseteq staUpset \cup {} \cup {"lost", "overtaken"}
        /\ mgmtQ' \in Seq(Frame)
        /\ \/ ok = FALSE /\ mgmtQ' = mgmtQ /\ "lost" \in staUpset'
           \/ /\ ok = TRUE /\ f.kind \in {"add", "delete"} /\ mgmtQ' = <<f>> \o mgmtQ
              /\ Overtakes(f) => "overtaken" \in staUpset'
           \/ ok = TRUE /\ f.kind \notin {"add", "delete"} /\ mgmtQ' = Append(mgmtQ, f)
    <3>1. mgmtQ \in Seq(Frame)
      BY <1>1 DEF StaTypeOK
    <3> QED BY <2>1, <3>1, SentSays, Zenon
  <2> QED BY <1>5, <2>2
<1>7. StaTypeOK'
  <2>1. keyed' \subseteq Stas /\ staUpset' \subseteq StaTroubles
    BY <1>1, <1>2, <1>6 DEF StaTypeOK, StaTroubles
  <2> QED BY <1>1, <1>3, <1>6, <2>1 DEF StaTypeOK
<1>8. TableInv' /\ (\A r \in Stas : Entry(r)' = Entry(r) /\ StaId(Entry(r))' = StaId(Entry(r)))
      /\ \A i \in Slots : PeerOf(i)' = PeerOf(i)
  BY <1>1, <1>3, <1>6, PeersStay
<1>9. OfPeers'
  BY <1>1, <1>2, <1>3 DEF OfPeers
<1>10. NotesInv'
  BY <1>1, <1>3, <1>5, <1>6, <1>8, NotesKept
<1>11. KeysInv'
  <2>1. CASE ok = FALSE
    <3>1. keyed' \subseteq keyed /\ mgmtQ' = mgmtQ
      BY <1>2, <1>6, <2>1
    <3>2. \A r \in keyed' : StaId(Entry(r))' = StaId(Entry(r))
      BY <1>1, <1>8, <3>1 DEF StaTypeOK
    <3> QED BY <1>1, <1>3, <1>6, <3>1, <3>2, KeysKept
  <2>2. CASE ok = TRUE
    <3>1. keyed' \subseteq keyed \cup {s} /\ mgmtQ' = Append(mgmtQ, LoadKey(Entry(s), s))
      BY <1>2, <1>4, <1>6, <2>2
    <3> QED BY <1>1, <1>2, <1>3, <1>6, <3>1, KeysMore
  <2> QED BY <2>1, <2>2
<1>12. OneStart'
  BY <1>1, <1>3, <1>6, <1>8, Excluded DEF OneStart
<1>13. StartsAsAgreed'
  BY <1>1, <1>3, <1>5, <1>6, StartsKept
<1>14. MayAggregateAgain'
  <2>1. \A r \in uploaded : Entry(r)' = Entry(r)
    BY <1>1, <1>8 DEF StaTypeOK
  <2> QED BY <1>1, <1>3, <1>6, <2>1, Excluded DEF MayAggregateAgain
<1> QED BY <1>7, <1>8, <1>9, <1>10, <1>11, <1>12, <1>13, <1>14 DEF StaIInv

\* The sessions that change at most one of them.
LEMMA SessionSays ==
    ASSUME StaTypeOK, NEW s \in Stas, NEW t \in Tids, NEW x \in Phases,
           session' = [session EXCEPT ![<<s, t>>] = x]
    PROVE  /\ session' \in [Stas \X Tids -> Phases] /\ session'[<<s, t>>] = x
           /\ \A r \in Stas, u \in Tids : <<r, u>> # <<s, t>> => session'[<<r, u>>] = session[<<r, u>>]
<1>1. session \in [Stas \X Tids -> Phases] /\ <<s, t>> \in Stas \X Tids
  BY DEF StaTypeOK
<1> QED BY <1>1

LEMMA XmitKeeps ==
    ASSUME StaTableAssumption, StaIInv, NEW s \in Stas, NEW t \in Tids, XmitStarts(s, t)
    PROVE  StaIInv'
<1>1. /\ StaTypeOK /\ TableInv /\ OfPeers /\ NotesInv /\ KeysInv
      /\ OneStart /\ StartsAsAgreed /\ MayAggregateAgain
  BY DEF StaIInv
<1>2. PICK x \in {"wanted", "none"} :
        /\ s \in uploaded
        /\ start_tx_aggr' = [start_tx_aggr EXCEPT ![<<Entry(s), t>>] = TRUE]
        /\ session[<<s, t>>] = "none"
        /\ session' = [session EXCEPT ![<<s, t>>] = x]
        /\ staUpset' = staUpset \union (IF x = "wanted" THEN {} ELSE {"refused"})
        /\ UNCHANGED <<role, uploaded, linked, keyed, stations, num_stations, seq_start, mgmtQ,
                       deviceVars>>
  <2>1. PICK accepted \in BOOLEAN :
        /\ KeyPeer(s) /\ ~start_tx_aggr[<<Entry(s), t>>] /\ session[<<s, t>>] = "none"
        /\ Cardinality(Sessions) < MaxSessions
        /\ start_tx_aggr' = [start_tx_aggr EXCEPT ![<<Entry(s), t>>] = TRUE]
        /\ session' = [session EXCEPT ![<<s, t>>] = IF accepted THEN "wanted" ELSE "none"]
        /\ staUpset' = staUpset \union (IF accepted THEN {} ELSE {"refused"})
        /\ UNCHANGED <<role, uploaded, linked, keyed, stations, num_stations, seq_start, mgmtQ,
                       deviceVars>>
    BY DEF XmitStarts
  <2>2. s \in uploaded
    BY <2>1 DEF KeyPeer
  <2>3. CASE accepted = TRUE
    <3>1. /\ session' = [session EXCEPT ![<<s, t>>] = "wanted"]
          /\ staUpset' = staUpset \union (IF "wanted" = "wanted" THEN {} ELSE {"refused"})
      BY <2>1, <2>3
    <3> QED BY <2>1, <2>2, <3>1, Zenon
  <2>4. CASE accepted = FALSE
    <3>1. /\ session' = [session EXCEPT ![<<s, t>>] = "none"]
          /\ staUpset' = staUpset \union (IF "none" = "wanted" THEN {} ELSE {"refused"})
      BY <2>1, <2>4
    <3> QED BY <2>1, <2>2, <3>1, Zenon
  <2> QED BY <2>3, <2>4
<1>3. UNCHANGED <<role, uploaded, linked, keyed, stations, num_stations, seq_start, mgmtQ,
                  fwPeer, fwKey, fwStart>>
  BY <1>2 DEF deviceVars
<1>4. staUpset \subseteq staUpset' /\ staUpset' \subseteq staUpset \cup {"refused"}
  BY <1>2
<1>5. /\ session' \in [Stas \X Tids -> Phases] /\ session'[<<s, t>>] = x
      /\ \A r \in Stas, u \in Tids : <<r, u>> # <<s, t>> => session'[<<r, u>>] = session[<<r, u>>]
  BY <1>1, <1>2, SessionSays DEF Phases
<1>6. Entry(s) \in Slots \cup {Own}
  BY <1>1, <1>2, EntrySays
<1>7. StaTypeOK'
  <2>1. staUpset' \subseteq StaTroubles
    BY <1>1, <1>4 DEF StaTypeOK, StaTroubles
  <2>2. start_tx_aggr' \in [(Slots \union {Own}) \X Tids -> BOOLEAN]
    BY <1>1, <1>2, <1>6 DEF StaTypeOK
  <2> QED BY <1>1, <1>3, <1>5, <2>1, <2>2 DEF StaTypeOK
<1>8. TableInv' /\ (\A r \in Stas : Entry(r)' = Entry(r) /\ StaId(Entry(r))' = StaId(Entry(r)))
      /\ \A i \in Slots : PeerOf(i)' = PeerOf(i)
  BY <1>1, <1>3, <1>4, PeersStay
<1>9. OfPeers'
  <2>1. ASSUME NEW r \in Stas, NEW u \in Tids, session'[<<r, u>>] # "none"
        PROVE  r \in uploaded'
    <3>1. CASE <<r, u>> = <<s, t>>
      BY <1>2, <1>3, <3>1
    <3>2. CASE <<r, u>> # <<s, t>>
      BY <1>1, <1>3, <1>5, <2>1, <3>2 DEF OfPeers
    <3> QED BY <3>1, <3>2
  <2> QED BY <1>1, <1>3, <2>1 DEF OfPeers
<1>10. NotesInv'
  BY <1>1, <1>3, <1>4, <1>8, NotesKept
<1>11. KeysInv'
  <2>1. \A r \in keyed' : StaId(Entry(r))' = StaId(Entry(r))
    BY <1>1, <1>3, <1>8 DEF StaTypeOK
  <2> QED BY <1>1, <1>3, <1>4, <2>1, KeysKept
<1>12. OneStart'
  <2>1. \A r \in Stas, u \in Tids : session'[<<r, u>>] = "started" => session[<<r, u>>] = "started"
    BY <1>2, <1>5
  <2> QED BY <1>1, <1>3, <1>4, <1>8, <2>1, Excluded DEF OneStart
<1>13. StartsAsAgreed'
  BY <1>1, <1>3, <1>4, StartsKept
<1>14. MayAggregateAgain'
  <2> SUFFICES ASSUME Without({"lost", "stopped", "refused"})', NEW r \in uploaded', NEW u \in Tids,
                      start_tx_aggr'[<<Entry(r)', u>>]
               PROVE  session'[<<r, u>>] # "none"
    BY DEF MayAggregateAgain
  <2>1. r \in uploaded /\ r \in Stas /\ Entry(r)' = Entry(r)
    BY <1>1, <1>3, <1>8 DEF StaTypeOK
  <2>2. x = "wanted"
    BY <1>2 DEF Without
  <2>3. CASE <<r, u>> = <<s, t>>
    BY <1>5, <2>2, <2>3
  <2>4. CASE <<r, u>> # <<s, t>>
    <3>1. Entry(r) \in Slots \cup {Own}
      BY <1>1, <2>1, EntrySays
    <3>2. <<Entry(r), u>> # <<Entry(s), t>>
      <4> SUFFICES ASSUME Entry(r) = Entry(s), u = t PROVE FALSE
        OBVIOUS
      <4>1. r = s
        BY <1>1, <1>2, <2>1, EntryOne
      <4> QED BY <2>4, <4>1
    <3>3. start_tx_aggr'[<<Entry(r), u>>] = start_tx_aggr[<<Entry(r), u>>]
      BY <1>1, <1>2, <3>1, <3>2 DEF StaTypeOK
    <3>4. start_tx_aggr[<<Entry(r), u>>]
      BY <2>1, <3>3
    <3>5. session[<<r, u>>] # "none"
      BY <1>1, <1>4, <2>1, <3>4, Excluded DEF MayAggregateAgain
    <3> QED BY <1>5, <2>1, <2>4, <3>5
  <2> QED BY <2>3, <2>4
<1> QED BY <1>7, <1>8, <1>9, <1>10, <1>11, <1>12, <1>13, <1>14 DEF StaIInv

LEMMA TxStartKeeps ==
    ASSUME StaTableAssumption, StaIInv, NEW s \in Stas, NEW t \in Tids, TxStart(s, t)
    PROVE  StaIInv'
<1>1. /\ StaTypeOK /\ TableInv /\ OfPeers /\ NotesInv /\ KeysInv
      /\ OneStart /\ StartsAsAgreed /\ MayAggregateAgain
  BY DEF StaIInv
<1>2. /\ session[<<s, t>>] = "wanted"
      /\ session' = [session EXCEPT ![<<s, t>>] = "started"]
      /\ seq_start' = [seq_start EXCEPT ![Entry(s)] = t]
      /\ staUpset' = staUpset \union
           (IF \E u \in Tids \ {t} : session[<<s, u>>] = "started" THEN {"two_starts"} ELSE {})
      /\ UNCHANGED <<role, uploaded, linked, keyed, stations, num_stations, start_tx_aggr, mgmtQ,
                     fwPeer, fwKey, fwStart>>
  BY DEF TxStart, StoredStart, deviceVars
<1>3. s \in uploaded
  BY <1>1, <1>2 DEF OfPeers
<1>4. staUpset \subseteq staUpset' /\ staUpset' \subseteq staUpset \cup {"two_starts"}
  BY <1>2
<1>5. /\ session' \in [Stas \X Tids -> Phases] /\ session'[<<s, t>>] = "started"
      /\ \A r \in Stas, u \in Tids : <<r, u>> # <<s, t>> => session'[<<r, u>>] = session[<<r, u>>]
  BY <1>1, <1>2, SessionSays DEF Phases
<1>6. Entry(s) \in Slots \cup {Own}
  BY <1>1, <1>3, EntrySays
<1>7. StaTypeOK'
  <2>1. staUpset' \subseteq StaTroubles
    BY <1>1, <1>4 DEF StaTypeOK, StaTroubles
  <2>2. seq_start' \in [Slots \union {Own} -> Tids \union {NoTid}]
    BY <1>1, <1>2, <1>6 DEF StaTypeOK
  <2> QED BY <1>1, <1>2, <1>5, <2>1, <2>2 DEF StaTypeOK
<1>8. TableInv' /\ (\A r \in Stas : Entry(r)' = Entry(r) /\ StaId(Entry(r))' = StaId(Entry(r)))
      /\ \A i \in Slots : PeerOf(i)' = PeerOf(i)
  BY <1>1, <1>2, <1>4, PeersStay
<1>9. OfPeers'
  <2>1. ASSUME NEW r \in Stas, NEW u \in Tids, session'[<<r, u>>] # "none"
        PROVE  r \in uploaded'
    <3>1. CASE <<r, u>> = <<s, t>>
      BY <1>2, <1>3, <3>1
    <3>2. CASE <<r, u>> # <<s, t>>
      BY <1>1, <1>2, <1>5, <2>1, <3>2 DEF OfPeers
    <3> QED BY <3>1, <3>2
  <2> QED BY <1>1, <1>2, <2>1 DEF OfPeers
<1>10. NotesInv'
  BY <1>1, <1>2, <1>4, <1>8, NotesKept
<1>11. KeysInv'
  <2>1. \A r \in keyed' : StaId(Entry(r))' = StaId(Entry(r))
    BY <1>1, <1>2, <1>8 DEF StaTypeOK
  <2> QED BY <1>1, <1>2, <1>4, <2>1, KeysKept
<1>12. OneStart'
  <2> SUFFICES ASSUME Without({"two_starts"})', NEW r \in Stas, NEW u \in Tids,
                      session'[<<r, u>>] = "started"
               PROVE  /\ seq_start'[Entry(r)'] = u
                      /\ \A v \in Tids : session'[<<r, v>>] = "started" => v = u
    BY DEF OneStart
  <2>1. ~\E v \in Tids \ {t} : session[<<s, v>>] = "started"
    BY <1>2 DEF Without
  <2>2. Entry(r)' = Entry(r)
    BY <1>8
  <2>3. CASE r = s
    <3>1. \A v \in Tids : session'[<<r, v>>] = "started" => v = t
      BY <1>5, <2>1, <2>3
    <3>2. u = t
      BY <3>1
    <3>3. seq_start'[Entry(s)] = t
      BY <1>1, <1>2, <1>6 DEF StaTypeOK
    <3> QED BY <2>2, <2>3, <3>1, <3>2, <3>3
  <2>4. CASE r # s
    <3>1. \A v \in Tids : session'[<<r, v>>] = session[<<r, v>>]
      BY <1>5, <2>4
    <3>2. /\ seq_start[Entry(r)] = u
          /\ \A v \in Tids : session[<<r, v>>] = "started" => v = u
      BY <1>1, <1>4, <3>1, Excluded DEF OneStart
    <3>3. r \in uploaded
      BY <1>1, <3>1 DEF OfPeers
    <3>4. Entry(r) # Entry(s) /\ Entry(r) \in Slots \cup {Own}
      BY <1>1, <1>3, <2>4, <3>3, EntryOne, EntrySays
    <3>5. seq_start'[Entry(r)] = seq_start[Entry(r)]
      BY <1>1, <1>2, <3>4 DEF StaTypeOK
    <3> QED BY <2>2, <3>1, <3>2, <3>5
  <2> QED BY <2>3, <2>4
<1>13. StartsAsAgreed'
  BY <1>1, <1>2, <1>4, StartsKept
<1>14. MayAggregateAgain'
  <2>1. \A r \in Stas, u \in Tids : session[<<r, u>>] # "none" => session'[<<r, u>>] # "none"
    BY <1>5
  <2>2. \A r \in uploaded : r \in Stas /\ Entry(r)' = Entry(r)
    BY <1>1, <1>8 DEF StaTypeOK
  <2> QED BY <1>1, <1>2, <1>4, <2>1, <2>2, Excluded DEF MayAggregateAgain
<1> QED BY <1>7, <1>8, <1>9, <1>10, <1>11, <1>12, <1>13, <1>14 DEF StaIInv

LEMMA OperationalKeeps ==
    ASSUME StaTableAssumption, StaIInv, NEW s \in Stas, NEW t \in Tids, TxOperational(s, t)
    PROVE  StaIInv'
<1>1. /\ StaTypeOK /\ TableInv /\ OfPeers /\ NotesInv /\ KeysInv
      /\ OneStart /\ StartsAsAgreed /\ MayAggregateAgain
  BY DEF StaIInv
<1>2. PICK ok \in BOOLEAN :
        /\ session[<<s, t>>] = "started"
        /\ session' = [session EXCEPT ![<<s, t>>] = "up"]
        /\ Sent(Aggr(t, seq_start[Entry(s)]), ok, {})
        /\ UNCHANGED <<role, uploaded, linked, keyed, tableVars, deviceVars>>
  BY LossyTyped DEF TxOperational
<1>3. UNCHANGED <<role, uploaded, linked, keyed, stations, num_stations, start_tx_aggr,
                  seq_start, fwPeer, fwKey, fwStart>>
  BY <1>2 DEF tableVars, deviceVars
<1>4. s \in uploaded
  BY <1>1, <1>2 DEF OfPeers
<1>5. seq_start[Entry(s)] \in Tids \cup {NoTid}
  <2>1. Entry(s) \in Slots \cup {Own}
    BY <1>1, <1>4, EntrySays
  <2> QED BY <1>1, <2>1 DEF StaTypeOK
<1>6. PICK f \in Frame : f = Aggr(t, seq_start[Entry(s)])
  <2>1. Aggr(t, seq_start[Entry(s)]) \in Frame
    BY <1>5 DEF Aggr, Frame
  <2> QED BY <2>1
<1>7. f.kind = "ba" /\ f.tid = t /\ f.start = seq_start[Entry(s)]
  BY <1>6 DEF Aggr
<1>8. /\ staUpset \subseteq staUpset' /\ staUpset' \subseteq staUpset \cup {"lost", "overtaken"}
      /\ mgmtQ' \in Seq(Frame)
      /\ mgmtQ' = mgmtQ \/ mgmtQ' = Append(mgmtQ, f)
  <2>1. Sent(f, ok, {}) /\ mgmtQ \in Seq(Frame)
    BY <1>1, <1>2, <1>6 DEF StaTypeOK
  <2>2. /\ staUpset \subseteq staUpset' /\ staUpset' \subseteq staUpset \cup {} \cup {"lost", "overtaken"}
        /\ mgmtQ' \in Seq(Frame)
        /\ \/ ok = FALSE /\ mgmtQ' = mgmtQ /\ "lost" \in staUpset'
           \/ /\ ok = TRUE /\ f.kind \in {"add", "delete"} /\ mgmtQ' = <<f>> \o mgmtQ
              /\ Overtakes(f) => "overtaken" \in staUpset'
           \/ ok = TRUE /\ f.kind \notin {"add", "delete"} /\ mgmtQ' = Append(mgmtQ, f)
    BY <2>1, SentSays, Zenon
  <2> QED BY <1>7, <2>2
<1>9. /\ session' \in [Stas \X Tids -> Phases] /\ session'[<<s, t>>] = "up"
      /\ \A r \in Stas, u \in Tids : <<r, u>> # <<s, t>> => session'[<<r, u>>] = session[<<r, u>>]
  BY <1>1, <1>2, SessionSays DEF Phases
<1>10. StaTypeOK'
  <2>1. staUpset' \subseteq StaTroubles
    BY <1>1, <1>8 DEF StaTypeOK, StaTroubles
  <2> QED BY <1>1, <1>3, <1>8, <1>9, <2>1 DEF StaTypeOK
<1>11. TableInv' /\ (\A r \in Stas : Entry(r)' = Entry(r) /\ StaId(Entry(r))' = StaId(Entry(r)))
       /\ \A i \in Slots : PeerOf(i)' = PeerOf(i)
  BY <1>1, <1>3, <1>8, PeersStay
<1>12. OfPeers'
  <2>1. ASSUME NEW r \in Stas, NEW u \in Tids, session'[<<r, u>>] # "none"
        PROVE  r \in uploaded'
    <3>1. CASE <<r, u>> = <<s, t>>
      BY <1>3, <1>4, <3>1
    <3>2. CASE <<r, u>> # <<s, t>>
      BY <1>1, <1>3, <1>9, <2>1, <3>2 DEF OfPeers
    <3> QED BY <3>1, <3>2
  <2> QED BY <1>1, <1>3, <2>1 DEF OfPeers
<1>13. NotesInv'
  BY <1>1, <1>3, <1>7, <1>8, <1>11, NotesKept
<1>14. KeysInv'
  <2>1. \A r \in keyed' : StaId(Entry(r))' = StaId(Entry(r))
    BY <1>1, <1>3, <1>11 DEF StaTypeOK
  <2>2. f.kind # "key"
    BY <1>7
  <2> QED BY <1>1, <1>3, <1>8, <2>1, <2>2, KeysKept
<1>15. OneStart'
  <2>1. \A r \in Stas, u \in Tids : session'[<<r, u>>] = "started" => session[<<r, u>>] = "started"
    BY <1>2, <1>9
  <2> QED BY <1>1, <1>3, <1>8, <1>11, <2>1, Excluded DEF OneStart
<1>16. StartsAsAgreed'
  <2>1. Without({"two_starts"}) => f.start = t
    BY <1>1, <1>2, <1>7 DEF OneStart
  <2>2. Without({"two_starts"}) /\ f.kind = "ba" => f.start \in {f.tid, NoTid}
    BY <1>7, <2>1
  <2> QED BY <1>1, <1>3, <1>8, <2>2, StartsKept
<1>17. MayAggregateAgain'
  <2>1. \A r \in Stas, u \in Tids : session[<<r, u>>] # "none" => session'[<<r, u>>] # "none"
    BY <1>9
  <2>2. \A r \in uploaded : r \in Stas /\ Entry(r)' = Entry(r)
    BY <1>1, <1>11 DEF StaTypeOK
  <2> QED BY <1>1, <1>3, <1>8, <2>1, <2>2, Excluded DEF MayAggregateAgain
<1> QED BY <1>10, <1>11, <1>12, <1>13, <1>14, <1>15, <1>16, <1>17 DEF StaIInv

LEMMA TxStopKeeps ==
    ASSUME StaTableAssumption, StaIInv, NEW s \in Stas, NEW t \in Tids, TxStop(s, t)
    PROVE  StaIInv'
<1>1. /\ StaTypeOK /\ TableInv /\ OfPeers /\ NotesInv /\ KeysInv
      /\ OneStart /\ StartsAsAgreed /\ MayAggregateAgain
  BY DEF StaIInv
<1>2. PICK ok \in BOOLEAN :
        /\ session[<<s, t>>] \in {"started", "up"}
        /\ session' = [session EXCEPT ![<<s, t>>] = IF ok THEN "none" ELSE "stuck"]
        /\ start_tx_aggr' = IF ok THEN ClearedAggr(t) ELSE start_tx_aggr
        /\ Sent(Aggr(t, NoTid), ok, IF role = "AP" THEN {"stopped"} ELSE {})
        /\ UNCHANGED <<role, uploaded, linked, keyed, stations, num_stations, seq_start, deviceVars>>
  BY LossyTyped DEF TxStop
<1>3. UNCHANGED <<role, uploaded, linked, keyed, stations, num_stations,
                  seq_start, fwPeer, fwKey, fwStart>>
  BY <1>2 DEF deviceVars
<1>4. s \in uploaded
  BY <1>1, <1>2 DEF OfPeers
<1>5. PICK f \in Frame : f = Aggr(t, NoTid)
  <2>1. Aggr(t, NoTid) \in Frame
    BY DEF Aggr, Frame
  <2> QED BY <2>1
<1>6. f.kind = "ba" /\ f.tid = t /\ f.start = NoTid
  BY <1>5 DEF Aggr
<1>7. /\ staUpset \subseteq staUpset' /\ staUpset' \subseteq staUpset \cup {"lost", "overtaken", "stopped"}
      /\ mgmtQ' \in Seq(Frame)
      /\ mgmtQ' = mgmtQ \/ mgmtQ' = Append(mgmtQ, f)
      /\ ok = FALSE => "lost" \in staUpset'
      /\ role = "AP" => "stopped" \in staUpset'
  <2>1. PICK more \in SUBSET {"stopped"} : more = (IF role = "AP" THEN {"stopped"} ELSE {})
    OBVIOUS
  <2>2. Sent(f, ok, more) /\ mgmtQ \in Seq(Frame)
    BY <1>1, <1>2, <1>5, <2>1 DEF StaTypeOK
  <2>3. /\ staUpset \subseteq staUpset' /\ more \subseteq staUpset'
        /\ staUpset' \subseteq staUpset \cup more \cup {"lost", "overtaken"}
        /\ mgmtQ' \in Seq(Frame)
        /\ \/ ok = FALSE /\ mgmtQ' = mgmtQ /\ "lost" \in staUpset'
           \/ /\ ok = TRUE /\ f.kind \in {"add", "delete"} /\ mgmtQ' = <<f>> \o mgmtQ
              /\ Overtakes(f) => "overtaken" \in staUpset'
           \/ ok = TRUE /\ f.kind \notin {"add", "delete"} /\ mgmtQ' = Append(mgmtQ, f)
    BY <2>2, SentSays, Zenon
  <2> QED BY <1>6, <2>1, <2>3
<1>8. PICK x \in {"none", "stuck"} : session' = [session EXCEPT ![<<s, t>>] = x]
  <2>1. CASE ok = TRUE
    BY <1>2, <2>1
  <2>2. CASE ok = FALSE
    BY <1>2, <2>2
  <2> QED BY <2>1, <2>2
<1>9. /\ session' \in [Stas \X Tids -> Phases] /\ session'[<<s, t>>] = x
      /\ \A r \in Stas, u \in Tids : <<r, u>> # <<s, t>> => session'[<<r, u>>] = session[<<r, u>>]
  BY <1>1, <1>8, SessionSays DEF Phases
<1>10. StaTypeOK'
  <2>1. staUpset' \subseteq StaTroubles
    BY <1>1, <1>7 DEF StaTypeOK, StaTroubles
  <2>2. start_tx_aggr' \in [(Slots \union {Own}) \X Tids -> BOOLEAN]
    BY <1>1, <1>2 DEF StaTypeOK, ClearedAggr
  <2> QED BY <1>1, <1>3, <1>7, <1>9, <2>1, <2>2 DEF StaTypeOK
<1>11. TableInv' /\ (\A r \in Stas : Entry(r)' = Entry(r) /\ StaId(Entry(r))' = StaId(Entry(r)))
       /\ \A i \in Slots : PeerOf(i)' = PeerOf(i)
  BY <1>1, <1>3, <1>7, PeersStay
<1>12. OfPeers'
  <2>1. ASSUME NEW r \in Stas, NEW u \in Tids, session'[<<r, u>>] # "none"
        PROVE  r \in uploaded'
    <3>1. CASE <<r, u>> = <<s, t>>
      BY <1>3, <1>4, <3>1
    <3>2. CASE <<r, u>> # <<s, t>>
      BY <1>1, <1>3, <1>9, <2>1, <3>2 DEF OfPeers
    <3> QED BY <3>1, <3>2
  <2> QED BY <1>1, <1>3, <2>1 DEF OfPeers
<1>13. NotesInv'
  BY <1>1, <1>3, <1>6, <1>7, <1>11, NotesKept
<1>14. KeysInv'
  <2>1. \A r \in keyed' : StaId(Entry(r))' = StaId(Entry(r))
    BY <1>1, <1>3, <1>11 DEF StaTypeOK
  <2>2. f.kind # "key"
    BY <1>6
  <2> QED BY <1>1, <1>3, <1>7, <2>1, <2>2, KeysKept
<1>15. OneStart'
  <2>1. \A r \in Stas, u \in Tids : session'[<<r, u>>] = "started" => session[<<r, u>>] = "started"
    BY <1>9
  <2> QED BY <1>1, <1>3, <1>7, <1>11, <2>1, Excluded DEF OneStart
<1>16. StartsAsAgreed'
  <2>1. Without({"two_starts"}) /\ f.kind = "ba" => f.start \in {f.tid, NoTid}
    BY <1>6
  <2> QED BY <1>1, <1>3, <1>7, <2>1, StartsKept
<1>17. MayAggregateAgain'
  <2> SUFFICES ASSUME Without({"lost", "stopped", "refused"})', NEW r \in uploaded', NEW u \in Tids,
                      start_tx_aggr'[<<Entry(r)', u>>]
               PROVE  session'[<<r, u>>] # "none"
    BY DEF MayAggregateAgain
  <2>1. r \in uploaded /\ r \in Stas /\ Entry(r)' = Entry(r)
    BY <1>1, <1>3, <1>11 DEF StaTypeOK
  <2>2. ok = TRUE /\ role = "STATION"
    BY <1>1, <1>7 DEF Without, StaTypeOK
  <2>3. Entry(r) = Own /\ r = s
    BY <1>1, <1>4, <2>1, <2>2, EntrySays DEF TableInv
  <2>4. start_tx_aggr' = [start_tx_aggr EXCEPT ![<<Own, t>>] = FALSE]
    BY <1>2, <2>2 DEF ClearedAggr
  <2>5. <<Own, t>> \in (Slots \union {Own}) \X Tids /\ <<Own, u>> \in (Slots \union {Own}) \X Tids
    OBVIOUS
  <2>6. u # t
    <3>1. u = t => start_tx_aggr'[<<Own, u>>] = FALSE
      BY <1>1, <2>4, <2>5 DEF StaTypeOK
    <3> QED BY <2>1, <2>3, <3>1
  <2>7. start_tx_aggr'[<<Own, u>>] = start_tx_aggr[<<Own, u>>]
    BY <1>1, <2>4, <2>5, <2>6 DEF StaTypeOK
  <2>8. start_tx_aggr[<<Entry(r), u>>]
    BY <2>1, <2>3, <2>7
  <2>9. session[<<r, u>>] # "none"
    BY <1>1, <1>7, <2>1, <2>8, Excluded DEF MayAggregateAgain
  <2> QED BY <1>9, <2>1, <2>6, <2>9
<1> QED BY <1>10, <1>11, <1>12, <1>13, <1>14, <1>15, <1>16, <1>17 DEF StaIInv

-----------------------------------------------------------------------------
\* Association and its end: the device is told of the access point.
LEMMA LinkKeeps ==
    ASSUME StaTableAssumption, StaIInv, NEW s \in Stas, OwnLinked(s) \/ OwnUnlinked(s)
    PROVE  StaIInv'
<1>1. /\ StaTypeOK /\ TableInv /\ OfPeers /\ NotesInv /\ KeysInv
      /\ OneStart /\ StartsAsAgreed /\ MayAggregateAgain
  BY DEF StaIInv
<1>2. PICK kind \in {"add", "delete"}, ok \in BOOLEAN :
        /\ role = "STATION"
        /\ linked' = IF kind = "add" THEN {s} ELSE {}
        /\ Sent(Notify(kind, Own, s), ok, {})
        /\ UNCHANGED <<role, uploaded, keyed, session, tableVars, deviceVars>>
  <2>1. CASE OwnLinked(s)
    <3>1. PICK ok \in BOOLEAN :
            /\ role = "STATION" /\ linked' = {s} /\ Sent(Notify("add", Own, s), ok, {})
            /\ UNCHANGED <<role, uploaded, keyed, session, tableVars, deviceVars>>
      BY <2>1, LossyTyped DEF OwnLinked
    <3>2. linked' = IF "add" = "add" THEN {s} ELSE {}
      BY <3>1
    <3> QED BY <3>1, <3>2, Zenon
  <2>2. CASE OwnUnlinked(s)
    <3>1. PICK ok \in BOOLEAN :
            /\ role = "STATION" /\ linked' = {} /\ Sent(Notify("delete", Own, s), ok, {})
            /\ UNCHANGED <<role, uploaded, keyed, session, tableVars, deviceVars>>
      BY <2>2, LossyTyped DEF OwnUnlinked
    <3>2. linked' = IF "delete" = "add" THEN {s} ELSE {}
      BY <3>1
    <3> QED BY <3>1, <3>2, Zenon
  <2> QED BY <2>1, <2>2
<1>3. UNCHANGED <<role, uploaded, keyed, session, stations, num_stations, start_tx_aggr,
                  seq_start, fwPeer, fwKey, fwStart>>
  BY <1>2 DEF tableVars, deviceVars
<1>4. PICK f \in Frame : f = Notify(kind, Own, s)
  <2>1. Notify(kind, Own, s) \in Frame
    BY FramesTyped, NumbersTyped DEF Notify, Frame
  <2> QED BY <2>1
<1>5. f.kind = kind /\ f.id = 0 /\ f.sta = s
  BY <1>4, NumbersTyped DEF Notify
<1>6. /\ staUpset \subseteq staUpset' /\ staUpset' \subseteq staUpset \cup {"lost", "overtaken"}
      /\ mgmtQ' \in Seq(Frame)
      /\ \/ mgmtQ' = mgmtQ /\ "lost" \in staUpset'
         \/ mgmtQ' = <<f>> \o mgmtQ /\ (Overtakes(f) => "overtaken" \in staUpset')
  <2>1. Sent(f, ok, {}) /\ mgmtQ \in Seq(Frame)
    BY <1>1, <1>2, <1>4 DEF StaTypeOK
  <2>2. /\ staUpset \subseteq staUpset' /\ staUpset' \subseteq staUpset \cup {} \cup {"lost", "overtaken"}
        /\ mgmtQ' \in Seq(Frame)
        /\ \/ ok = FALSE /\ mgmtQ' = mgmtQ /\ "lost" \in staUpset'
           \/ /\ ok = TRUE /\ f.kind \in {"add", "delete"} /\ mgmtQ' = <<f>> \o mgmtQ
              /\ Overtakes(f) => "overtaken" \in staUpset'
           \/ ok = TRUE /\ f.kind \notin {"add", "delete"} /\ mgmtQ' = Append(mgmtQ, f)
    BY <2>1, SentSays, Zenon
  <2>3. f.kind \in {"add", "delete"}
    BY <1>5
  <2> QED BY <2>2, <2>3
<1>7. StaTypeOK'
  <2>1. staUpset' \subseteq StaTroubles
    BY <1>1, <1>6 DEF StaTypeOK, StaTroubles
  <2>2. linked' \subseteq Stas
    BY <1>2
  <2> QED BY <1>1, <1>3, <1>6, <2>1, <2>2 DEF StaTypeOK
<1>8. TableInv'
  <2>1. \A a, b \in linked' : a = b
    BY <1>2
  <2> QED BY <1>1, <1>2, <1>3, <1>6, <2>1 DEF TableInv, Taken, Without
<1>9. \A r \in Stas : Entry(r)' = Entry(r) /\ StaId(Entry(r))' = StaId(Entry(r))
  BY <1>3 DEF Entry, SlotOf, StaId
<1>10. OfPeers'
  BY <1>1, <1>3 DEF OfPeers
<1>11. NotesInv'
  <2>1. CASE mgmtQ' = mgmtQ /\ "lost" \in staUpset'
    BY <2>1 DEF NotesInv, Without
  <2>2. CASE mgmtQ' = <<f>> \o mgmtQ /\ (Overtakes(f) => "overtaken" \in staUpset')
    <3>1. PeerOf(f.id)' = (IF f.kind = "add" THEN f.sta ELSE NoSta)
      <4>1. role' = "STATION"
        BY <1>2, <1>3
      <4>2. CASE kind = "add"
        <5>1. linked' = {s}
          BY <1>2, <4>2
        <5>2. (CHOOSE r \in linked' : TRUE) = s
          BY <5>1
        <5> QED BY <1>5, <4>1, <4>2, <5>1, <5>2 DEF PeerOf
      <4>3. CASE kind = "delete"
        <5>1. linked' = {}
          BY <1>2, <4>3
        <5> QED BY <1>5, <4>1, <4>3, <5>1 DEF PeerOf
      <4> QED BY <4>2, <4>3
    <3>2. \A i \in Slots : i # f.id => PeerOf(i)' = PeerOf(i)
      BY <1>2, <1>3, <1>5 DEF PeerOf
    <3>3. f.kind \in {"add", "delete"}
      BY <1>5
    <3> QED BY <1>1, <1>3, <1>6, <2>2, <3>1, <3>2, <3>3, NotesMore
  <2> QED BY <1>6, <2>1, <2>2
<1>12. KeysInv'
  <2>1. \A r \in keyed' : StaId(Entry(r))' = StaId(Entry(r))
    BY <1>1, <1>3, <1>9 DEF StaTypeOK
  <2>2. f.kind # "key"
    BY <1>5
  <2> QED BY <1>1, <1>3, <1>6, <2>1, <2>2, KeysKept
<1>13. OneStart'
  BY <1>1, <1>3, <1>6, <1>9, Excluded DEF OneStart
<1>14. StartsAsAgreed'
  <2>1. Without({"two_starts"}) /\ f.kind = "ba" => f.start \in {f.tid, NoTid}
    BY <1>5
  <2> QED BY <1>1, <1>3, <1>6, <2>1, StartsKept
<1>15. MayAggregateAgain'
  <2>1. \A r \in uploaded : r \in Stas /\ Entry(r)' = Entry(r)
    BY <1>1, <1>9 DEF StaTypeOK
  <2> QED BY <1>1, <1>3, <1>6, <2>1, Excluded DEF MayAggregateAgain
<1> QED BY <1>7, <1>8, <1>10, <1>11, <1>12, <1>13, <1>14, <1>15 DEF StaIInv

LEMMA AggrFresh ==
    ASSUME StaTypeOK, NEW i
    PROVE  /\ NewAggr(i) \in [(Slots \union {Own}) \X Tids -> BOOLEAN]
           /\ \A j \in Slots \cup {Own}, t \in Tids :
                NewAggr(i)[<<j, t>>] => j # i /\ start_tx_aggr[<<j, t>>]
<1>1. DOMAIN start_tx_aggr = (Slots \union {Own}) \X Tids
  BY DEF StaTypeOK
<1>2. NewAggr(i) \in [(Slots \union {Own}) \X Tids -> BOOLEAN]
  BY <1>1 DEF NewAggr, StaTypeOK
<1>3. ASSUME NEW j \in Slots \cup {Own}, NEW t \in Tids, NewAggr(i)[<<j, t>>]
      PROVE  j # i /\ start_tx_aggr[<<j, t>>]
  <2>1. <<j, t>> \in DOMAIN start_tx_aggr
    BY <1>1
  <2>2. NewAggr(i)[<<j, t>>] = (IF j = i THEN FALSE ELSE start_tx_aggr[<<j, t>>])
    BY <2>1 DEF NewAggr
  <2>3. CASE j = i
    BY <1>3, <2>2, <2>3
  <2>4. CASE j # i
    BY <1>3, <2>2, <2>4
  <2> QED BY <2>3, <2>4
<1> QED BY <1>2, <1>3

\* The upload and the removal of the access point of a station.
LEMMA OwnKeeps ==
    ASSUME StaTableAssumption, StaIInv, NEW s \in Stas, OwnAdd(s) \/ OwnRemove(s)
    PROVE  StaIInv'
<1>1. /\ StaTypeOK /\ TableInv /\ OfPeers /\ NotesInv /\ KeysInv
      /\ OneStart /\ StartsAsAgreed /\ MayAggregateAgain
  BY DEF StaIInv
<1>2. /\ role = "STATION" /\ start_tx_aggr' = NewAggr(Own)
      /\ UNCHANGED <<role, linked, keyed, num_stations, mgmtQ, fwPeer, fwKey, fwStart, staUpset>>
  BY DEF OwnAdd, OwnRemove, deviceVars
<1>3. /\ uploaded' \in {{}, {s}} /\ keyed = {}
      /\ \A r \in Stas, t \in Tids : session'[<<r, t>>] = "none"
      /\ session' \in [Stas \X Tids -> Phases]
  <2>1. CASE OwnAdd(s)
    <3>1. uploaded = {} /\ uploaded' = {s} /\ session' = session
      BY <2>1 DEF OwnAdd
    <3> QED BY <1>1, <3>1 DEF OfPeers, StaTypeOK
  <2>2. CASE OwnRemove(s)
    <3>1. s \in uploaded /\ s \notin keyed /\ uploaded' = {} /\ session' = NoSessions
      BY <2>2 DEF OwnRemove
    <3>2. keyed = {}
      BY <1>1, <1>2, <3>1 DEF TableInv, OfPeers
    <3>3. session' \in [Stas \X Tids -> Phases] /\ \A r \in Stas, t \in Tids : session'[<<r, t>>] = "none"
      BY <3>1 DEF NoSessions, Phases
    <3> QED BY <3>1, <3>2, <3>3
  <2> QED BY <2>1, <2>2
<1>4. /\ stations' \in [Slots \union {Own} -> Peers]
      /\ \A i \in Slots : stations'[i] = stations[i]
  <2>1. CASE OwnAdd(s)
    <3>1. stations' = [stations EXCEPT ![Own] = s]
      BY <2>1 DEF OwnAdd
    <3> QED BY <1>1, <3>1, NumbersTyped DEF StaTypeOK, Peers
  <2>2. CASE OwnRemove(s)
    <3>1. stations' = [stations EXCEPT ![Own] = NoSta]
      BY <2>2 DEF OwnRemove
    <3> QED BY <1>1, <3>1, NumbersTyped DEF StaTypeOK, Peers
  <2> QED BY <2>1, <2>2
<1>5. seq_start' \in [Slots \union {Own} -> Tids \union {NoTid}]
  <2>1. CASE OwnAdd(s)
    BY <1>1, <2>1 DEF OwnAdd, StaTypeOK
  <2>2. CASE OwnRemove(s)
    <3>1. seq_start' = [seq_start EXCEPT ![Own] = NoTid]
      BY <2>2 DEF OwnRemove
    <3> QED BY <1>1, <3>1 DEF StaTypeOK
  <2> QED BY <2>1, <2>2
<1>6. StaTypeOK'
  <2>1. start_tx_aggr' \in [(Slots \union {Own}) \X Tids -> BOOLEAN]
    BY <1>1, <1>2, AggrFresh
  <2>2. uploaded' \subseteq Stas
    BY <1>3
  <2> QED BY <1>1, <1>2, <1>3, <1>4, <1>5, <2>1, <2>2 DEF StaTypeOK
<1>7. TableInv'
  <2>1. Taken' = Taken
    BY <1>4 DEF Taken
  <2>2. \A a, b \in uploaded' : a = b
    BY <1>3
  <2>3. \A i \in Slots : stations'[i] = NoSta
    BY <1>1, <1>2, <1>4 DEF TableInv
  <2> QED BY <1>1, <1>2, <2>1, <2>2, <2>3 DEF TableInv, Without
<1>8. OfPeers'
  BY <1>2, <1>3 DEF OfPeers
<1>9. \A i \in Slots : PeerOf(i)' = PeerOf(i)
  BY <1>2 DEF PeerOf
<1>10. NotesInv'
  BY <1>1, <1>2, <1>9, NotesKept
<1>11. KeysInv'
  BY <1>2, <1>3 DEF KeysInv
<1>12. OneStart'
  BY <1>3 DEF OneStart
<1>13. StartsAsAgreed'
  BY <1>1, <1>2, StartsKept
<1>14. MayAggregateAgain'
  <2> SUFFICES ASSUME NEW r \in uploaded', NEW u \in Tids, start_tx_aggr'[<<Entry(r)', u>>]
               PROVE  FALSE
    BY DEF MayAggregateAgain
  <2>1. Entry(r)' = Own
    BY <1>2 DEF Entry
  <2>2. NewAggr(Own)[<<Own, u>>]
    BY <1>2, <2>1
  <2> QED BY <1>1, <2>2, AggrFresh
<1> QED BY <1>6, <1>7, <1>8, <1>10, <1>11, <1>12, <1>13, <1>14 DEF StaIInv

-----------------------------------------------------------------------------
\* A peer joins the access point.
LEMMA AddKeeps ==
    ASSUME StaTableAssumption, StaIInv, StaAdd
    PROVE  StaIInv'
<1>1. /\ StaTypeOK /\ TableInv /\ OfPeers /\ NotesInv /\ KeysInv
      /\ OneStart /\ StartsAsAgreed /\ MayAggregateAgain
  BY DEF StaIInv
<1>2. PICK s \in Stas, ok \in BOOLEAN, k \in Slots :
        /\ role = "AP" /\ s \notin uploaded /\ ~TableFull /\ stations[k] = NoSta
        /\ uploaded' = uploaded \union {s}
        /\ stations' = [stations EXCEPT ![k] = s]
        /\ num_stations' = num_stations + 1
        /\ start_tx_aggr' = NewAggr(k)
        /\ Sent(Notify("add", k, s), ok, {})
        /\ UNCHANGED <<role, linked, keyed, session, seq_start, deviceVars>>
  <2>1. PICK s \in Stas, ok \in BOOLEAN :
    /\ role = "AP" /\ s \notin uploaded /\ ~TableFull
    /\ uploaded' = uploaded \union {s}
    /\ IF Known(s)
         THEN /\ start_tx_aggr' = NewAggr(SlotOf(s))
              /\ UNCHANGED <<stations, num_stations, mgmtQ, staUpset>>
         ELSE /\ stations' = [stations EXCEPT ![FreeSlot] = s]
              /\ num_stations' = CountedAfter(num_stations)
              /\ start_tx_aggr' = NewAggr(FreeSlot)
              /\ Sent(Notify("add", FreeSlot, s), ok, {})
    /\ UNCHANGED <<role, linked, keyed, session, seq_start, deviceVars>>
    BY LossyTyped DEF StaAdd
  <2>2. ~Known(s)
    BY <1>1, <2>1 DEF Known, TableInv, StaTableAssumption
  <2>3. FreeSlot \in Slots /\ stations[FreeSlot] = NoSta
    BY <1>1, <2>1, FreeSlotSays
  <2>4. num_stations' = num_stations + 1
    BY <2>1, <2>2 DEF CountedAfter
  <2> QED BY <2>1, <2>2, <2>3, <2>4, Zenon
<1>3. UNCHANGED <<role, linked, keyed, session, seq_start, fwPeer, fwKey, fwStart>>
  BY <1>2 DEF deviceVars
<1>4. PICK f \in Frame : f = Notify("add", k, s)
  <2>1. Notify("add", k, s) \in Frame
    BY NumbersTyped DEF Notify, Frame
  <2> QED BY <2>1
<1>5. f.kind = "add" /\ f.id = k /\ f.sta = s
  BY <1>4, NumbersTyped DEF Notify
<1>6. /\ staUpset \subseteq staUpset' /\ staUpset' \subseteq staUpset \cup {"lost", "overtaken"}
      /\ mgmtQ' \in Seq(Frame)
      /\ \/ mgmtQ' = mgmtQ /\ "lost" \in staUpset'
         \/ mgmtQ' = <<f>> \o mgmtQ /\ (Overtakes(f) => "overtaken" \in staUpset')
  <2>1. Sent(f, ok, {}) /\ mgmtQ \in Seq(Frame)
    BY <1>1, <1>2, <1>4 DEF StaTypeOK
  <2>2. /\ staUpset \subseteq staUpset' /\ staUpset' \subseteq staUpset \cup {} \cup {"lost", "overtaken"}
        /\ mgmtQ' \in Seq(Frame)
        /\ \/ ok = FALSE /\ mgmtQ' = mgmtQ /\ "lost" \in staUpset'
           \/ /\ ok = TRUE /\ f.kind \in {"add", "delete"} /\ mgmtQ' = <<f>> \o mgmtQ
              /\ Overtakes(f) => "overtaken" \in staUpset'
           \/ ok = TRUE /\ f.kind \notin {"add", "delete"} /\ mgmtQ' = Append(mgmtQ, f)
    BY <2>1, SentSays, Zenon
  <2>3. f.kind \in {"add", "delete"}
    BY <1>5
  <2> QED BY <2>2, <2>3
<1>7. /\ stations' \in [Slots \union {Own} -> Peers] /\ stations'[k] = s
      /\ \A i \in Slots : i # k => stations'[i] = stations[i]
  BY <1>1, <1>2 DEF StaTypeOK, Peers
<1>8. s # NoSta
  BY DEF StaTableAssumption
<1>9. StaTypeOK'
  <2>1. staUpset' \subseteq StaTroubles
    BY <1>1, <1>6 DEF StaTypeOK, StaTroubles
  <2>2. num_stations' \in 0 .. MaxStations
    BY <1>1, <1>2 DEF StaTypeOK, TableFull, StaTableAssumption
  <2>3. start_tx_aggr' \in [(Slots \union {Own}) \X Tids -> BOOLEAN]
    BY <1>1, <1>2, AggrFresh
  <2>4. uploaded' \subseteq Stas
    BY <1>1, <1>2 DEF StaTypeOK
  <2> QED BY <1>1, <1>3, <1>6, <1>7, <2>1, <2>2, <2>3, <2>4 DEF StaTypeOK
<1>10. TableInv'
  <2>1. Taken' = Taken \cup {k} /\ k \notin Taken
    BY <1>2, <1>7, <1>8 DEF Taken
  <2>2. IsFiniteSet(Taken) /\ Cardinality(Taken) \in Nat
    BY SlotsFinite DEF Taken
  <2>3. Cardinality(Taken') = Cardinality(Taken) + 1
    BY <2>1, <2>2, FS_AddElement
  <2>4. Cardinality(Taken') <= num_stations'
    BY <1>1, <1>2, <2>2, <2>3 DEF TableInv, StaTypeOK
  <2>5. Without({"restored"})' => num_stations' = Cardinality(Taken')
    BY <1>1, <1>2, <1>6, <2>3, Excluded DEF TableInv
  <2>6. \A i \in Slots : stations'[i] # NoSta => role = "AP" /\ stations'[i] \in uploaded'
    BY <1>1, <1>2, <1>7 DEF TableInv
  <2>7. \A r \in uploaded' : \E i \in Slots : stations'[i] = r
    <3> SUFFICES ASSUME NEW r \in uploaded' PROVE \E i \in Slots : stations'[i] = r
      OBVIOUS
    <3>1. CASE r = s
      BY <1>7, <3>1
    <3>2. CASE r # s
      <4>1. PICK i \in Slots : stations[i] = r /\ r \in Stas
        BY <1>1, <1>2, <3>2 DEF TableInv, StaTypeOK
      <4>2. i # k
        BY <1>2, <4>1 DEF StaTableAssumption
      <4> QED BY <1>7, <4>1, <4>2
    <3> QED BY <3>1, <3>2
  <2>8. \A i \in Slots : stations[i] # s
    BY <1>1, <1>2, <1>8 DEF TableInv
  <2>9. \A i, j \in Slots : stations'[i] = stations'[j] /\ stations'[i] # NoSta => i = j
    BY <1>1, <1>7, <2>8 DEF TableInv
  <2>10. role' = "AP" /\ linked' = {}
    BY <1>1, <1>2, <1>3 DEF TableInv
  <2> QED BY <1>3, <2>4, <2>5, <2>6, <2>7, <2>9, <2>10 DEF TableInv
<1>11. \A r \in uploaded : r \in Stas /\ r # s /\ Entry(r)' = Entry(r) /\ StaId(Entry(r))' = StaId(Entry(r))
  <2> SUFFICES ASSUME NEW r \in uploaded
               PROVE  r \in Stas /\ r # s /\ Entry(r)' = Entry(r) /\ StaId(Entry(r))' = StaId(Entry(r))
    OBVIOUS
  <2>1. r \in Stas /\ r # s /\ r # NoSta /\ r \in uploaded'
    BY <1>1, <1>2 DEF StaTypeOK, StaTableAssumption
  <2>2. \A i \in Slots : stations[i] = r => stations'[i] = r
    BY <1>2, <1>7, <2>1
  <2>3. Entry(r)' = Entry(r)
    BY <1>1, <1>3, <1>9, <1>10, <2>1, <2>2, EntryKept
  <2> QED BY <2>1, <2>3 DEF StaId
<1>12. Entry(s)' = k
  <2>1. SlotOf(s)' \in Slots /\ stations'[SlotOf(s)'] = s
    BY <1>7 DEF SlotOf
  <2>2. SlotOf(s)' = k
    BY <1>7, <1>8, <1>10, <2>1 DEF TableInv
  <2> QED BY <1>2, <1>3, <2>2 DEF Entry
<1>13. OfPeers'
  BY <1>1, <1>2, <1>3 DEF OfPeers
<1>14. NotesInv'
  <2>1. CASE mgmtQ' = mgmtQ /\ "lost" \in staUpset'
    BY <2>1 DEF NotesInv, Without
  <2>2. CASE mgmtQ' = <<f>> \o mgmtQ /\ (Overtakes(f) => "overtaken" \in staUpset')
    <3>1. PeerOf(f.id)' = (IF f.kind = "add" THEN f.sta ELSE NoSta)
      BY <1>2, <1>3, <1>5, <1>7 DEF PeerOf
    <3>2. \A i \in Slots : i # f.id => PeerOf(i)' = PeerOf(i)
      BY <1>2, <1>3, <1>5, <1>7 DEF PeerOf
    <3>3. f.kind \in {"add", "delete"}
      BY <1>5
    <3> QED BY <1>1, <1>3, <1>6, <2>2, <3>1, <3>2, <3>3, NotesMore
  <2> QED BY <1>6, <2>1, <2>2
<1>15. KeysInv'
  <2>1. \A r \in keyed' : StaId(Entry(r))' = StaId(Entry(r))
    BY <1>1, <1>3, <1>11 DEF OfPeers
  <2>2. f.kind # "key"
    BY <1>5
  <2> QED BY <1>1, <1>3, <1>6, <2>1, <2>2, KeysKept
<1>16. OneStart'
  <2>1. \A r \in Stas, t \in Tids : session[<<r, t>>] = "started" => Entry(r)' = Entry(r)
    BY <1>1, <1>11 DEF OfPeers
  <2> QED BY <1>1, <1>3, <1>6, <2>1, Excluded DEF OneStart
<1>17. StartsAsAgreed'
  <2>1. Without({"two_starts"}) /\ f.kind = "ba" => f.start \in {f.tid, NoTid}
    BY <1>5
  <2> QED BY <1>1, <1>3, <1>6, <2>1, StartsKept
<1>18. MayAggregateAgain'
  <2> SUFFICES ASSUME Without({"lost", "stopped", "refused"})', NEW r \in uploaded', NEW u \in Tids,
                      start_tx_aggr'[<<Entry(r)', u>>]
               PROVE  session'[<<r, u>>] # "none"
    BY DEF MayAggregateAgain
  <2>1. CASE r = s
    <3>1. NewAggr(k)[<<k, u>>]
      BY <1>2, <1>12, <2>1
    <3> QED BY <1>1, <3>1, AggrFresh
  <2>2. CASE r # s
    <3>1. r \in uploaded /\ Entry(r)' = Entry(r) /\ Entry(r) \in Slots \cup {Own}
      BY <1>1, <1>2, <1>11, <2>2, EntrySays
    <3>2. NewAggr(k)[<<Entry(r), u>>]
      BY <1>2, <3>1
    <3>3. start_tx_aggr[<<Entry(r), u>>]
      BY <1>1, <3>1, <3>2, AggrFresh
    <3> QED BY <1>1, <1>3, <1>6, <3>1, <3>3, Excluded DEF MayAggregateAgain
  <2> QED BY <2>1, <2>2
<1> QED BY <1>9, <1>10, <1>13, <1>14, <1>15, <1>16, <1>17, <1>18 DEF StaIInv

\* A peer leaves it.
LEMMA RemoveKeeps ==
    ASSUME StaTableAssumption, StaIInv, NEW s \in Stas, StaRemove(s)
    PROVE  StaIInv'
<1>1. /\ StaTypeOK /\ TableInv /\ OfPeers /\ NotesInv /\ KeysInv
      /\ OneStart /\ StartsAsAgreed /\ MayAggregateAgain
  BY DEF StaIInv
<1>2. PICK ok \in BOOLEAN, k \in Slots :
        /\ role = "AP" /\ s \in uploaded /\ s \notin keyed /\ stations[k] = s /\ Entry(s) = k
        /\ uploaded' = uploaded \ {s}
        /\ session' = [p \in Stas \X Tids |-> IF p[1] = s THEN "none" ELSE session[p]]
        /\ stations' = [stations EXCEPT ![k] = NoSta]
        /\ num_stations' = IF num_stations > 0 THEN num_stations - 1 ELSE 0
        /\ Sent(Notify("delete", k, s), ok, {})
        /\ UNCHANGED <<role, linked, keyed, start_tx_aggr, seq_start, deviceVars>>
  <2>1. PICK ok \in BOOLEAN :
    /\ role = "AP" /\ s \in uploaded /\ s \notin keyed
    /\ \A t \in Tids : session[<<s, t>>] \in {"none", "wanted", "stuck"}
    /\ uploaded' = uploaded \ {s}
    /\ session' = [p \in Stas \X Tids |-> IF p[1] = s THEN "none" ELSE session[p]]
    /\ IF Known(s)
         THEN /\ stations' = [stations EXCEPT ![SlotOf(s)] = NoSta]
              /\ num_stations' = IF num_stations > 0 THEN num_stations - 1 ELSE 0
              /\ Sent(Notify("delete", SlotOf(s), s), ok, {})
         ELSE UNCHANGED <<stations, num_stations, mgmtQ, staUpset>>
    /\ UNCHANGED <<role, linked, keyed, start_tx_aggr, seq_start, deviceVars>>
    BY LossyTyped DEF StaRemove
  <2>2. Known(s) /\ SlotOf(s) \in Slots /\ stations[SlotOf(s)] = s /\ Entry(s) = SlotOf(s)
    BY <1>1, <2>1, EntrySays
  <2> QED BY <2>1, <2>2, Zenon
<1>3. UNCHANGED <<role, linked, keyed, start_tx_aggr, seq_start, fwPeer, fwKey, fwStart>>
  BY <1>2 DEF deviceVars
<1>4. PICK f \in Frame : f = Notify("delete", k, s)
  <2>1. Notify("delete", k, s) \in Frame
    BY NumbersTyped DEF Notify, Frame
  <2> QED BY <2>1
<1>5. f.kind = "delete" /\ f.id = k /\ f.sta = s
  BY <1>4, NumbersTyped DEF Notify
<1>6. /\ staUpset \subseteq staUpset' /\ staUpset' \subseteq staUpset \cup {"lost", "overtaken"}
      /\ mgmtQ' \in Seq(Frame)
      /\ \/ mgmtQ' = mgmtQ /\ "lost" \in staUpset'
         \/ mgmtQ' = <<f>> \o mgmtQ /\ (Overtakes(f) => "overtaken" \in staUpset')
  <2>1. Sent(f, ok, {}) /\ mgmtQ \in Seq(Frame)
    BY <1>1, <1>2, <1>4 DEF StaTypeOK
  <2>2. /\ staUpset \subseteq staUpset' /\ staUpset' \subseteq staUpset \cup {} \cup {"lost", "overtaken"}
        /\ mgmtQ' \in Seq(Frame)
        /\ \/ ok = FALSE /\ mgmtQ' = mgmtQ /\ "lost" \in staUpset'
           \/ /\ ok = TRUE /\ f.kind \in {"add", "delete"} /\ mgmtQ' = <<f>> \o mgmtQ
              /\ Overtakes(f) => "overtaken" \in staUpset'
           \/ ok = TRUE /\ f.kind \notin {"add", "delete"} /\ mgmtQ' = Append(mgmtQ, f)
    BY <2>1, SentSays, Zenon
  <2>3. f.kind \in {"add", "delete"}
    BY <1>5
  <2> QED BY <2>2, <2>3
<1>7. /\ stations' \in [Slots \union {Own} -> Peers] /\ stations'[k] = NoSta
      /\ \A i \in Slots : i # k => stations'[i] = stations[i]
  BY <1>1, <1>2 DEF StaTypeOK, Peers
<1>8. s # NoSta
  BY DEF StaTableAssumption
<1>9. /\ session' \in [Stas \X Tids -> Phases]
      /\ \A r \in Stas, t \in Tids : session'[<<r, t>>] = IF r = s THEN "none" ELSE session[<<r, t>>]
  BY <1>1, <1>2 DEF StaTypeOK, Phases
<1>10. /\ IsFiniteSet(Taken) /\ Cardinality(Taken) \in Nat /\ k \in Taken
       /\ Taken' = Taken \ {k} /\ Cardinality(Taken') = Cardinality(Taken) - 1
  <2>1. IsFiniteSet(Taken) /\ Cardinality(Taken) \in Nat /\ k \in Taken
    BY <1>2, <1>8, SlotsFinite DEF Taken
  <2>2. Taken' = Taken \ {k}
    BY <1>7 DEF Taken
  <2>3. Cardinality(Taken \ {k}) = Cardinality(Taken) - 1
    BY <2>1, FS_RemoveElement
  <2> QED BY <2>1, <2>2, <2>3
<1>11. Cardinality(Taken) \in Nat \ {0}
  BY <1>10, FS_EmptySet
<1>12. num_stations \in Nat /\ num_stations > 0 /\ num_stations' = num_stations - 1
  <2>1. num_stations \in 0 .. MaxStations /\ Cardinality(Taken) <= num_stations
    BY <1>1 DEF StaTypeOK, TableInv
  <2> QED BY <1>2, <1>11, <2>1 DEF StaTableAssumption
<1>13. StaTypeOK'
  <2>1. staUpset' \subseteq StaTroubles
    BY <1>1, <1>6 DEF StaTypeOK, StaTroubles
  <2>2. num_stations' \in 0 .. MaxStations
    BY <1>1, <1>12 DEF StaTypeOK, StaTableAssumption
  <2>3. uploaded' \subseteq Stas
    BY <1>1, <1>2 DEF StaTypeOK
  <2> QED BY <1>1, <1>3, <1>6, <1>7, <1>9, <2>1, <2>2, <2>3 DEF StaTypeOK
<1>14. TableInv'
  <2>1. Cardinality(Taken') <= num_stations'
    <3>1. Cardinality(Taken) <= num_stations
      BY <1>1 DEF TableInv
    <3> QED BY <1>10, <1>12, <3>1
  <2>2. Without({"restored"})' => num_stations' = Cardinality(Taken')
    <3>1. Without({"restored"})' => num_stations = Cardinality(Taken)
      BY <1>1, <1>6, Excluded DEF TableInv
    <3> QED BY <1>10, <1>12, <3>1
  <2>3. \A i \in Slots : i # k => stations[i] # s
    BY <1>1, <1>2, <1>8 DEF TableInv
  <2>4. \A i \in Slots : stations'[i] # NoSta => role = "AP" /\ stations'[i] \in uploaded'
    BY <1>1, <1>2, <1>7, <2>3 DEF TableInv
  <2>5. \A r \in uploaded' : \E i \in Slots : stations'[i] = r
    <3> SUFFICES ASSUME NEW r \in uploaded' PROVE \E i \in Slots : stations'[i] = r
      OBVIOUS
    <3>1. PICK i \in Slots : stations[i] = r /\ r # s
      BY <1>1, <1>2 DEF TableInv
    <3>2. i # k
      BY <1>2, <3>1
    <3> QED BY <1>7, <3>1, <3>2
  <2>6. \A i, j \in Slots : stations'[i] = stations'[j] /\ stations'[i] # NoSta => i = j
    BY <1>1, <1>7 DEF TableInv
  <2>7. role' = "AP" /\ linked' = {}
    BY <1>1, <1>2, <1>3 DEF TableInv
  <2> QED BY <1>3, <2>1, <2>2, <2>4, <2>5, <2>6, <2>7 DEF TableInv
<1>15. \A r \in uploaded' : r \in uploaded /\ r # s /\ Entry(r)' = Entry(r) /\ StaId(Entry(r))' = StaId(Entry(r))
  <2> SUFFICES ASSUME NEW r \in uploaded'
               PROVE  r \in uploaded /\ r # s /\ Entry(r)' = Entry(r) /\ StaId(Entry(r))' = StaId(Entry(r))
    OBVIOUS
  <2>1. r \in uploaded /\ r # s
    BY <1>2
  <2>2. \A i \in Slots : stations[i] = r => stations'[i] = r
    BY <1>2, <1>7, <2>1
  <2>3. Entry(r)' = Entry(r)
    BY <1>1, <1>3, <1>13, <1>14, <2>1, <2>2, EntryKept
  <2> QED BY <2>1, <2>3 DEF StaId
<1>16. OfPeers'
  <2>1. keyed' \subseteq uploaded'
    BY <1>1, <1>2, <1>3 DEF OfPeers
  <2>2. \A r \in Stas, t \in Tids : session'[<<r, t>>] # "none" => r \in uploaded'
    BY <1>1, <1>2, <1>9 DEF OfPeers
  <2> QED BY <2>1, <2>2 DEF OfPeers
<1>17. NotesInv'
  <2>1. CASE mgmtQ' = mgmtQ /\ "lost" \in staUpset'
    BY <2>1 DEF NotesInv, Without
  <2>2. CASE mgmtQ' = <<f>> \o mgmtQ /\ (Overtakes(f) => "overtaken" \in staUpset')
    <3>1. PeerOf(f.id)' = (IF f.kind = "add" THEN f.sta ELSE NoSta)
      BY <1>2, <1>3, <1>5, <1>7 DEF PeerOf
    <3>2. \A i \in Slots : i # f.id => PeerOf(i)' = PeerOf(i)
      BY <1>2, <1>3, <1>5, <1>7 DEF PeerOf
    <3>3. f.kind \in {"add", "delete"}
      BY <1>5
    <3> QED BY <1>1, <1>3, <1>6, <2>2, <3>1, <3>2, <3>3, NotesMore
  <2> QED BY <1>6, <2>1, <2>2
<1>18. KeysInv'
  <2>1. \A r \in keyed' : StaId(Entry(r))' = StaId(Entry(r))
    BY <1>15, <1>16 DEF OfPeers
  <2>2. f.kind # "key"
    BY <1>5
  <2> QED BY <1>1, <1>3, <1>6, <2>1, <2>2, KeysKept
<1>19. OneStart'
  <2> SUFFICES ASSUME Without({"two_starts"})', NEW r \in Stas, NEW t \in Tids,
                      session'[<<r, t>>] = "started"
               PROVE  /\ seq_start'[Entry(r)'] = t
                      /\ \A u \in Tids : session'[<<r, u>>] = "started" => u = t
    BY DEF OneStart
  <2>1. r # s /\ \A u \in Tids : session'[<<r, u>>] = session[<<r, u>>]
    BY <1>9
  <2>2. r \in uploaded'
    BY <1>16 DEF OfPeers
  <2>3. Entry(r)' = Entry(r)
    BY <1>15, <2>2
  <2>4. /\ seq_start[Entry(r)] = t
        /\ \A u \in Tids : session[<<r, u>>] = "started" => u = t
    BY <1>1, <1>6, <2>1, Excluded DEF OneStart
  <2> QED BY <1>3, <2>1, <2>3, <2>4
<1>20. StartsAsAgreed'
  <2>1. Without({"two_starts"}) /\ f.kind = "ba" => f.start \in {f.tid, NoTid}
    BY <1>5
  <2> QED BY <1>1, <1>3, <1>6, <2>1, StartsKept
<1>21. MayAggregateAgain'
  <2> SUFFICES ASSUME Without({"lost", "stopped", "refused"})', NEW r \in uploaded', NEW u \in Tids,
                      start_tx_aggr'[<<Entry(r)', u>>]
               PROVE  session'[<<r, u>>] # "none"
    BY DEF MayAggregateAgain
  <2>1. r \in uploaded /\ r # s /\ Entry(r)' = Entry(r) /\ r \in Stas
    BY <1>1, <1>15 DEF StaTypeOK
  <2>2. session[<<r, u>>] # "none"
    BY <1>1, <1>3, <1>6, <2>1, Excluded DEF MayAggregateAgain
  <2> QED BY <1>9, <2>1, <2>2
<1> QED BY <1>13, <1>14, <1>16, <1>17, <1>18, <1>19, <1>20, <1>21 DEF StaIInv

LEMMA RestoreKeeps ==
    ASSUME StaTableAssumption, StaIInv, StaRestore
    PROVE  StaIInv'
<1>1. /\ StaTypeOK /\ TableInv
  BY DEF StaIInv
<1>2. /\ mgmtQ = << >> /\ role = "AP" /\ uploaded' = {} /\ keyed' = {} /\ session' = NoSessions
      /\ stations' = [i \in Slots \union {Own} |-> IF i = Own THEN stations[i] ELSE NoSta]
      /\ fwPeer' = NoPeers /\ fwKey' = NoPeers /\ fwStart' = [t \in Tids |-> NoTid]
      /\ staUpset' = staUpset \union {"restored"}
      /\ UNCHANGED <<role, linked, num_stations, start_tx_aggr, seq_start, mgmtQ>>
  BY DEF StaRestore
<1>3. /\ stations' \in [Slots \union {Own} -> Peers]
      /\ \A i \in Slots : stations'[i] = NoSta
  BY <1>1, <1>2, NumbersTyped DEF StaTypeOK, Peers
<1>4. /\ session' \in [Stas \X Tids -> Phases]
      /\ \A r \in Stas, t \in Tids : session'[<<r, t>>] = "none"
  BY <1>2 DEF NoSessions, Phases
<1>5. StaTypeOK'
  <2>1. staUpset' \subseteq StaTroubles
    BY <1>1, <1>2 DEF StaTypeOK, StaTroubles
  <2>2. /\ fwPeer' \in [Slots -> Peers] /\ fwKey' \in [Slots -> Peers]
        /\ fwStart' \in [Tids -> Tids \union {NoTid}]
    BY <1>2 DEF NoPeers, Peers
  <2> QED BY <1>1, <1>2, <1>3, <1>4, <2>1, <2>2 DEF StaTypeOK
<1>6. TableInv'
  <2>1. Taken' = {}
    BY <1>3 DEF Taken
  <2>2. Cardinality(Taken') = 0
    BY <2>1, FS_EmptySet
  <2>3. num_stations \in Nat
    BY <1>1 DEF StaTypeOK
  <2>4. Cardinality(Taken') <= num_stations'
    BY <1>2, <2>2, <2>3
  <2>5. ~Without({"restored"})'
    BY <1>2 DEF Without
  <2>6. role' = "AP" /\ linked' = {}
    BY <1>1, <1>2 DEF TableInv
  <2> QED BY <1>2, <1>3, <2>4, <2>5, <2>6 DEF TableInv
<1>7. OfPeers'
  BY <1>2, <1>4 DEF OfPeers
<1>8. DOMAIN mgmtQ' = {}
  BY <1>2, EmptySeq
<1>9. NotesInv'
  <2>1. \A i \in Slots : fwPeer'[i] = NoSta /\ PeerOf(i)' = NoSta
    BY <1>2, <1>3 DEF NoPeers, PeerOf
  <2> QED BY <1>8, <2>1 DEF NotesInv
<1>10. KeysInv'
  BY <1>2 DEF KeysInv
<1>11. OneStart'
  BY <1>4 DEF OneStart
<1>12. StartsAsAgreed'
  <2>1. \A t \in Tids : fwStart'[t] = NoTid
    BY <1>2
  <2> QED BY <1>8, <2>1 DEF StartsAsAgreed
<1>13. MayAggregateAgain'
  BY <1>2 DEF MayAggregateAgain
<1> QED BY <1>5, <1>6, <1>7, <1>9, <1>10, <1>11, <1>12, <1>13 DEF StaIInv

-----------------------------------------------------------------------------
LEMMA StaStart ==
    ASSUME StaTableAssumption, StaInit
    PROVE  StaIInv
<1>1. /\ role \in {"AP", "STATION"} /\ uploaded = {} /\ linked = {} /\ keyed = {}
      /\ session = NoSessions /\ stations = Nobody /\ num_stations = 0 /\ start_tx_aggr = NoAggr
      /\ seq_start = [i \in Slots \union {Own} |-> NoTid]
      /\ mgmtQ = << >>
      /\ fwPeer = NoPeers /\ fwKey = NoPeers /\ fwStart = [t \in Tids |-> NoTid]
      /\ staUpset = {}
  BY DEF StaInit
<1>2. mgmtQ \in Seq(Frame) /\ DOMAIN mgmtQ = {}
  BY <1>1, EmptySeq
<1>3. /\ stations \in [Slots \union {Own} -> Peers] /\ \A i \in Slots : stations[i] = NoSta
  BY <1>1 DEF Nobody, Peers
<1>4. /\ session \in [Stas \X Tids -> Phases]
      /\ \A r \in Stas, t \in Tids : session[<<r, t>>] = "none"
  BY <1>1 DEF NoSessions, Phases
<1>5. StaTypeOK
  <2>1. /\ fwPeer \in [Slots -> Peers] /\ fwKey \in [Slots -> Peers]
        /\ fwStart \in [Tids -> Tids \union {NoTid}]
    BY <1>1 DEF NoPeers, Peers
  <2>2. start_tx_aggr \in [(Slots \union {Own}) \X Tids -> BOOLEAN]
    BY <1>1 DEF NoAggr
  <2>3. num_stations \in 0 .. MaxStations
    BY <1>1 DEF StaTableAssumption
  <2> QED BY <1>1, <1>2, <1>3, <1>4, <2>1, <2>2, <2>3 DEF StaTypeOK
<1>6. TableInv
  <2>1. Taken = {}
    BY <1>3 DEF Taken
  <2>2. Cardinality(Taken) = 0
    BY <2>1, FS_EmptySet
  <2> QED BY <1>1, <1>3, <2>2 DEF TableInv
<1>7. OfPeers
  BY <1>1, <1>4 DEF OfPeers
<1>8. NotesInv
  <2>1. \A i \in Slots : fwPeer[i] = NoSta /\ PeerOf(i) = NoSta
    BY <1>1, <1>3 DEF NoPeers, PeerOf
  <2> QED BY <1>2, <2>1 DEF NotesInv
<1>9. KeysInv
  BY <1>1 DEF KeysInv
<1>10. OneStart
  BY <1>4 DEF OneStart
<1>11. StartsAsAgreed
  <2>1. \A t \in Tids : fwStart[t] = NoTid
    BY <1>1
  <2> QED BY <1>2, <2>1 DEF StartsAsAgreed
<1>12. MayAggregateAgain
  BY <1>1 DEF MayAggregateAgain
<1> QED BY <1>5, <1>6, <1>7, <1>8, <1>9, <1>10, <1>11, <1>12 DEF StaIInv

LEMMA StaStutters ==
    ASSUME StaIInv, UNCHANGED staVars
    PROVE  StaIInv'
<1>1. UNCHANGED <<role, uploaded, linked, keyed, session, stations, num_stations, start_tx_aggr,
                  seq_start, mgmtQ, fwPeer, fwKey, fwStart, staUpset>>
  BY DEF staVars
<1>2. StaTypeOK' /\ TableInv' /\ OfPeers'
  BY <1>1 DEF StaIInv, StaTypeOK, TableInv, OfPeers, Taken, Without
<1>3. NotesInv'
  BY <1>1 DEF StaIInv, NotesInv, Without, PeerOf, IsNote
<1>4. KeysInv'
  BY <1>1 DEF StaIInv, KeysInv, Without, HasKey, IsKey, StaId, Entry, SlotOf
<1>5. OneStart' /\ MayAggregateAgain'
  BY <1>1 DEF StaIInv, OneStart, MayAggregateAgain, Without, Entry, SlotOf
<1>6. StartsAsAgreed'
  BY <1>1 DEF StaIInv, StartsAsAgreed, Without
<1> QED BY <1>2, <1>3, <1>4, <1>5, <1>6 DEF StaIInv

\* What the inductive invariant says of the states in which the queue has drained.
LEMMA StaIInvSays ==
    ASSUME StaTableAssumption, StaIInv
    PROVE  StaInv
<1>1. /\ StaTypeOK /\ TableInv /\ OfPeers /\ NotesInv /\ KeysInv
      /\ OneStart /\ StartsAsAgreed /\ MayAggregateAgain
  BY DEF StaIInv
<1>2. TableAgrees
  <2>1. {stations[i] : i \in Slots} \ {NoSta} = (IF role = "AP" THEN uploaded ELSE {})
    <3>1. CASE role = "AP"
      <4>1. NoSta \notin uploaded
        BY <1>1 DEF StaTypeOK, StaTableAssumption
      <4>2. \A s \in uploaded : \E i \in Slots : stations[i] = s
        BY <1>1, <3>1 DEF TableInv
      <4>3. \A i \in Slots : stations[i] # NoSta => stations[i] \in uploaded
        BY <1>1 DEF TableInv
      <4> QED BY <3>1, <4>1, <4>2, <4>3
    <3>2. CASE role = "STATION"
      BY <1>1, <3>2 DEF TableInv
    <3> QED BY <1>1, <3>1, <3>2 DEF StaTypeOK
  <2>2. \A i, j \in Slots : stations[i] = stations[j] /\ stations[i] # NoSta => i = j
    BY <1>1 DEF TableInv
  <2>3. Without({"restored"}) => num_stations = Cardinality({i \in Slots : stations[i] # NoSta})
    BY <1>1 DEF TableInv, Taken
  <2> QED BY <2>1, <2>2, <2>3 DEF TableAgrees
<1>3. DeviceKnowsPeers
  <2> SUFFICES ASSUME mgmtQ = << >>, Without({"lost", "overtaken"}), NEW i \in Slots
               PROVE  fwPeer[i] = PeerOf(i)
    BY DEF DeviceKnowsPeers, PeerOf
  <2>1. DOMAIN mgmtQ = {}
    BY EmptySeq
  <2> QED BY <1>1, <2>1 DEF NotesInv
<1>4. KeyOfPeer
  <2> SUFFICES ASSUME mgmtQ = << >>, Without({"lost"}), NEW s \in keyed
               PROVE  fwKey[StaId(Entry(s))] = s
    BY DEF KeyOfPeer
  <2>1. DOMAIN mgmtQ = {}
    BY EmptySeq
  <2>2. HasKey(StaId(Entry(s)), s)
    BY <1>1 DEF KeysInv
  <2> QED BY <2>1, <2>2 DEF HasKey
<1> QED BY <1>1, <1>2, <1>3, <1>4 DEF StaInv

\* Peers (rsi_mac80211_sta_add, sta_remove, rsi_inform_bss_status, set_key, ampdu_action,
\* rsi_core_xmit, rsi_restore): whatever the number of entries, peers and identifiers,
\* whichever frames are lost or overtaken, the table and its count agree with mac80211; once
\* the queue has drained the device knows every peer under its number and holds its key; a
\* session starts where mac80211 said; and a session that has ended may be asked for again.
THEOREM StaSafe == StaSpec => []StaInv
<1>1. StaInit => StaIInv
  BY StaTableAssumption, StaStart
<1>2. StaIInv /\ [StaNext]_staVars => StaIInv'
  <2> SUFFICES ASSUME StaIInv, [StaNext]_staVars PROVE StaIInv'
    OBVIOUS
  <2>1. StaTableAssumption
    BY StaTableAssumption
  <2>2. CASE UNCHANGED staVars
    BY <2>2, StaStutters
  <2>3. CASE DeliverFrame
    BY <2>1, <2>3, DeliverKeeps
  <2>4. CASE StaAdd
    BY <2>1, <2>4, AddKeeps
  <2>5. CASE StaRestore
    BY <2>1, <2>5, RestoreKeeps
  <2>6. ASSUME NEW s \in Stas, StaRemove(s) PROVE StaIInv'
    BY <2>1, <2>6, RemoveKeeps
  <2>7. ASSUME NEW s \in Stas, OwnAdd(s) \/ OwnRemove(s) PROVE StaIInv'
    BY <2>1, <2>7, OwnKeeps
  <2>8. ASSUME NEW s \in Stas, OwnLinked(s) \/ OwnUnlinked(s) PROVE StaIInv'
    BY <2>1, <2>8, LinkKeeps
  <2>9. ASSUME NEW s \in Stas, SetKey(s) \/ DisableKey(s) PROVE StaIInv'
    BY <2>1, <2>9, SetKeyKeeps
  <2>10. ASSUME NEW s \in Stas, NEW t \in Tids, XmitStarts(s, t) PROVE StaIInv'
    BY <2>1, <2>10, XmitKeeps
  <2>11. ASSUME NEW s \in Stas, NEW t \in Tids, TxStart(s, t) PROVE StaIInv'
    BY <2>1, <2>11, TxStartKeeps
  <2>12. ASSUME NEW s \in Stas, NEW t \in Tids, TxOperational(s, t) PROVE StaIInv'
    BY <2>1, <2>12, OperationalKeeps
  <2>13. ASSUME NEW s \in Stas, NEW t \in Tids, TxStop(s, t) PROVE StaIInv'
    BY <2>1, <2>13, TxStopKeeps
  <2> QED BY <2>2, <2>3, <2>4, <2>5, <2>6, <2>7, <2>8, <2>9, <2>10, <2>11, <2>12, <2>13
          DEF StaNext
<1>3. StaIInv => StaInv
  BY StaTableAssumption, StaIInvSays
<1> QED BY <1>1, <1>2, <1>3, PTL DEF StaSpec
=============================================================================
