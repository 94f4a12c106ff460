------------------------------ MODULE RrmQueue ------------------------------
(***************************************************************************)
(* Radio measurements for the access point (rsi_91x_rrm.c, in a build with *)
(* CONFIG_RSI_11K).  The receive thread queues each radio measurement      *)
(* frame, hands the device one measurement at a time, keeps the frame it   *)
(* serves in rrm_pending_frame, and builds the report that goes on the air *)
(* out of that frame and of what the device measured.  All of it runs in   *)
(* one thread; what is hard is the order of the frames, the reports and    *)
(* the failures between them.                                              *)
(***************************************************************************)
EXTENDS Naturals, Sequences, FiniteSets

CONSTANTS
    MaxRrmQueue,     \* bound of the model: frames in rrm_queue (num_pend_rrm_reqs is never raised)
    MaxRrmTroubles   \* bound of the model: kinds of trouble in one behaviour

ASSUME RrmAssumption == MaxRrmQueue \in Nat \ {0} /\ MaxRrmTroubles \in Nat

VARIABLES
    rrm_queue,          \* common->rrm_queue
    rrm_pending_frame,  \* the frame common->rrm_pending_frame points to, and whether it is still there
    rrm_state,          \* adapter->rrm_state
    rrm_enq_state,      \* adapter->rrm_enq_state is set
    measuring,          \* the measurements the device has under way
    bad_report,         \* a report was built out of a frame that was gone, or of another type
    rrmUpset            \* what went wrong on the way

rrmVars == <<rrm_queue, rrm_pending_frame, rrm_state, rrm_enq_state, measuring, bad_report, rrmUpset>>

(* what the frames ask for: the three measurements the driver knows, another one, and
   a radio measurement frame that is no request *)
Measurements == {"channel_load", "frame", "beacon"}
RrmFrames == Measurements \cup {"other_type", "no_request"}
NoFrame == [asks |-> "nothing", there |-> FALSE]

RrmTypeOK ==
    /\ rrm_queue \in Seq(RrmFrames) /\ Len(rrm_queue) <= MaxRrmQueue
    /\ rrm_pending_frame \in [asks : RrmFrames, there : BOOLEAN] \cup {NoFrame}
    /\ rrm_state \in {"IDLE", "REQ_SENT", "RESP_RCVD"}
    /\ rrm_enq_state \in BOOLEAN
    /\ measuring \subseteq Measurements
    /\ bad_report \in BOOLEAN
    /\ rrmUpset \subseteq {"unsent", "other_type", "no_request", "again", "forgotten"}

RrmInit ==
    /\ rrm_queue = <<>> /\ rrm_pending_frame = NoFrame
    /\ rrm_state = "IDLE" /\ rrm_enq_state = FALSE
    /\ measuring = {} /\ bad_report = FALSE /\ rrmUpset = {}

-----------------------------------------------------------------------------
(* One measurement at a time: rrm_enq_state guards the queue               *)
MaySchedule(enq) == ~enq

(* the measurements the driver waits for: an unknown type is one of them   *)
Awaited_Any(f) == TRUE
Awaited_Known(f) == f = "beacon"
Awaited(f) == f # "no_request"

(* rsi_get_*_meas; a request that cannot be sent is not noticed            *)
RrmTrouble(f, sent) == IF f \notin Measurements THEN {f} ELSE IF sent THEN {} ELSE {"unsent"}

(* rsi_rrm_sched_req, with the values its caller leaves.  A request of an unknown type is
   taken for a measurement under way; a frame that is no request is dropped, and the
   next one waits for another call. *)
SchedReq(q, enq, state, pending, m, upset) ==
    IF q = <<>> \/ ~MaySchedule(enq)
    THEN /\ rrm_queue' = q /\ rrm_pending_frame' = pending
         /\ rrm_enq_state' = enq /\ rrm_state' = state
         /\ measuring' = m /\ rrmUpset' = upset
    ELSE LET f == Head(q) IN
         /\ rrm_queue' = Tail(q)
         /\ rrm_pending_frame' = [asks |-> f, there |-> TRUE]
         /\ rrm_enq_state' = (enq \/ Awaited(f))
         /\ rrm_state' = IF Awaited(f) THEN "REQ_SENT" ELSE state
         /\ \E sent \in BOOLEAN :
               /\ measuring' = IF sent /\ f \in Measurements THEN m \cup {f} ELSE m
               /\ rrmUpset' = upset \cup RrmTrouble(f, sent)

RrmBounded == Cardinality(rrmUpset') <= MaxRrmTroubles

(* rsi_rrm_parse_radio_action_frame                                        *)
RadioActionFrame(f) ==
    /\ Len(rrm_queue) < MaxRrmQueue
    /\ IF rrm_state = "REQ_SENT"
       THEN /\ rrm_queue' = Append(rrm_queue, f)
            /\ UNCHANGED <<rrm_pending_frame, rrm_state, rrm_enq_state, measuring, rrmUpset>>
       ELSE SchedReq(Append(rrm_queue, f), rrm_enq_state, rrm_state, rrm_pending_frame, measuring, rrmUpset)
    /\ UNCHANGED bad_report /\ RrmBounded

-----------------------------------------------------------------------------
(* The report on the air takes its addresses, token and channel from the pending frame and
   frees it; without memory or a virtual interface there is no report, and the frame
   stays until another takes its place. *)
PendingAfter(built) == IF built THEN [rrm_pending_frame EXCEPT !.there = FALSE] ELSE rrm_pending_frame

PrepareReport(type, built) ==
    bad_report' = (bad_report \/ (built /\ rrm_pending_frame # [asks |-> type, there |-> TRUE]))

(* RADIO_MEAS_RPT: rrm_enq_state and rrm_state are free again before the report is built *)
MeasReport(type) ==
    /\ rrm_pending_frame # NoFrame
    /\ \E built \in BOOLEAN :
          /\ PrepareReport(type, built)
          /\ SchedReq(rrm_queue, FALSE, "RESP_RCVD", PendingAfter(built), measuring \ {type},
                      IF type \in measuring THEN rrmUpset ELSE rrmUpset \cup {"again"})
    /\ RrmBounded

(* the connection ends: the device drops its measurement, and the driver keeps its state *)
Forgotten ==
    /\ measuring # {} /\ measuring' = {}
    /\ rrmUpset' = rrmUpset \cup {"forgotten"} /\ RrmBounded
    /\ UNCHANGED <<rrm_queue, rrm_pending_frame, rrm_state, rrm_enq_state, bad_report>>

RrmNext ==
    \/ \E f \in RrmFrames : RadioActionFrame(f)
    \/ \E t \in Measurements : MeasReport(t)
    \/ Forgotten

RrmSpec == RrmInit /\ [][RrmNext]_rrmVars

-----------------------------------------------------------------------------
RrmFree(troubles) == rrmUpset \cap troubles = {}

(* The device measures one thing at a time: the queue is served only after a report. *)
OneMeasurement == RrmFree({"again"}) => Cardinality(measuring) <= 1

(* A report is built out of the frame that asked for it, while it is there. *)
ReportBelongs == RrmFree({"again"}) => ~bad_report

(* The driver waits for a report only while the device measures: else no request is ever
   served again. *)
ReportToCome ==
    (RrmFree({"unsent", "forgotten", "other_type"}) /\ rrm_state = "REQ_SENT") => measuring # {}

(* A request waits only behind a measurement. *)
WaitsBehindOne == (RrmFree({"no_request"}) /\ rrm_queue # <<>>) => rrm_state = "REQ_SENT"

RrmInv == OneMeasurement /\ ReportBelongs /\ ReportToCome /\ WaitsBehindOne
=============================================================================
