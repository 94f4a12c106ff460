------------------------------ MODULE ScanWork ------------------------------
(***************************************************************************)
(* A scan of a station that is not associated: mac80211 asks for it and    *)
(* may cancel it (rsi_91x_mac80211.c), a work item walks the channels      *)
(* (rsi_scan_start, rsi_91x_mgmt.c), and a kernel timer tells it when to   *)
(* leave one.  mac80211 calls the driver one operation at a time; the work *)
(* item and the timer run beside it and share scan_in_prog, hw_scan_cancel *)
(* and two events with it, without a lock.                                 *)
(*                                                                         *)
(* Waits the code bounds (50 ms for a confirmation, 2 s for power save) go *)
(* on whether the answer came or not and are not steps here.               *)
(***************************************************************************)
EXTENDS Naturals

CONSTANTS
    CHANNELS,       \* channels of the scan request
    SplitCallback   \* TRUE: the timer callback may be delayed between its lines

ASSUME ChannelsPositive == CHANNELS \in Nat \ {0}
ASSUME SplitBoolean == SplitCallback \in BOOLEAN

VARIABLES
    scanning,         \* mac80211 has a scan the driver has not completed
    op,               \* where the driver operation mac80211 called stands
    scan_request,     \* common->scan_request is not NULL
    scan_in_prog,
    hw_scan_cancel,
    cancel_event,     \* cancel_hw_scan_event is set
    queued,           \* scan_work is on its queue
    worker,           \* where rsi_scan_start stands
    channel,          \* ii
    chan_event,       \* chan_change_event is set
    timer,            \* scan_timer is pending
    callback          \* where channel_change_event stands

request == <<scanning, op, scan_request, hw_scan_cancel>>
clock   == <<timer, callback>>
walk    == <<queued, worker, channel>>
scanVars    == <<request, walk, clock, scan_in_prog, cancel_event, chan_event>>

\* The lines of the work item between which mac80211 is owed a completion.
Walking == {"mark", "top", "settle", "arm", "armed", "wait", "end", "done", "complete"}

ScanTypeOK ==
    /\ scanning \in BOOLEAN /\ scan_request \in BOOLEAN
    /\ op \in {"idle", "start", "sync", "cancel", "cancel_wait", "cancel_end"}
    /\ scan_in_prog \in BOOLEAN /\ hw_scan_cancel \in BOOLEAN
    /\ cancel_event \in BOOLEAN /\ chan_event \in BOOLEAN
    /\ queued \in BOOLEAN
    /\ worker \in Walking \cup {"idle", "tail"}
    /\ channel \in 0 .. CHANNELS
    /\ timer \in BOOLEAN
    /\ callback \in {"idle", "set", "delete"}

ScanInit ==
    /\ scanning = FALSE /\ op = "idle" /\ scan_request = FALSE
    /\ scan_in_prog = FALSE /\ hw_scan_cancel = FALSE
    /\ cancel_event = FALSE /\ chan_event = FALSE
    /\ queued = FALSE /\ worker = "idle" /\ channel = 0
    /\ timer = FALSE /\ callback = "idle"

-----------------------------------------------------------------------------
(* mac80211's calls                                                         *)

\* rsi_mac80211_hw_scan_start, up to its test of scan_in_prog (-EBUSY).
StartScan ==
    /\ op = "idle" /\ ~scanning
    /\ scan_request' = TRUE
    /\ IF scan_in_prog THEN UNCHANGED <<op, scanning>>
                       ELSE op' = "sync" /\ scanning' = TRUE
    /\ UNCHANGED <<hw_scan_cancel, walk, clock, scan_in_prog, cancel_event, chan_event>>

\* cancel_work_sync waits for a run that is ending; then the work is queued.
QueueScan ==
    /\ op = "sync" /\ worker = "idle"
    /\ scan_in_prog' = FALSE
    /\ queued' = TRUE
    /\ op' = "idle"
    /\ UNCHANGED <<scanning, scan_request, hw_scan_cancel, worker, channel, clock,
                   cancel_event, chan_event>>

\* rsi_mac80211_hw_scan_cancel: mac80211 calls it for a scan it has, rsi_suspend
\* whether there is one or not.
CancelScan ==
    /\ op = "idle"
    /\ hw_scan_cancel' = TRUE
    /\ op' = "cancel"
    /\ UNCHANGED <<scanning, scan_request, walk, clock, scan_in_prog, cancel_event, chan_event>>

CancelTest ==
    /\ op = "cancel"
    /\ scan_in_prog' = FALSE
    /\ op' = IF scan_in_prog THEN "cancel_wait" ELSE "cancel_end"
    /\ UNCHANGED <<scanning, scan_request, hw_scan_cancel, walk, clock, cancel_event, chan_event>>

CancelWaited ==
    /\ op = "cancel_wait" /\ cancel_event
    /\ cancel_event' = FALSE
    /\ scan_request' = FALSE
    /\ op' = "cancel_end"
    /\ UNCHANGED <<scanning, hw_scan_cancel, walk, clock, scan_in_prog, chan_event>>

CancelReturn ==
    /\ op = "cancel_end"
    /\ hw_scan_cancel' = FALSE
    /\ op' = "idle"
    /\ UNCHANGED <<scanning, scan_request, walk, clock, scan_in_prog, cancel_event, chan_event>>

\* (mutant: the work is cancelled without waiting for a run that has begun)
StopInterface_NoSync ==
    /\ op = "idle"
    /\ queued' = FALSE
    /\ scan_in_prog' = FALSE
    /\ scanning' = FALSE
    /\ UNCHANGED <<op, scan_request, hw_scan_cancel, worker, channel, clock,
                   cancel_event, chan_event>>

\* rsi_mac80211_stop: cancel_work_sync drops a queued scan and waits for a
\* running one; mac80211 forgets the scan of an interface that is down.
StopInterface ==
    /\ op = "idle" /\ worker = "idle"
    /\ queued' = FALSE
    /\ scan_in_prog' = FALSE
    /\ scanning' = FALSE
    /\ UNCHANGED <<op, scan_request, hw_scan_cancel, worker, channel, clock,
                   cancel_event, chan_event>>

-----------------------------------------------------------------------------
(* rsi_scan_start                                                           *)

WorkBegins ==
    /\ queued /\ worker = "idle"
    /\ queued' = FALSE
    /\ worker' = IF scan_request THEN "mark" ELSE "idle"
    /\ channel' = 0
    /\ UNCHANGED <<request, clock, scan_in_prog, cancel_event, chan_event>>

MarkScan ==
    /\ worker = "mark"
    /\ scan_in_prog' = TRUE
    /\ worker' = "top"
    /\ UNCHANGED <<request, queued, channel, clock, cancel_event, chan_event>>

\* The head of the loop.  A disabled channel is skipped; rsi_set_channel may
\* succeed, be unsupported (the timer is armed at once), or fail.
NextChannel ==
    /\ worker = "top"
    /\ IF channel = CHANNELS \/ ~scan_in_prog
       THEN worker' = "end" /\ channel' = channel
       ELSE \/ worker' = "top" /\ channel' = channel + 1
            \/ worker' \in {"settle", "arm", "end"} /\ channel' = channel
    /\ UNCHANGED <<request, queued, clock, scan_in_prog, cancel_event, chan_event>>

\* (mutant: a cancelled scan returns at once, as the probe branch does)
ChannelSettled_Returns ==
    /\ worker = "settle"
    /\ worker' = IF scan_in_prog THEN "arm" ELSE "idle"
    /\ UNCHANGED <<request, queued, channel, clock, scan_in_prog, cancel_event, chan_event>>

\* The channel is set, or 50 ms are over; probe requests go out.
ChannelSettled ==
    /\ worker = "settle"
    /\ worker' = IF scan_in_prog THEN "arm" ELSE "end"
    /\ UNCHANGED <<request, queued, channel, clock, scan_in_prog, cancel_event, chan_event>>

\* init_channel_timer
ArmTimer ==
    /\ worker = "arm"
    /\ chan_event' = FALSE
    /\ timer' = TRUE
    /\ worker' = "armed"
    /\ UNCHANGED <<request, queued, channel, callback, scan_in_prog, cancel_event>>

Armed ==
    /\ worker = "armed"
    /\ worker' = IF scan_in_prog THEN "wait" ELSE "end"
    /\ UNCHANGED <<request, queued, channel, clock, scan_in_prog, cancel_event, chan_event>>

LeaveChannel ==
    /\ worker = "wait" /\ chan_event
    /\ chan_event' = FALSE
    /\ channel' = channel + 1
    /\ worker' = "top"
    /\ UNCHANGED <<request, queued, clock, scan_in_prog, cancel_event>>

\* del_timer does not wait for a callback that is running.
StopTimer ==
    /\ worker = "end"
    /\ timer' = FALSE
    /\ worker' = "done"
    /\ UNCHANGED <<request, queued, channel, callback, scan_in_prog, cancel_event, chan_event>>

UnmarkScan ==
    /\ worker = "done"
    /\ scan_in_prog' = FALSE
    /\ worker' = "complete"
    /\ UNCHANGED <<request, queued, channel, clock, cancel_event, chan_event>>

\* ieee80211_scan_completed
CompleteScan ==
    /\ worker = "complete"
    /\ scanning' = FALSE
    /\ worker' = "tail"
    /\ UNCHANGED <<op, scan_request, hw_scan_cancel, queued, channel, clock,
                   scan_in_prog, cancel_event, chan_event>>

\* (mutant: nobody tells the cancelling thread)
WorkEnds_Silent ==
    /\ worker = "tail"
    /\ worker' = "idle"
    /\ UNCHANGED <<request, queued, channel, clock, scan_in_prog, cancel_event, chan_event>>

\* A cancelled scan wakes the thread that waits for its end.
WorkEnds ==
    /\ worker = "tail"
    /\ cancel_event' = (cancel_event \/ hw_scan_cancel)
    /\ worker' = "idle"
    /\ UNCHANGED <<request, queued, channel, clock, scan_in_prog, chan_event>>

-----------------------------------------------------------------------------
(* channel_change_event                                                     *)

\* The timer expires.  Its callback sets the event and deletes the timer: in
\* one step, or, delayed, in two.
TimerExpires ==
    /\ timer /\ callback = "idle"
    /\ timer' = FALSE
    /\ IF SplitCallback THEN callback' = "set" /\ UNCHANGED chan_event
                        ELSE chan_event' = TRUE /\ UNCHANGED callback
    /\ UNCHANGED <<request, walk, scan_in_prog, cancel_event>>

CallbackSets ==
    /\ callback = "set"
    /\ chan_event' = TRUE
    /\ callback' = "delete"
    /\ UNCHANGED <<request, walk, timer, scan_in_prog, cancel_event>>

CallbackDeletes ==
    /\ callback = "delete"
    /\ timer' = FALSE
    /\ callback' = "idle"
    /\ UNCHANGED <<request, walk, scan_in_prog, cancel_event, chan_event>>

Worker  == \/ WorkBegins \/ MarkScan \/ NextChannel \/ ChannelSettled \/ ArmTimer \/ Armed
           \/ LeaveChannel \/ StopTimer \/ UnmarkScan \/ CompleteScan \/ WorkEnds
Clock   == TimerExpires \/ CallbackSets \/ CallbackDeletes
Request == \/ StartScan \/ QueueScan
           \/ CancelScan \/ CancelTest \/ CancelWaited \/ CancelReturn
           \/ StopInterface

ScanNext == Request \/ Worker \/ Clock

ScanSpec == ScanInit /\ [][ScanNext]_scanVars

\* The workqueue and the timer run, and an operation that was called goes on;
\* mac80211 need not call any.
Called == QueueScan \/ CancelTest \/ CancelWaited \/ CancelReturn

ScanFairSpec == /\ ScanSpec
                /\ WF_scanVars(Worker) /\ WF_scanVars(Clock) /\ WF_scanVars(Called)

-----------------------------------------------------------------------------
(* Properties                                                               *)

\* ieee80211_scan_completed answers a scan mac80211 still has (mgmt.c 3725):
\* cancelling, stopping the interface and asking again never make the work
\* item complete a scan twice, or complete one that was forgotten.
CompletesItsScan == worker = "complete" => scanning

\* init_channel_timer never finds the timer of an earlier channel or of an
\* earlier scan pending (mgmt.c 3453, "This Case Should not occur").
TimerNotPending == worker = "arm" => ~timer

\* The callback is about to delete a timer armed after the one it ran for.
DeletesNewTimer == callback = "delete" /\ timer

\* Unless a late callback deletes the next channel's timer, a thread that waits
\* in rsi_mac80211_hw_scan_cancel, without a limit and with the mutex of all
\* other operations held (mac80211.c 697), is let go.
CancelReturns == []~DeletesNewTimer => (op = "cancel_wait" ~> op = "idle")

\* Under the same condition every scan the driver accepts is completed,
\* cancelled in the middle or not.
ScanAnswered == []~DeletesNewTimer => (scanning ~> ~scanning)

(* Nobody waits for ever for a scan: both of the above. *)
ScanReturns == CancelReturns /\ ScanAnswered
=============================================================================
