------------------------------- MODULE UsbBus -------------------------------
(***************************************************************************)
(* The USB transport (rsi_91x_usb.c, rsi_91x_usb_ops.c): one receive URB,  *)
(* its completion handler and the receive thread; selective suspend, which *)
(* withdraws transmit access while the device sleeps, and its timer; the   *)
(* tx thread's set_clr_tx_intention; probe and disconnect.  The USB core   *)
(* (external) serialises suspend, resume, probe and disconnect.            *)
(***************************************************************************)
EXTENDS Naturals

CONSTANTS
    MaxRx,        \* bound on rx_q, which has none in the code
    UsbTroubles   \* of "control", "submit", "receive", "write", "late wait", "unset"
ASSUME UsbAssumption ==
    MaxRx \in Nat /\ UsbTroubles \subseteq {"control", "submit", "receive", "write",
                                            "late wait", "unset"}

VARIABLES
    stage,      \* probe, the life of the interface, and disconnect
    early,      \* the endpoint was ready before the firmware was loaded
    urb,        \* rx_cb[0].rx_urb: "idle", or "flying" in the host controller
    handler,    \* where rsi_rx_done_handler stands
    rx_cb_q,    \* packets in rx_q[0]
    rx_thread,  \* [at: where the rx thread stands, event, done: thread_done]
    autopm,     \* where the core's suspend or resume of the interface stands
    locked,     \* who holds tx_access_lock: "nobody", "suspend", "resume"
    ps,         \* [access: common_hal_tx_access, suspended: usb_intf_in_suspend,
                \*  deep: usb_in_deep_ps]
    timer,      \* suspend_timer: "unset" (no function), "off" or "pending"
    wanted,     \* usb_autopm_get_interface_async has asked for a resume
    tx,         \* [at: where the tx thread stands, intends: tx_intention, waits:
                \*  wait_for_tx_access]
    out,        \* [pending: tx_pending_urbs, failed: write_fail]
    usbUpset    \* auxiliary: what has gone wrong

usbVars == <<stage, early, urb, handler, rx_cb_q, rx_thread, autopm, locked, ps, timer, wanted, tx, out, usbUpset>>
usbRxVars == <<handler, rx_cb_q, rx_thread>>

PmUp      == {"up"}
Resuming  == {"resume", "submit", "grant", "wake"}
UsbTypeOK ==
    /\ stage \in {"probe", "load", "late", "live", "leave", "kill", "gone", "failed"}
    /\ early \in BOOLEAN /\ wanted \in BOOLEAN
    /\ urb \in {"idle", "flying"} /\ handler \in {"idle", "queue", "signal", "submit"}
    /\ rx_cb_q \in 0 .. MaxRx
    /\ rx_thread \in [at : {"wait", "reset", "check", "drain", "exit"}, event : BOOLEAN, done : BOOLEAN]
    /\ autopm \in PmUp \union Resuming \union {"read", "kill", "time", "down"}
    /\ locked \in {"nobody", "suspend", "resume"}
    /\ ps \in [access : BOOLEAN, suspended : BOOLEAN, deep : BOOLEAN]
    /\ timer \in {"unset", "off", "pending"}
    /\ tx \in [at : {"idle", "check", "late", "waiting", "woken", "write", "writing", "clear"},
               intends : BOOLEAN, waits : BOOLEAN]
    /\ out \in [pending : 0 .. 1, failed : BOOLEAN]
    /\ usbUpset \subseteq UsbTroubles \union {"freed"}

UsbInit ==
    /\ stage = "probe" /\ early = FALSE /\ urb = "idle" /\ handler = "idle" /\ rx_cb_q = 0
    /\ rx_thread = [at |-> "wait", event |-> FALSE, done |-> FALSE]
    /\ autopm = "up" /\ locked = "nobody" /\ timer = "unset" /\ wanted = FALSE
    /\ ps = [access |-> FALSE, suspended |-> FALSE, deep |-> FALSE]
    /\ tx = [at |-> "idle", intends |-> FALSE, waits |-> FALSE]
    /\ out = [pending |-> 0, failed |-> FALSE]
    /\ usbUpset = {}

(* Bound: one kind of trouble in a behaviour, as often as it likes. *)
Goes(trouble) ==
    /\ trouble \in UsbTroubles /\ usbUpset \subseteq {trouble}
    /\ usbUpset' = {trouble}
Fine == UNCHANGED usbUpset

(* rsi_rx_urb_submit: no buffer, or the host controller refuses; the core refuses an
   URB that is being killed without more ado. *)
Submit == \/ urb' = "flying" /\ Fine
          \/ urb' = "idle" /\ Goes("submit")

-----------------------------------------------------------------------------
(* rsi_probe: the receive URB is submitted once, before or after the firmware. *)
ProbeEndpoint ==
    /\ stage = "probe"
    /\ early' \in BOOLEAN
    /\ IF early' THEN Submit ELSE Fine /\ UNCHANGED urb
    /\ stage' = IF early' /\ urb' = "idle" THEN "failed" ELSE "load"
    /\ UNCHANGED <<usbRxVars, autopm, locked, ps, timer, wanted, tx, out>>

(* rsi_hal_device_init fails: err1 frees an URB that may be in flight, and its context *)
LoadFails ==
    /\ stage = "load"
    /\ stage' = "failed"
    /\ usbUpset' = IF urb = "flying" \/ handler # "idle" THEN usbUpset \union {"freed"} ELSE usbUpset
    /\ UNCHANGED <<early, urb, usbRxVars, autopm, locked, ps, timer, wanted, tx, out>>

LateSubmit == ~early
ProbeEnds ==
    /\ stage = "load"
    /\ IF LateSubmit THEN Submit ELSE Fine /\ UNCHANGED urb
    /\ stage' = IF LateSubmit /\ urb' = "idle" THEN "failed" ELSE "live"
    /\ ps' = [ps EXCEPT !.access = TRUE]      \* the card is ready
    /\ UNCHANGED <<early, usbRxVars, autopm, locked, timer, wanted, tx, out>>

-----------------------------------------------------------------------------
(* rsi_rx_done_handler.  A packet with an error or an impossible length ends reception:
   the URB is not submitted again. *)
UrbCompletes ==
    /\ urb = "flying" /\ handler = "idle" /\ stage \in {"load", "live"} /\ rx_cb_q < MaxRx
    /\ urb' = "idle"
    /\ \/ handler' = "queue" /\ Fine
       \/ handler' = "idle" /\ Goes("receive")
    /\ UNCHANGED <<stage, early, rx_cb_q, rx_thread, autopm, locked, ps, timer, wanted, tx, out>>

HandlerQueues ==
    /\ handler = "queue"
    /\ rx_cb_q' = rx_cb_q + 1
    /\ handler' = "signal"
    /\ UNCHANGED <<stage, early, urb, rx_thread, autopm, locked, ps, timer, wanted, tx, out, usbUpset>>

HandlerSignals ==
    /\ handler = "signal"
    /\ rx_thread' = [rx_thread EXCEPT !.event = TRUE]
    /\ handler' = "submit"
    /\ UNCHANGED <<stage, early, urb, rx_cb_q, autopm, locked, ps, timer, wanted, tx, out, usbUpset>>

(* Mutant: the buffer is handed on and the URB left. *)
HandlerSubmits_Not ==
    /\ handler = "submit"
    /\ handler' = "idle"
    /\ UNCHANGED <<stage, early, urb, rx_cb_q, rx_thread, autopm, locked, ps, timer, wanted, tx, out, usbUpset>>
HandlerSubmits ==
    /\ handler = "submit"
    /\ handler' = "idle"
    /\ IF autopm = "kill" \/ stage = "leave" THEN Fine /\ UNCHANGED urb ELSE Submit
    /\ UNCHANGED <<stage, early, rx_cb_q, rx_thread, autopm, locked, ps, timer, wanted, tx, out>>

(* rsi_usb_rx_thread *)
RxAt(l) == rx_thread' = [rx_thread EXCEPT !.at = l]
RxStep ==
    \/ rx_thread.at = "wait" /\ rx_thread.event /\ RxAt("reset") /\ UNCHANGED rx_cb_q
    \/ rx_thread.at = "drain" /\ rx_cb_q > 0 /\ rx_cb_q' = rx_cb_q - 1 /\ UNCHANGED rx_thread
    \/ rx_thread.at = "drain" /\ rx_cb_q = 0 /\ RxAt("wait") /\ UNCHANGED rx_cb_q
(* Mutant: the thread looks whether it shall end before it resets the event. *)
RxResets_Late ==
    \/ rx_thread.at = "reset" /\ RxAt(IF rx_thread.done THEN "exit" ELSE "check") /\ UNCHANGED rx_cb_q
    \/ rx_thread.at = "check" /\ rx_thread' = [rx_thread EXCEPT !.event = FALSE, !.at = "drain"] /\ UNCHANGED rx_cb_q
RxResets ==
    \/ rx_thread.at = "reset" /\ rx_thread' = [rx_thread EXCEPT !.event = FALSE, !.at = "check"] /\ UNCHANGED rx_cb_q
    \/ rx_thread.at = "check" /\ RxAt(IF rx_thread.done THEN "exit" ELSE "drain") /\ UNCHANGED rx_cb_q
(* Mutant: the event is reset when the queue was found empty. *)
RxThread_ResetsLast ==
    /\ \/ rx_thread.at = "wait" /\ rx_thread.event /\ RxAt("check") /\ UNCHANGED rx_cb_q
       \/ rx_thread.at = "check" /\ RxAt(IF rx_thread.done THEN "exit" ELSE "drain") /\ UNCHANGED rx_cb_q
       \/ rx_thread.at = "drain" /\ rx_cb_q > 0 /\ rx_cb_q' = rx_cb_q - 1 /\ UNCHANGED rx_thread
       \/ rx_thread.at = "drain" /\ rx_cb_q = 0 /\ RxAt("reset") /\ UNCHANGED rx_cb_q
       \/ rx_thread.at = "reset" /\ rx_thread' = [rx_thread EXCEPT !.event = FALSE, !.at = "wait"] /\ UNCHANGED rx_cb_q
    /\ UNCHANGED <<stage, early, urb, handler, autopm, locked, ps, timer, wanted, tx, out, usbUpset>>
RxThread ==
    /\ RxStep \/ RxResets
    /\ UNCHANGED <<stage, early, urb, handler, autopm, locked, ps, timer, wanted, tx, out, usbUpset>>

-----------------------------------------------------------------------------
(* rsi_suspend, called when the interface is idle for the core; the lock is held from
   the test to the end of usb_kill_urb. *)
(* Mutant: nobody asks for the intentions. *)
MaySuspend_Anyway == TRUE
MaySuspend == ~tx.intends
SuspendTests ==
    /\ stage = "live" /\ autopm = "up" /\ ~wanted
    /\ locked = "nobody" /\ MaySuspend /\ out.pending = 0
    /\ locked' = "suspend" /\ autopm' = "read"
    /\ UNCHANGED <<stage, early, urb, usbRxVars, ps, timer, wanted, tx, out, usbUpset>>

(* The device is awake, sleeps too short, or cannot be asked; or it sleeps. *)
SuspendReads ==
    /\ autopm = "read"
    /\ \/ autopm' = "up" /\ locked' = "nobody" /\ UNCHANGED ps
       \/ /\ autopm' = "kill" /\ UNCHANGED locked
          /\ \E d \in BOOLEAN : ps' = [ps EXCEPT !.deep = d]
    /\ UNCHANGED <<stage, early, urb, usbRxVars, timer, wanted, tx, out, usbUpset>>

Withdraws == ps' = [ps EXCEPT !.access = FALSE, !.suspended = TRUE]
SuspendKills ==
    /\ autopm = "kill" /\ handler = "idle"
    /\ urb' = "idle"
    /\ Withdraws
    /\ locked' = "nobody" /\ autopm' = "time"
    /\ UNCHANGED <<stage, early, usbRxVars, timer, wanted, tx, out, usbUpset>>

SuspendTimes ==
    /\ autopm = "time"
    /\ timer' = "pending" /\ autopm' = "down"
    /\ UNCHANGED <<stage, early, urb, usbRxVars, locked, ps, wanted, tx, out, usbUpset>>

(* rsi_usb_suspend_timeout: in deep sleep it waits for somebody to write. *)
(* Mutant: it waits in deep sleep whoever wants to write. *)
Rearms_Always == ps.deep
Rearms == ps.deep /\ ~tx.intends
(* Mutant: a deep sleep is left to itself. *)
AsksResume_Shallow == ps.suspended /\ ~ps.deep /\ autopm \in {"time", "down"}
AsksResume == ps.suspended /\ autopm \in {"time", "down"}
TimerExpires ==
    /\ timer = "pending" /\ stage # "gone"
    /\ IF ps.suspended /\ Rearms THEN UNCHANGED <<timer, wanted>>
       ELSE /\ timer' = "off"
            /\ wanted' = (wanted \/ AsksResume)
    /\ UNCHANGED <<stage, early, urb, usbRxVars, autopm, locked, ps, tx, out, usbUpset>>

(* rsi_resume, which the timer, a user or the removal of the device asks for *)
ResumeBegins ==
    /\ autopm = "down" /\ locked = "nobody"
    /\ locked' = "resume" /\ autopm' = "resume" /\ wanted' = FALSE
    /\ UNCHANGED <<stage, early, urb, usbRxVars, ps, timer, tx, out, usbUpset>>

(* The core takes the interface for resumed whatever rsi_resume returns. *)
ResumeReads ==
    /\ autopm = "resume"
    /\ \/ autopm' = "submit" /\ Fine /\ UNCHANGED locked
       \/ autopm' = "up" /\ Goes("control") /\ locked' = "nobody"
    /\ UNCHANGED <<stage, early, urb, usbRxVars, ps, timer, wanted, tx, out>>

(* Mutant: the error path of the code, which keeps the lock, on success too. *)
ResumeUnlocks_Not == UNCHANGED locked
ResumeUnlocks == locked' = "nobody"
ResumeSubmits ==
    /\ autopm = "submit"
    /\ Submit
    /\ IF urb' = "flying"
         THEN autopm' = "grant" /\ ps' = [ps EXCEPT !.suspended = FALSE] /\ ResumeUnlocks
         ELSE autopm' = "up" /\ UNCHANGED <<ps, locked>>
    /\ UNCHANGED <<stage, early, usbRxVars, timer, wanted, tx, out>>

(* sleep_exit_recvd *)
ResumeGrants ==
    /\ autopm = "grant" /\ locked = "nobody"
    /\ ps' = [ps EXCEPT !.access = TRUE]
    /\ autopm' = "wake"
    /\ UNCHANGED <<stage, early, urb, usbRxVars, locked, timer, wanted, tx, out, usbUpset>>

ResumeWakes ==
    /\ autopm = "wake"
    /\ tx' = [tx EXCEPT !.waits = FALSE]
    /\ autopm' = "up"
    /\ UNCHANGED <<stage, early, urb, usbRxVars, locked, ps, timer, wanted, out, usbUpset>>

-----------------------------------------------------------------------------
(* The tx thread: set_clr_tx_intention and one packet (rsi_usb_card_write). *)
TxAt(l) == tx' = [tx EXCEPT !.at = l]

(* Between the unlock of the first suspend and its timer_setup the timer has no function. *)
TxAsks ==
    /\ stage = "live" /\ tx.at = "idle" /\ locked = "nobody"
    /\ tx' = [tx EXCEPT !.intends = TRUE, !.at = "check"]
    /\ IF ps.suspended
         THEN /\ IF timer = "unset" THEN Goes("unset") /\ UNCHANGED timer
                                    ELSE timer' = "pending" /\ Fine
         ELSE Fine /\ UNCHANGED timer
    /\ UNCHANGED <<stage, early, urb, usbRxVars, autopm, locked, ps, wanted, out>>

(* Between the look at the access and the mark a grant is missed. *)
TxChecks ==
    /\ \/ tx.at = "check" /\ TxAt(IF ps.access THEN "write" ELSE "late") /\ Fine
       \/ /\ tx.at = "late"
          /\ IF ps.access THEN Goes("late wait") ELSE Fine
          /\ tx' = [tx EXCEPT !.waits = TRUE, !.at = "waiting"]
       \/ tx.at = "waiting" /\ ~tx.waits /\ TxAt("woken") /\ Fine
       \/ tx.at = "woken" /\ TxAt(IF ps.access THEN "write" ELSE "clear") /\ Fine
    /\ UNCHANGED <<stage, early, urb, usbRxVars, autopm, locked, ps, timer, wanted, out>>

TxTimesOut ==
    /\ tx.at = "waiting" /\ tx.waits
    /\ TxAt("clear")
    /\ UNCHANGED <<stage, early, urb, usbRxVars, autopm, locked, ps, timer, wanted, out, usbUpset>>

TxWrites ==
    /\ tx.at = "write"
    /\ IF out.failed THEN TxAt("clear") /\ UNCHANGED out
       ELSE TxAt("writing") /\ out' = [out EXCEPT !.pending = @ + 1]
    /\ UNCHANGED <<stage, early, urb, usbRxVars, autopm, locked, ps, timer, wanted, usbUpset>>

(* A failed write is never forgotten: the counter keeps it, and so does write_fail. *)
WriteFails == out' = [out EXCEPT !.failed = TRUE]
TxWritten ==
    /\ tx.at = "writing"
    /\ TxAt("clear")
    /\ \/ out' = [out EXCEPT !.pending = @ - 1] /\ Fine
       \/ WriteFails /\ Goes("write")
    /\ UNCHANGED <<stage, early, urb, usbRxVars, autopm, locked, ps, timer, wanted>>

TxClears ==
    /\ tx.at = "clear" /\ locked = "nobody"
    /\ tx' = [tx EXCEPT !.intends = FALSE, !.at = "idle"]
    /\ UNCHANGED <<stage, early, urb, usbRxVars, autopm, locked, ps, timer, wanted, out, usbUpset>>

-----------------------------------------------------------------------------
(* rsi_disconnect: the core has resumed the device and killed its URBs; the tx thread is
   stopped, then the interface is freed.  The suspend timer is not deleted. *)
UsbDisconnect ==
    /\ stage = "live" /\ autopm = "up"
    /\ stage' = "leave" /\ urb' = "idle"
    /\ UNCHANGED <<early, usbRxVars, autopm, locked, ps, timer, wanted, tx, out, usbUpset>>

KillRxThread ==
    /\ stage = "leave" /\ tx.at = "idle" /\ handler = "idle" /\ locked = "nobody"
    /\ rx_thread' = [rx_thread EXCEPT !.done = TRUE, !.event = TRUE]
    /\ stage' = "kill"
    /\ UNCHANGED <<early, urb, handler, rx_cb_q, autopm, locked, ps, timer, wanted, tx, out, usbUpset>>

(* Mutant: nobody waits for the receive thread's end. *)
ThreadEnded_Anyway == TRUE
ThreadEnded == rx_thread.at = "exit"
FreeInterface ==
    /\ stage = "kill" /\ ThreadEnded
    /\ stage' = "gone" /\ rx_cb_q' = 0
    /\ UNCHANGED <<early, urb, handler, rx_thread, autopm, locked, ps, timer, wanted, tx, out, usbUpset>>

Handler  == HandlerQueues \/ HandlerSignals \/ HandlerSubmits
UsbSuspend  == SuspendReads \/ SuspendKills \/ SuspendTimes
UsbResume   == ResumeReads \/ ResumeSubmits \/ ResumeGrants \/ ResumeWakes
TxThread == TxChecks \/ TxWrites \/ TxWritten \/ TxClears
Removal  == KillRxThread \/ FreeInterface

UsbNext ==
    \/ ProbeEndpoint \/ LoadFails \/ ProbeEnds
    \/ UrbCompletes \/ Handler \/ RxThread
    \/ SuspendTests \/ UsbSuspend \/ TimerExpires \/ ResumeBegins \/ UsbResume
    \/ TxAsks \/ TxThread \/ TxTimesOut
    \/ UsbDisconnect \/ Removal

UsbSpec == UsbInit /\ [][UsbNext]_usbVars

(* Threads run, the timer expires, and the core carries out a resume it was asked for;
   nobody has to suspend, to write or to unplug the device. *)
UsbFairSpec ==
    /\ UsbSpec
    /\ WF_usbVars(Handler) /\ WF_usbVars(RxThread) /\ WF_usbVars(UsbSuspend) /\ WF_usbVars(UsbResume)
    /\ WF_usbVars(TimerExpires) /\ WF_usbVars(ResumeBegins /\ wanted)
    /\ WF_usbVars(TxThread) /\ WF_usbVars(Removal)

-----------------------------------------------------------------------------
Without(troubles) == usbUpset \intersect troubles = {}

(* The device that is awake for the driver is listened to: the URB is in flight or its
   handler is about to submit it again (usb.c:374-444, 1169).  One bad packet
   (usb.c:379, 384) or a failed submission ends this. *)
ReceiveAlive ==
    /\ stage = "live" /\ ~ps.suspended /\ Without({"receive", "submit"})
    => urb = "flying" \/ handler # "idle" \/ autopm = "kill"

(* The tx thread writes to a device that is not suspended, and suspend begins with no
   write under way: intention, access and the lock are handled in the right order. *)
WritesAwake ==
    tx.at \in {"write", "writing"} => ~ps.suspended /\ autopm \notin {"time", "down", "resume", "submit"}

(* tx_access_lock is free when neither suspend nor resume runs (but for usb.c:1183). *)
LockReleased ==
    Without({"submit"}) /\ locked # "nobody" => autopm \in {"read", "kill", "resume", "submit"}

(* A suspended device has somebody to wake it (usb.c:1083-1106). *)
SomebodyWakes ==
    Without({"control", "submit"}) /\ autopm = "down" => timer = "pending" \/ wanted

(* What is freed is not in use; probe's error path after an early submission is the
   exception (usb.c:957). *)
FreedIdle ==
    stage \in {"gone", "failed"} /\ Without({"freed"})
        => urb = "idle" /\ handler = "idle" /\ tx.at = "idle" /\ (stage = "gone" => rx_thread.at = "exit")

(* A queued packet gets the receive thread to work: the event is set after it is queued
   and reset before the queue is emptied. *)
UsbDrained == rx_cb_q > 0 ~> rx_thread.at = "drain" \/ rx_thread.done

(* A thread that wants to write wakes a suspended device, and is let go. *)
WakesForTx ==
    tx.at = "waiting" ~> tx.at # "waiting" \/ ~Without({"control", "submit", "late wait", "unset"})

(* Disconnect ends, however the receive thread meets the request to stop. *)
UsbGone == stage = "kill" ~> stage = "gone"

(* Safety of the USB transport: the parts above. *)
UsbInv ==
    /\ UsbTypeOK
    /\ ReceiveAlive /\ WritesAwake /\ LockReleased /\ SomebodyWakes /\ FreedIdle

(* What is received is taken, who waits to write is woken, who unplugs is let go. *)
UsbLive == UsbDrained /\ WakesForTx /\ UsbGone
=============================================================================
