-------------------------- MODULE Mac80211_proofs ---------------------------
(***************************************************************************)
(* Proofs about the two kinds of scan, ScanWork and BgScan, and about the  *)
(* interface and its channel, MacVif.                                      *)
(*                                                                         *)
(* ScanWork.  RequestInv says what the operations of mac80211 and the work *)
(* item know of each other, ChannelInv that a channel being scanned is one *)
(* of the request's, TimerInv where in the work item the timer may be      *)
(* pending, when its callback runs in one step.                            *)
(*                                                                         *)
(* BgScan.  AnswerInv says where the answer to mac80211's scan is, and     *)
(* CoveredInv what the device has scanned of the list at each point.       *)
(*                                                                         *)
(* MacVif.  VifIInv adds to VifInv what mac80211 and the driver know of    *)
(* each other (VifShape), that the device is tuned home also before an     *)
(* association (TunedHome), and whose the timer is (RocUnderWay).          *)
(***************************************************************************)
EXTENDS ScanWork, BgScan, MacVif, TLAPS

\* A queued or walking scan is one mac80211 waits for; while an operation
\* starts a scan, the work item of the one before is at its end at most.
RequestInv ==
    /\ queued \/ worker \in Walking => scanning
    /\ op = "sync" => scanning /\ ~queued /\ worker \in {"idle", "tail"}
    /\ queued => worker = "idle"

\* Between the head of the loop and the end of the wait there is a channel.
ChannelInv == worker \in {"settle", "arm", "armed", "wait"} => channel < CHANNELS

\* The timer runs only while the work item stands on its channel, and is gone
\* when the event says so.
TimerInv ==
    ~SplitCallback =>
        /\ callback = "idle"
        /\ timer => worker \in {"armed", "wait", "end"}
        /\ worker \in {"armed", "wait"} /\ chan_event => ~timer

Inv == ScanTypeOK /\ RequestInv /\ ChannelInv /\ TimerInv

LEMMA InitInv == ScanInit => Inv
<1> SUFFICES ASSUME ScanInit PROVE Inv
  OBVIOUS
<1>1. ScanTypeOK
  <2>1. channel \in 0 .. CHANNELS
    BY ChannelsPositive DEF ScanInit
  <2>2. QED
    BY <2>1 DEF ScanInit, ScanTypeOK, Walking
<1>2. QED
  BY <1>1 DEF ScanInit, Inv, RequestInv, ChannelInv, TimerInv, Walking

\* The operations mac80211 calls.
LEMMA RequestsKeepInv ==
    ASSUME Inv, Request PROVE Inv'
<1> USE DEF Inv, ScanTypeOK, RequestInv, ChannelInv, TimerInv, Walking, clock, walk, request
<1>1. CASE StartScan
  <2>1. ScanTypeOK'
    BY <1>1 DEF StartScan
  <2>2. RequestInv' /\ ChannelInv'
    BY <1>1 DEF StartScan
  <2>3. TimerInv'
    BY <1>1 DEF StartScan
  <2>4. QED
    BY <2>1, <2>2, <2>3
<1>2. CASE QueueScan
  <2>1. ScanTypeOK'
    BY <1>2 DEF QueueScan
  <2>2. RequestInv' /\ ChannelInv'
    BY <1>2 DEF QueueScan
  <2>3. TimerInv'
    BY <1>2 DEF QueueScan
  <2>4. QED
    BY <2>1, <2>2, <2>3
<1>3. CASE CancelScan
  <2>1. ScanTypeOK'
    BY <1>3 DEF CancelScan
  <2>2. RequestInv' /\ ChannelInv'
    BY <1>3 DEF CancelScan
  <2>3. TimerInv'
    BY <1>3 DEF CancelScan
  <2>4. QED
    BY <2>1, <2>2, <2>3
<1>4. CASE CancelTest
  <2>1. ScanTypeOK'
    BY <1>4, ZenonT(60) DEF CancelTest
  <2>2. RequestInv' /\ ChannelInv'
    BY <1>4 DEF CancelTest
  <2>3. TimerInv'
    BY <1>4 DEF CancelTest
  <2>4. QED
    BY <2>1, <2>2, <2>3
<1>5. CASE CancelWaited
  <2>1. ScanTypeOK'
    BY <1>5 DEF CancelWaited
  <2>2. RequestInv' /\ ChannelInv'
    BY <1>5 DEF CancelWaited
  <2>3. TimerInv'
    BY <1>5 DEF CancelWaited
  <2>4. QED
    BY <2>1, <2>2, <2>3
<1>6. CASE CancelReturn
  <2>1. ScanTypeOK'
    BY <1>6 DEF CancelReturn
  <2>2. RequestInv' /\ ChannelInv'
    BY <1>6 DEF CancelReturn
  <2>3. TimerInv'
    BY <1>6 DEF CancelReturn
  <2>4. QED
    BY <2>1, <2>2, <2>3
<1>7. CASE StopInterface
  <2>1. ScanTypeOK'
    BY <1>7 DEF StopInterface
  <2>2. RequestInv' /\ ChannelInv'
    BY <1>7 DEF StopInterface
  <2>3. TimerInv'
    BY <1>7 DEF StopInterface
  <2>4. QED
    BY <2>1, <2>2, <2>3
<1>8. QED
  BY <1>1, <1>2, <1>3, <1>4, <1>5, <1>6, <1>7 DEF Request

\* The work item.
LEMMA WorkerKeepsInv ==
    ASSUME Inv, Worker PROVE Inv'
<1> USE ChannelsPositive
    DEF Inv, ScanTypeOK, RequestInv, ChannelInv, TimerInv, Walking, clock, request
<1>1. CASE WorkBegins
  <2>1. ScanTypeOK'
    <3>1. channel' \in 0 .. CHANNELS
      BY <1>1 DEF WorkBegins
    <3>2. worker' \in Walking \cup {"idle", "tail"}
      BY <1>1 DEF WorkBegins
    <3>3. queued' \in BOOLEAN /\ chan_event' \in BOOLEAN
      BY <1>1 DEF WorkBegins
    <3>4. QED
      BY <1>1, <3>1, <3>2, <3>3 DEF WorkBegins
  <2>2. RequestInv'
    BY <1>1 DEF WorkBegins
  <2>3. ChannelInv' /\ TimerInv'
    BY <1>1 DEF WorkBegins
  <2>4. QED
    BY <2>1, <2>2, <2>3
<1>2. CASE MarkScan
  <2>1. ScanTypeOK'
    BY <1>2 DEF MarkScan
  <2>2. RequestInv' /\ ChannelInv'
    BY <1>2 DEF MarkScan
  <2>3. TimerInv'
    BY <1>2 DEF MarkScan
  <2>4. QED
    BY <2>1, <2>2, <2>3
<1>3. CASE NextChannel
  <2>1. ScanTypeOK'
    BY <1>3 DEF NextChannel
  <2>2. RequestInv' /\ ChannelInv'
    BY <1>3 DEF NextChannel
  <2>3. TimerInv'
    BY <1>3 DEF NextChannel
  <2>4. QED
    BY <2>1, <2>2, <2>3
<1>4. CASE ChannelSettled
  <2>1. ScanTypeOK'
    BY <1>4 DEF ChannelSettled
  <2>2. RequestInv' /\ ChannelInv'
    BY <1>4 DEF ChannelSettled
  <2>3. TimerInv'
    BY <1>4 DEF ChannelSettled
  <2>4. QED
    BY <2>1, <2>2, <2>3
<1>5. CASE ArmTimer
  <2>1. ScanTypeOK'
    BY <1>5 DEF ArmTimer
  <2>2. RequestInv' /\ ChannelInv'
    BY <1>5 DEF ArmTimer
  <2>3. TimerInv'
    BY <1>5 DEF ArmTimer
  <2>4. QED
    BY <2>1, <2>2, <2>3
<1>6. CASE Armed
  <2>1. ScanTypeOK'
    BY <1>6 DEF Armed
  <2>2. RequestInv' /\ ChannelInv'
    BY <1>6 DEF Armed
  <2>3. TimerInv'
    BY <1>6 DEF Armed
  <2>4. QED
    BY <2>1, <2>2, <2>3
<1>7. CASE LeaveChannel
  <2>1. ScanTypeOK'
    <3>1. channel' \in 0 .. CHANNELS
      BY <1>7 DEF LeaveChannel
    <3>2. worker' \in Walking \cup {"idle", "tail"}
      BY <1>7 DEF LeaveChannel
    <3>3. queued' \in BOOLEAN /\ chan_event' \in BOOLEAN
      BY <1>7 DEF LeaveChannel
    <3>4. QED
      BY <1>7, <3>1, <3>2, <3>3 DEF LeaveChannel
  <2>2. RequestInv'
    BY <1>7 DEF LeaveChannel
  <2>3. ChannelInv' /\ TimerInv'
    BY <1>7 DEF LeaveChannel
  <2>4. QED
    BY <2>1, <2>2, <2>3
<1>8. CASE StopTimer
  <2>1. ScanTypeOK'
    BY <1>8 DEF StopTimer
  <2>2. RequestInv' /\ ChannelInv'
    BY <1>8 DEF StopTimer
  <2>3. TimerInv'
    BY <1>8 DEF StopTimer
  <2>4. QED
    BY <2>1, <2>2, <2>3
<1>9. CASE UnmarkScan
  <2>1. ScanTypeOK'
    BY <1>9 DEF UnmarkScan
  <2>2. RequestInv' /\ ChannelInv'
    BY <1>9 DEF UnmarkScan
  <2>3. TimerInv'
    BY <1>9 DEF UnmarkScan
  <2>4. QED
    BY <2>1, <2>2, <2>3
<1>10. CASE CompleteScan
  <2>1. ScanTypeOK'
    BY <1>10 DEF CompleteScan
  <2>2. RequestInv' /\ ChannelInv'
    BY <1>10 DEF CompleteScan
  <2>3. TimerInv'
    BY <1>10 DEF CompleteScan
  <2>4. QED
    BY <2>1, <2>2, <2>3
<1>11. CASE WorkEnds
  <2>1. ScanTypeOK'
    BY <1>11 DEF WorkEnds
  <2>2. RequestInv' /\ ChannelInv'
    BY <1>11 DEF WorkEnds
  <2>3. TimerInv'
    BY <1>11 DEF WorkEnds
  <2>4. QED
    BY <2>1, <2>2, <2>3
<1>12. QED
  BY <1>1, <1>2, <1>3, <1>4, <1>5, <1>6, <1>7, <1>8, <1>9, <1>10, <1>11 DEF Worker

\* The timer.
LEMMA ClockKeepsInv ==
    ASSUME Inv, Clock PROVE Inv'
<1> USE SplitBoolean
    DEF Inv, ScanTypeOK, RequestInv, ChannelInv, TimerInv, Walking, walk, request
<1>1. CASE TimerExpires
  <2>1. ScanTypeOK'
    BY <1>1, ZenonT(60) DEF TimerExpires
  <2>2. RequestInv'
    BY <1>1 DEF TimerExpires
  <2>3. ChannelInv' /\ TimerInv'
    BY <1>1 DEF TimerExpires
  <2>4. QED
    BY <2>1, <2>2, <2>3
<1>2. CASE CallbackSets
  <2>1. ScanTypeOK'
    BY <1>2 DEF CallbackSets
  <2>2. RequestInv' /\ ChannelInv'
    BY <1>2 DEF CallbackSets
  <2>3. TimerInv'
    BY <1>2 DEF CallbackSets
  <2>4. QED
    BY <2>1, <2>2, <2>3
<1>3. CASE CallbackDeletes
  <2>1. ScanTypeOK'
    BY <1>3, ZenonT(60) DEF CallbackDeletes
  <2>2. RequestInv' /\ ChannelInv'
    BY <1>3 DEF CallbackDeletes
  <2>3. TimerInv'
    BY <1>3 DEF CallbackDeletes
  <2>4. QED
    BY <2>1, <2>2, <2>3
<1>4. QED
  BY <1>1, <1>2, <1>3 DEF Clock

-----------------------------------------------------------------------------
\* The inductive invariant of a scan.
THEOREM Invariance == ScanSpec => []Inv
<1>1. Inv /\ [ScanNext]_scanVars => Inv'
  <2>1. ASSUME Inv, ScanNext PROVE Inv'
    BY <2>1, RequestsKeepInv, WorkerKeepsInv, ClockKeepsInv DEF ScanNext
  <2>2. ASSUME Inv, UNCHANGED scanVars PROVE Inv'
    BY <2>2 DEF Inv, ScanTypeOK, RequestInv, ChannelInv, TimerInv, scanVars, request, walk, clock
  <2>3. QED
    BY <2>1, <2>2
<1>2. QED
  BY InitInv, <1>1, PTL DEF ScanSpec

\* Type correctness; the walk never passes the last channel of the request.
THEOREM TypeCorrect == ScanSpec => []ScanTypeOK
<1>1. Inv => ScanTypeOK
  BY DEF Inv
<1>2. QED
  BY <1>1, Invariance, PTL

\* The driver completes a scan only when mac80211 waits for one, for any number
\* of channels and however late the timer's callback runs.
THEOREM CompletionsMatched == ScanSpec => []CompletesItsScan
<1>1. Inv => CompletesItsScan
  BY DEF Inv, RequestInv, CompletesItsScan, Walking
<1>2. QED
  BY <1>1, Invariance, PTL

\* With a callback that is not delayed between its two lines, the timer is
\* never pending when it is set up again.
THEOREM TimerFree == ScanSpec => [](~SplitCallback => TimerNotPending)
<1>1. Inv => (~SplitCallback => TimerNotPending)
  BY DEF Inv, TimerInv, TimerNotPending
<1>2. QED
  BY <1>1, Invariance, PTL

-----------------------------------------------------------------------------
(* The background scan.                                                    *)

\* What holds of every background scan: half a list is remembered only for a scan mac80211
\* waits for, of a station that is there; debugfs leaves something to apply only with its list.
HalvesInv ==
    /\ "initial" \in flags => bgscan /\ station
    /\ "apply" \in flags => "debugfs" \in flags
    /\ "twice" \notin bgUpset

\* In a clean scan the device has it, or its confirmation waits, and nothing else is under way.
AnswerInv ==
    /\ bgscan => (device.busy /\ cfms = 0) \/ (~device.busy /\ cfms = 1)
    /\ ~bgscan => ~device.busy /\ cfms = 0
    /\ handler \in {"idle", "event"} => ("hwscan" \in flags <=> bgscan)
    /\ handler \in {"completed", "cleared"} => ~bgscan
    /\ "in_prog" \in flags => bgscan \/ handler = "completed"
    /\ ~station => ~bgscan /\ handler = "idle"

\* What a clean scan has covered so far.
CoveredInv ==
    bgscan /\ "debugfs" \notin flags =>
        /\ channels = "short" =>
              /\ "initial" \notin flags /\ device.list = "all"
              /\ device.busy \/ "all" \in device.done
        /\ channels = "long" /\ "initial" \in flags =>
              device.list = "first" /\ (device.busy \/ "first" \in device.done)
        /\ channels = "long" /\ "initial" \notin flags =>
              /\ device.list = "second" /\ "first" \in device.done
              /\ device.busy \/ "second" \in device.done

BgIInv == BgTypeOK /\ HalvesInv /\ (BgClean => AnswerInv /\ CoveredInv)

\* What the part sent and the flags after it may be.
LEMMA HalfSentFacts ==
    ASSUME NEW l \in {"short", "long"}, NEW f \in SUBSET Flags
    PROVE  /\ PartToSend(l, f) \in Parts
           /\ HalfSent(l, f) \subseteq Flags
           /\ HalfSent(l, f) \ {"initial"} = f \ {"initial"}
           /\ "hwscan" \in f => "hwscan" \in HalfSent(l, f)
           /\ "debugfs" \in HalfSent(l, f) <=> "debugfs" \in f
           /\ "apply" \in HalfSent(l, f) <=> "apply" \in f
  BY DEF PartToSend, HalfSent, Parts, Flags

\* Switching the parameters off does not start the device.
LEMMA ParamsOffTyped ==
    ASSUME device \in [busy : BOOLEAN, list : Parts, done : SUBSET Parts], ParamsOff
    PROVE  /\ device' \in [busy : BOOLEAN, list : Parts, done : SUBSET Parts]
           /\ ~device.busy => ~device'.busy
           /\ device'.list = device.list /\ device'.done = device.done
<1>1. PICK b \in {device.busy, FALSE} : device' = [device EXCEPT !.busy = b]
  BY DEF ParamsOff
<1>2. b \in BOOLEAN
  OBVIOUS
<1>3. QED
  BY <1>1, <1>2

\* The handler of the device's confirmations.
LEMMA BgHandlerKeepsInv ==
    ASSUME BgIInv, BgHandler PROVE BgIInv'
<1> USE BgScanAssumption DEF BgIInv, BgTypeOK, HalvesInv, AnswerInv, CoveredInv, BgClean,
            BgExcluded, Upsets, May, Parts, Flags
<1>1. CASE SecondHalf
  <2>1. PICK sent \in BOOLEAN :
            /\ sent \/ May("lost")
            /\ IF sent THEN device' = Restarted(flags) /\ Upsets({})
                       ELSE UNCHANGED device /\ Upsets({"lost"})
            /\ flags' = (IF sent THEN HalfSent(channels, flags) ELSE flags) \union {"enabled"}
    BY <1>1 DEF SecondHalf
  <2>2. /\ handler = "idle" /\ cfms > 0 /\ {"hwscan", "initial"} \subseteq flags
        /\ handler' = "event" /\ cfms' = cfms - 1
        /\ UNCHANGED <<station, bgscan, channels, cancel, cancelling, event>>
    BY <1>1 DEF SecondHalf
  <2>3. /\ HalfSent(channels, flags) \subseteq Flags
        /\ HalfSent(channels, flags) \ {"initial"} = flags \ {"initial"}
        /\ PartToSend(channels, flags) \in Parts
        /\ "debugfs" \notin flags /\ channels = "long" =>
              /\ PartToSend(channels, flags) = "second"
              /\ "initial" \notin HalfSent(channels, flags)
    <3>1. channels \in {"short", "long"} /\ flags \in SUBSET Flags
      OBVIOUS
    <3>2. /\ HalfSent(channels, flags) \subseteq Flags
          /\ HalfSent(channels, flags) \ {"initial"} = flags \ {"initial"}
          /\ PartToSend(channels, flags) \in Parts
      BY ONLY <3>1, HalfSentFacts
    <3>3. "initial" \in flags
      BY <2>2
    <3>4. ASSUME "debugfs" \notin flags, channels = "long"
          PROVE  /\ PartToSend(channels, flags) = "second"
                 /\ HalfSent(channels, flags) = flags \ {"initial"}
      <4>1. PartToSend(channels, flags) = "second"
        BY ONLY <3>3, <3>4 DEF PartToSend
      <4>2. QED
        BY ONLY <4>1 DEF HalfSent
    <3>5. QED
      BY ONLY <3>2, <3>4
  <2>4. /\ flags' \subseteq Flags
        /\ flags' \ {"initial", "enabled"} = flags \ {"initial", "enabled"}
        /\ sent => flags' = HalfSent(channels, flags) \union {"enabled"}
    <3>1. flags' = (IF sent THEN HalfSent(channels, flags) ELSE flags) \union {"enabled"}
      BY <2>1
    <3>2. CASE sent
      BY ONLY <2>3, <3>1, <3>2 DEF Flags
    <3>3. CASE ~sent
      <4>1. flags \subseteq Flags
        OBVIOUS
      <4>2. QED
        BY ONLY <4>1, <3>1, <3>3 DEF Flags
    <3>4. QED
      BY <3>2, <3>3
  <2>5. /\ device' \in [busy : BOOLEAN, list : Parts, done : SUBSET Parts]
        /\ sent => /\ device'.busy /\ device'.done = device.done
                   /\ device'.list = PartToSend(channels, flags)
    <3>1. device' = IF sent THEN Restarted(flags) ELSE device
      BY <2>1
    <3>2. device \in [busy : BOOLEAN, list : Parts, done : SUBSET Parts]
      OBVIOUS
    <3>3. PartToSend(channels, flags) \in Parts
      BY <2>3
    <3>4. QED
      BY ONLY <3>1, <3>2, <3>3 DEF Restarted
  <2>6. /\ bgUpset \subseteq bgUpset' /\ "twice" \notin bgUpset'
        /\ bgUpset' \subseteq {"lost", "late", "left", "debug", "twice"}
        /\ BgClean' => BgClean /\ sent
    <3>1. bgUpset' = bgUpset \union (IF sent THEN {} ELSE {"lost"})
      BY <2>1
    <3>2. /\ "twice" \notin bgUpset
          /\ bgUpset \subseteq {"lost", "late", "left", "debug", "twice"}
      OBVIOUS
    <3>3. QED
      BY ONLY <3>1, <3>2 DEF BgClean, BgExcluded
  <2>7. cfms' \in 0 .. MAX_CFMS /\ (cfms = 1 => cfms' = 0)
    BY <2>2
  <2>8. BgTypeOK'
    BY <2>2, <2>4, <2>5, <2>6, <2>7
  <2>9. HalvesInv'
    BY <2>2, <2>4, <2>6
  <2>10. ASSUME BgClean' PROVE AnswerInv'
    <3>1. /\ station /\ bgscan /\ cfms = 1 /\ "hwscan" \in flags'
      BY <2>2, <2>4, <2>6, <2>10
    <3>2. /\ station' /\ bgscan' /\ cfms' = 0 /\ handler' = "event" /\ device'.busy
      BY <2>2, <2>5, <2>6, <2>7, <2>10, <3>1
    <3>3. QED
      BY <3>1, <3>2
  <2>11. ASSUME BgClean' PROVE CoveredInv'
    <3>1. SUFFICES ASSUME bgscan', "debugfs" \notin flags' PROVE CoveredInv'
      OBVIOUS
    <3>2. BgClean /\ sent /\ bgscan /\ "debugfs" \notin flags /\ cfms = 1 /\ ~device.busy
      BY <2>2, <2>4, <2>6, <2>11, <3>1
    <3>3. channels = "long" /\ "first" \in device.done
      BY <2>2, <3>2
    <3>4. /\ channels' = "long" /\ "initial" \notin flags' /\ "first" \in device'.done
          /\ device'.busy /\ device'.list = "second"
      BY <2>2, <2>3, <2>4, <2>5, <3>2, <3>3
    <3>5. QED
      BY <3>4
  <2>12. QED
    BY <2>8, <2>9, <2>10, <2>11
<1>2. CASE Complete
  <2>1. /\ handler = "idle" /\ cfms > 0 /\ "hwscan" \in flags /\ "initial" \notin flags
        /\ bgscan' = FALSE /\ handler' = "completed" /\ cfms' = cfms - 1
        /\ bgUpset' = bgUpset \union CompletedTwice
        /\ UNCHANGED <<station, channels, cancel, cancelling, event>>
    BY <1>2 DEF Complete, Completed
  <2>2. /\ flags' \subseteq flags
        /\ flags \ {"enabled"} \subseteq flags'
    BY <1>2 DEF Complete
  <2>3. /\ device' \in [busy : BOOLEAN, list : Parts, done : SUBSET Parts]
        /\ ~device.busy => ~device'.busy
    <3>1. ParamsOff \/ device' = device
      BY <1>2 DEF Complete
    <3>2. QED
      BY <3>1, ParamsOffTyped
  <2>4. "hwscan" \in flags /\ BgClean => bgscan
    BY <2>1
  <2>5. bgUpset' = bgUpset
    BY <2>1, <2>4 DEF CompletedTwice
  <2>6. cfms' \in 0 .. MAX_CFMS /\ (cfms = 1 => cfms' = 0)
    BY <2>1
  <2>7. BgTypeOK'
    BY <2>1, <2>2, <2>3, <2>5, <2>6
  <2>8. HalvesInv'
    BY <2>1, <2>2, <2>5
  <2>9. ASSUME BgClean' PROVE AnswerInv'
    <3>1. BgClean /\ bgscan /\ ~device.busy /\ cfms = 1 /\ station
      BY <2>1, <2>4, <2>5, <2>9
    <3>2. ~bgscan' /\ ~device'.busy /\ cfms' = 0 /\ handler' = "completed" /\ station'
      BY <2>1, <2>3, <2>6, <3>1
    <3>3. QED
      BY <3>2
  <2>10. CoveredInv'
    BY <2>1
  <2>11. QED
    BY <2>7, <2>8, <2>9, <2>10
<1>3. CASE ClearInProg
  <2>1. /\ handler = "completed" /\ handler' = "cleared"
        /\ UNCHANGED <<station, bgscan, channels, cfms, cancel, cancelling, event, bgUpset>>
    BY <1>3 DEF ClearInProg
  <2>2. \/ flags' = flags \ {"in_prog"} /\ device' = device
        \/ /\ {"apply", "stop"} \subseteq flags /\ ParamsOff
           /\ flags' = flags \ {"in_prog", "enabled", "stop", "debugfs", "apply"}
        \/ /\ "debugfs" \in flags /\ device' = [device EXCEPT !.list = "debugfs"]
           /\ flags' = (flags \ {"in_prog", "apply"}) \union {"enabled"}
    <3>1. CASE "apply" \notin flags
      BY <1>3, <3>1 DEF ClearInProg, InProgCleared
    <3>2. CASE {"apply", "stop"} \subseteq flags
      <4>1. ParamsOff /\ flags' = InProgCleared(flags) \ {"enabled", "stop", "debugfs", "apply"}
        BY <1>3, <3>2 DEF ClearInProg
      <4>2. QED
        BY <3>2, <4>1 DEF InProgCleared
    <3>3. CASE "apply" \in flags /\ "stop" \notin flags
      <4> DEFINE f == InProgCleared(flags) \ {"apply"}
      <4>1. /\ flags' = HalfSent(channels, f) \union {"enabled"}
            /\ device' = [device EXCEPT !.list = PartToSend(channels, flags)]
        BY <1>3, <3>3 DEF ClearInProg
      <4>2. "debugfs" \in flags
        BY <3>3
      <4>3. "debugfs" \in f /\ f = flags \ {"in_prog", "apply"}
        BY <4>2 DEF InProgCleared
      <4> HIDE DEF f
      <4>4. PartToSend(channels, flags) = "debugfs" /\ PartToSend(channels, f) = "debugfs"
        BY ONLY <4>2, <4>3 DEF PartToSend
      <4>5. HalfSent(channels, f) = f
        BY ONLY <4>4 DEF HalfSent
      <4>6. QED
        BY ONLY <4>1, <4>2, <4>3, <4>4, <4>5
    <3>4. QED
      BY <3>1, <3>2, <3>3
  <2>3. /\ flags' \subseteq Flags /\ flags' \subseteq flags \union {"enabled"}
        /\ "apply" \in flags' => "debugfs" \in flags'
        /\ "hwscan" \in flags' <=> "hwscan" \in flags
        /\ "in_prog" \notin flags'
    BY <2>2
  <2>4. /\ device' \in [busy : BOOLEAN, list : Parts, done : SUBSET Parts]
        /\ ~device.busy => ~device'.busy
    BY <2>2, ParamsOffTyped
  <2>5. BgTypeOK'
    BY <2>1, <2>3, <2>4
  <2>6. HalvesInv'
    BY <2>1, <2>3
  <2>7. ASSUME BgClean' PROVE AnswerInv' /\ CoveredInv'
    <3>1. ~bgscan /\ ~device.busy /\ cfms = 0 /\ station
      BY <2>1, <2>7
    <3>2. QED
      BY <2>1, <2>3, <2>4, <3>1
  <2>8. QED
    BY <2>5, <2>6, <2>7
<1>4. CASE ClearHwscan
  <2>1. BgTypeOK'
    BY <1>4 DEF ClearHwscan
  <2>2. HalvesInv'
    BY <1>4 DEF ClearHwscan
  <2>3. ASSUME BgClean' PROVE AnswerInv'
    BY <1>4, <2>3 DEF ClearHwscan
  <2>4. ASSUME BgClean' PROVE CoveredInv'
    BY <1>4, <2>4 DEF ClearHwscan
  <2>5. QED
    BY <2>1, <2>2, <2>3, <2>4
<1>5. CASE IgnoreConfirm
  <2>1. BgTypeOK'
    BY <1>5 DEF IgnoreConfirm
  <2>2. HalvesInv'
    BY <1>5 DEF IgnoreConfirm
  <2>3. ASSUME BgClean' PROVE AnswerInv'
    BY <1>5, <2>3 DEF IgnoreConfirm
  <2>4. ASSUME BgClean' PROVE CoveredInv'
    BY <1>5, <2>4 DEF IgnoreConfirm
  <2>5. QED
    BY <2>1, <2>2, <2>3, <2>4
<1>6. CASE WakeCancel
  <2>1. BgTypeOK'
    BY <1>6 DEF WakeCancel, TellsCancel
  <2>2. HalvesInv'
    BY <1>6 DEF WakeCancel, TellsCancel
  <2>3. ASSUME BgClean' PROVE AnswerInv'
    BY <1>6, <2>3 DEF WakeCancel, TellsCancel
  <2>4. ASSUME BgClean' PROVE CoveredInv'
    BY <1>6, <2>4 DEF WakeCancel, TellsCancel
  <2>5. QED
    BY <2>1, <2>2, <2>3, <2>4
<1>7. QED
  BY <1>1, <1>2, <1>3, <1>4, <1>5, <1>6 DEF BgHandler

\* rsi_mac80211_hw_scan_cancel.
LEMMA BgCancelKeepsInv ==
    ASSUME BgIInv, BgCancel PROVE BgIInv'
<1> USE BgScanAssumption DEF BgIInv, BgTypeOK, HalvesInv, AnswerInv, CoveredInv, BgClean,
            BgExcluded, Upsets, May, Parts, Flags
<1>1. CASE CancelTests
  <2>1. /\ cancel = "test" /\ cancel' \in {"wait", "end"}
        /\ UNCHANGED <<station, channels, flags, device, cfms, handler, cancelling, event>>
    BY <1>1 DEF CancelTests
  <2>2. \/ bgscan' = bgscan /\ bgUpset' = bgUpset
        \/ /\ "in_prog" \in flags /\ ~station
           /\ bgscan' = FALSE /\ bgUpset' = bgUpset \union CompletedTwice
    BY <1>1 DEF CancelTests, WaitsForDevice, Completed
  <2>3. BgClean => station \/ "in_prog" \notin flags \/ ~bgscan
    OBVIOUS
  <2>4. \/ bgscan' = bgscan /\ bgUpset' = bgUpset
        \/ bgscan' = FALSE /\ ~BgClean /\ bgUpset' = bgUpset /\ ~station
    <3>1. CASE BgClean
      <4>1. station \/ "in_prog" \notin flags
        BY <3>1
      <4>2. QED
        BY <2>2, <4>1
    <3>2. CASE ~BgClean
      <4>1. CompletedTwice = {}
        BY ONLY <3>2 DEF CompletedTwice
      <4>2. QED
        BY <2>2, <3>2, <4>1
    <3>3. QED
      BY <3>1, <3>2
  <2>5. HalvesInv'
    <3>1. "initial" \in flags => station /\ bgscan' = bgscan
      BY <2>4
    <3>2. bgUpset' = bgUpset
      BY <2>4
    <3>3. QED
      BY <2>1, <3>1, <3>2
  <2>6. BgTypeOK'
    <3>1. bgscan' \in BOOLEAN /\ bgUpset' = bgUpset
      BY <2>4
    <3>2. QED
      BY <2>1, <3>1
  <2>7. ASSUME BgClean' PROVE AnswerInv' /\ CoveredInv'
    <3>1. bgscan' = bgscan /\ bgUpset' = bgUpset
      BY <2>4, <2>7
    <3>2. QED
      BY <2>1, <2>7, <3>1
  <2>8. QED
    BY <2>5, <2>6, <2>7
<1>2. CASE CancelWoken
  <2>1. BgTypeOK'
    BY <1>2 DEF CancelWoken
  <2>2. HalvesInv'
    BY <1>2 DEF CancelWoken
  <2>3. ASSUME BgClean' PROVE AnswerInv'
    BY <1>2, <2>3 DEF CancelWoken
  <2>4. ASSUME BgClean' PROVE CoveredInv'
    BY <1>2, <2>4 DEF CancelWoken
  <2>5. QED
    BY <2>1, <2>2, <2>3, <2>4
<1>3. CASE CancelEnds
  <2>1. BgTypeOK'
    BY <1>3 DEF CancelEnds
  <2>2. HalvesInv'
    BY <1>3 DEF CancelEnds
  <2>3. ASSUME BgClean' PROVE AnswerInv'
    BY <1>3, <2>3 DEF CancelEnds
  <2>4. ASSUME BgClean' PROVE CoveredInv'
    BY <1>3, <2>4 DEF CancelEnds
  <2>5. QED
    BY <2>1, <2>2, <2>3, <2>4
<1>4. QED
  BY <1>1, <1>2, <1>3 DEF BgCancel

\* Every other step of the background scan.
LEMMA BgOthersKeepInv ==
    ASSUME BgIInv,
           \/ ScanStart \/ DeviceScans \/ CancelBegins
           \/ StationJoins \/ StationLeaves \/ DebugfsList \/ DebugfsStop
    PROVE  BgIInv'
<1> USE BgScanAssumption DEF BgIInv, BgTypeOK, HalvesInv, AnswerInv, CoveredInv, BgClean,
            BgExcluded, Upsets, May, Parts, Flags
<1>1. CASE ScanStart
  <2> DEFINE f == flags \union {"hwscan"}
  <2>1. PICK l \in {"short", "long"}, sent \in {"none", "params", "both"} :
            /\ station /\ ~bgscan /\ cancel = "no"
            /\ sent # "both" => May("lost")
            /\ handler # "idle" => May("late")
            /\ bgscan' = TRUE /\ channels' = l
            /\ flags' = CASE sent = "none" -> f
                          [] sent = "params" -> HalfSent(l, f) \union {"in_prog"}
                          [] OTHER -> HalfSent(l, f) \union {"in_prog", "enabled"}
            /\ device' = [device EXCEPT
                            !.list = IF sent = "none" THEN @ ELSE PartToSend(l, f),
                            !.busy = @ \/ sent = "both", !.done = {}]
            /\ bgUpset' = (IF Settled THEN bgUpset \ {"left"} ELSE bgUpset)
                          \union (IF sent # "both" THEN {"lost"} ELSE {})
                          \union (IF handler # "idle" THEN {"late"} ELSE {})
            /\ UNCHANGED <<station, cfms, handler, cancel, cancelling, event>>
    BY <1>1 DEF ScanStart
  <2>a. f \in SUBSET Flags
    OBVIOUS
  <2>b. /\ "hwscan" \in f
        /\ "debugfs" \in f <=> "debugfs" \in flags
        /\ "apply" \in f <=> "apply" \in flags
    OBVIOUS
  <2>c. "initial" \notin f
    BY <2>1
  <2> HIDE DEF f
  <2>2. /\ HalfSent(l, f) \subseteq Flags
        /\ "hwscan" \in HalfSent(l, f)
        /\ "debugfs" \in HalfSent(l, f) <=> "debugfs" \in flags
        /\ "apply" \in HalfSent(l, f) <=> "apply" \in flags
        /\ PartToSend(l, f) \in Parts
    BY <2>1, <2>a, <2>b, HalfSentFacts
  <2>3. "debugfs" \notin flags =>
           /\ l = "short" => "initial" \notin HalfSent(l, f) /\ PartToSend(l, f) = "all"
           /\ l = "long" => "initial" \in HalfSent(l, f) /\ PartToSend(l, f) = "first"
    BY <2>1, <2>b, <2>c DEF PartToSend, HalfSent
  <2>4. /\ flags' \subseteq Flags /\ "hwscan" \in flags'
        /\ "apply" \in flags' => "debugfs" \in flags'
        /\ sent = "both" => flags' = HalfSent(l, f) \union {"in_prog", "enabled"}
    BY <2>1, <2>2, <2>a, <2>b
  <2>5. /\ device' \in [busy : BOOLEAN, list : Parts, done : SUBSET Parts]
        /\ sent = "both" => device'.busy /\ device'.list = PartToSend(l, f)
    BY <2>1, <2>2
  <2>6. bgUpset' \subseteq {"lost", "late", "left", "debug", "twice"} /\ "twice" \notin bgUpset'
    BY <2>1
  <2>7. BgTypeOK' /\ HalvesInv'
    BY <2>1, <2>4, <2>5, <2>6
  <2>8. ASSUME BgClean' PROVE sent = "both" /\ handler = "idle" /\ cfms = 0
    <3>1. sent = "both" /\ handler = "idle"
      BY <2>1, <2>8
    <3>2. CASE Settled
      BY <3>1, <3>2 DEF Settled
    <3>3. CASE ~Settled
      BY <2>1, <2>8, <3>1, <3>3
    <3>4. QED
      BY <3>1, <3>2, <3>3
  <2>9. ASSUME BgClean' PROVE AnswerInv'
    <3>1. /\ station' /\ bgscan' /\ device'.busy /\ cfms' = 0 /\ handler' = "idle"
          /\ "hwscan" \in flags'
      BY <2>1, <2>4, <2>5, <2>8, <2>9
    <3>2. QED
      BY <3>1
  <2>10. ASSUME BgClean' PROVE CoveredInv'
    BY <2>1, <2>2, <2>3, <2>4, <2>5, <2>8, <2>10
  <2>11. QED
    BY <2>7, <2>9, <2>10
<1>2. CASE DeviceScans
  <2>1. /\ device.busy /\ cfms' = cfms + 1 /\ cfms' \in 0 .. MAX_CFMS
        /\ UNCHANGED <<station, bgscan, channels, flags, handler, cancel, cancelling, event,
                       bgUpset>>
    BY <1>2 DEF DeviceScans
  <2>2. /\ device' \in [busy : BOOLEAN, list : Parts, done : SUBSET Parts]
        /\ ~device'.busy /\ device'.list = device.list
        /\ device'.done = device.done \union {device.list}
    BY <1>2 DEF DeviceScans
  <2>3. BgTypeOK' /\ HalvesInv'
    BY <2>1, <2>2
  <2>4. ASSUME BgClean' PROVE AnswerInv'
    <3>1. BgClean /\ bgscan /\ cfms = 0
      BY <2>1, <2>4
    <3>2. bgscan' /\ ~device'.busy /\ cfms' = 1
      BY <2>1, <2>2, <3>1
    <3>3. QED
      BY <2>1, <2>4, <3>1, <3>2
  <2>5. ASSUME BgClean' PROVE CoveredInv'
    BY <2>1, <2>2, <2>5
  <2>6. QED
    BY <2>3, <2>4, <2>5
<1>3. CASE CancelBegins
  <2>1. BgTypeOK'
    BY <1>3 DEF CancelBegins
  <2>2. HalvesInv'
    BY <1>3 DEF CancelBegins
  <2>3. ASSUME BgClean' PROVE AnswerInv'
    BY <1>3, <2>3 DEF CancelBegins
  <2>4. ASSUME BgClean' PROVE CoveredInv'
    BY <1>3, <2>4 DEF CancelBegins
  <2>5. QED
    BY <2>1, <2>2, <2>3, <2>4
<1>4. CASE StationJoins
  <2>1. BgTypeOK'
    BY <1>4 DEF StationJoins
  <2>2. HalvesInv'
    BY <1>4 DEF StationJoins
  <2>3. ASSUME BgClean' PROVE AnswerInv'
    BY <1>4, <2>3 DEF StationJoins
  <2>4. ASSUME BgClean' PROVE CoveredInv'
    BY <1>4, <2>4 DEF StationJoins
  <2>5. QED
    BY <2>1, <2>2, <2>3, <2>4
<1>5. CASE StationLeaves
  <2>1. /\ station /\ station' = FALSE
        /\ Upsets(IF bgscan \/ ~Settled THEN {"left"} ELSE {})
        /\ UNCHANGED <<bgscan, channels, cfms, handler, cancel, cancelling, event>>
    BY <1>5 DEF StationLeaves
  <2>2. /\ ParamsOff \/ device' = device
        /\ flags' \subseteq flags \ {"initial"}
        /\ "apply" \in flags' => "apply" \in flags
        /\ "debugfs" \in flags' <=> "debugfs" \in flags
        /\ "in_prog" \in flags' <=> "in_prog" \in flags
    BY <1>5 DEF StationLeaves, ForgetsHalf
  <2>3. /\ device' \in [busy : BOOLEAN, list : Parts, done : SUBSET Parts]
        /\ ~device.busy => ~device'.busy
    BY <2>2, ParamsOffTyped
  <2>4. bgUpset' = bgUpset \union (IF bgscan \/ ~Settled THEN {"left"} ELSE {})
    BY <2>1
  <2>5. BgTypeOK' /\ HalvesInv'
    <3>1. /\ bgUpset' \subseteq BgExcluded \union {"twice"}
          /\ "twice" \notin bgUpset'
      BY <2>4
    <3>2. QED
      BY <2>1, <2>2, <2>3, <3>1
  <2>6. ASSUME BgClean' PROVE AnswerInv' /\ CoveredInv'
    <3>1. ~bgscan /\ Settled /\ BgClean
      BY <2>4, <2>6
    <3>2. ~device.busy /\ cfms = 0 /\ handler = "idle"
      BY <3>1 DEF Settled
    <3>3. "hwscan" \notin flags /\ "in_prog" \notin flags
      BY <3>1, <3>2
    <3>4. QED
      BY <2>1, <2>2, <2>3, <3>1, <3>2, <3>3
  <2>7. QED
    BY <2>5, <2>6
<1>6. CASE DebugfsList
  <2>1. BgTypeOK'
    BY <1>6 DEF DebugfsList
  <2>2. HalvesInv'
    BY <1>6 DEF DebugfsList
  <2>3. ASSUME BgClean' PROVE AnswerInv'
    BY <1>6, <2>3 DEF DebugfsList
  <2>4. ASSUME BgClean' PROVE CoveredInv'
    BY <1>6, <2>4 DEF DebugfsList
  <2>5. QED
    BY <2>1, <2>2, <2>3, <2>4
<1>7. CASE DebugfsStop
  <2>1. /\ Upsets(IF bgscan THEN {"debug"} ELSE {})
        /\ UNCHANGED <<station, bgscan, channels, cfms, handler, cancel, cancelling, event>>
    BY <1>7 DEF DebugfsStop
  <2>2. \/ flags' = flags \union {"debugfs", "apply", "stop"} /\ device' = device
        \/ flags' = flags \ {"debugfs", "apply", "enabled"} /\ ParamsOff
    BY <1>7 DEF DebugfsStop
  <2>3. /\ flags' \subseteq Flags
        /\ "apply" \in flags' => "debugfs" \in flags'
        /\ \A x \in {"initial", "hwscan", "in_prog"} : x \in flags' <=> x \in flags
    BY <2>2
  <2>4. /\ device' \in [busy : BOOLEAN, list : Parts, done : SUBSET Parts]
        /\ ~device.busy => ~device'.busy
    BY <2>2, ParamsOffTyped
  <2>5. /\ bgUpset' = bgUpset \union (IF bgscan THEN {"debug"} ELSE {})
        /\ bgUpset' \subseteq BgExcluded \union {"twice"}
        /\ "twice" \notin bgUpset'
    BY <2>1
  <2>6. BgTypeOK' /\ HalvesInv'
    BY <2>1, <2>3, <2>4, <2>5
  <2>7. ASSUME BgClean' PROVE AnswerInv' /\ CoveredInv'
    <3>1. ~bgscan /\ BgClean
      BY <2>5, <2>7
    <3>2. ~device.busy /\ cfms = 0
      BY <3>1
    <3>3. QED
      BY <2>1, <2>3, <2>4, <3>1, <3>2
  <2>8. QED
    BY <2>6, <2>7
<1>8. QED
  BY <1>1, <1>2, <1>3, <1>4, <1>5, <1>6, <1>7

LEMMA BgInitInv == BgInit => BgIInv
<1> SUFFICES ASSUME BgInit PROVE BgIInv
  OBVIOUS
<1>1. 0 \in 0 .. MAX_CFMS
  BY BgScanAssumption
<1>2. ~device.busy /\ device \in [busy : BOOLEAN, list : Parts, done : SUBSET Parts]
  BY DEF BgInit, Parts
<1>3. BgTypeOK
  BY <1>1, <1>2 DEF BgInit, BgTypeOK
<1>4. HalvesInv /\ AnswerInv /\ CoveredInv
  BY <1>2 DEF BgInit, HalvesInv, AnswerInv, CoveredInv
<1>5. QED
  BY <1>3, <1>4 DEF BgIInv

LEMMA BgStutterKeepsInv ==
    ASSUME BgIInv, UNCHANGED bgVars PROVE BgIInv'
  BY DEF bgVars, BgIInv, BgTypeOK, HalvesInv, AnswerInv, CoveredInv, BgClean

LEMMA BgStepKeepsInv ==
    ASSUME BgIInv, [BgNext]_bgVars PROVE BgIInv'
  BY BgHandlerKeepsInv, BgCancelKeepsInv, BgOthersKeepInv, BgStutterKeepsInv DEF BgNext

LEMMA BgIInvImpliesInv == BgIInv => BgInv
  BY DEF BgIInv, BgTypeOK, HalvesInv, AnswerInv, BgInv, BgScanAnswerable, CompletedOnce

\* Only the handler's Complete and a cancel without a scan in progress complete a scan, and
\* the second has none to complete.
LEMMA BgStepCovers ==
    ASSUME BgIInv, [BgNext]_bgVars, bgscan, ~bgscan', BgClean, "debugfs" \notin flags
    PROVE  IF channels = "long" THEN {"first", "second"} \subseteq device.done
                                ELSE "all" \in device.done
<1> USE DEF BgIInv, BgTypeOK, HalvesInv, AnswerInv, CoveredInv
<1>1. CASE Complete
  BY <1>1 DEF Complete
<1>2. CASE CancelTests
  BY <1>2 DEF CancelTests, WaitsForDevice
<1>3. CASE ~Complete /\ ~CancelTests
  BY <1>3 DEF BgNext, BgHandler, BgCancel, bgVars, ScanStart, DeviceScans, SecondHalf,
              ClearInProg, ClearHwscan, IgnoreConfirm, WakeCancel, CancelBegins, CancelWoken,
              CancelEnds, StationJoins, StationLeaves, DebugfsList, DebugfsStop
<1>4. QED
  BY <1>1, <1>2, <1>3

\* A background scan mac80211 waits for has its answer under way, its confirmation is taken
\* for it, and ieee80211_scan_completed is called once for it (the BG_SCAN_PROBE_REQ part of
\* rsi_handle_ta_confirm and rsi_mac80211_hw_scan_cancel).
THEOREM BgScanSafe == BgSpec => []BgInv
<1>1. BgSpec => []BgIInv
  BY BgInitInv, BgStepKeepsInv, PTL DEF BgSpec
<1>2. QED
  BY <1>1, BgIInvImpliesInv, PTL

\* A scan that is completed covered the whole list, both halves of a long one
\* (rsi_send_bgscan_params and send_initial_bgscan_chan).
THEOREM CompletedScanIsWhole == BgSpec => WholeList
<1>1. BgSpec => []BgIInv
  BY BgInitInv, BgStepKeepsInv, PTL DEF BgSpec
<1>2. ASSUME BgIInv, [BgNext]_bgVars
      PROVE  [bgscan /\ ~bgscan' /\ BgClean /\ "debugfs" \notin flags
                => IF channels = "long" THEN {"first", "second"} \subseteq device.done
                                        ELSE "all" \in device.done]_bgVars
  BY <1>2, BgStepCovers
<1>3. QED
  BY <1>1, <1>2, PTL DEF BgSpec, WholeList

-----------------------------------------------------------------------------
(* The interface, its channel, association and remain-on-channel.          *)
\* What mac80211 has and what the driver has recorded of it, whatever fails.
VifShape ==
    /\ mac80211.run # "used" => mac80211.vif = NoVif
    /\ (mac80211.run = "down") = host.iface_down
    /\ mac80211.vif = NoVif =>
         mac80211.bss = NoChan /\ mac80211.assoc = "no" /\ mac80211.roc = "none"
    /\ mac80211.vif # NoVif => host.vifs0 = mac80211.vif
    /\ mac80211.assoc # "no" => mac80211.type = "STATION"

\* The endpoint the driver has recorded is the one the device was programmed with.
EndpointKnown ==
    None({"lost"}) => told.band = host.band /\ told.width = host.width

\* A background scan belongs to an association.
ScanOfAssociated == None({"lost"}) /\ host.bgscan_en = TRUE => mac80211.assoc = "yes"

\* The interface has a channel to go back to, and no visit elsewhere is under way.
AtHome ==
    /\ mac80211.bss # NoChan
    /\ mac80211.conf = mac80211.bss \/ (host.bgscan_en = TRUE /\ mac80211.assoc = "yes")
    /\ mac80211.roc # "active" \/ (mac80211.type # "AP" /\ mac80211.assoc = "no")

\* The device is then on that channel, also before an association.
TunedHome ==
    None({"lost", "late_cancel", "off_channel", "idle_roc"}) /\ AtHome => told.chan = mac80211.bss

\* An interface added after a start hears beacons until it is an access point.
FilterOpen ==
    None({"lost", "deaf"}) =>
        /\ mac80211.run = "fresh" => told.filter = "open"
        /\ mac80211.vif # NoVif /\ mac80211.type = "STATION" /\ mac80211.assoc # "yes"
             => told.filter = "open"

\* The timer and its callback belong to the visit that is under way.
RocUnderWay ==
    None({"refused_roc", "late_cancel"}) =>
        /\ roc_timer = "pending" =>
             roc_callback = "idle" /\ mac80211.roc = "active" /\ host.roc_vif = mac80211.vif
        /\ roc_callback = "running" => mac80211.roc = "active" /\ seenVif = mac80211.vif

\* The inductive invariant.
VifIInv ==
    /\ VifTypeOK /\ VifShape
    /\ VifsAgree /\ BlockedIsKnown /\ DataFollowsChannel
    /\ EndpointKnown /\ ScanOfAssociated /\ TunedHome /\ RfProgrammed /\ FilterOpen /\ RocUnderWay

\* The inductive invariant says what the run checks.
LEMMA VifIInvSays == VifIInv => VifInv
<1> SUFFICES ASSUME VifIInv PROVE VifInv
  OBVIOUS
<1>0. mac80211.conf # NoChan
  BY MacVifAssumption DEF VifIInv, VifTypeOK, MacState
<1>1. OnChannel
  BY <1>0 DEF VifIInv, OnChannel, TunedHome, AtHome, VifShape, None
<1>2. HearsBeacons
  BY DEF VifIInv, HearsBeacons, FilterOpen
<1>3. RocVifAlive
  BY DEF VifIInv, RocVifAlive, RocUnderWay
<1> QED BY <1>1, <1>2, <1>3 DEF VifIInv, VifInv
LEMMA VifStart == VifInit => VifIInv
<1> SUFFICES ASSUME VifInit PROVE VifIInv
  OBVIOUS
<1>1. PICK c \in Chans :
        /\ c.band = "2GHz" /\ c.width = 20
        /\ mac80211 = [run |-> "down", vif |-> NoVif, type |-> "STATION", assoc |-> "no", open |-> TRUE,
                  eapol |-> FALSE, conf |-> c, bss |-> NoChan, roc |-> "none"]
  BY DEF VifInit
<1>2. VifTypeOK
  BY <1>1 DEF VifInit, VifTypeOK, MacState, HostState, FwState, Booted, Filters, Troubles,
     IfTypes
<1>3. VifShape /\ VifsAgree /\ BlockedIsKnown /\ DataFollowsChannel
  BY <1>1 DEF VifInit, VifShape, VifsAgree, BlockedIsKnown, DataFollowsChannel, Booted
<1>4. EndpointKnown /\ ScanOfAssociated /\ TunedHome
  BY <1>1 DEF VifInit, EndpointKnown, ScanOfAssociated, TunedHome, AtHome, Booted
<1>5. RfProgrammed /\ FilterOpen /\ RocUnderWay
  BY <1>1 DEF VifInit, RfProgrammed, FilterOpen, RocUnderWay, Booted
<1> QED BY <1>2, <1>3, <1>4, <1>5 DEF VifIInv

\* Troubles are remembered, so that what holds without them held before.
TroubleKeeps ==
    /\ None({"lost"})' => None({"lost"})
    /\ None({"lost", "monitor"})' => None({"lost", "monitor"})
    /\ None({"split_confirm"})' => None({"split_confirm"})
    /\ None({"lost", "late_confirm", "split_confirm"})' => None({"lost", "late_confirm", "split_confirm"})
    /\ None({"lost", "off_channel"})' => None({"lost", "off_channel"})
    /\ None({"lost", "deaf"})' => None({"lost", "deaf"})
    /\ None({"refused_roc", "late_cancel"})' => None({"refused_roc", "late_cancel"})

HomeKeeps ==
    None({"lost", "late_cancel", "off_channel", "idle_roc"})' =>
        None({"lost", "late_cancel", "off_channel", "idle_roc"})

LEMMA Remembered == ASSUME upset \subseteq upset' PROVE TroubleKeeps /\ HomeKeeps
BY DEF TroubleKeeps, HomeKeeps, None

\* A lost frame is a trouble of each kind that a statement about frames excludes.
NothingLost ==
    "lost" \notin upset'

Losses ==
    /\ None({"lost"})' => NothingLost
    /\ None({"lost", "monitor"})' => NothingLost
    /\ None({"lost", "late_confirm", "split_confirm"})' => NothingLost
    /\ None({"lost", "off_channel"})' => NothingLost
    /\ None({"lost", "deaf"})' => NothingLost
    /\ None({"lost", "late_cancel", "off_channel", "idle_roc"})' => NothingLost

LEMMA LossesCount == Losses
BY DEF Losses, NothingLost, None

LEMMA OutcomesTyped == Outcomes \subseteq BOOLEAN
BY DEF Outcomes

\* What the operators return.
LEMMA UpsetGrows ==
    ASSUME NEW oks \in SUBSET BOOLEAN
    PROVE  /\ upset \subseteq Upset(oks) /\ Upset(oks) \subseteq upset \cup {"lost"}
           /\ FALSE \in oks => "lost" \in Upset(oks)
BY DEF Upset

\* What the driver records of the queues and of the peer is a truth value.
LEMMA HostTyped ==
    ASSUME NEW h \in HostState, NEW x \in BOOLEAN, NEW y \in BOOLEAN, NEW a \in Chans \cup {NoChan}
    PROVE  /\ [h EXCEPT !.blocked = x, !.peer_notify_state = y] \in HostState
           /\ [h EXCEPT !.ap_channel = a, !.blocked = x] \in HostState
BY ZenonT(60) DEF HostState

\* A frame changes what the device knows to something it can know.
LEMMA FramesTyped ==
    ASSUME NEW f \in FwState, NEW ok \in BOOLEAN
    PROVE  /\ \A vif \in Vifs \cup {NoVif}, type \in IfTypes : SetVapCapabilities(f, vif, type, ok) \in FwState
           /\ DeleteVap(f, ok) \in FwState
           /\ \A w \in Filters : SendRxFilter(f, w, ok) \in FwState
           /\ \A b \in BOOLEAN : SendBlock(f, b, ok) \in FwState
           /\ \A p \in BOOLEAN : SendPeer(f, p, ok) \in FwState
           /\ \A c \in Chans : SetChannel(f, c, ok) \in FwState
<1> USE DEF Told, FwState
<1>1. \A vif \in Vifs \cup {NoVif}, type \in IfTypes : SetVapCapabilities(f, vif, type,
     ok) \in FwState
  BY ZenonT(60) DEF SetVapCapabilities
<1>2. DeleteVap(f, ok) \in FwState
  BY DEF DeleteVap
<1>3. \A w \in Filters : SendRxFilter(f, w, ok) \in FwState
  BY DEF SendRxFilter
<1>4. \A b \in BOOLEAN : SendBlock(f, b, ok) \in FwState
  BY DEF SendBlock
<1>5. \A p \in BOOLEAN : SendPeer(f, p, ok) \in FwState
  BY DEF SendPeer
<1>6. \A c \in Chans : SetChannel(f, c, ok) \in FwState
  BY DEF SetChannel
<1> QED BY <1>1, <1>2, <1>3, <1>4, <1>5, <1>6

LEMMA RfTyped ==
    ASSUME MacVifAssumption, NEW f \in FwState, NEW h, NEW c \in Chans, NEW conf \in Chans,
           NEW ok \in BOOLEAN
    PROVE  ProgramRf(f, h, c, conf, ok) \in FwState
<1>1. c.band \in {"2GHz", "5GHz"} /\ conf.width \in {20, 40}
  BY MacVifAssumption
<1> QED BY <1>1 DEF ProgramRf, Told, FwState

\* The filter is opened when the interface comes up.
LEMMA StartKeeps == ASSUME MacVifAssumption, VifIInv, Start PROVE VifIInv'
<1>0. /\ mac80211 \in MacState /\ host \in HostState /\ told \in FwState /\ upset \subseteq Troubles
      /\ NoChan \notin Chans /\ NoVif \notin Vifs
  BY MacVifAssumption DEF VifIInv, VifTypeOK
<1>1. PICK ok \in Outcomes :
        /\ Ready /\ mac80211.run = "down"
        /\ mac80211' = [mac80211 EXCEPT !.run = "fresh"]
        /\ host' = [host EXCEPT !.iface_down = FALSE]
        /\ told' = SendRxFilter(told, "open", ok)
        /\ upset' = Upset({ok})
        /\ Same
  BY DEF Start
<1>s. UNCHANGED <<roc_timer, roc_callback, seenVif, confirm, mutex>>
  BY <1>1 DEF Same
<1>2. ok \in BOOLEAN
  BY <1>1, OutcomesTyped
<1>3. /\ mac80211'.run = "fresh"
      /\ mac80211'.vif = mac80211.vif /\ mac80211'.type = mac80211.type
      /\ mac80211'.assoc = mac80211.assoc /\ mac80211'.open = mac80211.open
      /\ mac80211'.eapol = mac80211.eapol /\ mac80211'.conf = mac80211.conf
      /\ mac80211'.bss = mac80211.bss /\ mac80211'.roc = mac80211.roc
  BY <1>0, <1>1, <1>s, <1>2 DEF MacState
<1>4. /\ host'.iface_down = FALSE
      /\ host'.vifs0 = host.vifs0 /\ host'.sc_nvifs = host.sc_nvifs
      /\ host'.blocked = host.blocked /\ host'.band = host.band /\ host'.width = host.width
      /\ host'.peer_notify_state = host.peer_notify_state /\ host'.roc_vif = host.roc_vif
      /\ host'.ap_channel = host.ap_channel /\ host'.update_country = host.update_country
      /\ host'.bgscan_en = host.bgscan_en
  BY <1>0, <1>1, <1>s, <1>2 DEF HostState
<1>5. /\ ok = TRUE => told'.filter = "open"
      /\ ok = FALSE => told'.filter = told.filter
      /\ told'.vap = told.vap /\ told'.mode = told.mode /\ told'.peer = told.peer
      /\ told'.blocked = told.blocked /\ told'.band = told.band /\ told'.width = told.width
      /\ told'.chan = told.chan
  BY <1>0, <1>1, <1>s, <1>2 DEF FwState, SendRxFilter, Told
<1>6. /\ upset \subseteq upset' /\ upset' \subseteq Troubles
      /\ NothingLost => ok = TRUE
  BY <1>0, <1>1, <1>s, <1>2, UpsetGrows DEF NothingLost, Troubles
<1>7. TroubleKeeps /\ HomeKeeps
  BY <1>6, Remembered
<1>8. VifTypeOK'
  <2>1. mac80211' \in MacState
    BY <1>0, <1>1, <1>s, <1>2 DEF MacState, IfTypes
  <2>2. host' \in HostState
    BY <1>0, <1>1, <1>s, <1>2 DEF HostState
  <2>3. told' \in FwState
    BY <1>0, <1>1, <1>s, <1>2 DEF FwState, SendRxFilter, Told, Filters
  <2> QED BY <1>0, <1>1, <1>s, <1>2, <1>6, <2>1, <2>2, <2>3 DEF VifIInv, VifTypeOK, HostState
<1>9. VifShape'
  BY <1>0, <1>1, <1>s, <1>2, <1>3, <1>4 DEF VifIInv, VifShape
<1>10. VifsAgree'
  <2>1. None({"lost", "monitor"})' => None({"lost", "monitor"}) /\ NothingLost
    BY <1>7, LossesCount DEF TroubleKeeps, Losses
  <2> QED BY <1>0, <1>3, <1>4, <1>5, <1>6, <2>1 DEF VifIInv, VifsAgree, VifShape
<1>11. BlockedIsKnown'
  BY <1>0, <1>1, <1>s, <1>2, <1>3, <1>4, <1>5, <1>6, <1>7, LossesCount
  DEF VifIInv, BlockedIsKnown, TroubleKeeps, Losses
<1>12. DataFollowsChannel'
  <2>1. None({"lost", "late_confirm", "split_confirm"})' =>
          None({"lost", "late_confirm", "split_confirm"}) /\ NothingLost
    BY <1>7, LossesCount DEF TroubleKeeps, Losses
  <2> QED BY <1>0, <1>1, <1>s, <1>2, <1>3, <1>4, <1>5, <1>6, <2>1
    DEF VifIInv, DataFollowsChannel, VifShape
<1>13. EndpointKnown'
  BY <1>0, <1>1, <1>s, <1>2, <1>3, <1>4, <1>5, <1>6, <1>7, LossesCount
  DEF VifIInv, EndpointKnown, TroubleKeeps, Losses
<1>14. ScanOfAssociated'
  BY <1>0, <1>1, <1>s, <1>2, <1>3, <1>4, <1>5, <1>6, <1>7, LossesCount
  DEF VifIInv, ScanOfAssociated, VifShape, TroubleKeeps, Losses
<1>15. TunedHome'
  <2>1. None({"lost", "late_cancel", "off_channel", "idle_roc"})' =>
          None({"lost", "late_cancel", "off_channel", "idle_roc"}) /\ NothingLost
    BY <1>7, LossesCount DEF HomeKeeps, Losses
  <2> QED BY <1>0, <1>1, <1>s, <1>2, <1>3, <1>4, <1>5, <1>6, <2>1
    DEF VifIInv, TunedHome, AtHome, VifShape
<1>16. RfProgrammed'
  <2>1. None({"lost", "off_channel"})' =>
          None({"lost", "off_channel"}) /\ NothingLost
    BY <1>7, LossesCount DEF TroubleKeeps, Losses
  <2> QED BY <1>0, <1>1, <1>s, <1>2, <1>3, <1>4, <1>5, <1>6, <2>1
    DEF VifIInv, RfProgrammed, VifShape
<1>17. FilterOpen'
  <2>1. None({"lost", "deaf"})' =>
          None({"lost", "deaf"}) /\ NothingLost
    BY <1>7, LossesCount DEF TroubleKeeps, Losses
  <2> QED BY <1>0, <1>1, <1>s, <1>2, <1>3, <1>4, <1>5, <1>6, <2>1
    DEF VifIInv, FilterOpen, VifShape
<1>18. RocUnderWay'
  BY <1>0, <1>1, <1>s, <1>2, <1>3, <1>4, <1>5, <1>6, <1>7, LossesCount
  DEF VifIInv, RocUnderWay, VifShape, TroubleKeeps, Losses
<1> QED BY <1>8, <1>9, <1>10, <1>11, <1>12, <1>13, <1>14, <1>15, <1>16, <1>17, <1>18 DEF VifIInv

\* A stop comes after the interface was removed.
LEMMA StopKeeps == ASSUME MacVifAssumption, VifIInv, Stop PROVE VifIInv'
<1>0. /\ mac80211 \in MacState /\ host \in HostState /\ told \in FwState /\ upset \subseteq Troubles
      /\ NoChan \notin Chans /\ NoVif \notin Vifs
  BY MacVifAssumption DEF VifIInv, VifTypeOK
<1>1. PICK ok \in Outcomes :
        /\ Ready /\ mac80211.vif = NoVif /\ mac80211.run # "down"
        /\ mac80211' = [mac80211 EXCEPT !.run = "down"]
        /\ host' = [host EXCEPT !.iface_down = TRUE]
        /\ told' = SendRxFilter(told, "closed", ok)
        /\ upset' = Upset({ok})
        /\ Same
  BY DEF Stop
<1>s. UNCHANGED <<roc_timer, roc_callback, seenVif, confirm, mutex>>
  BY <1>1 DEF Same
<1>2. ok \in BOOLEAN
  BY <1>1, OutcomesTyped
<1>3. /\ mac80211'.run = "down"
      /\ mac80211'.vif = mac80211.vif /\ mac80211'.type = mac80211.type
      /\ mac80211'.assoc = mac80211.assoc /\ mac80211'.open = mac80211.open
      /\ mac80211'.eapol = mac80211.eapol /\ mac80211'.conf = mac80211.conf
      /\ mac80211'.bss = mac80211.bss /\ mac80211'.roc = mac80211.roc
  BY <1>0, <1>1, <1>s, <1>2 DEF MacState
<1>4. /\ host'.iface_down = TRUE
      /\ host'.vifs0 = host.vifs0 /\ host'.sc_nvifs = host.sc_nvifs
      /\ host'.blocked = host.blocked /\ host'.band = host.band /\ host'.width = host.width
      /\ host'.peer_notify_state = host.peer_notify_state /\ host'.roc_vif = host.roc_vif
      /\ host'.ap_channel = host.ap_channel /\ host'.update_country = host.update_country
      /\ host'.bgscan_en = host.bgscan_en
  BY <1>0, <1>1, <1>s, <1>2 DEF HostState
<1>5. /\ ok = TRUE => told'.filter = "closed"
      /\ ok = FALSE => told'.filter = told.filter
      /\ told'.vap = told.vap /\ told'.mode = told.mode /\ told'.peer = told.peer
      /\ told'.blocked = told.blocked /\ told'.band = told.band /\ told'.width = told.width
      /\ told'.chan = told.chan
  BY <1>0, <1>1, <1>s, <1>2 DEF FwState, SendRxFilter, Told
<1>6. /\ upset \subseteq upset' /\ upset' \subseteq Troubles
      /\ NothingLost => ok = TRUE
  BY <1>0, <1>1, <1>s, <1>2, UpsetGrows DEF NothingLost, Troubles
<1>7. TroubleKeeps /\ HomeKeeps
  BY <1>6, Remembered
<1>8. VifTypeOK'
  <2>1. mac80211' \in MacState
    BY <1>0, <1>1, <1>s, <1>2 DEF MacState, IfTypes
  <2>2. host' \in HostState
    BY <1>0, <1>1, <1>s, <1>2 DEF HostState
  <2>3. told' \in FwState
    BY <1>0, <1>1, <1>s, <1>2 DEF FwState, SendRxFilter, Told, Filters
  <2> QED BY <1>0, <1>1, <1>s, <1>2, <1>6, <2>1, <2>2, <2>3 DEF VifIInv, VifTypeOK, HostState
<1>9. VifShape'
  BY <1>0, <1>1, <1>s, <1>2, <1>3, <1>4 DEF VifIInv, VifShape
<1>10. VifsAgree'
  <2>1. None({"lost", "monitor"})' => None({"lost", "monitor"})
    BY <1>7 DEF TroubleKeeps
  <2> QED BY <1>3, <1>4, <1>5, <2>1 DEF VifIInv, VifsAgree
<1>11. BlockedIsKnown'
  BY <1>0, <1>1, <1>s, <1>2, <1>3, <1>4, <1>5, <1>6, <1>7, LossesCount
  DEF VifIInv, BlockedIsKnown, TroubleKeeps, Losses
<1>12. DataFollowsChannel'
  <2>1. None({"lost", "late_confirm", "split_confirm"})' =>
          None({"lost", "late_confirm", "split_confirm"}) /\ NothingLost
    BY <1>7, LossesCount DEF TroubleKeeps, Losses
  <2> QED BY <1>0, <1>1, <1>s, <1>2, <1>3, <1>4, <1>5, <1>6, <2>1
    DEF VifIInv, DataFollowsChannel, VifShape
<1>13. EndpointKnown'
  BY <1>0, <1>1, <1>s, <1>2, <1>3, <1>4, <1>5, <1>6, <1>7, LossesCount
  DEF VifIInv, EndpointKnown, TroubleKeeps, Losses
<1>14. ScanOfAssociated'
  BY <1>0, <1>1, <1>s, <1>2, <1>3, <1>4, <1>5, <1>6, <1>7, LossesCount
  DEF VifIInv, ScanOfAssociated, VifShape, TroubleKeeps, Losses
<1>15. TunedHome'
  <2>1. None({"lost", "late_cancel", "off_channel", "idle_roc"})' =>
          None({"lost", "late_cancel", "off_channel", "idle_roc"}) /\ NothingLost
    BY <1>7, LossesCount DEF HomeKeeps, Losses
  <2> QED BY <1>0, <1>1, <1>s, <1>2, <1>3, <1>4, <1>5, <1>6, <2>1
    DEF VifIInv, TunedHome, AtHome, VifShape
<1>16. RfProgrammed'
  <2>1. None({"lost", "off_channel"})' =>
          None({"lost", "off_channel"}) /\ NothingLost
    BY <1>7, LossesCount DEF TroubleKeeps, Losses
  <2> QED BY <1>0, <1>1, <1>s, <1>2, <1>3, <1>4, <1>5, <1>6, <2>1, ZenonT(60)
    DEF VifIInv, RfProgrammed, VifShape
<1>17. FilterOpen'
  <2>1. None({"lost", "deaf"})' =>
          None({"lost", "deaf"}) /\ NothingLost
    BY <1>7, LossesCount DEF TroubleKeeps, Losses
  <2> QED BY <1>0, <1>1, <1>s, <1>2, <1>3, <1>4, <1>5, <1>6, <2>1
    DEF VifIInv, FilterOpen, VifShape
<1>18. RocUnderWay'
  BY <1>0, <1>1, <1>s, <1>2, <1>3, <1>4, <1>5, <1>6, <1>7, LossesCount
  DEF VifIInv, RocUnderWay, VifShape, TroubleKeeps, Losses
<1> QED BY <1>8, <1>9, <1>10, <1>11, <1>12, <1>13, <1>14, <1>15, <1>16, <1>17, <1>18 DEF VifIInv

\* An interface is added to an empty table.
LEMMA AddInterfaceKeeps == ASSUME MacVifAssumption, VifIInv, AddInterface PROVE VifIInv'
<1>0. /\ mac80211 \in MacState /\ host \in HostState /\ told \in FwState /\ upset \subseteq Troubles
      /\ NoChan \notin Chans /\ NoVif \notin Vifs
  BY MacVifAssumption DEF VifIInv, VifTypeOK
<1>1. PICK v \in Vifs, t \in IfTypes, okVap, okFilter \in Outcomes :
        /\ Ready /\ mac80211.run = "fresh" /\ RoomForVif
        /\ host' = [host EXCEPT !.vifs0 = v, !.sc_nvifs = @ + 1]
        /\ told' = LET f == SetVapCapabilities(told, v, t, okVap)
                 IN  IF okVap /\ t = "AP" THEN SendRxFilter(f, "no_beacons", okFilter) ELSE f
        /\ mac80211' = IF okVap THEN [mac80211 EXCEPT !.run = "used", !.vif = v, !.type = t]
                            ELSE [mac80211 EXCEPT !.run = "used"]
        /\ upset' = Upset({okVap, okFilter})
        /\ Same
  BY DEF AddInterface
<1>s. UNCHANGED <<roc_timer, roc_callback, seenVif, confirm, mutex>>
  BY <1>1 DEF Same
<1>2. okVap \in BOOLEAN /\ okFilter \in BOOLEAN
  BY <1>1, OutcomesTyped
<1>3. /\ mac80211'.run = "used"
      /\ okVap = TRUE => mac80211'.vif = v
      /\ okVap = FALSE => mac80211'.vif = mac80211.vif
      /\ okVap = TRUE => mac80211'.type = t
      /\ okVap = FALSE => mac80211'.type = mac80211.type
      /\ mac80211'.assoc = mac80211.assoc /\ mac80211'.open = mac80211.open
      /\ mac80211'.eapol = mac80211.eapol /\ mac80211'.conf = mac80211.conf
      /\ mac80211'.bss = mac80211.bss /\ mac80211'.roc = mac80211.roc
  BY <1>0, <1>1, <1>s, <1>2 DEF MacState
<1>4. /\ host'.vifs0 = v
      /\ host'.sc_nvifs = 1
      /\ host'.iface_down = host.iface_down /\ host'.blocked = host.blocked
      /\ host'.band = host.band /\ host'.width = host.width
      /\ host'.peer_notify_state = host.peer_notify_state /\ host'.roc_vif = host.roc_vif
      /\ host'.ap_channel = host.ap_channel /\ host'.update_country = host.update_country
      /\ host'.bgscan_en = host.bgscan_en
  BY <1>0, <1>1, <1>s, <1>2 DEF HostState, RoomForVif
<1>5. /\ okVap = TRUE => told'.vap = v
      /\ okVap = FALSE => told'.vap = told.vap
      /\ okVap = TRUE => told'.mode = IF t = "AP" THEN "AP" ELSE "STATION"
      /\ okVap = FALSE => told'.mode = told.mode
      /\ told'.filter = IF okVap /\ t = "AP" /\ okFilter THEN "no_beacons" ELSE told.filter
      /\ told'.peer = told.peer /\ told'.blocked = told.blocked /\ told'.band = told.band
      /\ told'.width = told.width /\ told'.chan = told.chan
  BY <1>0, <1>1, <1>s, <1>2 DEF FwState, SetVapCapabilities, SendRxFilter, Told
<1>6. /\ upset \subseteq upset' /\ upset' \subseteq Troubles
      /\ NothingLost => okVap = TRUE /\ okFilter = TRUE
  BY <1>0, <1>1, <1>s, <1>2, UpsetGrows DEF NothingLost, Troubles
<1>7. TroubleKeeps /\ HomeKeeps
  BY <1>6, Remembered
<1>8. VifTypeOK'
  <2>1. mac80211' \in MacState
    BY <1>0, <1>1, <1>s, <1>2 DEF MacState, IfTypes
  <2>2. host' \in HostState
    <3>1. host' = [host EXCEPT !.vifs0 = v, !.sc_nvifs = 1]
      BY <1>1 DEF RoomForVif
    <3>2. v \in Vifs \cup {NoVif} /\ 1 \in 0..1
      BY <1>1
    <3> QED BY <1>0, <3>1, <3>2 DEF HostState
  <2>3. told' \in FwState
    <3>1. SetVapCapabilities(told, v, t, okVap) \in FwState
      BY <1>0, <1>1, <1>2, FramesTyped
    <3> QED BY <1>0, <1>1, <1>2, <3>1, FramesTyped DEF Filters
  <2> QED BY <1>0, <1>1, <1>s, <1>2, <1>6, <2>1, <2>2, <2>3 DEF VifIInv, VifTypeOK, HostState
<1>9. VifShape'
  BY <1>0, <1>1, <1>s, <1>2, <1>3, <1>4 DEF VifIInv, VifShape
<1>10. VifsAgree'
  <2>1. None({"lost", "monitor"})' => None({"lost", "monitor"}) /\ NothingLost
    BY <1>7, LossesCount DEF TroubleKeeps, Losses
  <2> QED BY <1>0, <1>3, <1>4, <1>5, <1>6, <2>1 DEF VifIInv, VifsAgree, VifShape
<1>11. BlockedIsKnown'
  BY <1>0, <1>1, <1>s, <1>2, <1>3, <1>4, <1>5, <1>6, <1>7, LossesCount
  DEF VifIInv, BlockedIsKnown, TroubleKeeps, Losses
<1>12. DataFollowsChannel'
  <2>1. None({"lost", "late_confirm", "split_confirm"})' =>
          None({"lost", "late_confirm", "split_confirm"}) /\ NothingLost
    BY <1>7, LossesCount DEF TroubleKeeps, Losses
  <2> QED BY <1>0, <1>1, <1>s, <1>2, <1>3, <1>4, <1>5, <1>6, <2>1
    DEF VifIInv, DataFollowsChannel, VifShape
<1>13. EndpointKnown'
  BY <1>0, <1>1, <1>s, <1>2, <1>3, <1>4, <1>5, <1>6, <1>7, LossesCount
  DEF VifIInv, EndpointKnown, TroubleKeeps, Losses
<1>14. ScanOfAssociated'
  BY <1>0, <1>1, <1>s, <1>2, <1>3, <1>4, <1>5, <1>6, <1>7, LossesCount
  DEF VifIInv, ScanOfAssociated, VifShape, TroubleKeeps, Losses
<1>15. TunedHome'
  <2>1. None({"lost", "late_cancel", "off_channel", "idle_roc"})' =>
          None({"lost", "late_cancel", "off_channel", "idle_roc"}) /\ NothingLost
    BY <1>7, LossesCount DEF HomeKeeps, Losses
  <2> QED BY <1>0, <1>1, <1>s, <1>2, <1>3, <1>4, <1>5, <1>6, <2>1
    DEF VifIInv, TunedHome, AtHome, VifShape
<1>16. RfProgrammed'
  <2>1. None({"lost", "off_channel"})' =>
          None({"lost", "off_channel"}) /\ NothingLost
    BY <1>7, LossesCount DEF TroubleKeeps, Losses
  <2> QED BY <1>0, <1>1, <1>s, <1>2, <1>3, <1>4, <1>5, <1>6, <2>1, ZenonT(60)
    DEF VifIInv, RfProgrammed, VifShape
<1>17. FilterOpen'
  <2>1. None({"lost", "deaf"})' =>
          None({"lost", "deaf"}) /\ NothingLost
    BY <1>7, LossesCount DEF TroubleKeeps, Losses
  <2> QED BY <1>0, <1>1, <1>s, <1>2, <1>3, <1>4, <1>5, <1>6, <2>1
    DEF VifIInv, FilterOpen, VifShape
<1>18. RocUnderWay'
  BY <1>0, <1>1, <1>s, <1>2, <1>3, <1>4, <1>5, <1>6, <1>7, LossesCount
  DEF VifIInv, RocUnderWay, VifShape, TroubleKeeps, Losses
<1> QED BY <1>8, <1>9, <1>10, <1>11, <1>12, <1>13, <1>14, <1>15, <1>16, <1>17, <1>18 DEF VifIInv

\* An interface that is no monitor leaves the three tables.
LEMMA RemoveInterfaceKeeps == ASSUME MacVifAssumption, VifIInv, RemoveInterface PROVE VifIInv'
<1>0. /\ mac80211 \in MacState /\ host \in HostState /\ told \in FwState /\ upset \subseteq Troubles
      /\ NoChan \notin Chans /\ NoVif \notin Vifs
  BY MacVifAssumption DEF VifIInv, VifTypeOK
<1>1. PICK ok \in Outcomes :
        /\ Ready /\ mac80211.vif # NoVif /\ mac80211.roc = "none" /\ mac80211.assoc = "no"
        /\ host.vifs0 = mac80211.vif
        /\ mac80211' = [mac80211 EXCEPT !.vif = NoVif, !.type = "STATION", !.bss = NoChan]
        /\ IF mac80211.type = "MONITOR"
             THEN /\ host' = [host EXCEPT !.sc_nvifs = 0]
                  /\ upset' = upset \union {"monitor"}
                  /\ UNCHANGED told
             ELSE /\ host' = [host EXCEPT !.sc_nvifs = 0, !.vifs0 = NoVif]
                  /\ told' = DeleteVap(told, ok)
                  /\ upset' = Upset({ok})
        /\ Same
  BY DEF RemoveInterface
<1>s. UNCHANGED <<roc_timer, roc_callback, seenVif, confirm, mutex>>
  BY <1>1 DEF Same
<1>2. ok \in BOOLEAN
  BY <1>1, OutcomesTyped
<1>3. /\ mac80211'.vif = NoVif
      /\ mac80211'.type = "STATION"
      /\ mac80211'.bss = NoChan
      /\ mac80211'.run = mac80211.run /\ mac80211'.assoc = mac80211.assoc
      /\ mac80211'.open = mac80211.open /\ mac80211'.eapol = mac80211.eapol
      /\ mac80211'.conf = mac80211.conf /\ mac80211'.roc = mac80211.roc
  BY <1>0, <1>1, <1>s, <1>2 DEF MacState
<1>4. /\ mac80211.type # "MONITOR" => host'.vifs0 = NoVif
      /\ mac80211.type = "MONITOR" => host'.vifs0 = host.vifs0
      /\ host'.sc_nvifs = 0
      /\ host'.iface_down = host.iface_down /\ host'.blocked = host.blocked
      /\ host'.band = host.band /\ host'.width = host.width
      /\ host'.peer_notify_state = host.peer_notify_state /\ host'.roc_vif = host.roc_vif
      /\ host'.ap_channel = host.ap_channel /\ host'.update_country = host.update_country
      /\ host'.bgscan_en = host.bgscan_en
  BY <1>0, <1>1, <1>s, <1>2, ZenonT(60) DEF HostState
<1>5. /\ mac80211.type # "MONITOR" /\ ok = TRUE => told'.vap = NoVif
      /\ mac80211.type = "MONITOR" \/ ok = FALSE => told'.vap = told.vap
      /\ told'.mode = told.mode /\ told'.peer = told.peer /\ told'.blocked = told.blocked
      /\ told'.band = told.band /\ told'.width = told.width /\ told'.chan = told.chan
      /\ told'.filter = told.filter
  BY <1>0, <1>1, <1>s, <1>2 DEF FwState, DeleteVap, Told
<1>6. /\ upset \subseteq upset' /\ upset' \subseteq Troubles
      /\ mac80211.type # "MONITOR" /\ NothingLost => ok = TRUE
      /\ mac80211.type = "MONITOR" => "monitor" \in upset'
  <2>1. CASE mac80211.type = "MONITOR"
    BY <1>0, <1>1, <2>1 DEF Troubles
  <2>2. CASE mac80211.type # "MONITOR"
    <3>1. upset' = Upset({ok})
      BY <1>1, <2>2
    <3> QED BY <1>0, <1>2, <2>2, <3>1, UpsetGrows DEF NothingLost, Troubles
  <2> QED BY <2>1, <2>2
<1>m. None({"lost", "monitor"})' => mac80211.type # "MONITOR"
  BY <1>6 DEF None
<1>7. TroubleKeeps /\ HomeKeeps
  BY <1>6, Remembered
<1>8. VifTypeOK'
  <2>1. mac80211' \in MacState
    BY <1>0, <1>1, <1>s, <1>2 DEF MacState, IfTypes
  <2>2. host' \in HostState
    <3>1. CASE mac80211.type = "MONITOR"
      <4>1. host' = [host EXCEPT !.sc_nvifs = 0] /\ 0 \in 0..1
        BY <1>1, <3>1
      <4> QED BY <1>0, <4>1 DEF HostState
    <3>2. CASE mac80211.type # "MONITOR"
      <4>1. host' = [host EXCEPT !.sc_nvifs = 0, !.vifs0 = NoVif] /\ 0 \in 0..1
        BY <1>1, <3>2
      <4> QED BY <1>0, <4>1 DEF HostState
    <3> QED BY <3>1, <3>2
  <2>3. told' \in FwState
    BY <1>0, <1>1, <1>2, FramesTyped
  <2> QED BY <1>0, <1>1, <1>s, <1>2, <1>6, <2>1, <2>2, <2>3 DEF VifIInv, VifTypeOK, HostState
<1>9. VifShape'
  BY <1>0, <1>1, <1>s, <1>2, <1>3, <1>4 DEF VifIInv, VifShape
<1>10. VifsAgree'
  BY <1>0, <1>1, <1>2, <1>3, <1>4, <1>5, <1>6, <1>m, <1>7, LossesCount
  DEF VifIInv, VifsAgree, VifShape, TroubleKeeps, Losses
<1>11. BlockedIsKnown'
  BY <1>0, <1>1, <1>s, <1>2, <1>3, <1>4, <1>5, <1>6, <1>7, LossesCount
  DEF VifIInv, BlockedIsKnown, TroubleKeeps, Losses
<1>12. DataFollowsChannel'
  <2>1. None({"lost", "late_confirm", "split_confirm"})' =>
          None({"lost", "late_confirm", "split_confirm"}) /\ NothingLost
    BY <1>7, LossesCount DEF TroubleKeeps, Losses
  <2> QED BY <1>0, <1>1, <1>s, <1>2, <1>3, <1>4, <1>5, <1>6, <2>1
    DEF VifIInv, DataFollowsChannel, VifShape
<1>13. EndpointKnown'
  BY <1>0, <1>1, <1>s, <1>2, <1>3, <1>4, <1>5, <1>6, <1>7, LossesCount
  DEF VifIInv, EndpointKnown, TroubleKeeps, Losses
<1>14. ScanOfAssociated'
  BY <1>0, <1>1, <1>s, <1>2, <1>3, <1>4, <1>5, <1>6, <1>7, LossesCount
  DEF VifIInv, ScanOfAssociated, VifShape, TroubleKeeps, Losses
<1>15. TunedHome'
  <2>1. None({"lost", "late_cancel", "off_channel", "idle_roc"})' =>
          None({"lost", "late_cancel", "off_channel", "idle_roc"}) /\ NothingLost
    BY <1>7, LossesCount DEF HomeKeeps, Losses
  <2> QED BY <1>0, <1>1, <1>s, <1>2, <1>3, <1>4, <1>5, <1>6, <2>1
    DEF VifIInv, TunedHome, AtHome, VifShape
<1>16. RfProgrammed'
  <2>1. None({"lost", "off_channel"})' =>
          None({"lost", "off_channel"}) /\ NothingLost
    BY <1>7, LossesCount DEF TroubleKeeps, Losses
  <2> QED BY <1>0, <1>1, <1>s, <1>2, <1>3, <1>4, <1>5, <1>6, <2>1
    DEF VifIInv, RfProgrammed, VifShape
<1>17. FilterOpen'
  <2>1. None({"lost", "deaf"})' =>
          None({"lost", "deaf"}) /\ NothingLost
    BY <1>7, LossesCount DEF TroubleKeeps, Losses
  <2> QED BY <1>0, <1>1, <1>s, <1>2, <1>3, <1>4, <1>5, <1>6, <2>1
    DEF VifIInv, FilterOpen, VifShape
<1>18. RocUnderWay'
  BY <1>0, <1>1, <1>s, <1>2, <1>3, <1>4, <1>5, <1>6, <1>7, LossesCount
  DEF VifIInv, RocUnderWay, VifShape, TroubleKeeps, Losses
<1> QED BY <1>8, <1>9, <1>10, <1>11, <1>12, <1>13, <1>14, <1>15, <1>16, <1>17, <1>18 DEF VifIInv

\* A deletion and an addition leave the interface in the tables, with its new role.
LEMMA ChangeInterfaceKeeps == ASSUME MacVifAssumption, VifIInv, ChangeInterface PROVE VifIInv'
<1>0. /\ mac80211 \in MacState /\ host \in HostState /\ told \in FwState /\ upset \subseteq Troubles
      /\ NoChan \notin Chans /\ NoVif \notin Vifs
  BY MacVifAssumption DEF VifIInv, VifTypeOK
<1>1. PICK t \in {"STATION", "AP"}, okDel, okAdd, okFilter \in Outcomes :
        /\ Ready /\ mac80211.vif # NoVif /\ mac80211.type \notin {t, "MONITOR"}
        /\ mac80211.roc = "none" /\ mac80211.assoc = "no"
        /\ mac80211' = [mac80211 EXCEPT !.type = t, !.bss = NoChan]
        /\ told' = LET f == SetVapCapabilities(DeleteVap(told, okDel), mac80211.vif, t, okAdd)
                 IN  IF t = "AP" THEN SendRxFilter(f, "no_beacons", okFilter) ELSE f
        /\ upset' = Upset({okDel, okAdd, okFilter}) \union (IF t = "AP" THEN {} ELSE {"deaf"})
        /\ UNCHANGED host /\ Same
  BY DEF ChangeInterface
<1>s. UNCHANGED <<roc_timer, roc_callback, seenVif, confirm, mutex>>
  BY <1>1 DEF Same
<1>2. okDel \in BOOLEAN /\ okAdd \in BOOLEAN /\ okFilter \in BOOLEAN
  BY <1>1, OutcomesTyped
<1>3. /\ mac80211'.type = t
      /\ mac80211'.bss = NoChan
      /\ mac80211'.run = mac80211.run /\ mac80211'.vif = mac80211.vif
      /\ mac80211'.assoc = mac80211.assoc /\ mac80211'.open = mac80211.open
      /\ mac80211'.eapol = mac80211.eapol /\ mac80211'.conf = mac80211.conf
      /\ mac80211'.roc = mac80211.roc
  BY <1>0, <1>1, <1>s, <1>2 DEF MacState
<1>4. host' = host
  BY <1>1
<1> DEFINE d == DeleteVap(told, okDel)
<1> DEFINE f == SetVapCapabilities(d, mac80211.vif, t, okAdd)
<1>d. /\ d \in FwState
      /\ d.mode = told.mode /\ d.peer = told.peer /\ d.blocked = told.blocked
      /\ d.band = told.band /\ d.width = told.width /\ d.chan = told.chan
      /\ d.filter = told.filter
  BY <1>0, <1>2, FramesTyped DEF DeleteVap, Told, FwState
<1>k. /\ f \in FwState
      /\ okAdd = TRUE => f.vap = mac80211.vif
      /\ okAdd = TRUE => f.mode = (IF t = "AP" THEN "AP" ELSE "STATION")
      /\ f.peer = d.peer /\ f.blocked = d.blocked /\ f.band = d.band /\ f.width = d.width
      /\ f.chan = d.chan /\ f.filter = d.filter
  <2>1. f \in FwState
    BY <1>0, <1>1, <1>2, <1>d, FramesTyped DEF MacState, IfTypes
  <2> HIDE DEF d
  <2> QED BY <2>1, <1>2, <1>d DEF SetVapCapabilities, Told, FwState
<1>l. told' = IF t = "AP" THEN SendRxFilter(f, "no_beacons", okFilter) ELSE f
  BY <1>1
<1> HIDE DEF d, f
<1>5. /\ okAdd = TRUE => told'.vap = mac80211.vif
      /\ okAdd = TRUE => told'.mode = (IF t = "AP" THEN "AP" ELSE "STATION")
      /\ t = "STATION" => told'.filter = told.filter
      /\ told'.peer = told.peer /\ told'.blocked = told.blocked /\ told'.band = told.band
      /\ told'.width = told.width /\ told'.chan = told.chan
  BY <1>0, <1>1, <1>2, <1>d, <1>k, <1>l DEF SendRxFilter, Told, FwState
<1>6. /\ upset \subseteq upset' /\ upset' \subseteq Troubles
      /\ NothingLost => okDel = TRUE /\ okAdd = TRUE /\ okFilter = TRUE
      /\ t = "STATION" => "deaf" \in upset'
  BY <1>0, <1>1, <1>2, UpsetGrows DEF NothingLost, Troubles
<1>m. None({"lost", "deaf"})' => t = "AP"
  BY <1>1, <1>6 DEF None
<1>7. TroubleKeeps /\ HomeKeeps
  BY <1>6, Remembered
<1>8. VifTypeOK'
  <2>1. mac80211' \in MacState
    BY <1>0, <1>1, <1>s, <1>2 DEF MacState, IfTypes
  <2>2. host' \in HostState
    BY <1>0, <1>4
  <2>3. told' \in FwState
    BY <1>1, <1>2, <1>k, <1>l, FramesTyped DEF Filters
  <2> QED BY <1>0, <1>1, <1>s, <1>2, <1>6, <2>1, <2>2, <2>3 DEF VifIInv, VifTypeOK, HostState
<1>9. VifShape'
  BY <1>0, <1>1, <1>s, <1>2, <1>3, <1>4 DEF VifIInv, VifShape
<1>10. VifsAgree'
  <2>1. None({"lost", "monitor"})' => None({"lost", "monitor"}) /\ NothingLost
    BY <1>7, LossesCount DEF TroubleKeeps, Losses
  <2> QED BY <1>0, <1>3, <1>4, <1>5, <1>6, <2>1 DEF VifIInv, VifsAgree, VifShape
<1>11. BlockedIsKnown'
  BY <1>0, <1>1, <1>s, <1>2, <1>3, <1>4, <1>5, <1>6, <1>7, LossesCount
  DEF VifIInv, BlockedIsKnown, TroubleKeeps, Losses
<1>12. DataFollowsChannel'
  <2>1. None({"lost", "late_confirm", "split_confirm"})' =>
          None({"lost", "late_confirm", "split_confirm"}) /\ NothingLost
    BY <1>7, LossesCount DEF TroubleKeeps, Losses
  <2> QED BY <1>0, <1>1, <1>s, <1>2, <1>3, <1>4, <1>5, <1>6, <2>1
    DEF VifIInv, DataFollowsChannel, VifShape
<1>13. EndpointKnown'
  BY <1>0, <1>1, <1>s, <1>2, <1>3, <1>4, <1>5, <1>6, <1>7, LossesCount
  DEF VifIInv, EndpointKnown, TroubleKeeps, Losses
<1>14. ScanOfAssociated'
  BY <1>0, <1>1, <1>s, <1>2, <1>3, <1>4, <1>5, <1>6, <1>7, LossesCount
  DEF VifIInv, ScanOfAssociated, VifShape, TroubleKeeps, Losses
<1>15. TunedHome'
  <2>1. None({"lost", "late_cancel", "off_channel", "idle_roc"})' =>
          None({"lost", "late_cancel", "off_channel", "idle_roc"}) /\ NothingLost
    BY <1>7, LossesCount DEF HomeKeeps, Losses
  <2> QED BY <1>0, <1>1, <1>s, <1>2, <1>3, <1>4, <1>5, <1>6, <2>1
    DEF VifIInv, TunedHome, AtHome, VifShape
<1>16. RfProgrammed'
  <2>1. None({"lost", "off_channel"})' =>
          None({"lost", "off_channel"}) /\ NothingLost
    BY <1>7, LossesCount DEF TroubleKeeps, Losses
  <2> QED BY <1>0, <1>1, <1>s, <1>2, <1>3, <1>4, <1>5, <1>6, <2>1, ZenonT(60)
    DEF VifIInv, RfProgrammed, VifShape
<1>17. FilterOpen'
  <2>1. None({"lost", "deaf"})' =>
          None({"lost", "deaf"}) /\ NothingLost
    BY <1>7, LossesCount DEF TroubleKeeps, Losses
  <2> QED BY <1>0, <1>1, <1>2, <1>3, <1>4, <1>5, <1>6, <1>m, <2>1
    DEF VifIInv, FilterOpen, VifShape
<1>18. RocUnderWay'
  BY <1>0, <1>1, <1>s, <1>2, <1>3, <1>4, <1>5, <1>6, <1>7, LossesCount
  DEF VifIInv, RocUnderWay, VifShape, TroubleKeeps, Losses
<1> QED BY <1>8, <1>9, <1>10, <1>11, <1>12, <1>13, <1>14, <1>15, <1>16, <1>17, <1>18 DEF VifIInv

\* The notifier tunes the device to where the driver last tuned it.
LEMMA RegNotifyKeeps == ASSUME MacVifAssumption, VifIInv, RegNotify PROVE VifIInv'
<1>0. /\ mac80211 \in MacState /\ host \in HostState /\ told \in FwState /\ upset \subseteq Troubles
      /\ NoChan \notin Chans /\ NoVif \notin Vifs
  BY MacVifAssumption DEF VifIInv, VifTypeOK
<1>1. PICK ok \in Outcomes :
        /\ Ready /\ host.vifs0 = mac80211.vif /\ mac80211.vif # NoVif
        /\ Associated /\ ~host.update_country /\ host.ap_channel # NoChan
        /\ told' = SetChannel(told, host.ap_channel, ok)
        /\ host' = [host EXCEPT !.update_country = TRUE]
        /\ upset' = Upset({ok}) \union 
                   (IF told.chan # host.ap_channel THEN {"off_channel"} ELSE {})
        /\ UNCHANGED mac80211 /\ Same
  BY DEF RegNotify
<1>s. UNCHANGED <<roc_timer, roc_callback, seenVif, confirm, mutex>>
  BY <1>1 DEF Same
<1>2. ok \in BOOLEAN
  BY <1>1, OutcomesTyped
<1>3. mac80211' = mac80211
  BY <1>1
<1>4. /\ host'.update_country = TRUE
      /\ host'.vifs0 = host.vifs0 /\ host'.sc_nvifs = host.sc_nvifs
      /\ host'.iface_down = host.iface_down /\ host'.blocked = host.blocked
      /\ host'.band = host.band /\ host'.width = host.width
      /\ host'.peer_notify_state = host.peer_notify_state /\ host'.roc_vif = host.roc_vif
      /\ host'.ap_channel = host.ap_channel /\ host'.bgscan_en = host.bgscan_en
  BY <1>0, <1>1, <1>s, <1>2 DEF HostState
<1>5. /\ ok = TRUE => told'.chan = host.ap_channel
      /\ ok = FALSE => told'.chan = told.chan
      /\ told'.vap = told.vap /\ told'.mode = told.mode /\ told'.peer = told.peer
      /\ told'.blocked = told.blocked /\ told'.band = told.band /\ told'.width = told.width
      /\ told'.filter = told.filter
  BY <1>0, <1>1, <1>s, <1>2 DEF FwState, SetChannel, Told
<1>6. /\ upset \subseteq upset' /\ upset' \subseteq Troubles
      /\ NothingLost => ok = TRUE
      /\ told.chan # host.ap_channel => "off_channel" \in upset'
  BY <1>0, <1>1, <1>2, UpsetGrows DEF NothingLost, Troubles
<1>m. "off_channel" \notin upset' => told'.chan = told.chan
  BY <1>2, <1>5, <1>6
<1>7. TroubleKeeps /\ HomeKeeps
  BY <1>6, Remembered
<1>8. VifTypeOK'
  <2>1. mac80211' \in MacState
    BY <1>0, <1>3
  <2>2. host' \in HostState
    BY <1>0, <1>1, <1>s, <1>2 DEF HostState
  <2>3. told' \in FwState
    <3>1. host.ap_channel \in Chans
      BY <1>0, <1>1 DEF HostState
    <3> QED BY <1>0, <1>1, <1>2, <3>1, FramesTyped
  <2> QED BY <1>0, <1>1, <1>s, <1>2, <1>6, <2>1, <2>2, <2>3 DEF VifIInv, VifTypeOK, HostState
<1>9. VifShape'
  BY <1>0, <1>1, <1>s, <1>2, <1>3, <1>4 DEF VifIInv, VifShape
<1>10. VifsAgree'
  <2>1. None({"lost", "monitor"})' => None({"lost", "monitor"}) /\ NothingLost
    BY <1>7, LossesCount DEF TroubleKeeps, Losses
  <2> QED BY <1>0, <1>3, <1>4, <1>5, <1>6, <2>1 DEF VifIInv, VifsAgree, VifShape
<1>11. BlockedIsKnown'
  BY <1>0, <1>1, <1>s, <1>2, <1>3, <1>4, <1>5, <1>6, <1>7, LossesCount
  DEF VifIInv, BlockedIsKnown, TroubleKeeps, Losses
<1>12. DataFollowsChannel'
  <2>1. None({"lost", "late_confirm", "split_confirm"})' =>
          None({"lost", "late_confirm", "split_confirm"}) /\ NothingLost
    BY <1>7, LossesCount DEF TroubleKeeps, Losses
  <2> QED BY <1>0, <1>1, <1>s, <1>2, <1>3, <1>4, <1>5, <1>6, <2>1
    DEF VifIInv, DataFollowsChannel, VifShape
<1>13. EndpointKnown'
  BY <1>0, <1>1, <1>s, <1>2, <1>3, <1>4, <1>5, <1>6, <1>7, LossesCount
  DEF VifIInv, EndpointKnown, TroubleKeeps, Losses
<1>14. ScanOfAssociated'
  BY <1>0, <1>1, <1>s, <1>2, <1>3, <1>4, <1>5, <1>6, <1>7, LossesCount
  DEF VifIInv, ScanOfAssociated, VifShape, TroubleKeeps, Losses
<1>15. TunedHome'
  <2>1. None({"lost", "late_cancel", "off_channel", "idle_roc"})' => told'.chan = told.chan
    BY <1>m DEF None
  <2> QED BY <1>0, <1>1, <1>2, <1>4, <1>5, <1>6, <1>7, <1>3, <2>1, LossesCount, ZenonT(60)
  DEF VifIInv, TunedHome, AtHome, HomeKeeps, VifShape, TroubleKeeps, Losses
<1>16. RfProgrammed'
  <2>1. None({"lost", "off_channel"})' => told'.chan = told.chan
    BY <1>m DEF None
  <2> QED BY <1>0, <1>1, <1>2, <1>4, <1>5, <1>6, <1>7, <1>3, <2>1, LossesCount
  DEF VifIInv, RfProgrammed, VifShape, TroubleKeeps, Losses
<1>17. FilterOpen'
  <2>1. None({"lost", "deaf"})' =>
          None({"lost", "deaf"}) /\ NothingLost
    BY <1>7, LossesCount DEF TroubleKeeps, Losses
  <2> QED BY <1>0, <1>1, <1>s, <1>2, <1>3, <1>4, <1>5, <1>6, <2>1
    DEF VifIInv, FilterOpen, VifShape
<1>18. RocUnderWay'
  BY <1>0, <1>1, <1>s, <1>2, <1>3, <1>4, <1>5, <1>6, <1>7, LossesCount
  DEF VifIInv, RocUnderWay, VifShape, TroubleKeeps, Losses
<1> QED BY <1>8, <1>9, <1>10, <1>11, <1>12, <1>13, <1>14, <1>15, <1>16, <1>17, <1>18 DEF VifIInv

\* Data is blocked in the driver until the unblock frame was queued.
LEMMA AssociateKeeps == ASSUME MacVifAssumption, VifIInv, Associate PROVE VifIInv'
<1>0. /\ mac80211 \in MacState /\ host \in HostState /\ told \in FwState /\ upset \subseteq Troubles
      /\ NoChan \notin Chans /\ NoVif \notin Vifs
  BY MacVifAssumption DEF VifIInv, VifTypeOK
<1>1. PICK open \in BOOLEAN, okFilter, okPeer, okUnblock \in Outcomes :
        /\ Ready /\ mac80211.vif # NoVif /\ mac80211.type = "STATION" /\ mac80211.assoc = "no"
        /\ mac80211.bss # NoChan /\ mac80211.conf = mac80211.bss
        /\ mac80211' = [mac80211 EXCEPT !.assoc = "yes", !.open = open, !.eapol = @ \/ ~open]
        /\ host' = LET h == [host EXCEPT !.blocked = TRUE, !.peer_notify_state = @ \/ okPeer]
                   IN  IF open THEN Unblocked(h, okUnblock) ELSE h
        /\ told' = LET f == SendPeer(SendRxFilter(told, "assoc", okFilter), TRUE, okPeer)
                 IN  IF open THEN SendBlock(f, FALSE, okUnblock) ELSE f
        /\ upset' = Upset({okFilter, okPeer, okUnblock})
        /\ Same
  BY DEF Associate
<1>s. UNCHANGED <<roc_timer, roc_callback, seenVif, confirm, mutex>>
  BY <1>1 DEF Same
<1>2. okFilter \in BOOLEAN /\ okPeer \in BOOLEAN /\ okUnblock \in BOOLEAN
  BY <1>1, OutcomesTyped
<1>3. /\ mac80211'.assoc = "yes"
      /\ mac80211'.open = open
      /\ mac80211'.run = mac80211.run /\ mac80211'.vif = mac80211.vif
      /\ mac80211'.type = mac80211.type /\ mac80211'.conf = mac80211.conf
      /\ mac80211'.bss = mac80211.bss /\ mac80211'.roc = mac80211.roc
  BY <1>0, <1>1, <1>s, <1>2 DEF MacState
<1>4. /\ open = TRUE /\ okUnblock = TRUE => host'.blocked = FALSE
      /\ open = FALSE \/ okUnblock = FALSE => host'.blocked = TRUE
      /\ host'.vifs0 = host.vifs0 /\ host'.sc_nvifs = host.sc_nvifs
      /\ host'.iface_down = host.iface_down /\ host'.band = host.band
      /\ host'.width = host.width /\ host'.roc_vif = host.roc_vif
      /\ host'.ap_channel = host.ap_channel /\ host'.update_country = host.update_country
      /\ host'.bgscan_en = host.bgscan_en
  BY <1>0, <1>1, <1>s, <1>2 DEF HostState, Unblocked
<1>5. /\ open = TRUE /\ okUnblock = TRUE => told'.blocked = FALSE
      /\ open = FALSE \/ okUnblock = FALSE => told'.blocked = told.blocked
      /\ okFilter = TRUE => told'.filter = "assoc"
      /\ okFilter = FALSE => told'.filter = told.filter
      /\ told'.vap = told.vap /\ told'.mode = told.mode /\ told'.band = told.band
      /\ told'.width = told.width /\ told'.chan = told.chan
  BY <1>0, <1>1, <1>s, <1>2 DEF FwState, SendRxFilter, SendPeer, SendBlock, Told
<1>6. /\ upset \subseteq upset' /\ upset' \subseteq Troubles
      /\ NothingLost => okFilter = TRUE /\ okPeer = TRUE /\ okUnblock = TRUE
  BY <1>0, <1>1, <1>s, <1>2, UpsetGrows DEF NothingLost, Troubles
<1>7. TroubleKeeps /\ HomeKeeps
  BY <1>6, Remembered
<1>8. VifTypeOK'
  <2>1. mac80211' \in MacState
    BY <1>0, <1>1, <1>s, <1>2 DEF MacState, IfTypes
  <2>2. host' \in HostState
    <3> DEFINE h == [host EXCEPT !.blocked = TRUE, !.peer_notify_state = @ \/ okPeer]
    <3> DEFINE p == host.peer_notify_state \/ okPeer
    <3>1. h = [host EXCEPT !.blocked = TRUE, !.peer_notify_state = p]
      OBVIOUS
    <3>2. p \in BOOLEAN
      BY <1>0, <1>2 DEF HostState
    <3>3. host' = h \/ host' = Unblocked(h, okUnblock)
      BY <1>1
    <3> HIDE DEF h, p
    <3>4. h \in HostState
      BY ONLY <1>0, <3>1, <3>2, HostTyped
    <3> QED BY ONLY <1>2, <3>3, <3>4, ZenonT(60) DEF Unblocked, HostState
  <2>3. told' \in FwState
    <3>1. SendRxFilter(told, "assoc", okFilter) \in FwState
      BY <1>0, <1>2, FramesTyped DEF Filters
    <3>2. SendPeer(SendRxFilter(told, "assoc", okFilter), TRUE, okPeer) \in FwState
      BY <1>2, <3>1, FramesTyped
    <3> QED BY <1>1, <1>2, <3>2, FramesTyped
  <2> QED BY <1>0, <1>1, <1>s, <1>2, <1>6, <2>1, <2>2, <2>3 DEF VifIInv, VifTypeOK, HostState
<1>9. VifShape'
  BY <1>0, <1>1, <1>s, <1>2, <1>3, <1>4 DEF VifIInv, VifShape
<1>10. VifsAgree'
  <2>1. None({"lost", "monitor"})' => None({"lost", "monitor"}) /\ NothingLost
    BY <1>7, LossesCount DEF TroubleKeeps, Losses
  <2> QED BY <1>0, <1>3, <1>4, <1>5, <1>6, <2>1 DEF VifIInv, VifsAgree, VifShape
<1>11. BlockedIsKnown'
  BY <1>0, <1>1, <1>s, <1>2, <1>3, <1>4, <1>5, <1>6, <1>7, LossesCount
  DEF VifIInv, BlockedIsKnown, TroubleKeeps, Losses
<1>12. DataFollowsChannel'
  <2>1. None({"lost", "late_confirm", "split_confirm"})' =>
          None({"lost", "late_confirm", "split_confirm"}) /\ NothingLost
    BY <1>7, LossesCount DEF TroubleKeeps, Losses
  <2> QED BY <1>0, <1>1, <1>s, <1>2, <1>3, <1>4, <1>5, <1>6, <2>1
    DEF VifIInv, DataFollowsChannel, VifShape
<1>13. EndpointKnown'
  BY <1>0, <1>1, <1>s, <1>2, <1>3, <1>4, <1>5, <1>6, <1>7, LossesCount, ZenonT(60)
  DEF VifIInv, EndpointKnown, TroubleKeeps, Losses
<1>14. ScanOfAssociated'
  BY <1>0, <1>1, <1>s, <1>2, <1>3, <1>4, <1>5, <1>6, <1>7, LossesCount
  DEF VifIInv, ScanOfAssociated, VifShape, TroubleKeeps, Losses
<1>15. TunedHome'
  <2>1. None({"lost", "late_cancel", "off_channel", "idle_roc"})' =>
          None({"lost", "late_cancel", "off_channel", "idle_roc"}) /\ NothingLost
    BY <1>7, LossesCount DEF HomeKeeps, Losses
  <2> QED BY <1>0, <1>1, <1>s, <1>2, <1>3, <1>4, <1>5, <1>6, <2>1, ZenonT(60)
    DEF VifIInv, TunedHome, AtHome, VifShape
<1>16. RfProgrammed'
  <2>1. None({"lost", "off_channel"})' =>
          None({"lost", "off_channel"}) /\ NothingLost
    BY <1>7, LossesCount DEF TroubleKeeps, Losses
  <2> QED BY <1>0, <1>1, <1>s, <1>2, <1>3, <1>4, <1>5, <1>6, <2>1, ZenonT(60)
    DEF VifIInv, RfProgrammed, VifShape
<1>17. FilterOpen'
  <2>1. None({"lost", "deaf"})' =>
          None({"lost", "deaf"}) /\ NothingLost
    BY <1>7, LossesCount DEF TroubleKeeps, Losses
  <2> QED BY <1>0, <1>1, <1>s, <1>2, <1>3, <1>4, <1>5, <1>6, <2>1
    DEF VifIInv, FilterOpen, VifShape
<1>18. RocUnderWay'
  BY <1>0, <1>1, <1>s, <1>2, <1>3, <1>4, <1>5, <1>6, <1>7, LossesCount
  DEF VifIInv, RocUnderWay, VifShape, TroubleKeeps, Losses
<1> QED BY <1>8, <1>9, <1>10, <1>11, <1>12, <1>13, <1>14, <1>15, <1>16, <1>17, <1>18 DEF VifIInv

\* The filter is opened again when the station leaves.
LEMMA StaRemoveKeeps == ASSUME MacVifAssumption, VifIInv, StaRemove PROVE VifIInv'
<1>0. /\ mac80211 \in MacState /\ host \in HostState /\ told \in FwState /\ upset \subseteq Troubles
      /\ NoChan \notin Chans /\ NoVif \notin Vifs
  BY MacVifAssumption DEF VifIInv, VifTypeOK
<1>1. PICK okScan, okFilter \in Outcomes :
        /\ Ready /\ mac80211.assoc = "yes"
        /\ mac80211' = [mac80211 EXCEPT !.assoc = "leaving"]
        /\ host' = [host EXCEPT !.update_country = FALSE, !.bgscan_en = @ /\ ~okScan]
        /\ told' = IF host.iface_down THEN told ELSE SendRxFilter(told, "open", okFilter)
        /\ upset' = Upset({okScan, okFilter})
        /\ Same
  BY DEF StaRemove
<1>s. UNCHANGED <<roc_timer, roc_callback, seenVif, confirm, mutex>>
  BY <1>1 DEF Same
<1>2. okScan \in BOOLEAN /\ okFilter \in BOOLEAN
  BY <1>1, OutcomesTyped
<1>3. /\ mac80211'.assoc = "leaving"
      /\ mac80211'.run = mac80211.run /\ mac80211'.vif = mac80211.vif
      /\ mac80211'.type = mac80211.type /\ mac80211'.open = mac80211.open
      /\ mac80211'.eapol = mac80211.eapol /\ mac80211'.conf = mac80211.conf
      /\ mac80211'.bss = mac80211.bss /\ mac80211'.roc = mac80211.roc
  BY <1>0, <1>1, <1>s, <1>2 DEF MacState
<1>4. /\ host'.update_country = FALSE
      /\ okScan = TRUE => host'.bgscan_en = FALSE
      /\ okScan = FALSE => host'.bgscan_en = host.bgscan_en
      /\ host'.vifs0 = host.vifs0 /\ host'.sc_nvifs = host.sc_nvifs
      /\ host'.iface_down = host.iface_down /\ host'.blocked = host.blocked
      /\ host'.band = host.band /\ host'.width = host.width
      /\ host'.peer_notify_state = host.peer_notify_state /\ host'.roc_vif = host.roc_vif
      /\ host'.ap_channel = host.ap_channel
  BY <1>0, <1>1, <1>s, <1>2 DEF HostState
<1>5. /\ host.iface_down = FALSE /\ okFilter = TRUE => told'.filter = "open"
      /\ host.iface_down = TRUE \/ okFilter = FALSE => told'.filter = told.filter
      /\ told'.vap = told.vap /\ told'.mode = told.mode /\ told'.peer = told.peer
      /\ told'.blocked = told.blocked /\ told'.band = told.band /\ told'.width = told.width
      /\ told'.chan = told.chan
  BY <1>0, <1>1, <1>s, <1>2 DEF FwState, SendRxFilter, Told
<1>6. /\ upset \subseteq upset' /\ upset' \subseteq Troubles
      /\ NothingLost => okScan = TRUE /\ okFilter = TRUE
  BY <1>0, <1>1, <1>s, <1>2, UpsetGrows DEF NothingLost, Troubles
<1>7. TroubleKeeps /\ HomeKeeps
  BY <1>6, Remembered
<1>8. VifTypeOK'
  <2>1. mac80211' \in MacState
    BY <1>0, <1>1, <1>s, <1>2 DEF MacState, IfTypes
  <2>2. host' \in HostState
    BY <1>0, <1>1, <1>s, <1>2, ZenonT(60) DEF HostState
  <2>3. told' \in FwState
    BY <1>0, <1>1, <1>2, FramesTyped DEF Filters
  <2> QED BY <1>0, <1>1, <1>s, <1>2, <1>6, <2>1, <2>2, <2>3 DEF VifIInv, VifTypeOK, HostState
<1>9. VifShape'
  BY <1>0, <1>1, <1>s, <1>2, <1>3, <1>4 DEF VifIInv, VifShape
<1>10. VifsAgree'
  <2>1. None({"lost", "monitor"})' => None({"lost", "monitor"}) /\ NothingLost
    BY <1>7, LossesCount DEF TroubleKeeps, Losses
  <2> QED BY <1>0, <1>3, <1>4, <1>5, <1>6, <2>1 DEF VifIInv, VifsAgree, VifShape
<1>11. BlockedIsKnown'
  BY <1>0, <1>1, <1>s, <1>2, <1>3, <1>4, <1>5, <1>6, <1>7, LossesCount
  DEF VifIInv, BlockedIsKnown, TroubleKeeps, Losses
<1>12. DataFollowsChannel'
  <2>1. None({"lost", "late_confirm", "split_confirm"})' =>
          None({"lost", "late_confirm", "split_confirm"}) /\ NothingLost
    BY <1>7, LossesCount DEF TroubleKeeps, Losses
  <2> QED BY <1>0, <1>1, <1>s, <1>2, <1>3, <1>4, <1>5, <1>6, <2>1
    DEF VifIInv, DataFollowsChannel, VifShape
<1>13. EndpointKnown'
  BY <1>0, <1>1, <1>s, <1>2, <1>3, <1>4, <1>5, <1>6, <1>7, LossesCount
  DEF VifIInv, EndpointKnown, TroubleKeeps, Losses
<1>14. ScanOfAssociated'
  BY <1>0, <1>1, <1>s, <1>2, <1>3, <1>4, <1>5, <1>6, <1>7, LossesCount
  DEF VifIInv, ScanOfAssociated, VifShape, TroubleKeeps, Losses
<1>15. TunedHome'
  <2>1. None({"lost", "late_cancel", "off_channel", "idle_roc"})' =>
          None({"lost", "late_cancel", "off_channel", "idle_roc"}) /\ NothingLost
    BY <1>7, LossesCount DEF HomeKeeps, Losses
  <2> QED BY <1>0, <1>1, <1>s, <1>2, <1>3, <1>4, <1>5, <1>6, <2>1, ZenonT(60)
    DEF VifIInv, TunedHome, AtHome, VifShape
<1>16. RfProgrammed'
  <2>1. None({"lost", "off_channel"})' =>
          None({"lost", "off_channel"}) /\ NothingLost
    BY <1>7, LossesCount DEF TroubleKeeps, Losses
  <2> QED BY <1>0, <1>1, <1>s, <1>2, <1>3, <1>4, <1>5, <1>6, <2>1
    DEF VifIInv, RfProgrammed, VifShape
<1>17. FilterOpen'
  <2>1. None({"lost", "deaf"})' =>
          None({"lost", "deaf"}) /\ NothingLost
    BY <1>7, LossesCount DEF TroubleKeeps, Losses
  <2> QED BY <1>0, <1>1, <1>s, <1>2, <1>3, <1>4, <1>5, <1>6, <2>1
    DEF VifIInv, FilterOpen, VifShape
<1>18. RocUnderWay'
  BY <1>0, <1>1, <1>s, <1>2, <1>3, <1>4, <1>5, <1>6, <1>7, LossesCount
  DEF VifIInv, RocUnderWay, VifShape, TroubleKeeps, Losses
<1> QED BY <1>8, <1>9, <1>10, <1>11, <1>12, <1>13, <1>14, <1>15, <1>16, <1>17, <1>18 DEF VifIInv

\* A disassociation blocks the queues on both sides.
LEMMA DisassociateKeeps == ASSUME MacVifAssumption, VifIInv, Disassociate PROVE VifIInv'
<1>0. /\ mac80211 \in MacState /\ host \in HostState /\ told \in FwState /\ upset \subseteq Troubles
      /\ NoChan \notin Chans /\ NoVif \notin Vifs
  BY MacVifAssumption DEF VifIInv, VifTypeOK
<1>1. PICK okPeer, okBlock \in Outcomes :
        /\ Ready /\ mac80211.assoc = "leaving"
        /\ mac80211' = [mac80211 EXCEPT !.assoc = "no", !.open = TRUE, !.bss = NoChan]
        /\ host' = [host EXCEPT !.blocked = TRUE, !.peer_notify_state = @ /\ ~okPeer]
        /\ told' = SendBlock(SendPeer(told, FALSE, okPeer), TRUE, okBlock)
        /\ upset' = Upset({okPeer, okBlock})
        /\ Same
  BY DEF Disassociate
<1>s. UNCHANGED <<roc_timer, roc_callback, seenVif, confirm, mutex>>
  BY <1>1 DEF Same
<1>2. okPeer \in BOOLEAN /\ okBlock \in BOOLEAN
  BY <1>1, OutcomesTyped
<1>3. /\ mac80211'.assoc = "no"
      /\ mac80211'.open = TRUE
      /\ mac80211'.bss = NoChan
      /\ mac80211'.run = mac80211.run /\ mac80211'.vif = mac80211.vif
      /\ mac80211'.type = mac80211.type /\ mac80211'.eapol = mac80211.eapol
      /\ mac80211'.conf = mac80211.conf /\ mac80211'.roc = mac80211.roc
  BY <1>0, <1>1, <1>s, <1>2 DEF MacState
<1>4. /\ host'.blocked = TRUE
      /\ host'.vifs0 = host.vifs0 /\ host'.sc_nvifs = host.sc_nvifs
      /\ host'.iface_down = host.iface_down /\ host'.band = host.band
      /\ host'.width = host.width /\ host'.roc_vif = host.roc_vif
      /\ host'.ap_channel = host.ap_channel /\ host'.update_country = host.update_country
      /\ host'.bgscan_en = host.bgscan_en
  BY <1>0, <1>1, <1>s, <1>2 DEF HostState
<1>5. /\ told'.vap = told.vap /\ told'.mode = told.mode /\ told'.band = told.band
      /\ told'.width = told.width /\ told'.chan = told.chan /\ told'.filter = told.filter
  BY <1>0, <1>1, <1>s, <1>2 DEF FwState, SendBlock, SendPeer, Told
<1>6. /\ upset \subseteq upset' /\ upset' \subseteq Troubles
      /\ NothingLost => okPeer = TRUE /\ okBlock = TRUE
  BY <1>0, <1>1, <1>s, <1>2, UpsetGrows DEF NothingLost, Troubles
<1>7. TroubleKeeps /\ HomeKeeps
  BY <1>6, Remembered
<1>8. VifTypeOK'
  <2>1. mac80211' \in MacState
    BY <1>0, <1>1, <1>s, <1>2 DEF MacState, IfTypes
  <2>2. host' \in HostState
    <3> DEFINE p == host.peer_notify_state /\ ~okPeer
    <3>1. host' = [host EXCEPT !.blocked = TRUE, !.peer_notify_state = p]
      BY <1>1
    <3>2. p \in BOOLEAN
      BY <1>0, <1>2 DEF HostState
    <3> HIDE DEF p
    <3> QED BY ONLY <1>0, <3>1, <3>2, HostTyped
  <2>3. told' \in FwState
    <3>1. SendPeer(told, FALSE, okPeer) \in FwState
      BY <1>0, <1>2, FramesTyped
    <3> QED BY <1>1, <1>2, <3>1, FramesTyped
  <2> QED BY <1>0, <1>1, <1>s, <1>2, <1>6, <2>1, <2>2, <2>3 DEF VifIInv, VifTypeOK, HostState
<1>9. VifShape'
  BY <1>0, <1>1, <1>s, <1>2, <1>3, <1>4 DEF VifIInv, VifShape
<1>10. VifsAgree'
  <2>1. None({"lost", "monitor"})' => None({"lost", "monitor"}) /\ NothingLost
    BY <1>7, LossesCount DEF TroubleKeeps, Losses
  <2> QED BY <1>0, <1>3, <1>4, <1>5, <1>6, <2>1 DEF VifIInv, VifsAgree, VifShape
<1>11. BlockedIsKnown'
  BY <1>0, <1>1, <1>s, <1>2, <1>3, <1>4, <1>5, <1>6, <1>7, LossesCount
  DEF VifIInv, BlockedIsKnown, TroubleKeeps, Losses
<1>12. DataFollowsChannel'
  <2>1. None({"lost", "late_confirm", "split_confirm"})' =>
          None({"lost", "late_confirm", "split_confirm"}) /\ NothingLost
    BY <1>7, LossesCount DEF TroubleKeeps, Losses
  <2> QED BY <1>0, <1>1, <1>s, <1>2, <1>3, <1>4, <1>5, <1>6, <2>1
    DEF VifIInv, DataFollowsChannel, VifShape
<1>13. EndpointKnown'
  BY <1>0, <1>1, <1>s, <1>2, <1>3, <1>4, <1>5, <1>6, <1>7, LossesCount
  DEF VifIInv, EndpointKnown, TroubleKeeps, Losses
<1>14. ScanOfAssociated'
  BY <1>0, <1>1, <1>s, <1>2, <1>3, <1>4, <1>5, <1>6, <1>7, LossesCount
  DEF VifIInv, ScanOfAssociated, VifShape, TroubleKeeps, Losses
<1>15. TunedHome'
  <2>1. None({"lost", "late_cancel", "off_channel", "idle_roc"})' =>
          None({"lost", "late_cancel", "off_channel", "idle_roc"}) /\ NothingLost
    BY <1>7, LossesCount DEF HomeKeeps, Losses
  <2> QED BY <1>0, <1>1, <1>s, <1>2, <1>3, <1>4, <1>5, <1>6, <2>1
    DEF VifIInv, TunedHome, AtHome, VifShape
<1>16. RfProgrammed'
  <2>1. None({"lost", "off_channel"})' =>
          None({"lost", "off_channel"}) /\ NothingLost
    BY <1>7, LossesCount DEF TroubleKeeps, Losses
  <2> QED BY <1>0, <1>1, <1>s, <1>2, <1>3, <1>4, <1>5, <1>6, <2>1, ZenonT(60)
    DEF VifIInv, RfProgrammed, VifShape
<1>17. FilterOpen'
  <2>1. None({"lost", "deaf"})' =>
          None({"lost", "deaf"}) /\ NothingLost
    BY <1>7, LossesCount DEF TroubleKeeps, Losses
  <2> QED BY <1>0, <1>1, <1>s, <1>2, <1>3, <1>4, <1>5, <1>6, <2>1
    DEF VifIInv, FilterOpen, VifShape
<1>18. RocUnderWay'
  BY <1>0, <1>1, <1>s, <1>2, <1>3, <1>4, <1>5, <1>6, <1>7, LossesCount
  DEF VifIInv, RocUnderWay, VifShape, TroubleKeeps, Losses
<1> QED BY <1>8, <1>9, <1>10, <1>11, <1>12, <1>13, <1>14, <1>15, <1>16, <1>17, <1>18 DEF VifIInv

\* The deletion of a peer touches nothing else.
LEMMA DeletePeerAgainKeeps == ASSUME MacVifAssumption, VifIInv, DeletePeerAgain PROVE VifIInv'
<1>0. /\ mac80211 \in MacState /\ host \in HostState /\ told \in FwState /\ upset \subseteq Troubles
      /\ NoChan \notin Chans /\ NoVif \notin Vifs
  BY MacVifAssumption DEF VifIInv, VifTypeOK
<1>1. PICK denied \in BOOLEAN, ok \in Outcomes :
        /\ mac80211.vif # NoVif /\ mac80211.type = "STATION" /\ mac80211.assoc = "no"
        /\ IF denied THEN mac80211.bss # NoChan ELSE Ready /\ host.peer_notify_state
        /\ host' = [host EXCEPT !.peer_notify_state = @ /\ ~ok]
        /\ told' = SendPeer(told, FALSE, ok)
        /\ upset' = Upset({ok})
        /\ UNCHANGED mac80211 /\ Same
  BY DEF DeletePeerAgain
<1>s. UNCHANGED <<roc_timer, roc_callback, seenVif, confirm, mutex>>
  BY <1>1 DEF Same
<1>2. ok \in BOOLEAN
  BY <1>1, OutcomesTyped
<1>3. mac80211' = mac80211
  BY <1>1
<1>4. /\ host'.vifs0 = host.vifs0 /\ host'.sc_nvifs = host.sc_nvifs
      /\ host'.iface_down = host.iface_down /\ host'.blocked = host.blocked
      /\ host'.band = host.band /\ host'.width = host.width /\ host'.roc_vif = host.roc_vif
      /\ host'.ap_channel = host.ap_channel /\ host'.update_country = host.update_country
      /\ host'.bgscan_en = host.bgscan_en
  BY <1>0, <1>1, <1>s, <1>2 DEF HostState
<1>5. /\ told'.vap = told.vap /\ told'.mode = told.mode /\ told'.blocked = told.blocked
      /\ told'.band = told.band /\ told'.width = told.width /\ told'.chan = told.chan
      /\ told'.filter = told.filter
  BY <1>0, <1>1, <1>s, <1>2 DEF FwState, SendPeer, Told
<1>6. /\ upset \subseteq upset' /\ upset' \subseteq Troubles
      /\ NothingLost => ok = TRUE
  BY <1>0, <1>1, <1>s, <1>2, UpsetGrows DEF NothingLost, Troubles
<1>7. TroubleKeeps /\ HomeKeeps
  BY <1>6, Remembered
<1>8. VifTypeOK'
  <2>1. mac80211' \in MacState
    BY <1>0, <1>3
  <2>2. host' \in HostState
    BY <1>0, <1>1, <1>s, <1>2, ZenonT(60) DEF HostState
  <2>3. told' \in FwState
    BY <1>0, <1>1, <1>2, FramesTyped
  <2> QED BY <1>0, <1>1, <1>s, <1>2, <1>6, <2>1, <2>2, <2>3 DEF VifIInv, VifTypeOK, HostState
<1>9. VifShape'
  BY <1>0, <1>1, <1>s, <1>2, <1>3, <1>4 DEF VifIInv, VifShape
<1>10. VifsAgree'
  <2>1. None({"lost", "monitor"})' => None({"lost", "monitor"}) /\ NothingLost
    BY <1>7, LossesCount DEF TroubleKeeps, Losses
  <2> QED BY <1>0, <1>3, <1>4, <1>5, <1>6, <2>1 DEF VifIInv, VifsAgree, VifShape
<1>11. BlockedIsKnown'
  BY <1>0, <1>1, <1>s, <1>2, <1>3, <1>4, <1>5, <1>6, <1>7, LossesCount
  DEF VifIInv, BlockedIsKnown, TroubleKeeps, Losses
<1>12. DataFollowsChannel'
  <2>1. None({"lost", "late_confirm", "split_confirm"})' =>
          None({"lost", "late_confirm", "split_confirm"}) /\ NothingLost
    BY <1>7, LossesCount DEF TroubleKeeps, Losses
  <2> QED BY <1>0, <1>1, <1>s, <1>2, <1>3, <1>4, <1>5, <1>6, <2>1
    DEF VifIInv, DataFollowsChannel, VifShape
<1>13. EndpointKnown'
  BY <1>0, <1>1, <1>s, <1>2, <1>3, <1>4, <1>5, <1>6, <1>7, LossesCount
  DEF VifIInv, EndpointKnown, TroubleKeeps, Losses
<1>14. ScanOfAssociated'
  BY <1>0, <1>1, <1>s, <1>2, <1>3, <1>4, <1>5, <1>6, <1>7, LossesCount
  DEF VifIInv, ScanOfAssociated, VifShape, TroubleKeeps, Losses
<1>15. TunedHome'
  <2>1. None({"lost", "late_cancel", "off_channel", "idle_roc"})' =>
          None({"lost", "late_cancel", "off_channel", "idle_roc"}) /\ NothingLost
    BY <1>7, LossesCount DEF HomeKeeps, Losses
  <2> QED BY <1>0, <1>1, <1>s, <1>2, <1>3, <1>4, <1>5, <1>6, <2>1
    DEF VifIInv, TunedHome, AtHome, VifShape
<1>16. RfProgrammed'
  <2>1. None({"lost", "off_channel"})' =>
          None({"lost", "off_channel"}) /\ NothingLost
    BY <1>7, LossesCount DEF TroubleKeeps, Losses
  <2> QED BY <1>0, <1>1, <1>s, <1>2, <1>3, <1>4, <1>5, <1>6, <2>1
    DEF VifIInv, RfProgrammed, VifShape
<1>17. FilterOpen'
  <2>1. None({"lost", "deaf"})' =>
          None({"lost", "deaf"}) /\ NothingLost
    BY <1>7, LossesCount DEF TroubleKeeps, Losses
  <2> QED BY <1>0, <1>1, <1>s, <1>2, <1>3, <1>4, <1>5, <1>6, <2>1
    DEF VifIInv, FilterOpen, VifShape
<1>18. RocUnderWay'
  BY <1>0, <1>1, <1>s, <1>2, <1>3, <1>4, <1>5, <1>6, <1>7, LossesCount
  DEF VifIInv, RocUnderWay, VifShape, TroubleKeeps, Losses
<1> QED BY <1>8, <1>9, <1>10, <1>11, <1>12, <1>13, <1>14, <1>15, <1>16, <1>17, <1>18 DEF VifIInv

\* A background scan starts on the channel of the association.
LEMMA BgScanStartsKeeps == ASSUME MacVifAssumption, VifIInv, BgScanStarts PROVE VifIInv'
<1>0. /\ mac80211 \in MacState /\ host \in HostState /\ told \in FwState /\ upset \subseteq Troubles
      /\ NoChan \notin Chans /\ NoVif \notin Vifs
  BY MacVifAssumption DEF VifIInv, VifTypeOK
<1>1. 
        /\ Ready /\ mac80211.assoc = "yes" /\ mac80211.conf = mac80211.bss /\ ~host.bgscan_en
        /\ mac80211.roc = "none"
        /\ host' = [host EXCEPT !.bgscan_en = TRUE]
        /\ UNCHANGED <<mac80211, told, upset>> /\ Same
  BY DEF BgScanStarts
<1>s. UNCHANGED <<roc_timer, roc_callback, seenVif, confirm, mutex>>
  BY <1>1 DEF Same
<1>3. mac80211' = mac80211
  BY <1>1
<1>4. /\ host'.bgscan_en = TRUE
      /\ host'.vifs0 = host.vifs0 /\ host'.sc_nvifs = host.sc_nvifs
      /\ host'.iface_down = host.iface_down /\ host'.blocked = host.blocked
      /\ host'.band = host.band /\ host'.width = host.width
      /\ host'.peer_notify_state = host.peer_notify_state /\ host'.roc_vif = host.roc_vif
      /\ host'.ap_channel = host.ap_channel /\ host'.update_country = host.update_country
  BY <1>0, <1>1, <1>s DEF HostState
<1>5. told' = told
  BY <1>1
<1>6. upset \subseteq upset' /\ upset' \subseteq Troubles
  BY <1>0, <1>1, <1>s DEF Troubles
<1>7. TroubleKeeps /\ HomeKeeps
  BY <1>6, Remembered
<1>8. VifTypeOK'
  <2>1. mac80211' \in MacState
    BY <1>0, <1>3
  <2>2. host' \in HostState
    BY <1>0, <1>1, <1>s DEF HostState
  <2>3. told' \in FwState
    BY <1>0, <1>5
  <2> QED BY <1>0, <1>1, <1>s, <1>6, <2>1, <2>2, <2>3 DEF VifIInv, VifTypeOK, HostState
<1>9. VifShape'
  BY <1>0, <1>1, <1>s, <1>3, <1>4 DEF VifIInv, VifShape
<1>10. VifsAgree'
  BY <1>0, <1>1, <1>s, <1>3, <1>4, <1>5, <1>6, <1>7, LossesCount
  DEF VifIInv, VifsAgree, VifShape, TroubleKeeps, Losses
<1>11. BlockedIsKnown'
  BY <1>0, <1>1, <1>s, <1>3, <1>4, <1>5, <1>6, <1>7, LossesCount
  DEF VifIInv, BlockedIsKnown, TroubleKeeps, Losses
<1>12. DataFollowsChannel'
  <2>1. None({"lost", "late_confirm", "split_confirm"})' =>
          None({"lost", "late_confirm", "split_confirm"}) /\ NothingLost
    BY <1>7, LossesCount DEF TroubleKeeps, Losses
  <2> QED BY <1>0, <1>1, <1>s, <1>3, <1>4, <1>5, <1>6, <2>1
    DEF VifIInv, DataFollowsChannel, VifShape
<1>13. EndpointKnown'
  BY <1>0, <1>1, <1>s, <1>3, <1>4, <1>5, <1>6, <1>7, LossesCount
  DEF VifIInv, EndpointKnown, TroubleKeeps, Losses
<1>14. ScanOfAssociated'
  BY <1>0, <1>1, <1>s, <1>3, <1>4, <1>5, <1>6, <1>7, LossesCount
  DEF VifIInv, ScanOfAssociated, VifShape, TroubleKeeps, Losses
<1>15. TunedHome'
  <2>1. None({"lost", "late_cancel", "off_channel", "idle_roc"})' =>
          None({"lost", "late_cancel", "off_channel", "idle_roc"}) /\ NothingLost
    BY <1>7, LossesCount DEF HomeKeeps, Losses
  <2> QED BY <1>0, <1>1, <1>s, <1>3, <1>4, <1>5, <1>6, <2>1
    DEF VifIInv, TunedHome, AtHome, VifShape
<1>16. RfProgrammed'
  <2>1. None({"lost", "off_channel"})' =>
          None({"lost", "off_channel"}) /\ NothingLost
    BY <1>7, LossesCount DEF TroubleKeeps, Losses
  <2> QED BY <1>0, <1>1, <1>s, <1>3, <1>4, <1>5, <1>6, <2>1
    DEF VifIInv, RfProgrammed, VifShape
<1>17. FilterOpen'
  <2>1. None({"lost", "deaf"})' =>
          None({"lost", "deaf"}) /\ NothingLost
    BY <1>7, LossesCount DEF TroubleKeeps, Losses
  <2> QED BY <1>0, <1>1, <1>s, <1>3, <1>4, <1>5, <1>6, <2>1
    DEF VifIInv, FilterOpen, VifShape
<1>18. RocUnderWay'
  BY <1>0, <1>1, <1>s, <1>3, <1>4, <1>5, <1>6, <1>7, LossesCount
  DEF VifIInv, RocUnderWay, VifShape, TroubleKeeps, Losses
<1> QED BY <1>8, <1>9, <1>10, <1>11, <1>12, <1>13, <1>14, <1>15, <1>16, <1>17, <1>18 DEF VifIInv

\* The visit is over for mac80211 too.
LEMMA RocDoneKeeps == ASSUME MacVifAssumption, VifIInv, RocDone PROVE VifIInv'
<1>0. /\ mac80211 \in MacState /\ host \in HostState /\ told \in FwState /\ upset \subseteq Troubles
      /\ NoChan \notin Chans /\ NoVif \notin Vifs
  BY MacVifAssumption DEF VifIInv, VifTypeOK
<1>1. 
        /\ mac80211.roc = "expired"
        /\ mac80211' = [mac80211 EXCEPT !.roc = "none"]
        /\ UNCHANGED <<host, told, upset>> /\ Same
  BY DEF RocDone
<1>s. UNCHANGED <<roc_timer, roc_callback, seenVif, confirm, mutex>>
  BY <1>1 DEF Same
<1>3. /\ mac80211'.roc = "none"
      /\ mac80211'.run = mac80211.run /\ mac80211'.vif = mac80211.vif
      /\ mac80211'.type = mac80211.type /\ mac80211'.assoc = mac80211.assoc
      /\ mac80211'.open = mac80211.open /\ mac80211'.eapol = mac80211.eapol
      /\ mac80211'.conf = mac80211.conf /\ mac80211'.bss = mac80211.bss
  BY <1>0, <1>1, <1>s DEF MacState
<1>4. host' = host
  BY <1>1
<1>5. told' = told
  BY <1>1
<1>6. upset \subseteq upset' /\ upset' \subseteq Troubles
  BY <1>0, <1>1, <1>s DEF Troubles
<1>7. TroubleKeeps /\ HomeKeeps
  BY <1>6, Remembered
<1>8. VifTypeOK'
  <2>1. mac80211' \in MacState
    BY <1>0, <1>1, <1>s DEF MacState, IfTypes
  <2>2. host' \in HostState
    BY <1>0, <1>4
  <2>3. told' \in FwState
    BY <1>0, <1>5
  <2> QED BY <1>0, <1>1, <1>s, <1>6, <2>1, <2>2, <2>3 DEF VifIInv, VifTypeOK, HostState
<1>9. VifShape'
  BY <1>0, <1>1, <1>s, <1>3, <1>4 DEF VifIInv, VifShape
<1>10. VifsAgree'
  BY <1>0, <1>1, <1>s, <1>3, <1>4, <1>5, <1>6, <1>7, LossesCount
  DEF VifIInv, VifsAgree, VifShape, TroubleKeeps, Losses
<1>11. BlockedIsKnown'
  BY <1>0, <1>1, <1>s, <1>3, <1>4, <1>5, <1>6, <1>7, LossesCount
  DEF VifIInv, BlockedIsKnown, TroubleKeeps, Losses
<1>12. DataFollowsChannel'
  <2>1. None({"lost", "late_confirm", "split_confirm"})' =>
          None({"lost", "late_confirm", "split_confirm"}) /\ NothingLost
    BY <1>7, LossesCount DEF TroubleKeeps, Losses
  <2> QED BY <1>0, <1>1, <1>s, <1>3, <1>4, <1>5, <1>6, <2>1
    DEF VifIInv, DataFollowsChannel, VifShape
<1>13. EndpointKnown'
  BY <1>0, <1>1, <1>s, <1>3, <1>4, <1>5, <1>6, <1>7, LossesCount
  DEF VifIInv, EndpointKnown, TroubleKeeps, Losses
<1>14. ScanOfAssociated'
  BY <1>0, <1>1, <1>s, <1>3, <1>4, <1>5, <1>6, <1>7, LossesCount
  DEF VifIInv, ScanOfAssociated, VifShape, TroubleKeeps, Losses
<1>15. TunedHome'
  <2>1. None({"lost", "late_cancel", "off_channel", "idle_roc"})' =>
          None({"lost", "late_cancel", "off_channel", "idle_roc"}) /\ NothingLost
    BY <1>7, LossesCount DEF HomeKeeps, Losses
  <2> QED BY <1>0, <1>1, <1>s, <1>3, <1>4, <1>5, <1>6, <2>1
    DEF VifIInv, TunedHome, AtHome, VifShape
<1>16. RfProgrammed'
  <2>1. None({"lost", "off_channel"})' =>
          None({"lost", "off_channel"}) /\ NothingLost
    BY <1>7, LossesCount DEF TroubleKeeps, Losses
  <2> QED BY <1>0, <1>1, <1>s, <1>3, <1>4, <1>5, <1>6, <2>1
    DEF VifIInv, RfProgrammed, VifShape
<1>17. FilterOpen'
  <2>1. None({"lost", "deaf"})' =>
          None({"lost", "deaf"}) /\ NothingLost
    BY <1>7, LossesCount DEF TroubleKeeps, Losses
  <2> QED BY <1>0, <1>1, <1>s, <1>3, <1>4, <1>5, <1>6, <2>1
    DEF VifIInv, FilterOpen, VifShape
<1>18. RocUnderWay'
  BY <1>0, <1>1, <1>s, <1>3, <1>4, <1>5, <1>6, <1>7, LossesCount
  DEF VifIInv, RocUnderWay, VifShape, TroubleKeeps, Losses
<1> QED BY <1>8, <1>9, <1>10, <1>11, <1>12, <1>13, <1>14, <1>15, <1>16, <1>17, <1>18 DEF VifIInv

\* The timer hands the interface of the visit to its callback.
LEMMA TimerFiresKeeps == ASSUME MacVifAssumption, VifIInv, TimerFires PROVE VifIInv'
<1>0. /\ mac80211 \in MacState /\ host \in HostState /\ told \in FwState /\ upset \subseteq Troubles
      /\ NoChan \notin Chans /\ NoVif \notin Vifs
  BY MacVifAssumption DEF VifIInv, VifTypeOK
<1>1. 
        /\ roc_timer = "pending" /\ roc_callback = "idle"
        /\ roc_timer' = "idle" /\ roc_callback' = "running"
        /\ seenVif' = host.roc_vif
        /\ UNCHANGED <<mac80211, host, told, confirm, mutex, upset>>
  BY DEF TimerFires
<1>3. mac80211' = mac80211
  BY <1>1
<1>4. host' = host
  BY <1>1
<1>5. told' = told
  BY <1>1
<1>6. upset \subseteq upset' /\ upset' \subseteq Troubles
  BY <1>0, <1>1 DEF Troubles
<1>7. TroubleKeeps /\ HomeKeeps
  BY <1>6, Remembered
<1>8. VifTypeOK'
  <2>1. mac80211' \in MacState
    BY <1>0, <1>3
  <2>2. host' \in HostState
    BY <1>0, <1>4
  <2>3. told' \in FwState
    BY <1>0, <1>5
  <2> QED BY <1>0, <1>1, <1>6, <2>1, <2>2, <2>3 DEF VifIInv, VifTypeOK, HostState
<1>9. VifShape'
  BY <1>0, <1>1, <1>3, <1>4 DEF VifIInv, VifShape
<1>10. VifsAgree'
  BY <1>0, <1>1, <1>3, <1>4, <1>5, <1>6, <1>7, LossesCount
  DEF VifIInv, VifsAgree, VifShape, TroubleKeeps, Losses
<1>11. BlockedIsKnown'
  BY <1>0, <1>1, <1>3, <1>4, <1>5, <1>6, <1>7, LossesCount
  DEF VifIInv, BlockedIsKnown, TroubleKeeps, Losses
<1>12. DataFollowsChannel'
  <2>1. None({"lost", "late_confirm", "split_confirm"})' =>
          None({"lost", "late_confirm", "split_confirm"}) /\ NothingLost
    BY <1>7, LossesCount DEF TroubleKeeps, Losses
  <2> QED BY <1>0, <1>1, <1>3, <1>4, <1>5, <1>6, <2>1
    DEF VifIInv, DataFollowsChannel, VifShape
<1>13. EndpointKnown'
  BY <1>0, <1>1, <1>3, <1>4, <1>5, <1>6, <1>7, LossesCount
  DEF VifIInv, EndpointKnown, TroubleKeeps, Losses
<1>14. ScanOfAssociated'
  BY <1>0, <1>1, <1>3, <1>4, <1>5, <1>6, <1>7, LossesCount
  DEF VifIInv, ScanOfAssociated, VifShape, TroubleKeeps, Losses
<1>15. TunedHome'
  <2>1. None({"lost", "late_cancel", "off_channel", "idle_roc"})' =>
          None({"lost", "late_cancel", "off_channel", "idle_roc"}) /\ NothingLost
    BY <1>7, LossesCount DEF HomeKeeps, Losses
  <2> QED BY <1>0, <1>1, <1>3, <1>4, <1>5, <1>6, <2>1
    DEF VifIInv, TunedHome, AtHome, VifShape
<1>16. RfProgrammed'
  <2>1. None({"lost", "off_channel"})' =>
          None({"lost", "off_channel"}) /\ NothingLost
    BY <1>7, LossesCount DEF TroubleKeeps, Losses
  <2> QED BY <1>0, <1>1, <1>3, <1>4, <1>5, <1>6, <2>1
    DEF VifIInv, RfProgrammed, VifShape
<1>17. FilterOpen'
  <2>1. None({"lost", "deaf"})' =>
          None({"lost", "deaf"}) /\ NothingLost
    BY <1>7, LossesCount DEF TroubleKeeps, Losses
  <2> QED BY <1>0, <1>1, <1>3, <1>4, <1>5, <1>6, <2>1
    DEF VifIInv, FilterOpen, VifShape
<1>18. RocUnderWay'
  BY <1>0, <1>1, <1>3, <1>4, <1>5, <1>6, <1>7, LossesCount
  DEF VifIInv, RocUnderWay, VifShape, TroubleKeeps, Losses
<1> QED BY <1>8, <1>9, <1>10, <1>11, <1>12, <1>13, <1>14, <1>15, <1>16, <1>17, <1>18 DEF VifIInv

\* The first line of EAPOL4_CONFIRM unblocks the queues of the device.
LEMMA ConfirmUnblocksKeeps == ASSUME MacVifAssumption, VifIInv, ConfirmUnblocks PROVE VifIInv'
<1>0. /\ mac80211 \in MacState /\ host \in HostState /\ told \in FwState /\ upset \subseteq Troubles
      /\ NoChan \notin Chans /\ NoVif \notin Vifs
  BY MacVifAssumption DEF VifIInv, VifTypeOK
<1>1. PICK ok \in Outcomes :
        /\ mac80211.eapol /\ confirm = "idle" /\ host.vifs0 # NoVif /\ mac80211.type = "STATION"
        /\ mac80211' = [mac80211 EXCEPT !.eapol = FALSE]
        /\ told' = SendBlock(told, FALSE, ok)
        /\ confirm' = IF ok THEN "unblocked" ELSE "idle"
        /\ upset' = Upset({ok}) \union
                    (IF mac80211.assoc # "yes" \/ mac80211.conf # mac80211.bss THEN {"late_confirm"} ELSE {})
        /\ UNCHANGED <<host, roc_timer, roc_callback, seenVif, mutex>>
  BY DEF ConfirmUnblocks
<1>2. ok \in BOOLEAN
  BY <1>1, OutcomesTyped
<1>3. /\ mac80211'.eapol = FALSE
      /\ mac80211'.run = mac80211.run /\ mac80211'.vif = mac80211.vif
      /\ mac80211'.type = mac80211.type /\ mac80211'.assoc = mac80211.assoc
      /\ mac80211'.open = mac80211.open /\ mac80211'.conf = mac80211.conf
      /\ mac80211'.bss = mac80211.bss /\ mac80211'.roc = mac80211.roc
  BY <1>0, <1>1, <1>2 DEF MacState
<1>4. host' = host
  BY <1>1
<1>5. /\ ok = TRUE => told'.blocked = FALSE
      /\ ok = FALSE => told'.blocked = told.blocked
      /\ told'.vap = told.vap /\ told'.mode = told.mode /\ told'.peer = told.peer
      /\ told'.band = told.band /\ told'.width = told.width /\ told'.chan = told.chan
      /\ told'.filter = told.filter
  BY <1>0, <1>1, <1>2 DEF FwState, SendBlock, Told
<1>6. /\ upset \subseteq upset' /\ upset' \subseteq Troubles
      /\ NothingLost => ok = TRUE
  BY <1>0, <1>1, <1>2, UpsetGrows DEF NothingLost, Troubles
<1>7. TroubleKeeps /\ HomeKeeps
  BY <1>6, Remembered
<1>8. VifTypeOK'
  <2>1. mac80211' \in MacState
    BY <1>0, <1>1, <1>2 DEF MacState, IfTypes
  <2>2. host' \in HostState
    BY <1>0, <1>4
  <2>3. told' \in FwState
    BY <1>0, <1>1, <1>2, FramesTyped
  <2> QED BY <1>0, <1>1, <1>2, <1>6, <2>1, <2>2, <2>3 DEF VifIInv, VifTypeOK, HostState
<1>9. VifShape'
  BY <1>0, <1>1, <1>2, <1>3, <1>4 DEF VifIInv, VifShape
<1>10. VifsAgree'
  <2>1. None({"lost", "monitor"})' => None({"lost", "monitor"})
    BY <1>7 DEF TroubleKeeps
  <2> QED BY <1>3, <1>4, <1>5, <2>1 DEF VifIInv, VifsAgree
<1>11. BlockedIsKnown'
  BY <1>0, <1>1, <1>2, <1>3, <1>4, <1>5, <1>6, <1>7, LossesCount
  DEF VifIInv, BlockedIsKnown, TroubleKeeps, Losses
<1>12. DataFollowsChannel'
  <2>1. None({"lost", "late_confirm", "split_confirm"})' =>
          None({"lost", "late_confirm", "split_confirm"}) /\ NothingLost
    BY <1>7, LossesCount DEF TroubleKeeps, Losses
  <2> QED BY <1>0, <1>1, <1>2, <1>3, <1>4, <1>5, <1>6, <2>1
    DEF VifIInv, DataFollowsChannel, VifShape
<1>13. EndpointKnown'
  BY <1>0, <1>1, <1>2, <1>3, <1>4, <1>5, <1>6, <1>7, LossesCount
  DEF VifIInv, EndpointKnown, TroubleKeeps, Losses
<1>14. ScanOfAssociated'
  BY <1>0, <1>1, <1>2, <1>3, <1>4, <1>5, <1>6, <1>7, LossesCount
  DEF VifIInv, ScanOfAssociated, VifShape, TroubleKeeps, Losses
<1>15. TunedHome'
  <2>1. None({"lost", "late_cancel", "off_channel", "idle_roc"})' =>
          None({"lost", "late_cancel", "off_channel", "idle_roc"}) /\ NothingLost
    BY <1>7, LossesCount DEF HomeKeeps, Losses
  <2> QED BY <1>0, <1>1, <1>2, <1>3, <1>4, <1>5, <1>6, <2>1, ZenonT(60)
    DEF VifIInv, TunedHome, AtHome, VifShape
<1>16. RfProgrammed'
  <2>1. None({"lost", "off_channel"})' =>
          None({"lost", "off_channel"}) /\ NothingLost
    BY <1>7, LossesCount DEF TroubleKeeps, Losses
  <2> QED BY <1>0, <1>1, <1>2, <1>3, <1>4, <1>5, <1>6, <2>1, ZenonT(60)
    DEF VifIInv, RfProgrammed, VifShape
<1>17. FilterOpen'
  <2>1. None({"lost", "deaf"})' =>
          None({"lost", "deaf"}) /\ NothingLost
    BY <1>7, LossesCount DEF TroubleKeeps, Losses
  <2> QED BY <1>0, <1>1, <1>2, <1>3, <1>4, <1>5, <1>6, <2>1, ZenonT(60)
    DEF VifIInv, FilterOpen, VifShape
<1>18. RocUnderWay'
  BY <1>0, <1>1, <1>2, <1>3, <1>4, <1>5, <1>6, <1>7, LossesCount
  DEF VifIInv, RocUnderWay, VifShape, TroubleKeeps, Losses
<1> QED BY <1>8, <1>9, <1>10, <1>11, <1>12, <1>13, <1>14, <1>15, <1>16, <1>17, <1>18 DEF VifIInv

\* The second line does the same for the driver.
LEMMA ConfirmClearsKeeps == ASSUME MacVifAssumption, VifIInv, ConfirmClears PROVE VifIInv'
<1>0. /\ mac80211 \in MacState /\ host \in HostState /\ told \in FwState /\ upset \subseteq Troubles
      /\ NoChan \notin Chans /\ NoVif \notin Vifs
  BY MacVifAssumption DEF VifIInv, VifTypeOK
<1>1. 
        /\ confirm = "unblocked"
        /\ confirm' = "idle"
        /\ host' = [host EXCEPT !.blocked = FALSE]
        /\ upset' = IF told.blocked \/ mac80211.assoc # "yes" \/ mac80211.conf # mac80211.bss
                      THEN upset \union {"split_confirm"} ELSE upset
        /\ UNCHANGED <<mac80211, told, roc_timer, roc_callback, seenVif, mutex>>
  BY DEF ConfirmClears
<1>3. mac80211' = mac80211
  BY <1>1
<1>4. /\ host'.blocked = FALSE
      /\ host'.vifs0 = host.vifs0 /\ host'.sc_nvifs = host.sc_nvifs
      /\ host'.iface_down = host.iface_down /\ host'.band = host.band
      /\ host'.width = host.width /\ host'.peer_notify_state = host.peer_notify_state
      /\ host'.roc_vif = host.roc_vif /\ host'.ap_channel = host.ap_channel
      /\ host'.update_country = host.update_country /\ host'.bgscan_en = host.bgscan_en
  BY <1>0, <1>1 DEF HostState
<1>5. told' = told
  BY <1>1
<1>6. /\ upset \subseteq upset' /\ upset' \subseteq Troubles
      /\ told.blocked = TRUE \/ mac80211.assoc # "yes" \/ mac80211.conf # mac80211.bss
           => "split_confirm" \in upset'
  BY <1>0, <1>1 DEF Troubles, FwState
<1>m. None({"lost", "late_confirm", "split_confirm"})' \/ None({"split_confirm"})'
        => told.blocked = FALSE /\ mac80211.assoc = "yes" /\ mac80211.conf = mac80211.bss
  BY <1>0, <1>6 DEF None, FwState
<1>7. TroubleKeeps /\ HomeKeeps
  BY <1>6, Remembered
<1>8. VifTypeOK'
  <2>1. mac80211' \in MacState
    BY <1>0, <1>3
  <2>2. host' \in HostState
    BY <1>0, <1>1 DEF HostState
  <2>3. told' \in FwState
    BY <1>0, <1>5
  <2> QED BY <1>0, <1>1, <1>6, <2>1, <2>2, <2>3 DEF VifIInv, VifTypeOK, HostState
<1>9. VifShape'
  BY <1>0, <1>1, <1>3, <1>4 DEF VifIInv, VifShape
<1>10. VifsAgree'
  BY <1>0, <1>1, <1>3, <1>4, <1>5, <1>6, <1>7, LossesCount
  DEF VifIInv, VifsAgree, VifShape, TroubleKeeps, Losses
<1>11. BlockedIsKnown'
  BY <1>0, <1>1, <1>3, <1>4, <1>5, <1>6, <1>m, <1>7
  DEF VifIInv, BlockedIsKnown, TroubleKeeps
<1>12. DataFollowsChannel'
  BY <1>0, <1>1, <1>3, <1>4, <1>5, <1>6, <1>m, <1>7
  DEF VifIInv, DataFollowsChannel, TroubleKeeps
<1>13. EndpointKnown'
  BY <1>0, <1>1, <1>3, <1>4, <1>5, <1>6, <1>7, LossesCount
  DEF VifIInv, EndpointKnown, TroubleKeeps, Losses
<1>14. ScanOfAssociated'
  BY <1>0, <1>1, <1>3, <1>4, <1>5, <1>6, <1>7, LossesCount
  DEF VifIInv, ScanOfAssociated, VifShape, TroubleKeeps, Losses
<1>15. TunedHome'
  <2>1. None({"lost", "late_cancel", "off_channel", "idle_roc"})' =>
          None({"lost", "late_cancel", "off_channel", "idle_roc"}) /\ NothingLost
    BY <1>7, LossesCount DEF HomeKeeps, Losses
  <2> QED BY <1>0, <1>1, <1>3, <1>4, <1>5, <1>6, <2>1
    DEF VifIInv, TunedHome, AtHome, VifShape
<1>16. RfProgrammed'
  <2>1. None({"lost", "off_channel"})' =>
          None({"lost", "off_channel"}) /\ NothingLost
    BY <1>7, LossesCount DEF TroubleKeeps, Losses
  <2> QED BY <1>0, <1>1, <1>3, <1>4, <1>5, <1>6, <2>1
    DEF VifIInv, RfProgrammed, VifShape
<1>17. FilterOpen'
  <2>1. None({"lost", "deaf"})' =>
          None({"lost", "deaf"}) /\ NothingLost
    BY <1>7, LossesCount DEF TroubleKeeps, Losses
  <2> QED BY <1>0, <1>1, <1>3, <1>4, <1>5, <1>6, <2>1
    DEF VifIInv, FilterOpen, VifShape
<1>18. RocUnderWay'
  BY <1>0, <1>1, <1>3, <1>4, <1>5, <1>6, <1>7, LossesCount
  DEF VifIInv, RocUnderWay, VifShape, TroubleKeeps, Losses
<1> QED BY <1>8, <1>9, <1>10, <1>11, <1>12, <1>13, <1>14, <1>15, <1>16, <1>17, <1>18 DEF VifIInv

\* A new channel: the queues are blocked off the channel of the association and opened on
\* it, the RF is programmed, the channel is set.
LEMMA ConfigChannelKeeps == ASSUME MacVifAssumption, VifIInv, ConfigChannel PROVE VifIInv'
<1>0. /\ mac80211 \in MacState /\ host \in HostState /\ told \in FwState /\ upset \subseteq Troubles
      /\ NoChan \notin Chans /\ NoVif \notin Vifs
  BY MacVifAssumption DEF VifIInv, VifTypeOK
<1>1. PICK c \in Chans, tune \in BOOLEAN, okBlock, okRf, okChan, okUnblock \in Outcomes :
    LET bss     == IF tune THEN c ELSE mac80211.bss
        blocks  == Associated /\ LeavesChannel(bss, c)
        f1      == IF blocks THEN SendBlock(told, TRUE, okBlock) ELSE told
        tuned   == okRf /\ okChan
        h1      == [host EXCEPT !.ap_channel = IF mac80211.type = "AP" /\ ~tuned THEN @ ELSE c,
                                !.blocked = @ \/ (blocks /\ okBlock)]
        h2      == BandChecked(h1, c, c)
        f2      == ProgramRf(f1, h1, c, c, okRf)
        opens   == Associated /\ h1.blocked /\ bss = c /\ tuned
    IN  /\ Ready /\ mac80211.vif # NoVif /\ (tune \/ mac80211.type = "STATION")
        /\ mac80211.assoc = "yes" /\ tune => c = mac80211.bss
        /\ mac80211' = [mac80211 EXCEPT !.conf = c, !.bss = bss]
        /\ IF host.bgscan_en /\ Associated
             THEN /\ host' = [host EXCEPT !.ap_channel = c]
                  /\ UNCHANGED <<told, upset>>
             ELSE /\ host' = IF opens THEN Unblocked(h2, okUnblock) ELSE h2
                  /\ told' = LET f3 == SetChannel(f2, c, tuned)
                           IN  IF opens THEN SendBlock(f3, FALSE, okUnblock) ELSE f3
                  /\ upset' = Upset({okBlock, okRf, okChan, okUnblock}) \ {"idle_roc"}
        /\ Same
  BY DEF ConfigChannel
<1>2. /\ okBlock \in BOOLEAN /\ okRf \in BOOLEAN /\ okChan \in BOOLEAN /\ okUnblock \in BOOLEAN
      /\ tune \in BOOLEAN
  BY <1>1, OutcomesTyped
<1> DEFINE bss    == IF tune THEN c ELSE mac80211.bss
<1> DEFINE blocks == Associated /\ LeavesChannel(bss, c)
<1> DEFINE f1     == IF blocks THEN SendBlock(told, TRUE, okBlock) ELSE told
<1> DEFINE tuned  == okRf /\ okChan
<1> DEFINE h1     == [host EXCEPT !.ap_channel = IF mac80211.type = "AP" /\ ~tuned THEN @ ELSE c,
                              !.blocked = @ \/ (blocks /\ okBlock)]
<1> DEFINE h2     == BandChecked(h1, c, c)
<1> DEFINE f2     == ProgramRf(f1, h1, c, c, okRf)
<1> DEFINE f3     == SetChannel(f2, c, tuned)
<1> DEFINE opens  == Associated /\ h1.blocked /\ bss = c /\ tuned
<1>3. /\ mac80211' = [mac80211 EXCEPT !.conf = c, !.bss = bss]
      /\ UNCHANGED <<roc_timer, roc_callback, seenVif, confirm, mutex>>
      /\ mac80211.vif # NoVif /\ mac80211.assoc = "yes" /\ tune = TRUE => c = mac80211.bss
      /\ bss \in Chans \cup {NoChan} /\ tuned \in BOOLEAN /\ blocks \in BOOLEAN
  <2>1. mac80211' = [mac80211 EXCEPT !.conf = c, !.bss = bss]
    BY <1>1
  <2>2. UNCHANGED <<roc_timer, roc_callback, seenVif, confirm, mutex>>
    BY <1>1 DEF Same
  <2>3. mac80211.vif # NoVif /\ mac80211.assoc = "yes" /\ tune = TRUE => c = mac80211.bss
    BY <1>1
  <2>4. bss \in Chans \cup {NoChan} /\ tuned \in BOOLEAN /\ blocks \in BOOLEAN
    BY <1>0, <1>2 DEF MacState, Associated
  <2> QED BY <2>1, <2>2, <2>3, <2>4
<1>v. mac80211.vif # NoVif
  BY <1>1
<1>4. IF host.bgscan_en /\ Associated
        THEN host' = [host EXCEPT !.ap_channel = c] /\ told' = told /\ upset' = upset
        ELSE /\ host' = IF opens THEN Unblocked(h2, okUnblock) ELSE h2
             /\ told' = IF opens THEN SendBlock(f3, FALSE, okUnblock) ELSE f3
             /\ upset' = Upset({okBlock, okRf, okChan, okUnblock}) \ {"idle_roc"}
  BY <1>1
<1>5. /\ mac80211' \in MacState
      /\ mac80211'.conf = c
      /\ mac80211'.bss = bss
      /\ mac80211'.run = mac80211.run /\ mac80211'.vif = mac80211.vif
      /\ mac80211'.type = mac80211.type /\ mac80211'.assoc = mac80211.assoc
      /\ mac80211'.open = mac80211.open /\ mac80211'.eapol = mac80211.eapol
      /\ mac80211'.roc = mac80211.roc
  <2>1. mac80211' \in MacState
    BY <1>0, <1>3 DEF MacState
  <2>2. /\ mac80211'.conf = c
        /\ mac80211'.bss = bss
        /\ mac80211'.run = mac80211.run /\ mac80211'.vif = mac80211.vif
        /\ mac80211'.type = mac80211.type /\ mac80211'.assoc = mac80211.assoc
        /\ mac80211'.open = mac80211.open /\ mac80211'.eapol = mac80211.eapol
        /\ mac80211'.roc = mac80211.roc
    BY <1>0, <1>3 DEF MacState
  <2> QED BY <2>1, <2>2
<1>b. \/ tune = TRUE /\ bss = c
      \/ tune = FALSE /\ bss = mac80211.bss
  BY <1>2
<1>s. mac80211'.assoc = "yes" => mac80211'.bss = mac80211.bss
  BY <1>b, <1>3, <1>5, <1>v
<1> HIDE DEF bss
<1>h. /\ h1 \in HostState
      /\ blocks /\ okBlock => h1.blocked = TRUE
      /\ ~(blocks /\ okBlock) => h1.blocked = host.blocked
      /\ h1.vifs0 = host.vifs0 /\ h1.sc_nvifs = host.sc_nvifs
      /\ h1.iface_down = host.iface_down /\ h1.band = host.band /\ h1.width = host.width
      /\ h1.peer_notify_state = host.peer_notify_state /\ h1.roc_vif = host.roc_vif
      /\ h1.update_country = host.update_country /\ h1.bgscan_en = host.bgscan_en
  <2> DEFINE a == IF mac80211.type = "AP" /\ ~tuned THEN host.ap_channel ELSE c
  <2>1. a \in Chans \cup {NoChan}
    BY <1>0, <1>2 DEF HostState
  <2>2. h1 = [host EXCEPT !.ap_channel = a, !.blocked = @ \/ (blocks /\ okBlock)]
    BY <1>0 DEF HostState
  <2> HIDE DEF a, blocks, h1
  <2>3. h1 \in HostState
    <3> DEFINE b == host.blocked \/ (blocks /\ okBlock)
    <3>1. h1 = [host EXCEPT !.ap_channel = a, !.blocked = b]
      BY <2>2
    <3>2. b \in BOOLEAN
      BY <1>0, <1>2, <1>3 DEF HostState
    <3> HIDE DEF b
    <3> QED BY ONLY <1>0, <2>1, <3>1, <3>2, HostTyped
  <2>4. /\ h1.vifs0 = host.vifs0 /\ h1.sc_nvifs = host.sc_nvifs
        /\ h1.iface_down = host.iface_down /\ h1.band = host.band /\ h1.width = host.width
        /\ h1.peer_notify_state = host.peer_notify_state /\ h1.roc_vif = host.roc_vif
        /\ h1.update_country = host.update_country /\ h1.bgscan_en = host.bgscan_en
    BY <1>0, <2>2 DEF HostState
  <2>5. h1.blocked = (host.blocked \/ (blocks /\ okBlock))
    BY <1>0, <2>2 DEF HostState
  <2>6. blocks /\ okBlock => h1.blocked = TRUE
    BY <2>5
  <2>7. ~(blocks /\ okBlock) => h1.blocked = host.blocked
    BY <1>0, <2>5 DEF HostState
  <2> QED BY <2>3, <2>4, <2>6, <2>7
<1>sh. VifShape'
  <2>1. host'.iface_down = host.iface_down /\ host'.vifs0 = host.vifs0
    <3>1. h1.iface_down = host.iface_down /\ h1.vifs0 = host.vifs0 /\ h1 \in HostState
      BY <1>h
    <3> HIDE DEF h1
    <3>2. h2.iface_down = host.iface_down /\ h2.vifs0 = host.vifs0 /\ h2 \in HostState
      <4>1. c.band \in {"2GHz", "5GHz"} /\ c.width \in {20, 40}
        BY MacVifAssumption
      <4> QED BY <3>1, <4>1 DEF BandChecked, HostState
    <3> HIDE DEF h2, opens
    <3>3. \/ host' = [host EXCEPT !.ap_channel = c]
          \/ host' = Unblocked(h2, okUnblock)
          \/ host' = h2
      BY <1>4
    <3> QED BY <1>0, <3>2, <3>3 DEF Unblocked, HostState
  <2> QED BY <1>0, <1>5, <1>v, <2>1 DEF VifIInv, VifShape
<1>6. CASE host.bgscan_en /\ Associated
  <2>1. host' = [host EXCEPT !.ap_channel = c] /\ told' = told /\ upset' = upset
    BY <1>4, <1>6
  <2>2. host' \in HostState
    BY <1>0, <2>1 DEF HostState
  <2>3. /\ host'.vifs0 = host.vifs0 /\ host'.sc_nvifs = host.sc_nvifs
        /\ host'.iface_down = host.iface_down /\ host'.blocked = host.blocked
        /\ host'.band = host.band /\ host'.width = host.width
        /\ host'.peer_notify_state = host.peer_notify_state /\ host'.roc_vif = host.roc_vif
        /\ host'.update_country = host.update_country /\ host'.bgscan_en = host.bgscan_en
    BY <1>0, <2>1 DEF HostState
  <2>4. host.bgscan_en = TRUE
    BY <1>0, <1>6 DEF HostState
  <2>5. TroubleKeeps /\ HomeKeeps
    BY <2>1, Remembered
  <2>6. VifTypeOK'
    BY <1>0, <1>3, <1>5, <2>1, <2>2 DEF VifIInv, VifTypeOK
  <2>7. VifsAgree' /\ BlockedIsKnown' /\ DataFollowsChannel'
    BY <1>5, <2>1, <2>3, <2>4, <2>5
    DEF VifIInv, VifsAgree, BlockedIsKnown, DataFollowsChannel, TroubleKeeps
  <2>8. EndpointKnown' /\ ScanOfAssociated' /\ RfProgrammed'
    BY <1>5, <2>1, <2>3, <2>5 DEF VifIInv, EndpointKnown, ScanOfAssociated, RfProgrammed,
       TroubleKeeps
  <2>9. TunedHome'
    <3> SUFFICES ASSUME None({"lost", "late_cancel", "off_channel", "idle_roc"})', AtHome'
                 PROVE  told'.chan = mac80211'.bss
      BY DEF TunedHome
    <3>1. None({"lost", "late_cancel", "off_channel", "idle_roc"}) /\ None({"lost"})
      BY <2>5 DEF HomeKeeps, None
    <3>2. mac80211.assoc = "yes"
      BY <2>4, <3>1 DEF VifIInv, ScanOfAssociated
    <3>3. mac80211'.bss = mac80211.bss
      BY <1>5, <1>s, <3>2
    <3>4. AtHome
      BY <1>5, <2>4, <3>2, <3>3 DEF AtHome
    <3> QED BY <2>1, <3>1, <3>3, <3>4 DEF VifIInv, TunedHome
  <2>10. FilterOpen' /\ RocUnderWay'
    BY <1>3, <1>5, <2>1, <2>3, <2>5 DEF VifIInv, FilterOpen, RocUnderWay, TroubleKeeps
  <2> QED BY <1>sh, <2>6, <2>7, <2>8, <2>9, <2>10 DEF VifIInv
<1>7. CASE ~(host.bgscan_en /\ Associated)
  <2>1. /\ host' = IF opens THEN Unblocked(h2, okUnblock) ELSE h2
        /\ told' = IF opens THEN SendBlock(f3, FALSE, okUnblock) ELSE f3
        /\ upset' = Upset({okBlock, okRf, okChan, okUnblock}) \ {"idle_roc"}
    BY <1>4, <1>7
  <2>a. Associated <=> mac80211.type = "STATION" /\ mac80211.assoc # "no"
    BY DEF Associated
  <2>bl. blocks <=> mac80211.type = "STATION" /\ mac80211.assoc # "no" /\ host.blocked = FALSE /\ bss # c
    BY <1>0, <2>a DEF LeavesChannel, HostState
  <2>2. /\ f1 \in FwState
        /\ blocks /\ okBlock => f1.blocked = TRUE
        /\ ~(blocks /\ okBlock) => f1.blocked = told.blocked
        /\ f1.vap = told.vap /\ f1.mode = told.mode /\ f1.peer = told.peer
        /\ f1.band = told.band /\ f1.width = told.width /\ f1.chan = told.chan
        /\ f1.filter = told.filter
    <3>1. f1 = IF blocks /\ okBlock THEN [told EXCEPT !.blocked = TRUE] ELSE told
      BY DEF SendBlock, Told
    <3> HIDE DEF f1, blocks
    <3>2. f1 \in FwState
      BY <1>0, <3>1 DEF FwState
    <3> QED BY <1>0, <3>1, <3>2 DEF FwState
  <2>op. opens <=> mac80211.type = "STATION" /\ mac80211.assoc # "no" /\ h1.blocked = TRUE /\ bss = c /\ tuned
    BY <1>h, <2>a DEF HostState
  <2> HIDE DEF h1, f1, blocks
  <2>c. c.band \in {"2GHz", "5GHz"} /\ c.width \in {20, 40}
    BY MacVifAssumption
  <2>4. /\ h2 \in HostState
        /\ h2.band = c.band
        /\ h2.width = c.width
        /\ h2.vifs0 = h1.vifs0 /\ h2.sc_nvifs = h1.sc_nvifs
        /\ h2.iface_down = h1.iface_down /\ h2.blocked = h1.blocked
        /\ h2.peer_notify_state = h1.peer_notify_state /\ h2.roc_vif = h1.roc_vif
        /\ h2.ap_channel = h1.ap_channel /\ h2.update_country = h1.update_country
        /\ h2.bgscan_en = h1.bgscan_en
    <3>1. h2 \in HostState
      BY <1>h, <2>c DEF BandChecked, HostState
    <3> QED BY <1>h, <3>1 DEF BandChecked, HostState
  <2>5. /\ f2 \in FwState
        /\ okRf /\ f1.band = h1.band /\ f1.width = h1.width => f2.band = c.band /\ f2.width = c.width
        /\ f2.vap = f1.vap /\ f2.mode = f1.mode /\ f2.peer = f1.peer
        /\ f2.blocked = f1.blocked /\ f2.chan = f1.chan /\ f2.filter = f1.filter
    <3>1. f2 = f1 \/ f2 = [f1 EXCEPT !.band = c.band, !.width = c.width]
      BY DEF ProgramRf, Told
    <3>2. okRf /\ (c.band # h1.band \/ c.width # h1.width) => f2 = [f1 EXCEPT !.band = c.band,
         !.width = c.width]
      BY DEF ProgramRf, Told
    <3> HIDE DEF f2
    <3>3. f2 \in FwState
      BY <2>2, <2>c, <3>1, ZenonT(60) DEF FwState
    <3>4. /\ f2.vap = f1.vap /\ f2.mode = f1.mode /\ f2.peer = f1.peer
          /\ f2.blocked = f1.blocked /\ f2.chan = f1.chan /\ f2.filter = f1.filter
      BY <2>2, <3>1, ZenonT(60) DEF FwState
    <3>5. okRf /\ f1.band = h1.band /\ f1.width = h1.width => f2.band = c.band /\ f2.width = c.width
      BY <2>2, <3>1, <3>2 DEF FwState
    <3> QED BY <3>3, <3>4, <3>5
  <2> HIDE DEF f2, h2
  <2>6. /\ f3 \in FwState
        /\ tuned => f3.chan = c
        /\ ~tuned => f3.chan = f2.chan
        /\ f3.vap = f2.vap /\ f3.mode = f2.mode /\ f3.peer = f2.peer
        /\ f3.blocked = f2.blocked /\ f3.band = f2.band /\ f3.width = f2.width
        /\ f3.filter = f2.filter
    <3>1. f3 = IF tuned THEN [f2 EXCEPT !.chan = c] ELSE f2
      BY DEF SetChannel, Told
    <3> HIDE DEF f3, tuned
    <3>2. f3 \in FwState
      BY <2>5, <3>1 DEF FwState
    <3> QED BY <2>5, <3>1, <3>2 DEF FwState
  <2> HIDE DEF f3, opens
  <2>7. /\ host' \in HostState
        /\ opens /\ okUnblock => host'.blocked = FALSE
        /\ ~(opens /\ okUnblock) => host'.blocked = h2.blocked
        /\ host'.vifs0 = h2.vifs0 /\ host'.sc_nvifs = h2.sc_nvifs
        /\ host'.iface_down = h2.iface_down /\ host'.band = h2.band
        /\ host'.width = h2.width /\ host'.peer_notify_state = h2.peer_notify_state
        /\ host'.roc_vif = h2.roc_vif /\ host'.update_country = h2.update_country
        /\ host'.bgscan_en = h2.bgscan_en
    <3>1. host' = h2 \/ host' = Unblocked(h2, okUnblock)
      BY <2>1
    <3>2. host' \in HostState
      BY <1>2, <2>4, <3>1, ZenonT(60) DEF Unblocked, HostState
    <3>3. opens /\ okUnblock => host'.blocked = FALSE
      BY <1>2, <2>1, <2>4 DEF Unblocked, HostState
    <3>4. ~(opens /\ okUnblock) => host'.blocked = h2.blocked
      BY <1>2, <2>1, <2>4 DEF Unblocked, HostState
    <3> QED BY <2>4, <3>1, <3>2, <3>3, <3>4 DEF Unblocked, HostState
  <2>8. /\ told' \in FwState
        /\ opens /\ okUnblock => told'.blocked = FALSE
        /\ ~(opens /\ okUnblock) => told'.blocked = f3.blocked
        /\ told'.vap = f3.vap /\ told'.mode = f3.mode /\ told'.peer = f3.peer
        /\ told'.band = f3.band /\ told'.width = f3.width /\ told'.chan = f3.chan
        /\ told'.filter = f3.filter
    <3>1. told' = IF opens /\ okUnblock THEN [f3 EXCEPT !.blocked = FALSE] ELSE f3
      BY <2>1 DEF SendBlock, Told
    <3>2. told' \in FwState
      BY <2>6, <3>1 DEF FwState
    <3> QED BY <2>6, <3>1, <3>2 DEF FwState
  <2>9. /\ upset \ {"idle_roc"} \subseteq upset' /\ upset' \subseteq Troubles
        /\ NothingLost => okBlock /\ tuned /\ okUnblock /\ okRf
    BY <1>0, <1>2, <2>1, UpsetGrows DEF NothingLost, Troubles
  <2>10. TroubleKeeps
    BY <2>9 DEF TroubleKeeps, None
  <2> HIDE DEF tuned
  <2>11. VifTypeOK'
    BY <1>0, <1>3, <1>5, <2>7, <2>8, <2>9 DEF VifIInv, VifTypeOK
  <2>12. VifsAgree'
    BY <1>5, <2>2, <1>h, <2>4, <2>5, <2>6, <2>7, <2>8, <2>10
    DEF VifIInv, VifsAgree, TroubleKeeps
  <2>13. BlockedIsKnown'
    <3> SUFFICES ASSUME None({"split_confirm"})',
         told'.blocked = TRUE PROVE host'.blocked = TRUE
      BY <2>7, <2>8 DEF BlockedIsKnown, HostState, FwState
    <3>1. ~(opens /\ okUnblock) /\ f3.blocked = TRUE
      BY <2>8
    <3>2. f1.blocked = TRUE
      BY <2>5, <2>6, <3>1
    <3>3. told.blocked = TRUE => host.blocked = TRUE
      BY <1>0, <2>10 DEF VifIInv, BlockedIsKnown, TroubleKeeps, HostState
    <3>4. h1.blocked = TRUE
      BY <2>2, <1>h, <3>2, <3>3
    <3> QED BY <2>4, <2>7, <3>1, <3>4
  <2>14. DataFollowsChannel'
    <3> SUFFICES ASSUME mac80211'.assoc = "yes", host'.bgscan_en = FALSE, confirm' = "idle",
                        None({"lost", "late_confirm", "split_confirm"})'
                 PROVE  /\ mac80211'.conf # mac80211'.bss => host'.blocked = TRUE
                        /\ mac80211'.conf = mac80211'.bss /\ mac80211'.open = TRUE => host'.blocked = FALSE
      BY <1>5, <2>7 DEF DataFollowsChannel, HostState, MacState
    <3>1. okBlock /\ tuned /\ okUnblock
      BY <2>9, LossesCount DEF Losses
    <3>2. mac80211.type = "STATION" /\ mac80211.assoc = "yes"
      BY <1>5 DEF VifIInv, VifShape
    <3>3. CASE bss # c
      <4>1. h1.blocked = TRUE
        BY <1>0, <1>h, <2>bl, <3>1, <3>2, <3>3 DEF HostState
      <4>2. ~opens
        BY <2>op, <3>3
      <4> QED BY <1>5, <2>4, <2>7, <3>3, <4>1, <4>2
    <3>4. CASE bss = c
      <4>1. host'.blocked = FALSE
        BY <1>h, <2>4, <2>7, <2>op, <3>1, <3>2, <3>4 DEF HostState
      <4> QED BY <1>5, <3>4, <4>1
    <3> QED BY <3>3, <3>4
  <2>15. None({"lost"}) /\ NothingLost => told'.band = c.band /\ told'.width = c.width /\ told'.chan = c
    BY <2>2, <1>h, <2>5, <2>6, <2>8, <2>9 DEF VifIInv, EndpointKnown
  <2>16. EndpointKnown'
    BY <2>4, <2>7, <2>10, <2>15, LossesCount DEF EndpointKnown, TroubleKeeps, Losses
  <2>17. ScanOfAssociated'
    BY <1>5, <1>h, <2>4, <2>7, <2>10 DEF VifIInv, ScanOfAssociated, TroubleKeeps
  <2>18. TunedHome'
    <3> SUFFICES ASSUME None({"lost", "late_cancel", "off_channel", "idle_roc"})', AtHome'
                 PROVE  told'.chan = mac80211'.bss
      BY DEF TunedHome
    <3>1. NothingLost /\ None({"lost"})' /\ None({"lost"})
      BY <2>10 DEF TroubleKeeps, None, NothingLost
    <3>2. ~(host'.bgscan_en = TRUE /\ mac80211'.assoc = "yes")
      <4>1. host'.bgscan_en = host.bgscan_en
        BY <1>h, <2>4, <2>7
      <4> QED BY <1>5, <1>7, <2>a, <4>1 DEF VifIInv, VifShape
    <3> QED BY <1>5, <2>15, <3>1, <3>2 DEF AtHome
  <2>19. RfProgrammed'
    BY <2>10, <2>15, LossesCount DEF RfProgrammed, TroubleKeeps, Losses, None
  <2>20. FilterOpen'
    BY <1>5, <2>2, <2>5, <2>6, <2>8, <2>10 DEF VifIInv, FilterOpen, TroubleKeeps
  <2>21. RocUnderWay'
    BY <1>3, <1>5, <1>h, <2>4, <2>7, <2>10 DEF VifIInv, RocUnderWay, TroubleKeeps
  <2> QED BY <1>sh, <2>11, <2>12, <2>13, <2>14, <2>16, <2>17, <2>18, <2>19, <2>20, <2>21
    DEF VifIInv
<1> QED BY <1>6, <1>7

\* A visit to another channel, which the timer or a cancellation will end.
LEMMA RocKeeps == ASSUME MacVifAssumption, VifIInv, Roc PROVE VifIInv'
<1>0. /\ mac80211 \in MacState /\ host \in HostState /\ told \in FwState /\ upset \subseteq Troubles
      /\ NoChan \notin Chans /\ NoVif \notin Vifs
  BY MacVifAssumption DEF VifIInv, VifTypeOK
<1>1. PICK c \in Chans, okRf, okChan \in Outcomes :
    LET h == BandChecked(host, c, mac80211.conf)
        f == ProgramRf(told, host, c, mac80211.conf, okRf)
        done == okRf /\ okChan
    IN  /\ Ready /\ mac80211.vif # NoVif /\ mac80211.type # "MONITOR" /\ mac80211.roc = "none"
        /\ mac80211.bss \in {NoChan, mac80211.conf}
        /\ ArmRocTimer
        /\ host' = IF done THEN [h EXCEPT !.roc_vif = mac80211.vif] ELSE h
        /\ told' = SetChannel(f, c, done)
        /\ mac80211' = IF done THEN [mac80211 EXCEPT !.roc = "active"] ELSE mac80211
        /\ upset' = Upset({okRf, okChan}) \union (IF done THEN {} ELSE {"refused_roc"})
                     \union (IF mac80211.type = "STATION" /\ ~Associated THEN {"idle_roc"} ELSE {})
        /\ UNCHANGED <<roc_callback, seenVif, confirm, mutex>>
  BY DEF Roc
<1>2. okRf \in BOOLEAN /\ okChan \in BOOLEAN /\ mac80211.conf \in Chans
  BY <1>0, <1>1, OutcomesTyped DEF MacState
<1>c. c.band \in {"2GHz", "5GHz"} /\ mac80211.conf.width \in {20, 40}
  BY <1>2, MacVifAssumption
<1> DEFINE h == BandChecked(host, c, mac80211.conf)
<1> DEFINE f == ProgramRf(told, host, c, mac80211.conf, okRf)
<1> DEFINE done == okRf /\ okChan
<1>3. /\ mac80211.vif # NoVif /\ mac80211.type # "MONITOR" /\ mac80211.roc = "none"
      /\ roc_timer' = "pending"
      /\ host' = IF done THEN [h EXCEPT !.roc_vif = mac80211.vif] ELSE h
      /\ told' = SetChannel(f, c, done)
      /\ mac80211' = IF done THEN [mac80211 EXCEPT !.roc = "active"] ELSE mac80211
      /\ UNCHANGED <<roc_callback, seenVif, confirm, mutex>>
  BY <1>1 DEF ArmRocTimer
<1>4. upset' = Upset({okRf, okChan}) \union (IF done THEN {} ELSE {"refused_roc"})
                 \union (IF mac80211.type = "STATION" /\ ~Associated THEN {"idle_roc"} ELSE {})
  BY <1>1
<1>5. /\ h \in HostState
      /\ h.band = c.band
      /\ h.width = mac80211.conf.width
      /\ h.vifs0 = host.vifs0 /\ h.sc_nvifs = host.sc_nvifs
      /\ h.iface_down = host.iface_down /\ h.blocked = host.blocked
      /\ h.peer_notify_state = host.peer_notify_state /\ h.roc_vif = host.roc_vif
      /\ h.ap_channel = host.ap_channel /\ h.update_country = host.update_country
      /\ h.bgscan_en = host.bgscan_en
  <2>1. h \in HostState
    BY <1>0, <1>c DEF BandChecked, HostState
  <2> QED BY <1>0, <2>1 DEF BandChecked, HostState
<1>6. /\ f \in FwState
      /\ okRf /\ told.band = host.band /\ told.width = host.width =>
           f.band = c.band /\ f.width = mac80211.conf.width
      /\ f.vap = told.vap /\ f.mode = told.mode /\ f.peer = told.peer
      /\ f.blocked = told.blocked /\ f.chan = told.chan /\ f.filter = told.filter
  <2>1. f = told \/ f = [told EXCEPT !.band = c.band, !.width = mac80211.conf.width]
    BY DEF ProgramRf, Told
  <2>2. okRf /\ (c.band # host.band \/ mac80211.conf.width # host.width) =>
           f = [told EXCEPT !.band = c.band, !.width = mac80211.conf.width]
    BY DEF ProgramRf, Told
  <2> HIDE DEF f
  <2>3. f \in FwState
    BY <1>0, <1>c, <2>1, ZenonT(60) DEF FwState
  <2>4. /\ f.vap = told.vap /\ f.mode = told.mode /\ f.peer = told.peer
        /\ f.blocked = told.blocked /\ f.chan = told.chan /\ f.filter = told.filter
    BY <1>0, <2>1 DEF FwState
  <2>5. okRf /\ told.band = host.band /\ told.width = host.width =>
           f.band = c.band /\ f.width = mac80211.conf.width
    BY <1>0, <2>1, <2>2 DEF FwState
  <2> QED BY <2>3, <2>4, <2>5
<1> HIDE DEF h, f
<1>7. /\ host' \in HostState
      /\ done => host'.roc_vif = mac80211.vif
      /\ host'.vifs0 = h.vifs0 /\ host'.sc_nvifs = h.sc_nvifs
      /\ host'.iface_down = h.iface_down /\ host'.blocked = h.blocked
      /\ host'.band = h.band /\ host'.width = h.width
      /\ host'.peer_notify_state = h.peer_notify_state /\ host'.ap_channel = h.ap_channel
      /\ host'.update_country = h.update_country /\ host'.bgscan_en = h.bgscan_en
  <2>1. mac80211.vif \in Vifs \cup {NoVif}
    BY <1>0 DEF MacState
  <2>2. host' = h \/ host' = [h EXCEPT !.roc_vif = mac80211.vif]
    BY <1>3
  <2>3. host' \in HostState
    BY <1>5, <2>1, <2>2 DEF HostState
  <2> QED BY <1>3, <1>5, <2>2, <2>3 DEF HostState
<1>8. /\ told' \in FwState
      /\ done => told'.chan = c
      /\ told'.vap = f.vap /\ told'.mode = f.mode /\ told'.peer = f.peer
      /\ told'.blocked = f.blocked /\ told'.band = f.band /\ told'.width = f.width
      /\ told'.filter = f.filter
  <2>1. told' = IF done THEN [f EXCEPT !.chan = c] ELSE f
    BY <1>3 DEF SetChannel, Told
  <2>2. told' \in FwState
    BY <1>6, <2>1 DEF FwState
  <2> QED BY <1>6, <2>1, <2>2 DEF FwState
<1>9. /\ mac80211' \in MacState
      /\ done => mac80211'.roc = "active"
      /\ mac80211'.run = mac80211.run /\ mac80211'.vif = mac80211.vif
      /\ mac80211'.type = mac80211.type /\ mac80211'.assoc = mac80211.assoc
      /\ mac80211'.open = mac80211.open /\ mac80211'.eapol = mac80211.eapol
      /\ mac80211'.conf = mac80211.conf /\ mac80211'.bss = mac80211.bss
  <2>1. mac80211' \in MacState
    BY <1>0, <1>3 DEF MacState
  <2> QED BY <1>0, <1>3, <2>1 DEF MacState
<1>10. /\ upset \subseteq upset' /\ upset' \subseteq Troubles
       /\ NothingLost => okRf /\ okChan
       /\ ~done => "refused_roc" \in upset'
       /\ mac80211.type = "STATION" /\ mac80211.assoc = "no" => "idle_roc" \in upset'
  <2>1. Upset({okRf, okChan}) \subseteq upset'
    BY <1>4
  <2>2. upset' \subseteq Upset({okRf, okChan}) \cup {"refused_roc", "idle_roc"}
    BY <1>4
  <2>3. ~done => "refused_roc" \in upset'
    BY <1>4
  <2>4. mac80211.type = "STATION" /\ mac80211.assoc = "no" => "idle_roc" \in upset'
    BY <1>4 DEF Associated
  <2> QED BY <1>0, <1>2, <2>1, <2>2, <2>3, <2>4, UpsetGrows DEF NothingLost, Troubles
<1>11. TroubleKeeps
  BY <1>10, Remembered
<1>12. VifTypeOK'
  BY <1>3, <1>7, <1>8, <1>9, <1>10 DEF VifIInv, VifTypeOK
<1>13. VifShape'
  BY <1>3, <1>5, <1>7, <1>9 DEF VifIInv, VifShape
<1>14. VifsAgree'
  BY <1>5, <1>6, <1>7, <1>8, <1>9, <1>11 DEF VifIInv, VifsAgree, TroubleKeeps
<1>15. BlockedIsKnown' /\ DataFollowsChannel' /\ ScanOfAssociated'
  BY <1>3, <1>5, <1>6, <1>7, <1>8, <1>9, <1>11
  DEF VifIInv, BlockedIsKnown, DataFollowsChannel, ScanOfAssociated, TroubleKeeps
<1>16. None({"lost"}) /\ NothingLost =>
          told'.band = c.band /\ told'.width = mac80211.conf.width /\ told'.chan = c
  BY <1>6, <1>8, <1>10 DEF VifIInv, EndpointKnown
<1>17. EndpointKnown'
  BY <1>5, <1>7, <1>11, <1>16, LossesCount DEF EndpointKnown, TroubleKeeps, Losses
<1>18. RfProgrammed'
  BY <1>11, <1>16, LossesCount DEF RfProgrammed, TroubleKeeps, Losses, None
<1>19. TunedHome'
  <2> SUFFICES ASSUME None({"lost", "late_cancel", "off_channel", "idle_roc"})',
       AtHome' PROVE FALSE
    BY DEF TunedHome
  <2>1. NothingLost /\ "idle_roc" \notin upset'
    BY DEF None, NothingLost
  <2>2. mac80211'.roc = "active"
    BY <1>9, <1>10, <2>1
  <2>3. mac80211.type \in IfTypes /\ mac80211.assoc \in {"no", "yes", "leaving"}
    BY <1>0 DEF MacState
  <2> QED BY <1>3, <1>9, <1>10, <2>1, <2>2, <2>3 DEF AtHome, IfTypes
<1>20. FilterOpen'
  BY <1>6, <1>8, <1>9, <1>11 DEF VifIInv, FilterOpen, TroubleKeeps
<1>21. RocUnderWay'
  <2> SUFFICES ASSUME None({"refused_roc", "late_cancel"})' PROVE RocUnderWay'
    BY DEF RocUnderWay
  <2>1. done
    BY <1>10 DEF None
  <2>2. roc_callback = "idle"
    BY <1>3, <1>11 DEF VifIInv, VifTypeOK, RocUnderWay, TroubleKeeps
  <2> QED BY <1>3, <1>7, <1>9, <2>1, <2>2 DEF RocUnderWay
<1> QED BY <1>12, <1>13, <1>14, <1>15, <1>17, <1>18, <1>19, <1>20, <1>21 DEF VifIInv

\* rsi_resume_conn_channel returns to the channel of the interface, or leaves all as it is.
Resumed ==
    /\ host' \in HostState /\ told' \in FwState
    /\ upset \subseteq upset' /\ upset' \subseteq Troubles
    /\ host'.vifs0 = host.vifs0 /\ host'.sc_nvifs = host.sc_nvifs
    /\ host'.iface_down = host.iface_down /\ host'.blocked = host.blocked
    /\ host'.peer_notify_state = host.peer_notify_state /\ host'.roc_vif = host.roc_vif
    /\ host'.ap_channel = host.ap_channel /\ host'.update_country = host.update_country
    /\ host'.bgscan_en = host.bgscan_en
    /\ told'.vap = told.vap /\ told'.mode = told.mode /\ told'.peer = told.peer
    /\ told'.blocked = told.blocked /\ told'.filter = told.filter
    /\ \/ /\ host' = host /\ told' = told
          /\ host.iface_down = TRUE \/ host.vifs0 = NoVif \/ mac80211.bss = NoChan
             \/ (mac80211.assoc = "no" /\ mac80211.type # "AP") \/ mac80211.type = "MONITOR"
       \/ /\ mac80211.bss \in Chans
          /\ NothingLost => told'.chan = mac80211.bss
          /\ host'.band = mac80211.bss.band
          /\ NothingLost /\ told.band = host.band /\ told.width = host.width =>
               told'.band = host'.band /\ told'.width = host'.width

LEMMA ResumeSays ==
    ASSUME MacVifAssumption, VifIInv, NEW okRf \in BOOLEAN, NEW okChan \in BOOLEAN,
           ResumeChannel(okRf, okChan)
    PROVE  Resumed
<1>0. /\ mac80211 \in MacState /\ host \in HostState /\ told \in FwState /\ upset \subseteq Troubles
      /\ NoChan \notin Chans /\ NoVif \notin Vifs
  BY MacVifAssumption DEF VifIInv, VifTypeOK
<1>1. CASE ~(~host.iface_down /\ host.vifs0 # NoVif /\ mac80211.bss # NoChan
              /\ (Associated \/ mac80211.type = "AP"))
  <2>1. host' = host /\ told' = told /\ upset' = upset
    BY <1>1 DEF ResumeChannel
  <2>2. mac80211.type \in IfTypes /\ host.iface_down \in BOOLEAN
    BY <1>0 DEF MacState, HostState
  <2>3. host.iface_down = TRUE \/ host.vifs0 = NoVif \/ mac80211.bss = NoChan
             \/ (mac80211.assoc = "no" /\ mac80211.type # "AP") \/ mac80211.type = "MONITOR"
    BY <1>1, <2>2 DEF Associated, IfTypes
  <2> QED BY <1>0, <2>1, <2>3 DEF Resumed
<1>2. CASE ~host.iface_down /\ host.vifs0 # NoVif /\ mac80211.bss # NoChan
              /\ (Associated \/ mac80211.type = "AP")
  <2> DEFINE f == ProgramRf(told, host, mac80211.bss, mac80211.conf, okRf)
  <2>1. /\ host' = BandChecked(host, mac80211.bss, mac80211.conf)
        /\ told' = SetChannel(f, mac80211.bss, okChan)
        /\ upset' = Upset({okRf, okChan})
    BY <1>2 DEF ResumeChannel
  <2>2. mac80211.bss \in Chans /\ mac80211.conf \in Chans
    BY <1>0, <1>2 DEF MacState
  <2>3. mac80211.bss.band \in {"2GHz", "5GHz"} /\ mac80211.conf.width \in {20, 40}
    BY <2>2, MacVifAssumption
  <2>4. /\ host' \in HostState
        /\ host'.band = mac80211.bss.band
        /\ host'.width = mac80211.conf.width
        /\ host'.vifs0 = host.vifs0 /\ host'.sc_nvifs = host.sc_nvifs
        /\ host'.iface_down = host.iface_down /\ host'.blocked = host.blocked
        /\ host'.peer_notify_state = host.peer_notify_state /\ host'.roc_vif = host.roc_vif
        /\ host'.ap_channel = host.ap_channel /\ host'.update_country = host.update_country
        /\ host'.bgscan_en = host.bgscan_en
    <3>1. host' \in HostState
      BY <1>0, <2>1, <2>3 DEF BandChecked, HostState
    <3> QED BY <1>0, <2>1, <3>1 DEF BandChecked, HostState
  <2>5. /\ f \in FwState
        /\ okRf /\ told.band = host.band /\ told.width = host.width =>
             f.band = mac80211.bss.band /\ f.width = mac80211.conf.width
        /\ f.vap = told.vap /\ f.mode = told.mode /\ f.peer = told.peer
        /\ f.blocked = told.blocked /\ f.chan = told.chan /\ f.filter = told.filter
    <3>1. f = told \/ f = [told EXCEPT !.band = mac80211.bss.band,
         !.width = mac80211.conf.width]
      BY DEF ProgramRf, Told
    <3>2. okRf /\ (mac80211.bss.band # host.band \/ mac80211.conf.width # host.width) =>
             f = [told EXCEPT !.band = mac80211.bss.band, !.width = mac80211.conf.width]
      BY DEF ProgramRf, Told
    <3> HIDE DEF f
    <3>3. f \in FwState
      BY <1>0, <2>3, <3>1, ZenonT(60) DEF FwState
    <3>4. /\ f.vap = told.vap /\ f.mode = told.mode /\ f.peer = told.peer
          /\ f.blocked = told.blocked /\ f.chan = told.chan /\ f.filter = told.filter
      BY <1>0, <3>1, ZenonT(60) DEF FwState
    <3>5. okRf /\ told.band = host.band /\ told.width = host.width =>
             f.band = mac80211.bss.band /\ f.width = mac80211.conf.width
      BY <1>0, <3>1, <3>2 DEF FwState
    <3> QED BY <3>3, <3>4, <3>5
  <2> HIDE DEF f
  <2>6. /\ told' \in FwState
        /\ okChan => told'.chan = mac80211.bss
        /\ told'.vap = f.vap /\ told'.mode = f.mode /\ told'.peer = f.peer
        /\ told'.blocked = f.blocked /\ told'.band = f.band /\ told'.width = f.width
        /\ told'.filter = f.filter
    <3>1. told' = IF okChan THEN [f EXCEPT !.chan = mac80211.bss] ELSE f
      BY <2>1 DEF SetChannel, Told
    <3>2. told' \in FwState
      BY <2>2, <2>5, <3>1 DEF FwState
    <3> QED BY <2>5, <3>1, <3>2 DEF FwState
  <2>7. /\ upset \subseteq upset' /\ upset' \subseteq Troubles
        /\ NothingLost => okRf /\ okChan
    BY <1>0, <2>1, UpsetGrows DEF NothingLost, Troubles
  <2> QED BY <2>2, <2>4, <2>5, <2>6, <2>7 DEF Resumed
<1> QED BY <1>1, <1>2

\* After it nothing changes but the channel, which is home if it was not already.
LEMMA ResumedKeeps ==
    ASSUME MacVifAssumption, VifIInv, Resumed,
           mac80211'.run = mac80211.run, mac80211'.vif = mac80211.vif,
           mac80211'.type = mac80211.type, mac80211'.assoc = mac80211.assoc,
           mac80211'.open = mac80211.open, mac80211'.eapol = mac80211.eapol,
           mac80211'.conf = mac80211.conf, mac80211'.bss = mac80211.bss,
           mac80211'.roc # "active", mac80211.vif = NoVif => mac80211'.roc = "none", confirm' = confirm
    PROVE  /\ VifShape' /\ VifsAgree' /\ BlockedIsKnown' /\ DataFollowsChannel'
           /\ EndpointKnown' /\ ScanOfAssociated' /\ TunedHome' /\ RfProgrammed' /\ FilterOpen'
<1>0. /\ mac80211 \in MacState /\ host \in HostState /\ told \in FwState
      /\ NoChan \notin Chans /\ NoVif \notin Vifs
  BY MacVifAssumption DEF VifIInv, VifTypeOK
<1>1. TroubleKeeps /\ HomeKeeps
  BY Remembered DEF Resumed
<1>2. VifsAgree' /\ FilterOpen'
  BY <1>1 DEF VifIInv, VifsAgree, FilterOpen, TroubleKeeps, Resumed
<1>3. VifShape' /\ ScanOfAssociated'
  BY <1>1 DEF VifIInv, VifShape, ScanOfAssociated, TroubleKeeps, Resumed
<1>4. BlockedIsKnown' /\ DataFollowsChannel'
  BY <1>1 DEF VifIInv, BlockedIsKnown, DataFollowsChannel, TroubleKeeps, Resumed
<1>5. EndpointKnown'
  BY <1>1, LossesCount DEF VifIInv, EndpointKnown, TroubleKeeps, Losses, Resumed
<1>6. RfProgrammed'
  <2> SUFFICES ASSUME None({"lost", "off_channel"})', told'.chan # NoChan
               PROVE  told'.band = told'.chan.band
    BY DEF RfProgrammed
  <2>1. NothingLost /\ None({"lost"}) /\ None({"lost", "off_channel"})
    BY <1>1, LossesCount DEF TroubleKeeps, Losses, None
  <2>2. told.band = host.band /\ told.width = host.width
    BY <2>1 DEF VifIInv, EndpointKnown
  <2> QED BY <2>1, <2>2 DEF VifIInv, RfProgrammed, Resumed
<1>7. TunedHome'
  <2> SUFFICES ASSUME None({"lost", "late_cancel", "off_channel", "idle_roc"})', AtHome'
               PROVE  told'.chan = mac80211.bss
    BY DEF TunedHome
  <2>1. NothingLost /\ None({"lost"}) /\ None({"lost", "late_cancel", "off_channel",
       "idle_roc"})
    BY <1>1, LossesCount DEF HomeKeeps, Losses, None
  <2>2. mac80211.bss # NoChan /\ mac80211.vif # NoVif /\ host.iface_down = FALSE /\ host.vifs0 # NoVif
    BY <1>0 DEF AtHome, VifIInv, VifShape, HostState
  <2>3. CASE mac80211.bss \in Chans /\ told'.chan = mac80211.bss
    BY <2>3
  <2>4. CASE /\ host' = host /\ told' = told
             /\ (mac80211.assoc = "no" /\ mac80211.type # "AP") \/ mac80211.type = "MONITOR"
    <3>1. mac80211.assoc = "no" /\ mac80211.type # "AP"
      BY <1>0, <2>4 DEF VifIInv, VifShape, MacState
    <3>2. AtHome
      BY <2>2, <2>4, <3>1 DEF AtHome
    <3> QED BY <2>1, <2>4, <3>2 DEF VifIInv, TunedHome
  <2> QED BY <2>1, <2>2, <2>3, <2>4 DEF Resumed
<1> QED BY <1>2, <1>3, <1>4, <1>5, <1>6, <1>7

\* The callback ends the visit and goes home.
LEMMA RocTimeoutKeeps == ASSUME MacVifAssumption, VifIInv, RocTimeout PROVE VifIInv'
<1>0. mac80211 \in MacState /\ host \in HostState /\ told \in FwState
  BY DEF VifIInv, VifTypeOK
<1>1. PICK okRf, okChan \in Outcomes :
    /\ Ready /\ roc_callback = "running" /\ seenVif = mac80211.vif
    /\ roc_callback' = "idle" /\ seenVif' = NoVif /\ roc_timer' = "idle"
    /\ mac80211' = [mac80211 EXCEPT !.roc = IF @ = "active" THEN "expired" ELSE @]
    /\ ResumeChannel(okRf, okChan)
    /\ UNCHANGED <<confirm, mutex>>
  BY DEF RocTimeout
<1>2. okRf \in BOOLEAN /\ okChan \in BOOLEAN
  BY <1>1, OutcomesTyped
<1>3. Resumed
  BY <1>1, <1>2, ResumeSays
<1>4. /\ mac80211' \in MacState
      /\ mac80211.roc = "active" => mac80211'.roc = "expired"
      /\ mac80211.roc # "active" => mac80211'.roc = mac80211.roc
      /\ mac80211'.run = mac80211.run /\ mac80211'.vif = mac80211.vif
      /\ mac80211'.type = mac80211.type /\ mac80211'.assoc = mac80211.assoc
      /\ mac80211'.open = mac80211.open /\ mac80211'.eapol = mac80211.eapol
      /\ mac80211'.conf = mac80211.conf /\ mac80211'.bss = mac80211.bss
  <2>1. mac80211' \in MacState
    BY <1>0, <1>1 DEF MacState
  <2> QED BY <1>0, <1>1, <2>1 DEF MacState
<1>5. /\ roc_callback' = "idle" /\ seenVif' = NoVif /\ roc_timer' = "idle"
      /\ UNCHANGED <<confirm, mutex>>
  BY <1>1
<1>6. VifTypeOK'
  BY <1>3, <1>4, <1>5 DEF VifIInv, VifTypeOK, Resumed
<1>7. mac80211'.roc # "active" /\ (mac80211.vif = NoVif => mac80211'.roc = "none")
  BY <1>4 DEF VifIInv, VifShape
<1>8. /\ VifShape' /\ VifsAgree' /\ BlockedIsKnown' /\ DataFollowsChannel'
      /\ EndpointKnown' /\ ScanOfAssociated' /\ TunedHome' /\ RfProgrammed' /\ FilterOpen'
  BY <1>3, <1>4, <1>5, <1>7, ResumedKeeps
<1>9. RocUnderWay'
  BY <1>5 DEF RocUnderWay
<1> QED BY <1>6, <1>8, <1>9 DEF VifIInv

\* A cancellation does the same, unless the timer has fired: then the mutex is kept.
LEMMA CancelRocKeeps == ASSUME MacVifAssumption, VifIInv, CancelRoc PROVE VifIInv'
<1>0. /\ mac80211 \in MacState /\ host \in HostState /\ told \in FwState /\ upset \subseteq Troubles
  BY DEF VifIInv, VifTypeOK
<1>1. PICK okRf, okChan \in Outcomes :
    /\ Ready /\ mac80211.roc # "none"
    /\ mac80211' = [mac80211 EXCEPT !.roc = "none"]
    /\ IF ~TimerDeleted
         THEN /\ mutex' = "leaked"
              /\ upset' = upset \union {"late_cancel"}
              /\ UNCHANGED <<host, told>>
         ELSE /\ ResumeChannel(okRf, okChan)
              /\ UNCHANGED mutex
    /\ roc_timer' = TimerAfterCancel
    /\ UNCHANGED <<roc_callback, seenVif, confirm>>
  BY DEF CancelRoc
<1>2. okRf \in BOOLEAN /\ okChan \in BOOLEAN
  BY <1>1, OutcomesTyped
<1>4. /\ mac80211' \in MacState
      /\ mac80211'.roc = "none"
      /\ mac80211'.run = mac80211.run /\ mac80211'.vif = mac80211.vif
      /\ mac80211'.type = mac80211.type /\ mac80211'.assoc = mac80211.assoc
      /\ mac80211'.open = mac80211.open /\ mac80211'.eapol = mac80211.eapol
      /\ mac80211'.conf = mac80211.conf /\ mac80211'.bss = mac80211.bss
  <2>1. mac80211' \in MacState
    BY <1>0, <1>1 DEF MacState
  <2> QED BY <1>0, <1>1, <2>1 DEF MacState
<1>5. roc_timer' = "idle" /\ UNCHANGED <<roc_callback, seenVif, confirm>>
  BY <1>1 DEF TimerAfterCancel
<1>6. CASE TimerDeleted
  <2>1. Resumed /\ mutex' = mutex
    BY <1>1, <1>2, <1>6, ResumeSays
  <2>2. VifTypeOK'
    BY <1>4, <1>5, <2>1 DEF VifIInv, VifTypeOK, Resumed
  <2>3. /\ VifShape' /\ VifsAgree' /\ BlockedIsKnown' /\ DataFollowsChannel'
        /\ EndpointKnown' /\ ScanOfAssociated' /\ TunedHome' /\ RfProgrammed' /\ FilterOpen'
    BY <1>4, <1>5, <2>1, ResumedKeeps
  <2>4. RocUnderWay'
    <3>1. TroubleKeeps
      BY <2>1, Remembered DEF Resumed
    <3>2. None({"refused_roc", "late_cancel"})' => roc_callback = "idle"
      BY <1>6, <3>1 DEF TimerDeleted, TroubleKeeps, VifIInv, RocUnderWay
    <3> QED BY <1>5, <3>2 DEF RocUnderWay
  <2> QED BY <2>2, <2>3, <2>4 DEF VifIInv
<1>7. CASE ~TimerDeleted
  <2>1. mutex' = "leaked" /\ upset' = upset \union {"late_cancel"} /\ host' = host /\ told' = told
    BY <1>1, <1>7
  <2>2. TroubleKeeps
    BY <2>1, Remembered
  <2>3. VifTypeOK'
    BY <1>0, <1>4, <1>5, <2>1 DEF VifIInv, VifTypeOK, Troubles
  <2>4. VifShape' /\ VifsAgree' /\ BlockedIsKnown' /\ DataFollowsChannel'
    BY <1>4, <1>5, <2>1, <2>2 DEF VifIInv, VifShape, VifsAgree, BlockedIsKnown,
       DataFollowsChannel, TroubleKeeps
  <2>5. EndpointKnown' /\ ScanOfAssociated' /\ RfProgrammed' /\ FilterOpen'
    BY <1>4, <2>1, <2>2 DEF VifIInv, EndpointKnown, ScanOfAssociated, RfProgrammed,
       FilterOpen, TroubleKeeps
  <2>6. TunedHome' /\ RocUnderWay'
    BY <2>1 DEF TunedHome, RocUnderWay, None
  <2> QED BY <2>3, <2>4, <2>5, <2>6 DEF VifIInv
<1> QED BY <1>6, <1>7

\* The interface, its channel and the remain-on-channel: a step that changes nothing.
LEMMA VifStutters == ASSUME VifIInv, UNCHANGED vifVars PROVE VifIInv'
BY DEF vifVars, VifIInv, VifTypeOK, VifShape, VifsAgree, BlockedIsKnown, DataFollowsChannel,
   EndpointKnown,
       ScanOfAssociated, TunedHome, AtHome, RfProgrammed, FilterOpen, RocUnderWay, None

LEMMA VifSteps == ASSUME MacVifAssumption, VifIInv, VifNext PROVE VifIInv'
BY StartKeeps, StopKeeps, AddInterfaceKeeps, RemoveInterfaceKeeps, ChangeInterfaceKeeps,
   ConfigChannelKeeps, RegNotifyKeeps, AssociateKeeps, StaRemoveKeeps, DisassociateKeeps,
   DeletePeerAgainKeeps, BgScanStartsKeeps, ConfirmUnblocksKeeps, ConfirmClearsKeeps, RocKeeps,
   TimerFiresKeeps, RocTimeoutKeeps, RocDoneKeeps, CancelRocKeeps
DEF VifNext

\* The interface operations, from rsi_mac80211_add_interface to rsi_mac80211_cancel_roc: whatever
\* goes wrong and however often, the three tables of interfaces, the blocking of data, the
\* channel, its band and the filter are what VifInv says of the troubles met so far.
THEOREM VifSafe == VifSpec => []VifInv
<1>1. VifInit => VifIInv
  BY VifStart
<1>2. VifIInv /\ [VifNext]_vifVars => VifIInv'
  BY VifSteps, VifStutters, MacVifAssumption
<1>3. VifIInv => VifInv
  BY VifIInvSays
<1> QED BY <1>1, <1>2, <1>3, PTL DEF VifSpec
=============================================================================
