--------------------------- MODULE TxSched_proofs ---------------------------
(***************************************************************************)
(* Proofs about TxSched for any number of data queues, any back offs and   *)
(* burst limits: type correctness, that a burst is backed by packets, that *)
(* the thread does not sleep on work it could do, and how often a queue    *)
(* that waits may be passed by the others.                                 *)
(***************************************************************************)
EXTENDS TxSched, FiniteSets, FiniteSetTheorems, TLAPS

\* The queue numbers: data queues, then management, then beacons.
LEMMA QueueNumbers ==
    /\ NUM_EDCA_QUEUES \in Nat
    /\ MGMT_SOFT_Q \in SoftQs /\ MGMT_BEACON_Q \in SoftQs
    /\ MGMT_SOFT_Q \notin DataQs /\ MGMT_BEACON_Q \notin DataQs
    /\ MGMT_SOFT_Q # MGMT_BEACON_Q
    /\ 0 \in SoftQs
    /\ \A q \in DataQs : q \in SoftQs
    /\ \A q \in SoftQs : q \in DataQs \/ q = MGMT_SOFT_Q \/ q = MGMT_BEACON_Q
  BY QueuesExist DEF DataQs, SoftQs, MGMT_SOFT_Q, MGMT_BEACON_Q

\* What is left of a burst is less than what its queue holds.
LEMMA BurstBound ==
    ASSUME SchedTypeOK, NEW q \in DataQs, len[q] > 0
    PROVE  Burst(q) \in Nat /\ Burst(q) < len[q]
<1>1. len[q] \in Nat /\ BURST[q] \in Nat
  BY QueueNumbers, ParamsKnown DEF SchedTypeOK
<1>2. QED
  BY <1>1 DEF Burst

\* What a u8 keeps of a weight.
LEMMA Truncated == \A w \in Nat : u8(w) \in Nat
  BY ParamsKnown DEF u8

\* The steps of everybody but the scheduler thread.
LEMMA OthersTyped ==
    ASSUME SchedTypeOK, Producers \/ Others PROVE SchedTypeOK'
<1> USE QueueNumbers DEF SchedTypeOK
<1>1. ASSUME NEW q \in SoftQs, QueuePkt(q) PROVE SchedTypeOK'
  BY <1>1 DEF QueuePkt, qinfo, turn, blocking
<1>2. CASE ScheduleThread
  BY <1>2 DEF ScheduleThread, qinfo, turn, blocking
<1>3. CASE PurgeMgmt
  BY <1>3 DEF PurgeMgmt, qinfo, turn, blocking
<1>4. CASE SetContentionVals
  <2>1. weight' \in [DataQs -> Nat] /\ contended' \in [DataQs -> BOOLEAN]
    BY <1>4, ParamsKnown DEF SetContentionVals
  <2>2. QED
    BY <1>4, <2>1 DEF SetContentionVals, turn, blocking
<1>5. CASE BlockData
  BY <1>5 DEF BlockData, qinfo, turn
<1>6. CASE SendUnblockFrame
  BY <1>6 DEF SendUnblockFrame, qinfo, turn
<1>7. CASE UnblockData
  BY <1>7 DEF UnblockData, qinfo, turn
<1>8. CASE Interrupt
  BY <1>8 DEF Interrupt, qinfo, turn, blocking
<1>9. QED
  BY <1>1, <1>2, <1>3, <1>4, <1>5, <1>6, <1>7, <1>8 DEF Producers, Others

\* The steps of the scheduler thread.
LEMMA ThreadTyped ==
    ASSUME SchedTypeOK, SchedThread PROVE SchedTypeOK'
<1> USE QueueNumbers DEF SchedTypeOK, Leave
<1>1. CASE ThreadWakes
  BY <1>1 DEF ThreadWakes, qinfo, turn, blocking
<1>2. CASE AskAccess
  BY <1>2 DEF AskAccess, qinfo, turn, blocking
<1>3. CASE Select
  <2>1. CASE SelectMgmt
    BY <1>3, <2>1 DEF Select, SelectMgmt, Serve, qinfo, blocking
  <2>2. CASE SelectBurst /\ pkt_cnt # 0
    <3>1. pkt_cnt' \in Nat
      BY <2>2 DEF SelectBurst
    <3>2. QED
      BY <1>3, <2>2, <3>1 DEF Select, SelectBurst, Serve, qinfo, blocking
  <2>3. CASE UNCHANGED <<qinfo, turn>> /\ (Leave("blocked") \/ (at' = "contend" /\ why' = why))
    BY <1>3, <2>3 DEF Select, qinfo, turn, blocking
  <2>4. QED
    BY <1>3, <2>1, <2>2, <2>3 DEF Select
<1>4. CASE SelectByWeight
  <2>1. ASSUME NEW q \in DataQs,
               q_num' = q, min_weight' = u8(weight[q]),
               contended' = [contended EXCEPT ![q] = FALSE]
        PROVE  SchedTypeOK'
    <3>1. min_weight' \in Nat
      BY <2>1, Truncated
    <3>2. QED
      BY <1>4, <2>1, <3>1 DEF SelectByWeight, blocking
  <2>2. CASE q_num' = NUM_EDCA_QUEUES /\ UNCHANGED <<min_weight, contended>>
    BY <1>4, <2>2 DEF SelectByWeight, blocking, MGMT_SOFT_Q
  <2>3. QED
    BY <1>4, <2>1, <2>2 DEF SelectByWeight
<1>5. CASE Recalculate
  <2>1. \A w \in Nat : Reduced(w) \in Nat
    BY DEF Reduced
  <2>2. /\ weight' \in [DataQs -> Nat]
        /\ contended' \in [DataQs -> BOOLEAN]
        /\ min_weight' \in Nat
    BY <1>5, <2>1, ParamsKnown DEF Recalculate, RecalculateWeights
  <2>3. CASE len[q_num] > 0
    <3>1. pkt_cnt' \in Nat
      BY <1>5, <2>3, BurstBound DEF Recalculate
    <3>2. QED
      BY <1>5, <2>2, <2>3, <3>1 DEF Recalculate, blocking
  <2>4. CASE ~(len[q_num] > 0)
    BY <1>5, <2>2, <2>4 DEF Recalculate, blocking
  <2>5. QED
    BY <2>3, <2>4
<1>6. CASE CheckNotFull
  <2>1. buffer_full' \in BOOLEAN
    BY <1>6 DEF CheckNotFull, DeviceSays
  <2>2. QED
    BY <1>6, <2>1 DEF CheckNotFull, qinfo, turn, blocking
<1>7. CASE CheckFull
  <2>1. buffer_full' \in BOOLEAN
    BY <1>7 DEF CheckFull, DeviceSays
  <2>2. QED
    BY <1>7, <2>1 DEF CheckFull, qinfo, turn, blocking
<1>8. CASE Send
  <2>1. CASE len[q_num] = 0
    BY <1>8, <2>1 DEF Send, qinfo, turn, blocking
  <2>2. CASE len[q_num] # 0
    <3>1. len' \in [SoftQs -> Nat]
      BY <1>8, <2>2 DEF Send
    <3>2. QED
      BY <1>8, <2>2, <3>1 DEF Send, qinfo, turn, blocking
  <2>3. QED
    BY <2>1, <2>2
<1>9. QED
  BY <1>1, <1>2, <1>3, <1>4, <1>5, <1>6, <1>7, <1>8 DEF SchedThread, Turn

\* Probe leaves empty queues and no back offs.
LEMMA InitTyped == SchedInit => SchedTypeOK
<1> SUFFICES ASSUME SchedInit PROVE SchedTypeOK
  OBVIOUS
<1>1. len \in [SoftQs -> Nat] /\ weight \in [DataQs -> Nat]
  BY DEF SchedInit
<1>2. contended \in [DataQs -> BOOLEAN]
  BY DEF SchedInit
<1>3. QED
  BY <1>1, <1>2, QueueNumbers DEF SchedInit, SchedTypeOK

LEMMA TypeInductive == SchedTypeOK /\ [SchedNext]_schedVars => SchedTypeOK'
<1>1. CASE UNCHANGED schedVars
  BY <1>1 DEF SchedTypeOK, schedVars, qinfo, turn, blocking
<1>2. QED
  BY <1>1, OthersTyped, ThreadTyped DEF SchedNext

\* SchedTypeOK is an invariant of the scheduler (rsi_91x_core.c).
THEOREM TypeCorrect == SchedSpec => []SchedTypeOK
<1>1. QED
  BY InitTyped, TypeInductive, PTL DEF SchedSpec

-----------------------------------------------------------------------------
(***************************************************************************)
(* Bursts.  Only the thread takes packets from a data queue, so what it    *)
(* counted when the burst began is still there when the burst goes on.     *)
(***************************************************************************)

LEMMA OthersKeepBurst ==
    ASSUME SchedTypeOK, BurstInv, Producers \/ Others PROVE BurstInv'
<1> USE QueueNumbers DEF SchedTypeOK, BurstInv
<1>1. ASSUME NEW q \in SoftQs, QueuePkt(q) PROVE BurstInv'
  BY <1>1 DEF QueuePkt, turn
<1>2. CASE ScheduleThread \/ SetContentionVals \/ BlockData \/ UnblockData \/ Interrupt
  BY <1>2 DEF ScheduleThread, SetContentionVals, BlockData, UnblockData, Interrupt, turn
<1>3. CASE PurgeMgmt
  BY <1>3 DEF PurgeMgmt, turn
<1>4. CASE SendUnblockFrame
  BY <1>4 DEF SendUnblockFrame, turn
<1>5. QED
  BY <1>1, <1>2, <1>3, <1>4 DEF Producers, Others

LEMMA ThreadKeepsBurst ==
    ASSUME SchedTypeOK, BurstInv, WorkInv, SchedThread PROVE BurstInv'
<1> USE QueueNumbers DEF SchedTypeOK, BurstInv, Leave
<1>1. CASE ThreadWakes \/ AskAccess
  BY <1>1 DEF ThreadWakes, AskAccess, turn
<1>2. CASE Select
  <2>1. CASE SelectMgmt
    BY <1>2, <2>1 DEF Select, SelectMgmt, Serve
  <2>2. CASE SelectBurst /\ pkt_cnt # 0
    BY <1>2, <2>2 DEF Select, SelectBurst, Serve
  <2>3. CASE /\ UNCHANGED <<qinfo, turn>>
             /\ Leave("blocked") \/ (at' = "contend" /\ why' = why /\ pkt_cnt = 0)
    BY <1>2, <2>3 DEF Select, qinfo, turn
  <2>4. QED
    BY <1>2, <2>1, <2>2, <2>3 DEF Select
<1>3. CASE SelectByWeight
  BY <1>3 DEF SelectByWeight
<1>4. CASE Recalculate
  <2>1. CASE len[q_num] > 0 /\ q_num \in DataQs
    BY <1>4, <2>1, BurstBound DEF Recalculate
  <2>2. CASE ~(len[q_num] > 0 /\ q_num \in DataQs)
    BY <1>4, <2>2 DEF Recalculate
  <2>3. QED
    BY <2>1, <2>2
<1>5. CASE CheckNotFull \/ CheckFull
  BY <1>5 DEF CheckNotFull, CheckFull, turn
<1>6. CASE Send
  BY <1>6 DEF Send, turn
<1>7. QED
  BY <1>1, <1>2, <1>3, <1>4, <1>5, <1>6 DEF SchedThread, Turn

-----------------------------------------------------------------------------
(***************************************************************************)
(* Work.  Between the reset of its event and the end of its turn the       *)
(* thread's Work can only become true; what it found empty stays empty     *)
(* unless Work is.                                                         *)
(***************************************************************************)

LEMMA OthersKeepWork ==
    ASSUME SchedTypeOK, WorkInv, Producers \/ Others PROVE WorkInv'
<1> USE QueueNumbers DEF SchedTypeOK, WorkInv, Work
<1>1. ASSUME NEW q \in SoftQs, QueuePkt(q) PROVE WorkInv'
  BY <1>1 DEF QueuePkt, qinfo, turn
<1>2. CASE ScheduleThread \/ SendUnblockFrame \/ Interrupt
  BY <1>2 DEF ScheduleThread, SendUnblockFrame, Interrupt, qinfo, turn, Backlogged
<1>3. CASE PurgeMgmt
  BY <1>3 DEF PurgeMgmt, qinfo, turn, Backlogged
<1>4. CASE SetContentionVals
  BY <1>4 DEF SetContentionVals, turn, Backlogged
<1>5. CASE BlockData \/ UnblockData
  BY <1>5 DEF BlockData, UnblockData, qinfo, turn, Backlogged
<1>6. QED
  BY <1>1, <1>2, <1>3, <1>4, <1>5 DEF Producers, Others

LEMMA ThreadKeepsWork ==
    ASSUME SchedTypeOK, WorkInv, SchedThread PROVE WorkInv'
<1> USE QueueNumbers DEF SchedTypeOK, WorkInv, Work, Leave
<1>1. CASE ThreadWakes \/ AskAccess
  BY <1>1 DEF ThreadWakes, AskAccess
<1>2. CASE Select
  BY <1>2 DEF Select, SelectMgmt, SelectBurst, Serve
<1>3. CASE SelectByWeight
  <2>1. ASSUME NEW q \in DataQs, LeastBackOff(q), q_num' = q PROVE WorkInv'
    <3>1. Backlogged(q)
      BY <2>1 DEF LeastBackOff, FirstBacklogged, Below
    <3>2. QED
      BY <1>3, <2>1, <3>1 DEF SelectByWeight, Backlogged
  <2>2. CASE /\ \A q \in DataQs : ~Backlogged(q)
             /\ q_num' = NUM_EDCA_QUEUES
             /\ UNCHANGED <<min_weight, contended>>
    BY <1>3, <2>2 DEF SelectByWeight, Backlogged, MGMT_SOFT_Q
  <2>3. QED
    BY <1>3, <2>1, <2>2 DEF SelectByWeight
<1>4. CASE Recalculate
  <2>1. CASE len[q_num] > 0
    BY <1>4, <2>1 DEF Recalculate
  <2>2. CASE ~(len[q_num] > 0) /\ \E q \in DataQs : Freshly(q)
    BY <1>4, <2>2 DEF Recalculate
  <2>3. CASE ~(len[q_num] > 0) /\ ~\E q \in DataQs : Freshly(q)
    BY <1>4, <2>3 DEF Recalculate, Freshly, Backlogged
  <2>4. QED
    BY <2>1, <2>2, <2>3
<1>5. CASE CheckNotFull
  BY <1>5 DEF CheckNotFull
<1>6. CASE CheckFull
  BY <1>6 DEF CheckFull, DeviceSays
<1>7. CASE Send
  BY <1>7 DEF Send
<1>8. QED
  BY <1>1, <1>2, <1>3, <1>4, <1>5, <1>6, <1>7 DEF SchedThread, Turn

-----------------------------------------------------------------------------
\* The inductive invariant of the scheduler.
THEOREM Invariance == SchedSpec => []SchedInv
<1>1. SchedInit => SchedInv
  BY InitTyped, QueueNumbers DEF SchedInit, SchedInv, BurstInv, WorkInv
<1>2. ASSUME SchedInv, SchedNext PROVE SchedInv'
  BY <1>2, TypeInductive, OthersKeepBurst, ThreadKeepsBurst, OthersKeepWork, ThreadKeepsWork
  DEF SchedInv, SchedNext
<1>3. ASSUME SchedInv, UNCHANGED schedVars PROVE SchedInv'
  BY <1>3 DEF SchedInv, SchedTypeOK, BurstInv, WorkInv, Work, Backlogged, schedVars, qinfo, turn, blocking
<1>4. SchedInv /\ [SchedNext]_schedVars => SchedInv'
  BY <1>2, <1>3
<1>5. QED
  BY <1>1, <1>4, PTL DEF SchedSpec

\* A burst is backed by packets, whatever is queued, purged, blocked or reset
\* meanwhile: rsi_core_dequeue_pkt finds a packet in every data queue chosen.
THEOREM BurstsBacked == SchedSpec => []BurstBacked
<1>1. SchedInv => BurstBacked
  BY DEF SchedInv, BurstInv, BurstBacked
<1>2. QED
  BY <1>1, Invariance, PTL

\* The thread sleeps on queued packets only for the reasons NoLostWork lists:
\* no interleaving of the producers with its turn loses a wake-up.
THEOREM WorkNotLost == SchedSpec => []NoLostWork
<1>1. SchedInv => NoLostWork
  <2> SUFFICES ASSUME SchedInv, at = "wait", ~event, ~producer, NEW q \in SoftQs, len[q] > 0
               PROVE  buffer_full \/ why \in {"blocked", "denied", "unsent", "null"}
    BY DEF NoLostWork
  <2>1. why # "empty"
    BY DEF SchedInv, WorkInv, Work
  <2>2. why = "full" => buffer_full
    BY DEF SchedInv, WorkInv
  <2>3. QED
    BY <2>1, <2>2 DEF SchedInv, SchedTypeOK
<1>2. QED
  BY <1>1, Invariance, PTL

-----------------------------------------------------------------------------
(***************************************************************************)
(* Turns.  NoStarvation needs fairness; that the others do not pass a      *)
(* waiting queue for ever does not.  A history variable counts, for each   *)
(* data queue, the choices another queue has won since it began to wait.   *)
(***************************************************************************)
VARIABLE passed

\* rsi_core_determine_hal_queue chooses a data queue by its weight.
Contest == at = "contend" /\ at' = "recalc" /\ q_num' \in DataQs

CountTurns ==
    passed' = [q \in DataQs |-> IF ~Backlogged(q)' THEN 0
                                ELSE IF Contest THEN passed[q] + 1
                                ELSE passed[q]]

turnVars == <<schedVars, passed>>
TurnInit == SchedInit /\ passed = [q \in DataQs |-> 0]
TurnNext == SchedNext /\ CountTurns
TurnSpec == TurnInit /\ [][TurnNext]_turnVars

\* No back off is a multiple of 256, which min_weight would keep as 0.
BackOffsKept == \A q \in DataQs : u8(wme_params[q]) # 0

\* The queues whose choice costs the others nothing: min_weight is then 0.
Costless(q) == {f \in DataQs \ {q} : contended[f] /\ u8(weight[f]) = 0}

\* The choices that q may still lose, and the most it ever may.
Left(q) == weight[q] * NUM_EDCA_QUEUES + Cardinality(Costless(q))
Most(q) == wme_params[q] * NUM_EDCA_QUEUES + NUM_EDCA_QUEUES - 1

\* A data queue with packets is passed a bounded number of times, whatever the
\* others queue: rsi_recalculate_weights brings it nearer with each choice it loses.
PassedBounded == BackOffsKept => \A q \in DataQs : passed[q] <= Most(q)

\* Between a choice that costs something and the recalculation q is owed one.
Owed(q) ==
    IF at = "recalc" /\ min_weight > 0
      THEN weight[q] > 0 /\ passed[q] + Left(q) <= Most(q) + 1
      ELSE passed[q] + Left(q) <= Most(q)

PassedTyped == passed \in [DataQs -> Nat]
WeightBounded == \A q \in DataQs : weight[q] <= wme_params[q]
OnlyWaiting == \A q \in DataQs : ~Backlogged(q) => passed[q] = 0
TurnInv ==
    /\ PassedTyped /\ WeightBounded /\ OnlyWaiting
    /\ BackOffsKept => \A q \in DataQs : passed[q] > 0 => Owed(q)

\* The other queues are fewer than all of them.
LEMMA FewCostless ==
    ASSUME NEW q \in DataQs, NEW S \in SUBSET (DataQs \ {q})
    PROVE  /\ IsFiniteSet(S) /\ Cardinality(S) \in Nat
           /\ Cardinality(S) <= NUM_EDCA_QUEUES - 1
<1>1. IsFiniteSet(DataQs) /\ Cardinality(DataQs) = NUM_EDCA_QUEUES
  <2>1. 0 \in Int /\ NUM_EDCA_QUEUES - 1 \in Int /\ 0 <= NUM_EDCA_QUEUES - 1
    BY QueuesExist
  <2>2. QED
    BY <2>1, QueuesExist, FS_Interval DEF DataQs
<1>2. IsFiniteSet(DataQs \ {q}) /\ Cardinality(DataQs \ {q}) = NUM_EDCA_QUEUES - 1
  BY <1>1, FS_RemoveElement
<1>3. IsFiniteSet(S) /\ Cardinality(S) <= Cardinality(DataQs \ {q})
  BY <1>2, FS_Subset
<1>4. QED
  BY <1>2, <1>3, FS_CardinalityType

\* A smaller weight is worth the number of queues less, at least.
LEMMA Scaled ==
    ASSUME NEW n \in Nat, NEW a \in Nat, NEW b \in Nat
    PROVE  /\ a * n \in Nat
           /\ a <= b => a * n <= b * n
           /\ a < b => a * n + n <= b * n
<1>1. \A i, j \in Nat : i * j \in Nat
  OBVIOUS
<1>2. ASSUME a <= b PROVE a * n <= b * n
  <2>1. (b - a) \in Nat /\ b = a + (b - a)
    BY <1>2
  <2>2. b * n = a * n + (b - a) * n
    BY <2>1
  <2>3. QED
    BY <1>1, <2>1, <2>2
<1>3. ASSUME a < b PROVE a * n + n <= b * n
  <2>1. (b - a - 1) \in Nat /\ b = a + 1 + (b - a - 1)
    BY <1>3
  <2>2. b * n = a * n + n + (b - a - 1) * n
    BY <2>1
  <2>3. QED
    BY <1>1, <2>1, <2>2
<1>4. QED
  BY <1>1, <1>2, <1>3

\* What q may still lose, with its weight within its back off, is within the bound.
LEMMA LeftBounded ==
    ASSUME SchedTypeOK, WeightBounded, NEW q \in DataQs
    PROVE  /\ Cardinality(Costless(q)) \in Nat /\ IsFiniteSet(Costless(q))
           /\ Cardinality(Costless(q)) <= NUM_EDCA_QUEUES - 1
           /\ Left(q) \in Nat /\ Most(q) \in Nat /\ Left(q) <= Most(q)
<1>1. Costless(q) \in SUBSET (DataQs \ {q})
  BY DEF Costless
<1>2. /\ Cardinality(Costless(q)) \in Nat /\ IsFiniteSet(Costless(q))
      /\ Cardinality(Costless(q)) <= NUM_EDCA_QUEUES - 1
  BY <1>1, FewCostless
<1>3. /\ weight[q] \in Nat /\ wme_params[q] \in Nat /\ weight[q] <= wme_params[q]
      /\ NUM_EDCA_QUEUES \in Nat /\ NUM_EDCA_QUEUES - 1 \in Nat
  BY ParamsKnown, QueuesExist DEF SchedTypeOK, WeightBounded
<1>4. /\ weight[q] * NUM_EDCA_QUEUES \in Nat /\ wme_params[q] * NUM_EDCA_QUEUES \in Nat
      /\ weight[q] * NUM_EDCA_QUEUES <= wme_params[q] * NUM_EDCA_QUEUES
  BY <1>3, Scaled
<1>5. QED
  BY <1>2, <1>3, <1>4 DEF Left, Most

\* The steps that matter to the weights; every other leaves them and the place.
LEMMA StepsOfWeights ==
    ASSUME SchedNext
    PROVE  \/ SelectByWeight \/ Recalculate \/ SetContentionVals
           \/ UNCHANGED qinfo /\ (at' = "recalc" <=> at = "recalc")
<1> USE DEF Leave
<1>1. ASSUME NEW q \in SoftQs, QueuePkt(q) PROVE UNCHANGED qinfo /\ at' = at
  BY <1>1 DEF QueuePkt
<1>2. CASE \/ ScheduleThread \/ PurgeMgmt \/ BlockData \/ SendUnblockFrame \/ UnblockData
           \/ Interrupt
  BY <1>2 DEF ScheduleThread, PurgeMgmt, BlockData, SendUnblockFrame, UnblockData, Interrupt
<1>3. CASE ThreadWakes \/ AskAccess \/ CheckNotFull \/ CheckFull \/ Send
  BY <1>3 DEF ThreadWakes, AskAccess, CheckNotFull, CheckFull, Send
<1>4. CASE Select
  BY <1>4 DEF Select, SelectMgmt, SelectBurst, Serve
<1>5. QED
  BY <1>1, <1>2, <1>3, <1>4 DEF SchedNext, Producers, Others, SchedThread, Turn

\* No back off grows beyond what its queue starts with.
LEMMA WeightsKept ==
    ASSUME SchedTypeOK, WeightBounded, SchedNext PROVE WeightBounded'
<1>1. CASE SelectByWeight \/ UNCHANGED qinfo
  <2>1. weight' = weight
    BY <1>1 DEF SelectByWeight, qinfo
  <2>2. QED
    BY <2>1 DEF WeightBounded
<1>2. CASE SetContentionVals
  <2>1. weight' = wme_params
    BY <1>2 DEF SetContentionVals
  <2>2. QED
    BY <2>1, ParamsKnown DEF WeightBounded
<1>3. CASE Recalculate
  <2> SUFFICES ASSUME NEW q \in DataQs PROVE weight'[q] <= wme_params[q]
    BY DEF WeightBounded
  <2>1. weight'[q] = IF len[q] = 0 THEN 0
                     ELSE IF Freshly(q) THEN wme_params[q] ELSE Reduced(weight[q])
    BY <1>3 DEF Recalculate, RecalculateWeights
  <2>2. wme_params[q] \in Nat /\ weight[q] \in Nat /\ min_weight \in Nat
    BY ParamsKnown DEF SchedTypeOK
  <2>3. weight[q] <= wme_params[q]
    BY DEF WeightBounded
  <2>4. QED
    BY <2>1, <2>2, <2>3 DEF Reduced
<1>4. QED
  BY <1>1, <1>2, <1>3, StepsOfWeights

\* The winner of a choice weighs no more, in what min_weight keeps, than a queue
\* that waits: whose weight can then be reduced.
LEMMA WinnerIsLight ==
    ASSUME SchedTypeOK, NEW q \in DataQs, Backlogged(q),
           NEW f \in DataQs, LeastBackOff(f), u8(weight[f]) > 0
    PROVE  weight[q] > 0
<1>1. /\ weight[q] \in Nat /\ weight[f] \in Nat /\ u8(weight[f]) \in Nat
      /\ u8(weight[f]) <= weight[f]
  BY ParamsKnown DEF SchedTypeOK, u8
<1>2. PICK g \in DataQs :
        /\ FirstBacklogged(g)
        /\ IF Below(g) = {}
           THEN f = g
           ELSE /\ f \in Below(g)
                /\ \A r \in Below(g) :
                      weight[f] < weight[r] \/ (weight[f] = weight[r] /\ f <= r)
  BY DEF LeastBackOff
<1>3. weight[g] \in Nat /\ u8(weight[g]) \in Nat
  BY ParamsKnown DEF SchedTypeOK, u8
<1>4. CASE Below(g) = {}
  <2>1. ~(weight[q] < u8(weight[f]))
    BY <1>2, <1>4 DEF Below
  <2>2. QED
    BY <1>1, <2>1
<1>5. CASE Below(g) # {}
  <2>1. CASE q \in Below(g)
    BY <1>1, <1>2, <1>5, <2>1
  <2>2. CASE q \notin Below(g)
    <3>1. ~(weight[q] < u8(weight[g]))
      BY <2>2 DEF Below
    <3>2. weight[f] < u8(weight[g])
      BY <1>2, <1>5 DEF Below
    <3>3. QED
      BY <1>1, <1>3, <3>1, <3>2
  <2>3. QED
    BY <2>1, <2>2
<1>6. QED
  BY <1>4, <1>5

\* A choice costs a queue that waits one of what it may lose, at once or, if
\* the winner's back off was not 0, with the recalculation that follows.
LEMMA ChoiceKeepsTurns ==
    ASSUME SchedTypeOK, TurnInv, BackOffsKept, SelectByWeight, CountTurns,
           NEW q \in DataQs, passed'[q] > 0
    PROVE  Owed(q)'
<1>1. Backlogged(q)' /\ passed'[q] = IF Contest THEN passed[q] + 1 ELSE passed[q]
  BY DEF CountTurns
<1>2. /\ at = "contend" /\ at' = "recalc" /\ weight' = weight /\ len' = len
  BY DEF SelectByWeight
<1>3. passed[q] \in Nat /\ weight[q] \in Nat
  BY DEF TurnInv, PassedTyped, SchedTypeOK
<1>4. passed[q] > 0 => passed[q] + Left(q) <= Most(q)
  BY <1>2 DEF TurnInv, Owed
<1>5. Left(q) \in Nat /\ Most(q) \in Nat /\ Left(q) <= Most(q)
  BY LeftBounded DEF TurnInv
<1>6. passed[q] + Left(q) <= Most(q)
  BY <1>3, <1>4, <1>5
<1>7. CASE \A r \in DataQs : ~Backlogged(r) /\ contended' = contended
  BY <1>1, <1>2, <1>7 DEF Backlogged
<1>8. ASSUME NEW f \in DataQs, LeastBackOff(f), q_num' = f,
             min_weight' = u8(weight[f]), contended' = [contended EXCEPT ![f] = FALSE]
      PROVE  Owed(q)'
  <2>1. contended'[f] = FALSE /\ \A r \in DataQs \ {f} : contended'[r] = contended[r]
    BY <1>8 DEF SchedTypeOK
  <2>2. q # f /\ Backlogged(q)
    BY <1>1, <1>2, <2>1 DEF Backlogged
  <2>3. Contest /\ passed'[q] = passed[q] + 1
    BY <1>1, <1>2, <1>8 DEF Contest
  <2>4. contended[f]
    BY <1>8 DEF LeastBackOff, FirstBacklogged, Below, Backlogged
  <2>5. Costless(q)' = Costless(q) \ {f}
    BY <1>2, <2>1 DEF Costless
  <2>6. /\ IsFiniteSet(Costless(q)) /\ Cardinality(Costless(q)) \in Nat
        /\ Cardinality(Costless(q)') =
             IF f \in Costless(q) THEN Cardinality(Costless(q)) - 1 ELSE Cardinality(Costless(q))
    BY <2>5, LeftBounded, FS_RemoveElement DEF TurnInv
  <2>7. /\ Left(q) = weight[q] * NUM_EDCA_QUEUES + Cardinality(Costless(q))
        /\ Left(q)' = weight[q] * NUM_EDCA_QUEUES + Cardinality(Costless(q)')
        /\ weight[q] * NUM_EDCA_QUEUES \in Nat
    <3>1. weight[q] * NUM_EDCA_QUEUES \in Nat
      BY <1>3, QueuesExist
    <3>2. QED
      BY <1>2, <3>1 DEF Left
  <2>8. Most(q)' = Most(q)
    BY DEF Most
  <2>9. CASE u8(weight[f]) = 0
    <3>1. f \in Costless(q)
      BY <2>2, <2>4, <2>9 DEF Costless
    <3>2. passed'[q] + Left(q)' <= Most(q)'
      BY <1>3, <1>5, <1>6, <2>3, <2>6, <2>7, <2>8, <3>1
    <3>3. ~(min_weight' > 0)
      BY <1>8, <2>9
    <3>4. QED
      BY <3>2, <3>3 DEF Owed
  <2>10. CASE u8(weight[f]) > 0
    <3>1. weight'[q] > 0
      BY <1>2, <1>8, <2>2, <2>10, WinnerIsLight
    <3>2. passed'[q] + Left(q)' <= Most(q)' + 1
      BY <1>3, <1>5, <1>6, <2>3, <2>6, <2>7, <2>8
    <3>3. at' = "recalc" /\ min_weight' > 0
      BY <1>2, <1>8, <2>10
    <3>4. QED
      BY <3>1, <3>2, <3>3 DEF Owed
  <2>11. u8(weight[f]) \in Nat
    BY Truncated DEF SchedTypeOK
  <2>12. QED
    BY <2>9, <2>10, <2>11
<1>9. QED
  BY <1>7, <1>8 DEF SelectByWeight

\* The recalculation pays what is owed.
LEMMA RecalculationKeepsTurns ==
    ASSUME SchedTypeOK, TurnInv, BackOffsKept, Recalculate, CountTurns,
           NEW q \in DataQs, passed'[q] > 0
    PROVE  Owed(q)'
<1>1. Backlogged(q)' /\ passed'[q] = IF Contest THEN passed[q] + 1 ELSE passed[q]
  BY DEF CountTurns
<1>2. /\ at = "recalc" /\ at' # "recalc" /\ len' = len /\ min_weight' = min_weight
      /\ contended' = [r \in DataQs |-> len[r] > 0]
      /\ weight' = [r \in DataQs |-> IF len[r] = 0 THEN 0
                                     ELSE IF Freshly(r) THEN wme_params[r]
                                     ELSE Reduced(weight[r])]
  BY DEF Recalculate, RecalculateWeights, Leave
<1>3. passed'[q] = passed[q] /\ Backlogged(q) /\ passed[q] \in Nat
  BY <1>1, <1>2 DEF Contest, TurnInv, OnlyWaiting, PassedTyped
<1>4. Owed(q)
  BY <1>3 DEF TurnInv
<1>5. /\ weight[q] \in Nat /\ min_weight \in Nat /\ weight'[q] = Reduced(weight[q])
      /\ NUM_EDCA_QUEUES \in Nat
  BY <1>2, <1>3, QueuesExist DEF SchedTypeOK, Backlogged, Freshly
<1>6. /\ IsFiniteSet(Costless(q)) /\ Cardinality(Costless(q)) \in Nat
  BY LeftBounded DEF TurnInv
<1>7. /\ IsFiniteSet(Costless(q)') /\ Cardinality(Costless(q)') \in Nat
      /\ Cardinality(Costless(q)') <= NUM_EDCA_QUEUES - 1
  <2>1. Costless(q)' \in SUBSET (DataQs \ {q})
    BY DEF Costless
  <2>2. QED
    BY <2>1, FewCostless
<1>8. Most(q)' = Most(q) /\ Most(q) \in Nat
  BY LeftBounded DEF TurnInv, Most
<1>9. CASE min_weight > 0
  <2>1. weight'[q] \in Nat /\ weight'[q] < weight[q]
    BY <1>2, <1>4, <1>5, <1>9 DEF Owed, Reduced
  <2>2. /\ weight'[q] * NUM_EDCA_QUEUES + NUM_EDCA_QUEUES <= weight[q] * NUM_EDCA_QUEUES
        /\ weight'[q] * NUM_EDCA_QUEUES \in Nat /\ weight[q] * NUM_EDCA_QUEUES \in Nat
    BY <1>5, <2>1, Scaled
  <2>3. passed[q] + Left(q) <= Most(q) + 1
    BY <1>2, <1>4, <1>9 DEF Owed
  <2>4. /\ Left(q) = weight[q] * NUM_EDCA_QUEUES + Cardinality(Costless(q))
        /\ Left(q)' = weight'[q] * NUM_EDCA_QUEUES + Cardinality(Costless(q)')
    BY DEF Left
  <2>5. passed'[q] + Left(q)' <= Most(q)'
    BY <1>3, <1>5, <1>6, <1>7, <1>8, <2>2, <2>3, <2>4
  <2>6. QED
    BY <1>2, <2>5 DEF Owed
<1>10. CASE ~(min_weight > 0)
  <2>1. min_weight = 0
    BY <1>5, <1>10
  <2>2. \A r \in DataQs : Reduced(weight[r]) = weight[r]
    BY <2>1 DEF Reduced, SchedTypeOK
  <2>3. Costless(q)' \subseteq Costless(q)
    <3> SUFFICES ASSUME NEW f \in DataQs \ {q}, contended'[f], u8(weight'[f]) = 0
                 PROVE  contended[f] /\ u8(weight[f]) = 0
      BY DEF Costless
    <3>1. len[f] \in Nat /\ len[f] > 0 /\ ~(len[f] = 0)
      <4>1. f \in DataQs /\ f \in SoftQs
        BY QueueNumbers
      <4>2. len[f] \in Nat
        BY <4>1 DEF SchedTypeOK
      <4>3. contended'[f] => len[f] > 0
        BY ONLY <1>2, <4>1
      <4>4. QED
        BY <4>2, <4>3
    <3>2. weight'[f] = IF Freshly(f) THEN wme_params[f] ELSE weight[f]
      BY <1>2, <2>2, <3>1
    <3>3. ~Freshly(f)
      BY <3>2 DEF BackOffsKept
    <3>4. QED
      BY <3>1, <3>2, <3>3 DEF Freshly
  <2>4. Cardinality(Costless(q)') <= Cardinality(Costless(q))
    BY <1>6, <2>3, FS_Subset
  <2>5. weight'[q] = weight[q]
    BY <1>5, <2>2
  <2>6. passed[q] + Left(q) <= Most(q)
    BY <1>4, <1>10 DEF Owed
  <2>7. /\ Left(q) = weight[q] * NUM_EDCA_QUEUES + Cardinality(Costless(q))
        /\ Left(q)' = weight[q] * NUM_EDCA_QUEUES + Cardinality(Costless(q)')
        /\ weight[q] * NUM_EDCA_QUEUES \in Nat
    <3>1. weight[q] * NUM_EDCA_QUEUES \in Nat
      BY <1>5
    <3>2. QED
      BY <2>5, <3>1 DEF Left
  <2>8. passed'[q] + Left(q)' <= Most(q)'
    BY <1>3, <1>6, <1>7, <1>8, <2>4, <2>6, <2>7
  <2>9. QED
    BY <1>2, <2>8 DEF Owed
<1>11. QED
  BY <1>9, <1>10

\* Every step keeps the count within what is left.
LEMMA TurnsKept ==
    ASSUME SchedTypeOK, TurnInv, TurnNext PROVE TurnInv'
<1>1. SchedNext /\ CountTurns
  BY DEF TurnNext
<1>2. PassedTyped'
  <2> SUFFICES ASSUME NEW q \in DataQs
               PROVE  (IF ~Backlogged(q)' THEN 0 ELSE IF Contest THEN passed[q] + 1 ELSE passed[q]) \in Nat
    BY <1>1 DEF PassedTyped, CountTurns
  <2>1. passed[q] \in Nat
    BY DEF TurnInv, PassedTyped
  <2>2. QED
    BY <2>1
<1>3. WeightBounded'
  BY <1>1, WeightsKept DEF TurnInv
<1>4. OnlyWaiting'
  BY <1>1 DEF OnlyWaiting, CountTurns
<1>5. ASSUME BackOffsKept, NEW q \in DataQs, passed'[q] > 0 PROVE Owed(q)'
  <2>1. CASE SelectByWeight
    BY <1>1, <1>5, <2>1, ChoiceKeepsTurns
  <2>2. CASE Recalculate
    BY <1>1, <1>5, <2>2, RecalculationKeepsTurns
  <2>3. CASE SetContentionVals
    <3>1. ~contended'[q]
      BY <2>3 DEF SetContentionVals
    <3>2. passed'[q] = 0
      BY <1>1, <3>1 DEF CountTurns, Backlogged
    <3>3. QED
      BY <1>5, <3>2
  <2>4. CASE UNCHANGED qinfo /\ (at' = "recalc" <=> at = "recalc")
    <3>1. contended' = contended /\ weight' = weight /\ min_weight' = min_weight
      BY <2>4 DEF qinfo
    <3>2. ~Contest
      BY <2>4 DEF Contest
    <3>3. passed'[q] = passed[q]
      BY <1>1, <1>5, <3>2 DEF CountTurns
    <3>4. Owed(q)
      BY <1>5, <3>3 DEF TurnInv
    <3>5. Left(q)' = Left(q) /\ Most(q)' = Most(q)
      <4>1. Costless(q)' = Costless(q)
        BY <3>1 DEF Costless
      <4>2. QED
        BY <3>1, <4>1 DEF Left, Most
    <3>6. QED
      BY <2>4, <3>1, <3>3, <3>4, <3>5 DEF Owed
  <2>5. QED
    BY <1>1, <2>1, <2>2, <2>3, <2>4, StepsOfWeights
<1>6. BackOffsKept' = BackOffsKept
  BY DEF BackOffsKept
<1>7. QED
  BY <1>2, <1>3, <1>4, <1>5, <1>6 DEF TurnInv

\* No access category is passed for ever: a data queue with packets loses at most
\* Most(q) choices to the others before it wins one, however packets arrive
\* (rsi_core_determine_hal_queue, rsi_recalculate_weights).
THEOREM PassedBoundedly == TurnSpec => []PassedBounded
<1>1. TurnInit => SchedTypeOK /\ TurnInv
  <2> SUFFICES ASSUME TurnInit PROVE SchedTypeOK /\ TurnInv
    OBVIOUS
  <2>1. SchedTypeOK
    BY InitTyped DEF TurnInit
  <2>2. PassedTyped /\ \A q \in DataQs : passed[q] = 0
    BY DEF TurnInit, PassedTyped
  <2>3. WeightBounded
    BY ParamsKnown DEF TurnInit, SchedInit, WeightBounded
  <2>4. QED
    BY <2>1, <2>2, <2>3 DEF TurnInv, OnlyWaiting
<1>2. SchedTypeOK /\ TurnInv /\ [TurnNext]_turnVars => (SchedTypeOK /\ TurnInv)'
  <2> SUFFICES ASSUME SchedTypeOK, TurnInv, [TurnNext]_turnVars
               PROVE  (SchedTypeOK /\ TurnInv)'
    OBVIOUS
  <2>1. SchedTypeOK'
    BY TypeInductive DEF TurnNext, turnVars
  <2>2. CASE TurnNext
    BY <2>1, <2>2, TurnsKept
  <2>3. CASE UNCHANGED turnVars
    <3>1. UNCHANGED <<len, contended, weight, min_weight, at, passed>>
      BY <2>3 DEF turnVars, schedVars, qinfo
    <3>2. \A q \in DataQs : /\ Backlogged(q)' = Backlogged(q)
                            /\ Left(q)' = Left(q) /\ Most(q)' = Most(q)
      BY <3>1 DEF Backlogged, Left, Most, Costless
    <3>3. BackOffsKept' = BackOffsKept
      BY DEF BackOffsKept
    <3>4. \A q \in DataQs : Owed(q)' = Owed(q)
      BY <3>1, <3>2 DEF Owed
    <3>5. QED
      BY <2>1, <3>1, <3>2, <3>3, <3>4
      DEF TurnInv, PassedTyped, WeightBounded, OnlyWaiting
  <2>4. QED
    BY <2>2, <2>3
<1>3. SchedTypeOK /\ TurnInv => PassedBounded
  <2> SUFFICES ASSUME SchedTypeOK, TurnInv, BackOffsKept, NEW q \in DataQs
               PROVE  passed[q] <= Most(q)
    BY DEF PassedBounded
  <2>1. passed[q] \in Nat /\ Left(q) \in Nat /\ Most(q) \in Nat
    BY LeftBounded DEF TurnInv, PassedTyped
  <2>2. CASE passed[q] = 0
    BY <2>1, <2>2
  <2>3. CASE passed[q] > 0 /\ ~(at = "recalc" /\ min_weight > 0)
    <3>1. passed[q] + Left(q) <= Most(q)
      BY <2>3 DEF TurnInv, Owed
    <3>2. QED
      BY <2>1, <3>1
  <2>4. CASE passed[q] > 0 /\ at = "recalc" /\ min_weight > 0
    <3>1. weight[q] > 0 /\ passed[q] + Left(q) <= Most(q) + 1
      BY <2>4 DEF TurnInv, Owed
    <3>2. /\ weight[q] \in Nat /\ NUM_EDCA_QUEUES \in Nat /\ NUM_EDCA_QUEUES > 0
          /\ Cardinality(Costless(q)) \in Nat
      BY LeftBounded, QueuesExist DEF SchedTypeOK, TurnInv
    <3>3. 0 * NUM_EDCA_QUEUES + NUM_EDCA_QUEUES <= weight[q] * NUM_EDCA_QUEUES
      BY <3>1, <3>2, Scaled
    <3>4. Left(q) > 0
      BY <3>2, <3>3 DEF Left
    <3>5. QED
      BY <2>1, <3>1, <3>4
  <2>5. QED
    BY <2>1, <2>2, <2>3, <2>4
<1>4. QED
  BY <1>1, <1>2, <1>3, PTL DEF TurnSpec
=============================================================================
