---------------------------- MODULE Data_proofs ----------------------------
(***************************************************************************)
(* Proof of DataPathInv, for any number of frames and A-MSDUs and all the  *)
(* bounds of the flow control that FlowAssumption allows: the three parts  *)
(* share no variable, so each is proved of its own specification.  Then of *)
(* LifeInv, whatever goes wrong, and of TwtInv, for any number of flows,   *)
(* of retries and of frames in the air.                                    *)
(***************************************************************************)
EXTENDS DataPath, DriverLife, TwtLink, SequenceTheorems, TLAPS


-----------------------------------------------------------------------------
(* Flow control.                                                           *)

\* A queue above its bound is stopped, or rsi_core_xmit, which put the frame there, is about
\* to test it or has decided to stop it.
StopComes(q) ==
    qlen[q] > STOP_OWN[q] =>
        \/ q \in stopped
        \/ xmit.at = "queued" /\ xmit.q = q
        \/ xmit.at = "stop" /\ q \in xmit.stops

FlowIInv == FlowTypeOK /\ FlowInv /\ \A q \in ACs \ {"VI"} : StopComes(q)

\* With every soft queue empty, a dequeue wakes all of mac80211's.
LEMMA DrainedWakesAll ==
    ASSUME FlowAssumption, NEW l \in [ACs -> Nat], Drained(l)
    PROVE  Wakes(l) = ACs
BY DEF FlowAssumption, Drained, Wakes, WakesVI, ACs

\* No queue but VI's is woken above its bound.
LEMMA WokenIsShort ==
    ASSUME FlowAssumption, NEW l \in [ACs -> Nat], NEW q \in Wakes(l), q # "VI"
    PROVE  l[q] <= STOP_OWN[q]
BY DEF FlowAssumption, Wakes, ACs

LEMMA FlowInitial == FlowAssumption /\ FlowInit => FlowIInv
<1> SUFFICES ASSUME FlowAssumption, FlowInit PROVE FlowIInv
  OBVIOUS
<1>1. qlen \in [ACs -> Nat] /\ \A q \in ACs : qlen[q] = 0
  BY DEF FlowInit
<1>2. FlowTypeOK
  BY <1>1 DEF FlowInit, FlowTypeOK, ACs
<1>3. QueuesWoken /\ QueuesBounded
  BY <1>1 DEF FlowInit, QueuesWoken, QueuesBounded, FlowAssumption
<1>4. \A q \in ACs \ {"VI"} : StopComes(q)
  BY <1>1 DEF StopComes, FlowAssumption
<1> QED BY <1>2, <1>3, <1>4 DEF FlowIInv, FlowInv

\* mac80211 sends on a queue that is not stopped, so on one within its bound (rsi_core_xmit).
LEMMA QueuesKeeps == ASSUME FlowAssumption, FlowIInv, XmitQueues PROVE FlowIInv'
<1>1. PICK p \in ACs \ stopped :
        /\ qlen' = [qlen EXCEPT ![p] = @ + 1]
        /\ xmit' = [at |-> "queued", q |-> p, stops |-> {}]
  BY DEF XmitQueues
<1>2. xmit.at = "idle" /\ UNCHANGED <<stopped, edca, lateStop>>
  BY DEF XmitQueues
<1>3. qlen' \in [ACs -> Nat] /\ qlen'[p] = qlen[p] + 1 /\ \A q \in ACs \ {p} : qlen'[q] = qlen[q]
  BY <1>1 DEF FlowIInv, FlowTypeOK
<1>4. FlowTypeOK'
  BY <1>1, <1>2, <1>3 DEF FlowIInv, FlowTypeOK
<1>5. QueuesWoken'
  BY <1>3 DEF QueuesWoken, Drained, FlowIInv, FlowTypeOK
<1>6. \A q \in ACs \ {"VI"} : qlen'[q] <= STOP_OWN[q] + 1 /\ StopComes(q)'
  <2> SUFFICES ASSUME NEW q \in ACs \ {"VI"} PROVE qlen'[q] <= STOP_OWN[q] + 1 /\ StopComes(q)'
    OBVIOUS
  <2>1. /\ STOP_OWN[q] \in Nat /\ qlen[q] \in Nat /\ qlen[q] <= STOP_OWN[q] + 1 /\ StopComes(q)
    BY DEF FlowIInv, FlowInv, FlowTypeOK, FlowAssumption, QueuesBounded
  <2>2. CASE q = p
    <3>1. qlen[q] <= STOP_OWN[q]
      BY <1>1, <1>2, <2>1, <2>2 DEF StopComes
    <3> QED BY <1>1, <1>3, <2>1, <2>2, <3>1 DEF StopComes
  <2>3. CASE q # p
    BY <1>1, <1>2, <1>3, <2>1, <2>3 DEF StopComes
  <2> QED BY <2>2, <2>3
<1> QED BY <1>4, <1>5, <1>6 DEF FlowIInv, FlowInv, QueuesBounded

\* The lengths are tested: the frame's own queue is stopped when it is above its bound.
LEMMA XmitTestsKeeps == ASSUME FlowAssumption, FlowIInv, XmitTests PROVE FlowIInv'
<1>1. /\ xmit.at = "queued" /\ xmit' = [xmit EXCEPT !.at = "stop", !.stops = OwnStops(xmit.q) \cup OtherStops]
      /\ UNCHANGED <<qlen, stopped, edca, lateStop>>
  BY DEF XmitTests
<1>2. OwnStops(xmit.q) \cup OtherStops \subseteq ACs
  BY DEF OwnStops, OtherStops, LateStops, EarlyStops, ACs, FlowIInv, FlowTypeOK
<1>3. FlowTypeOK'
  BY <1>1, <1>2 DEF FlowIInv, FlowTypeOK
<1>4. QueuesWoken' /\ QueuesBounded'
  BY <1>1 DEF FlowIInv, FlowInv, QueuesWoken, QueuesBounded, Drained
<1>5. ASSUME NEW q \in ACs \ {"VI"} PROVE StopComes(q)'
  <2>1. StopComes(q)
    BY DEF FlowIInv
  <2>2. qlen[q] > STOP_OWN[q] /\ xmit.q = q => q \in OwnStops(xmit.q)
    BY DEF OwnStops
  <2>3. xmit'.at = "stop" /\ xmit'.stops = OwnStops(xmit.q) \cup OtherStops
    BY <1>1 DEF FlowIInv, FlowTypeOK
  <2> QED BY <1>1, <2>1, <2>2, <2>3 DEF StopComes
<1> QED BY <1>3, <1>4, <1>5 DEF FlowIInv, FlowInv

\* The queues are stopped; if all frames have left meanwhile, the stop is late.
LEMMA StopsKeeps == ASSUME FlowAssumption, FlowIInv, XmitStops PROVE FlowIInv'
<1>1. /\ xmit.at = "stop" /\ stopped' = stopped \cup xmit.stops
      /\ lateStop' = (Drained(qlen) /\ stopped' # {})
      /\ xmit' = [at |-> "idle", q |-> "BE", stops |-> {}]
      /\ UNCHANGED <<qlen, edca>>
  BY DEF XmitStops
<1>2. lateStop' \in BOOLEAN
  BY <1>1
<1>3. FlowTypeOK'
  BY <1>1, <1>2 DEF FlowIInv, FlowTypeOK, ACs
<1>4. QueuesWoken'
  BY <1>1 DEF QueuesWoken, Drained
<1>5. QueuesBounded' /\ \A q \in ACs \ {"VI"} : StopComes(q)'
  BY <1>1 DEF FlowIInv, FlowInv, QueuesBounded, StopComes
<1> QED BY <1>3, <1>4, <1>5 DEF FlowIInv, FlowInv

\* A frame leaves, and the queues its going has made short are woken.
LEMMA DequeuesKeeps == ASSUME FlowAssumption, FlowIInv, Dequeues PROVE FlowIInv'
<1>1. PICK p \in ACs : qlen[p] > 0 /\ qlen' = [qlen EXCEPT ![p] = @ - 1]
  BY DEF Dequeues
<1>2. /\ stopped' = stopped \ Wakes(qlen') /\ lateStop' = (lateStop /\ stopped' # {})
      /\ UNCHANGED <<xmit, edca>>
  BY DEF Dequeues
<1>3. qlen' \in [ACs -> Nat] /\ \A q \in ACs : qlen'[q] <= qlen[q]
  BY <1>1 DEF FlowIInv, FlowTypeOK
<1>4. FlowTypeOK'
  <2>1. lateStop' \in BOOLEAN
    BY <1>2
  <2> QED BY <1>2, <1>3, <2>1 DEF FlowIInv, FlowTypeOK
<1>5. QueuesWoken'
  <2> SUFFICES ASSUME Drained(qlen') PROVE stopped' = {}
    BY DEF QueuesWoken
  <2>1. Wakes(qlen') = ACs
    BY <1>3, DrainedWakesAll
  <2> QED BY <1>2, <2>1 DEF FlowIInv, FlowTypeOK
<1>6. \A q \in ACs \ {"VI"} : qlen'[q] <= STOP_OWN[q] + 1 /\ StopComes(q)'
  <2> SUFFICES ASSUME NEW q \in ACs \ {"VI"} PROVE qlen'[q] <= STOP_OWN[q] + 1 /\ StopComes(q)'
    OBVIOUS
  <2>1. /\ STOP_OWN[q] \in Nat /\ qlen[q] \in Nat /\ qlen'[q] \in Nat /\ qlen'[q] <= qlen[q]
        /\ qlen[q] <= STOP_OWN[q] + 1 /\ StopComes(q)
    BY <1>3 DEF FlowIInv, FlowInv, FlowTypeOK, FlowAssumption, QueuesBounded
  <2>2. q \in Wakes(qlen') => qlen'[q] <= STOP_OWN[q]
    BY <1>3, WokenIsShort
  <2>3. qlen'[q] <= STOP_OWN[q] + 1
    BY <2>1
  <2>4. StopComes(q)'
    BY <1>2, <2>1, <2>2 DEF StopComes
  <2> QED BY <2>3, <2>4
<1> QED BY <1>4, <1>5, <1>6 DEF FlowIInv, FlowInv, QueuesBounded

LEMMA FlowStep == FlowAssumption /\ FlowIInv /\ [FlowNext]_flowVars => FlowIInv'
<1> SUFFICES ASSUME FlowAssumption, FlowIInv, [FlowNext]_flowVars PROVE FlowIInv'
  OBVIOUS
<1>1. CASE XmitQueues
  BY <1>1, QueuesKeeps
<1>2. CASE XmitTests
  BY <1>2, XmitTestsKeeps
<1>3. CASE XmitStops
  BY <1>3, StopsKeeps
<1>4. CASE Dequeues
  BY <1>4, DequeuesKeeps
<1>5. CASE UNCHANGED flowVars
  BY <1>5 DEF flowVars, FlowIInv, FlowInv, FlowTypeOK, QueuesWoken, QueuesBounded, Drained, StopComes
<1> QED BY <1>1, <1>2, <1>3, <1>4, <1>5 DEF FlowNext

\* Flow control between mac80211 and the soft queues (core.c:276-336, 692-750): a drained
\* driver leaves no queue stopped unless the stop came late, and no queue but VI's grows
\* more than one frame beyond its bound, whatever the bounds.
THEOREM QueuesAreWokenAndBounded == FlowSpec => []FlowInv
<1>1. FlowInit => FlowIInv
  BY FlowInitial, FlowAssumption
<1>2. FlowIInv /\ [FlowNext]_flowVars => FlowIInv'
  BY FlowStep, FlowAssumption
<1>3. FlowIInv => FlowInv
  BY DEF FlowIInv
<1> QED BY <1>1, <1>2, <1>3, PTL DEF FlowSpec

-----------------------------------------------------------------------------
(* The header of an A-MSDU.                                                *)

\* What is in the buffer follows what the device sent before: at most two packets, the
\* second continues the first, and the last part says what the air looks like.
BufferInv ==
    /\ Len(buffer) <= 2
    /\ Len(buffer) = 1 /\ buffer[1].part \in Parts =>
          air = [id |-> buffer[1].id, open |-> buffer[1].part # "last"]
    /\ Len(buffer) = 2 /\ buffer[2].part \in Parts =>
          air = [id |-> buffer[2].id, open |-> buffer[2].part # "last"]
    /\ Len(buffer) = 2 /\ buffer[1].part \in Parts /\ buffer[2].part \notin Parts =>
          air = [id |-> buffer[1].id, open |-> buffer[1].part # "last"]
    /\ Len(buffer) = 2 /\ buffer[1].part \in Parts /\ buffer[2].part \in {"middle", "last"} =>
          buffer[1].part # "last" /\ buffer[1].id = buffer[2].id

\* While nothing went wrong, the A-MSDU under way is the one whose header is kept.
HeaderInv ==
    rxUpset = {} =>
        /\ inside = FALSE => amsdu_bit = 0
        /\ Len(buffer) \in {1, 2} /\ buffer[1].part \in {"middle", "last"} =>
              inside = TRUE /\ last_mac_hdr = buffer[1].id
        /\ Len(buffer) = 2 /\ buffer[1].part \notin Parts /\ buffer[2].part \in {"middle", "last"} =>
              inside = TRUE /\ last_mac_hdr = buffer[2].id
        /\ air.open = TRUE /\ (\A i \in 1..Len(buffer) : buffer[i].part \notin Parts) =>
              inside = TRUE /\ last_mac_hdr = air.id

RxIInv == RxTypeOK /\ BufferInv /\ HeaderInv /\ HeadersBelong

\* A buffer with a packet taken from it, and one with a packet more.
LEMMA TailOfBuffer ==
    ASSUME NEW b \in Seq(Packets), b # <<>>, Len(b) <= 2
    PROVE  /\ Head(b) = b[1] /\ b[1] \in Packets /\ Len(b) \in {1, 2}
           /\ Tail(b) \in Seq(Packets) /\ Len(Tail(b)) = Len(b) - 1
           /\ Len(b) = 2 => Tail(b)[1] = b[2] /\ b[2] \in Packets
<1>1. /\ Tail(b) \in Seq(Packets) /\ Len(Tail(b)) = Len(b) - 1
      /\ \A i \in 1..Len(Tail(b)) : Tail(b)[i] = b[i + 1]
  BY HeadTailProperties
<1>2. Len(b) \in {1, 2}
  BY <1>1
<1>3. Len(b) = 2 => Tail(b)[1] = b[2]
  <2> SUFFICES ASSUME Len(b) = 2 PROVE Tail(b)[1] = b[2]
    OBVIOUS
  <2>1. 1 \in 1..Len(Tail(b)) /\ 1 + 1 = 2
    BY <1>1
  <2> QED BY <1>1, <2>1
<1> QED BY <1>1, <1>2, <1>3

LEMMA AppendToBuffer ==
    ASSUME NEW b \in Seq(Packets), Len(b) < 2, NEW p \in Packets
    PROVE  /\ Append(b, p) \in Seq(Packets) /\ Len(b) \in {0, 1}
           /\ Len(b) = 0 => Len(Append(b, p)) = 1 /\ Append(b, p)[1] = p
           /\ Len(b) = 1 => Len(Append(b, p)) = 2 /\ Append(b, p)[1] = b[1] /\ Append(b, p)[2] = p
BY SMTT(40)

LEMMA RxInitial == RxAssumption /\ RxInit => RxIInv
<1> SUFFICES ASSUME RxAssumption, RxInit PROVE RxIInv
  OBVIOUS
<1>1. buffer \in Seq(Packets) /\ Len(buffer) = 0
  BY DEF RxInit
<1>2. RxTypeOK
  <2>1. rx_down \in BOOLEAN /\ inside \in BOOLEAN
    BY DEF RxInit
  <2>2. amsdu_bit \in 0..3 /\ last_mac_hdr \in Headers /\ rxUpset \subseteq {"lost", "between", "down"}
    BY DEF RxInit, Headers, Zeroed, RxAssumption
  <2>3. air \in [id : 0..MAX_AMSDUS, open : BOOLEAN]
    BY DEF RxInit, RxAssumption
  <2>4. given \in [part : Parts \cup Singles, id : 0..MAX_AMSDUS, hdr : Headers]
    BY DEF RxInit, RxAssumption, Headers, Singles, NoHeader, Zeroed
  <2> QED BY <1>1, <2>1, <2>2, <2>3, <2>4 DEF RxTypeOK
<1>3. BufferInv /\ HeaderInv /\ HeadersBelong
  BY <1>1 DEF RxInit, BufferInv, HeaderInv, HeadersBelong
<1> QED BY <1>2, <1>3 DEF RxIInv

\* The device fills the buffer in the order of the subframes.
LEMMA FillsKeeps == ASSUME RxAssumption, RxIInv, DeviceFills PROVE RxIInv'
<1>1. PICK p \in NextPackets :
        /\ buffer' = Append(buffer, p)
        /\ air' = IF p.part \notin Parts THEN air ELSE [id |-> p.id, open |-> p.part # "last"]
  BY DEF DeviceFills
<1>2. Len(buffer) < 2 /\ UNCHANGED <<rx_down, amsdu_bit, last_mac_hdr, given, inside, rxUpset>>
  BY DEF DeviceFills
<1>3. /\ p \in Packets
      /\ p.part = "first" => air.open = FALSE
      /\ p.part \in {"middle", "last"} => air.open = TRUE /\ p.id = air.id
  BY DEF NextPackets, Parts, Singles, RxIInv, RxTypeOK
<1>4. /\ buffer' \in Seq(Packets) /\ Len(buffer) \in {0, 1}
      /\ Len(buffer) = 0 => Len(buffer') = 1 /\ buffer'[1] = p
      /\ Len(buffer) = 1 => Len(buffer') = 2 /\ buffer'[1] = buffer[1] /\ buffer'[2] = p
  BY <1>1, <1>2, <1>3, AppendToBuffer DEF RxIInv, RxTypeOK
<1>5. RxTypeOK'
  <2>1. air' \in [id : 0..MAX_AMSDUS, open : BOOLEAN]
    <3>1. [id |-> p.id, open |-> p.part # "last"] \in [id : 0..MAX_AMSDUS, open : BOOLEAN]
      BY <1>3 DEF Packets
    <3> QED BY <1>1, <3>1 DEF RxIInv, RxTypeOK
  <2> QED BY <1>2, <1>4, <2>1 DEF RxIInv, RxTypeOK
<1>6. BufferInv'
  <2>1. CASE Len(buffer) = 0
    BY <1>1, <1>4, <2>1 DEF BufferInv
  <2>2. CASE Len(buffer) = 1
    <3>1. p.part \in {"middle", "last"} /\ buffer[1].part \in Parts =>
            buffer[1].part # "last" /\ buffer[1].id = p.id
      <4> SUFFICES ASSUME p.part \in {"middle", "last"}, buffer[1].part \in Parts
                   PROVE  buffer[1].part # "last" /\ buffer[1].id = p.id
        OBVIOUS
      <4>1. air = [id |-> buffer[1].id, open |-> buffer[1].part # "last"]
        BY <2>2 DEF RxIInv, BufferInv
      <4>2. air.id = buffer[1].id /\ (air.open = TRUE => buffer[1].part # "last")
        BY <4>1
      <4> QED BY <1>3, <4>2
    <3> QED BY <1>1, <1>4, <2>2, <3>1 DEF RxIInv, BufferInv, Parts
  <2> QED BY <1>4, <2>1, <2>2
<1>7. HeaderInv'
  <2> SUFFICES ASSUME rxUpset' = {} PROVE HeaderInv'
    BY DEF HeaderInv
  <2>1. CASE Len(buffer) = 0
    <3>1. air.open = TRUE => inside = TRUE /\ last_mac_hdr = air.id
      BY <1>2, <2>1 DEF RxIInv, HeaderInv
    <3>2. p.part \notin Parts => air' = air
      BY <1>1
    <3> QED BY <1>2, <1>3, <1>4, <2>1, <3>1, <3>2, SMTT(40) DEF RxIInv, HeaderInv, Parts
  <2>2. CASE Len(buffer) = 1
    <3>1. air.open = TRUE /\ buffer[1].part \notin Parts => inside = TRUE /\ last_mac_hdr = air.id
      BY <1>2, <2>2 DEF RxIInv, HeaderInv
    <3>2. p.part \notin Parts => air' = air
      BY <1>1
    <3> QED BY <1>2, <1>3, <1>4, <2>2, <3>1, <3>2 DEF RxIInv, HeaderInv, Parts
  <2> QED BY <1>4, <2>1, <2>2
<1>8. HeadersBelong'
  BY <1>2 DEF RxIInv, HeadersBelong
<1> QED BY <1>5, <1>6, <1>7, <1>8 DEF RxIInv

\* A data packet is read: the first subframe's header is kept, the later ones get it.
LEMMA ReadDataKeeps ==
    ASSUME RxAssumption, RxIInv, NEW p \in Packets, ReadData(p)
    PROVE  RxIInv'
<1>1. /\ buffer # <<>> /\ Head(buffer) = p /\ buffer' = Tail(buffer)
      /\ p.part \in Parts \cup {"single"}
      /\ IndicateToOs(p, BitOf(p.part))
      /\ inside' = IF p.part = "single" THEN inside ELSE p.part # "last"
      /\ UNCHANGED <<rx_down, air>>
  BY DEF ReadData, Takes, Left
<1>2. /\ p = buffer[1] /\ Len(buffer) \in {1, 2}
      /\ buffer' \in Seq(Packets) /\ Len(buffer') = Len(buffer) - 1
      /\ Len(buffer) = 2 => buffer'[1] = buffer[2] /\ buffer[2] \in Packets
  BY <1>1, TailOfBuffer DEF RxIInv, RxTypeOK, BufferInv
<1>3. inside' \in BOOLEAN
  BY <1>1 DEF RxIInv, RxTypeOK
<1>4. BitOf(p.part) \in 0..3
  BY DEF BitOf, RxIInv, RxTypeOK
<1>5. RxTypeOK'
  <2>1. amsdu_bit' \in 0..3 /\ rxUpset' \subseteq {"lost", "between", "down"}
    <3>1. amsdu_bit' \in 0..3
      BY <1>1, <1>4 DEF IndicateToOs, BitAfter
    <3>2. rxUpset' \in {rxUpset, rxUpset \cup {"down"}, Disturbs(p)}
      BY <1>1 DEF IndicateToOs
    <3>3. Disturbs(p) \subseteq rxUpset \cup {"between"}
      BY DEF Disturbs
    <3>4. rxUpset' \subseteq {"lost", "between", "down"}
      BY <3>2, <3>3 DEF RxIInv, RxTypeOK
    <3> QED BY <3>1, <3>4
  <2>2. HeaderOf(p) \in Headers /\ Zeroed \in Headers /\ NoHeader \in Headers
    BY DEF HeaderOf, Other, Zeroed, NoHeader, Headers, Packets, RxAssumption
  <2>3. last_mac_hdr' \in Headers
    BY <1>1, <2>2 DEF IndicateToOs, KeptHeader, RxIInv, RxTypeOK
  <2>4. given' \in [part : Parts \cup Singles, id : 0..MAX_AMSDUS, hdr : Headers]
    <3>1. Pushed(BitOf(p.part)) \in Headers
      BY <2>2 DEF Pushed, RxIInv, RxTypeOK
    <3>2. [part |-> p.part, id |-> p.id, hdr |-> Pushed(BitOf(p.part))]
             \in [part : Parts \cup Singles, id : 0..MAX_AMSDUS, hdr : Headers]
      BY <1>1, <3>1 DEF Packets, Singles
    <3> QED BY <1>1, <3>2 DEF IndicateToOs, RxIInv, RxTypeOK
  <2> QED BY <1>1, <1>2, <1>3, <2>1, <2>3, <2>4 DEF RxIInv, RxTypeOK
<1>6. BufferInv'
  BY <1>1, <1>2 DEF RxIInv, BufferInv
<1>7. CASE p.part = "first" /\ rxUpset' = {}
  <2>1. rx_down = FALSE
    BY <1>1, <1>7 DEF IndicateToOs, Parts, RxIInv, RxTypeOK
  <2>2. /\ last_mac_hdr' = p.id /\ amsdu_bit' = 1 /\ inside' = TRUE
        /\ given' = [part |-> "first", id |-> p.id, hdr |-> NoHeader]
    <3>1. BitOf(p.part) = 1
      BY <1>7 DEF BitOf
    <3>2. last_mac_hdr' = p.id /\ amsdu_bit' = 1
      BY <1>1, <1>7, <2>1, <3>1 DEF IndicateToOs, KeptHeader, HeaderOf, BitAfter, Parts
    <3>3. given' = [part |-> "first", id |-> p.id, hdr |-> NoHeader]
      BY <1>1, <1>7, <2>1, <3>1 DEF IndicateToOs, Pushed
    <3>4. inside' = TRUE
      BY <1>1, <1>7
    <3> QED BY <3>2, <3>3, <3>4
  <2>3. HeadersBelong'
    BY <2>2 DEF HeadersBelong
  <2>4. HeaderInv'
    <3>1. Len(buffer) = 1 => air.id = p.id
      BY <1>2, <1>7 DEF RxIInv, BufferInv, Parts
    <3>2. Len(buffer) = 2 /\ buffer[2].part \in {"middle", "last"} => buffer[2].id = p.id
      BY <1>2, <1>7 DEF RxIInv, BufferInv, Parts
    <3>3. Len(buffer) = 2 /\ buffer[2].part \notin Parts => air.id = p.id
      BY <1>2, <1>7 DEF RxIInv, BufferInv, Parts
    <3>4. last_mac_hdr' = p.id /\ amsdu_bit' = 1 /\ inside' = TRUE /\ air' = air
      BY <1>1, <2>2
    <3>5. Len(buffer') \in {1, 2} => Len(buffer) = 2 /\ Len(buffer') = 1 /\ buffer'[1] = buffer[2]
      BY <1>2
    <3>6. Len(buffer') \in {1, 2} /\ buffer'[1].part \in {"middle", "last"} => buffer'[1].id = p.id
      BY <3>2, <3>5
    <3>7. air'.open = TRUE /\ (\A i \in 1..Len(buffer') : buffer'[i].part \notin Parts) => air'.id = p.id
      <4>1. CASE Len(buffer) = 1
        BY <3>1, <3>4, <4>1
      <4>2. CASE Len(buffer) = 2
        <5>1. 1 \in 1..Len(buffer') /\ buffer'[1] = buffer[2]
          BY <1>2, <4>2
        <5> QED BY <3>3, <3>4, <4>2, <5>1
      <4> QED BY <1>2, <4>1, <4>2
    <3>8. Len(buffer') # 2
      BY <3>5
    <3> QED BY <3>4, <3>6, <3>7, <3>8 DEF HeaderInv
  <2> QED BY <1>5, <1>6, <2>3, <2>4 DEF RxIInv
<1>8. CASE p.part \in {"middle", "last"} /\ rxUpset' = {}
  <2>1. rx_down = FALSE /\ rxUpset = {}
    BY <1>1, <1>8 DEF IndicateToOs, Disturbs, Parts, RxIInv, RxTypeOK
  <2>2. inside = TRUE /\ last_mac_hdr = p.id
    BY <1>2, <1>8, <2>1 DEF RxIInv, HeaderInv
  <2>3. given' = [part |-> p.part, id |-> p.id, hdr |-> p.id]
    BY <1>1, <1>8, <2>1, <2>2 DEF IndicateToOs, BitOf, Pushed
  <2>4. HeadersBelong'
    BY <1>8, <2>3 DEF HeadersBelong
  <2>5. CASE p.part = "middle"
    <3>1. last_mac_hdr' = p.id /\ inside' = TRUE
      <4>1. last_mac_hdr' = p.id
        BY <1>1, <2>1, <2>2, <2>5 DEF IndicateToOs, BitOf, KeptHeader
      <4>2. inside' = TRUE
        BY <1>1, <2>5
      <4> QED BY <4>1, <4>2
    <3>2. Len(buffer) = 1 => air.id = p.id
      BY <1>2, <2>5 DEF RxIInv, BufferInv, Parts
    <3>3. Len(buffer) = 2 /\ buffer[2].part \in {"middle", "last"} => buffer[2].id = p.id
      BY <1>2, <2>5 DEF RxIInv, BufferInv, Parts
    <3>4. Len(buffer) = 2 /\ buffer[2].part \notin Parts => air.id = p.id
      BY <1>2, <2>5 DEF RxIInv, BufferInv, Parts
    <3>5. HeaderInv'
      BY <1>1, <1>2, <3>1, <3>2, <3>3, <3>4 DEF HeaderInv
    <3> QED BY <1>5, <1>6, <2>4, <3>5 DEF RxIInv
  <2>6. CASE p.part = "last"
    <3>1. amsdu_bit' = 0
      BY <1>1, <2>1, <2>6 DEF IndicateToOs, BitOf, BitAfter
    <3>2. Len(buffer) = 1 => air.open = FALSE
      <4> SUFFICES ASSUME Len(buffer) = 1 PROVE air.open = FALSE
        OBVIOUS
      <4>1. air = [id |-> buffer[1].id, open |-> buffer[1].part # "last"]
        BY <1>2, <2>6 DEF RxIInv, BufferInv, Parts
      <4>2. buffer[1].part = "last"
        BY <1>2, <2>6
      <4> QED BY <4>1, <4>2
    <3>3. Len(buffer) = 2 => buffer[2].part \notin {"middle", "last"}
      BY <1>2, <2>6 DEF RxIInv, BufferInv, Parts
    <3>4. Len(buffer) = 2 /\ buffer[2].part \notin Parts => air.open = FALSE
      <4> SUFFICES ASSUME Len(buffer) = 2, buffer[2].part \notin Parts PROVE air.open = FALSE
        OBVIOUS
      <4>1. air = [id |-> buffer[1].id, open |-> buffer[1].part # "last"]
        BY <1>2, <2>6 DEF RxIInv, BufferInv, Parts
      <4>2. buffer[1].part = "last"
        BY <1>2, <2>6
      <4> QED BY <4>1, <4>2
    <3>5. HeaderInv'
      BY <1>1, <1>2, <3>1, <3>2, <3>3, <3>4 DEF HeaderInv
    <3> QED BY <1>5, <1>6, <2>4, <3>5 DEF RxIInv
  <2> QED BY <1>8, <2>5, <2>6
<1>9. CASE p.part = "single" /\ rxUpset' = {}
  <2>1. rxUpset = {} /\ (rx_down = FALSE => inside = FALSE)
    BY <1>1, <1>9 DEF IndicateToOs, Disturbs, Parts, Singles, RxIInv, RxTypeOK
  <2>2. inside' = inside /\ BitOf(p.part) = amsdu_bit
    BY <1>1, <1>9 DEF BitOf
  <2>3. rx_down = FALSE => amsdu_bit = 0
    BY <2>1 DEF RxIInv, HeaderInv
  <2>4. /\ amsdu_bit' = amsdu_bit /\ last_mac_hdr' = last_mac_hdr
        /\ given' = given \/ given' = [part |-> "single", id |-> p.id, hdr |-> NoHeader]
    BY <1>1, <1>9, <2>2, <2>3 DEF IndicateToOs, KeptHeader, BitAfter, Pushed, RxIInv, RxTypeOK
  <2>5. HeadersBelong'
    BY <2>1, <2>4 DEF RxIInv, HeadersBelong
  <2>6. HeaderInv'
    <3>1. p.part \notin Parts /\ p.part \notin {"middle", "last"}
      BY <1>9 DEF Parts
    <3>2. \A i \in 1..Len(buffer) : i = 1 \/ i = 2
      BY <1>2
    <3> QED BY <1>1, <1>2, <2>1, <2>2, <2>4, <3>1, <3>2 DEF RxIInv, HeaderInv
  <2> QED BY <1>5, <1>6, <2>5, <2>6 DEF RxIInv
<1>10. CASE rxUpset' # {}
  BY <1>5, <1>6, <1>10 DEF RxIInv, HeaderInv, HeadersBelong
<1> QED BY <1>1, <1>7, <1>8, <1>9, <1>10 DEF Parts

\* A frame of the management queue is read: one between the subframes disturbs them.
LEMMA ReadMgmtKeeps ==
    ASSUME RxAssumption, RxIInv, NEW p \in Packets, ReadMgmt(p)
    PROVE  RxIInv'
<1>1. /\ buffer # <<>> /\ Head(buffer) = p /\ buffer' = Tail(buffer) /\ p.part = "mgmt"
      /\ UNCHANGED <<rx_down, air, inside>>
  BY DEF ReadMgmt, Takes, Left
<1>2. /\ p = buffer[1] /\ Len(buffer) \in {1, 2}
      /\ buffer' \in Seq(Packets) /\ Len(buffer') = Len(buffer) - 1
      /\ Len(buffer) = 2 => buffer'[1] = buffer[2] /\ buffer[2] \in Packets
  BY <1>1, TailOfBuffer DEF RxIInv, RxTypeOK, BufferInv
<1>3. BufferInv'
  BY <1>1, <1>2 DEF RxIInv, BufferInv
<1>4. p.part \notin Parts /\ p.part \in Singles /\ (\A i \in 1..Len(buffer) : i = 1 \/ i = 2)
  BY <1>1, <1>2 DEF Parts, Singles
<1>5. CASE rx_down = TRUE
  <2>1. UNCHANGED <<amsdu_bit, last_mac_hdr, given, rxUpset>>
    BY <1>5 DEF ReadMgmt
  <2>2. RxTypeOK'
    BY <1>1, <1>2, <2>1 DEF RxIInv, RxTypeOK
  <2>3. HeadersBelong'
    BY <2>1 DEF RxIInv, HeadersBelong
  <2>4. HeaderInv'
    BY <1>1, <1>2, <1>4, <2>1 DEF RxIInv, HeaderInv
  <2> QED BY <1>3, <2>2, <2>3, <2>4 DEF RxIInv
<1>6. CASE rx_down = FALSE
  <2>1. /\ last_mac_hdr' = KeptHeader(amsdu_bit, p) /\ amsdu_bit' = BitAfter(amsdu_bit)
        /\ given' = [part |-> p.part, id |-> p.id, hdr |-> Pushed(amsdu_bit)]
        /\ rxUpset' = Disturbs(p)
    BY <1>6 DEF ReadMgmt, IndicateToOs
  <2>2. RxTypeOK'
    <3>1. amsdu_bit' \in 0..3
      BY <2>1 DEF BitAfter, RxIInv, RxTypeOK
    <3>2. rxUpset' \subseteq {"lost", "between", "down"}
      BY <2>1 DEF Disturbs, RxIInv, RxTypeOK
    <3>3. Other \in Headers /\ Zeroed \in Headers /\ NoHeader \in Headers
      BY DEF Other, Zeroed, NoHeader, Headers, RxAssumption
    <3>4. last_mac_hdr' \in Headers
      BY <1>4, <2>1, <3>3 DEF KeptHeader, HeaderOf, RxIInv, RxTypeOK
    <3>5. Pushed(amsdu_bit) \in Headers
      BY <3>3 DEF Pushed, RxIInv, RxTypeOK
    <3>6. given' \in [part : Parts \cup Singles, id : 0..MAX_AMSDUS, hdr : Headers]
      BY <1>4, <2>1, <3>5 DEF Packets
    <3> QED BY <1>1, <1>2, <3>1, <3>2, <3>4, <3>6 DEF RxIInv, RxTypeOK
  <2>3. CASE rxUpset' = {}
    <3>1. rxUpset = {} /\ inside = FALSE
      BY <1>1, <1>4, <2>1, <2>3 DEF Disturbs, RxIInv, RxTypeOK
    <3>2. amsdu_bit = 0
      BY <3>1 DEF RxIInv, HeaderInv
    <3>3. /\ amsdu_bit' = 0 /\ last_mac_hdr' = last_mac_hdr
          /\ given' = [part |-> "mgmt", id |-> p.id, hdr |-> NoHeader]
      BY <1>1, <2>1, <3>2 DEF KeptHeader, BitAfter, Pushed
    <3>4. HeadersBelong'
      BY <3>3 DEF HeadersBelong
    <3>5. HeaderInv'
      BY <1>1, <1>2, <1>4, <3>1, <3>3, SMTT(40) DEF RxIInv, HeaderInv
    <3> QED BY <1>3, <2>2, <3>4, <3>5 DEF RxIInv
  <2>4. CASE rxUpset' # {}
    BY <1>3, <2>2, <2>4 DEF RxIInv, HeaderInv, HeadersBelong
  <2> QED BY <2>3, <2>4
<1> QED BY <1>5, <1>6 DEF RxIInv, RxTypeOK

\* The rest of a buffer that cannot be read is thrown away.
LEMMA UnreadableKeeps ==
    ASSUME RxIInv, NEW p \in Packets, PacketUnreadable(p)
    PROVE  RxIInv'
<1>1. /\ buffer' = <<>>
      /\ rxUpset' = rxUpset \cup (IF \E i \in DOMAIN buffer : buffer[i].part \in Parts THEN {"lost"} ELSE {})
      /\ UNCHANGED <<rx_down, amsdu_bit, last_mac_hdr, air, given, inside>>
  BY DEF PacketUnreadable
<1>2. buffer' \in Seq(Packets) /\ Len(buffer') = 0 /\ DOMAIN buffer = 1..Len(buffer)
  BY <1>1 DEF RxIInv, RxTypeOK
<1>3. RxTypeOK'
  <2>1. rxUpset' \subseteq {"lost", "between", "down"}
    BY <1>1 DEF RxIInv, RxTypeOK
  <2> QED BY <1>1, <1>2, <2>1 DEF RxIInv, RxTypeOK
<1>4. BufferInv'
  BY <1>2 DEF BufferInv
<1>5. HeaderInv' /\ HeadersBelong'
  <2>1. CASE rxUpset' = {}
    <3>1. rxUpset = {} /\ \A i \in 1..Len(buffer) : buffer[i].part \notin Parts
      BY <1>1, <1>2, <2>1
    <3>2. HeadersBelong'
      BY <1>1, <3>1 DEF RxIInv, HeadersBelong
    <3>3. HeaderInv'
      BY <1>1, <1>2, <3>1 DEF RxIInv, HeaderInv
    <3> QED BY <3>2, <3>3
  <2>2. CASE rxUpset' # {}
    BY <2>2 DEF HeaderInv, HeadersBelong
  <2> QED BY <2>1, <2>2
<1> QED BY <1>3, <1>4, <1>5 DEF RxIInv

LEMMA RxStep == RxAssumption /\ RxIInv /\ [RxNext]_rxVars => RxIInv'
<1> SUFFICES ASSUME RxAssumption, RxIInv, [RxNext]_rxVars PROVE RxIInv'
  OBVIOUS
<1>1. CASE DeviceFills
  BY <1>1, FillsKeeps
<1>2. CASE RxIfaceChanges
  <2>1. UNCHANGED <<amsdu_bit, last_mac_hdr, air, buffer, given, inside, rxUpset>> /\ rx_down' = ~rx_down
    BY <1>2 DEF RxIfaceChanges
  <2>2. rx_down' \in BOOLEAN
    BY <2>1
  <2>3. RxTypeOK'
    BY <2>1, <2>2 DEF RxIInv, RxTypeOK
  <2>4. BufferInv' /\ HeaderInv' /\ HeadersBelong'
    BY <2>1 DEF RxIInv, BufferInv, HeaderInv, HeadersBelong
  <2> QED BY <2>3, <2>4 DEF RxIInv
<1>3. CASE \E p \in Packets : ReadData(p) \/ ReadMgmt(p) \/ PacketUnreadable(p)
  BY <1>3, ReadDataKeeps, ReadMgmtKeeps, UnreadableKeeps
<1>4. CASE UNCHANGED rxVars
  <2>1. RxTypeOK'
    BY <1>4 DEF rxVars, RxIInv, RxTypeOK
  <2>2. BufferInv' /\ HeaderInv' /\ HeadersBelong'
    BY <1>4 DEF rxVars, RxIInv, BufferInv, HeaderInv, HeadersBelong
  <2> QED BY <2>1, <2>2 DEF RxIInv
<1> QED BY <1>1, <1>2, <1>3, <1>4 DEF RxNext

\* A subframe of an A-MSDU is given to mac80211 with the header of its own first subframe,
\* every other frame with none before it, for any number of A-MSDUs
\* (rsi_indicate_pkt_to_os, mac80211.c:2773).
THEOREM SubframesGetTheirHeader == RxSpec => []HeadersBelong
<1>1. RxInit => RxIInv
  BY RxInitial, RxAssumption
<1>2. RxIInv /\ [RxNext]_rxVars => RxIInv'
  BY RxStep, RxAssumption
<1>3. RxIInv => HeadersBelong
  BY DEF RxIInv
<1> QED BY <1>1, <1>2, <1>3, PTL DEF RxSpec

-----------------------------------------------------------------------------
(* The life of a frame.                                                    *)

Confirmations == {"null", "eapol4", "old eapol4"}
Troubles == {"descriptor", "down", "overwritten", "not written", "late confirm", "oops"}
FrameRecords == [kind : Kinds, ends : 0..2, shake : {"none", "this", "rekey", "old"},
                 at : {"os", "mgmt_q", "data_q", "checked", "held", "gone"}]

FrameTypes ==
    /\ skb \in [Skbs -> FrameRecords]
    /\ mgmt_q \in Seq(Skbs) /\ sending \in Skbs \cup {None} /\ sta_skb \in Skbs \cup {None}
    /\ cfm \in Seq(Confirmations)
    /\ txUpset \subseteq Troubles
OsTypes ==
    /\ ap \in BOOLEAN /\ vif \in BOOLEAN /\ iface_down \in BOOLEAN /\ associated \in BOOLEAN
    /\ peer \in BOOLEAN /\ bgscan_en \in BOOLEAN
LinkTypes ==
    /\ data_blocked \in BOOLEAN /\ eapol4_confirm \in BOOLEAN /\ handshaken \in BOOLEAN

\* A confirmation of a null frame is due; at most one is.
HasNull(c) == \E i \in DOMAIN c : c[i] = "null"
OneNull(c) == \A i, j \in DOMAIN c : c[i] = "null" /\ c[j] = "null" => i = j

\* A frame that is not gone has not come back.
LiveInv == \A f \in Skbs : skb[f].at # "gone" => skb[f].ends = 0

\* The frame in sta_skb is a null frame with confirmation.  While none was overwritten there, it
\* is the one whose confirmation is due, and none is due while another is about to be written.
NullInv ==
    /\ sta_skb \in Skbs => skb[sta_skb].kind = "qosnull" /\ skb[sta_skb].at \in {"checked", "held", "gone"}
    /\ "overwritten" \notin txUpset =>
          /\ OneNull(cfm)
          /\ HasNull(cfm) => sta_skb \in Skbs /\ skb[sta_skb].at = "held"
          /\ "oops" \notin txUpset /\ sending \in Skbs =>
                (skb[sending].at = "checked" /\ skb[sending].kind = "qosnull"
                    => ~HasNull(cfm) /\ sta_skb = sending)

\* Without trouble, a kept frame is the one in sta_skb, and its confirmation is due.
HeldInv ==
    txUpset \cap {"not written", "overwritten", "oops"} = {} =>
        \A f \in Skbs : skb[f].at = "held" => f = sta_skb /\ HasNull(cfm)

\* EAPOL frames go to the data queue before this handshake is confirmed only after a late
\* confirmation of another.
HandshakeInv ==
    ap = FALSE /\ eapol4_confirm = TRUE /\ handshaken = FALSE => "late confirm" \in txUpset

\* A frame is at most once in the queue, and not there when it is being sent.
Distinct(q) == \A i, j \in DOMAIN q : q[i] = q[j] => i = j
QueueInv ==
    /\ Distinct(mgmt_q)
    /\ \A i \in DOMAIN mgmt_q : skb[mgmt_q[i]].at = "mgmt_q" /\ mgmt_q[i] # sending
    /\ sending \in Skbs => skb[sending].at # "os"

TxIInv ==
    /\ FrameTypes /\ OsTypes /\ LinkTypes
    /\ QueueInv /\ LiveInv /\ NullInv /\ HeldInv /\ HandshakeInv
    /\ EndsOnce /\ NothingLost /\ HandshakePasses

\* The confirmations that remain after the first was taken.
LEMMA TailOfCfm ==
    ASSUME NEW c \in Seq(Confirmations), c # <<>>
    PROVE  /\ Tail(c) \in Seq(Confirmations)
           /\ OneNull(c) => OneNull(Tail(c))
           /\ HasNull(Tail(c)) => HasNull(c)
           /\ Head(c) # "null" /\ HasNull(c) => HasNull(Tail(c))
           /\ Head(c) = "null" => HasNull(c) /\ (OneNull(c) => ~HasNull(Tail(c)))
<1> DEFINE t == Tail(c)
<1>1. /\ t \in Seq(Confirmations) /\ Len(t) = Len(c) - 1 /\ Len(c) \in Nat \ {0}
      /\ DOMAIN t = 1..Len(t) /\ DOMAIN c = 1..Len(c) /\ Head(c) = c[1]
      /\ \A i \in 1..Len(t) : t[i] = c[i + 1]
  BY HeadTailProperties, LenProperties, EmptySeq
<1> HIDE DEF t
<1>2. \A i \in DOMAIN t : i + 1 \in DOMAIN c /\ i + 1 # 1 /\ t[i] = c[i + 1] /\ i \in Int
  BY <1>1
<1>3. OneNull(c) => OneNull(t)
  <2> SUFFICES ASSUME OneNull(c), NEW i \in DOMAIN t, NEW j \in DOMAIN t, t[i] = "null", t[j] = "null"
               PROVE  i = j
    BY DEF OneNull
  <2>1. i + 1 = j + 1
    BY <1>2 DEF OneNull
  <2> QED BY <1>2, <2>1
<1>4. HasNull(t) => HasNull(c)
  BY <1>2 DEF HasNull
<1>5. Head(c) # "null" /\ HasNull(c) => HasNull(t)
  <2> SUFFICES ASSUME Head(c) # "null", NEW i \in DOMAIN c, c[i] = "null" PROVE HasNull(t)
    BY DEF HasNull
  <2>1. i - 1 \in DOMAIN t /\ t[i - 1] = c[i]
    BY <1>1
  <2> QED BY <2>1 DEF HasNull
<1>6. Head(c) = "null" => HasNull(c) /\ (OneNull(c) => ~HasNull(t))
  <2> SUFFICES ASSUME Head(c) = "null" PROVE HasNull(c) /\ (OneNull(c) => ~HasNull(t))
    OBVIOUS
  <2>1. 1 \in DOMAIN c /\ c[1] = "null"
    BY <1>1
  <2>2. ASSUME OneNull(c), NEW i \in DOMAIN t, t[i] = "null" PROVE FALSE
    BY <1>2, <2>1, <2>2 DEF OneNull
  <2> QED BY <2>1, <2>2 DEF HasNull
<1> QED BY <1>1, <1>3, <1>4, <1>5, <1>6 DEF t

\* A confirmation is due: it joins those due.
LEMMA CfmOwed ==
    ASSUME NEW c \in Seq(Confirmations), NEW x \in Confirmations
    PROVE  /\ c \o <<x>> \in Seq(Confirmations)
           /\ HasNull(c) => HasNull(c \o <<x>>)
           /\ x # "null" => (HasNull(c \o <<x>>) => HasNull(c)) /\ (OneNull(c) => OneNull(c \o <<x>>))
           /\ x = "null" => HasNull(c \o <<x>>) /\ (~HasNull(c) => OneNull(c \o <<x>>))
<1> DEFINE d == c \o <<x>>
           n == Len(c)
<1>1. <<x>> \in Seq(Confirmations) /\ Len(<<x>>) = 1 /\ <<x>>[1] = x
  OBVIOUS
<1>2. /\ d \in Seq(Confirmations) /\ Len(d) = n + 1 /\ n \in Nat
      /\ DOMAIN d = 1..n + 1 /\ DOMAIN c = 1..n
      /\ (\A i \in 1..n : d[i] = c[i]) /\ d[n + 1] = x
  <2>1. /\ d \in Seq(Confirmations) /\ Len(d) = n + 1
        /\ \A i \in 1..n + 1 : d[i] = IF i <= n THEN c[i] ELSE <<x>>[i - n]
    BY <1>1, ConcatProperties
  <2>2. n \in Nat /\ DOMAIN c = 1..n /\ DOMAIN d = 1..Len(d)
    BY <2>1, LenProperties
  <2> HIDE DEF d, n
  <2>3. d[n + 1] = <<x>>[(n + 1) - n] /\ (n + 1) - n = 1
    BY <2>1, <2>2
  <2> QED BY <1>1, <2>1, <2>2, <2>3
<1> HIDE DEF d, n
<1>3. \A i \in DOMAIN d : (i \in DOMAIN c /\ d[i] = c[i]) \/ (i = n + 1 /\ d[i] = x)
  BY <1>2
<1>4. (\A i \in DOMAIN c : i \in DOMAIN d /\ d[i] = c[i]) /\ n + 1 \in DOMAIN d
  BY <1>2
<1> QED BY <1>2, <1>3, <1>4 DEF HasNull, OneNull, d, n

\* Taking the first of a queue, and appending to it.
LEMMA TailOfQueue ==
    ASSUME NEW q \in Seq(Skbs), q # <<>>
    PROVE  /\ Tail(q) \in Seq(Skbs) /\ Head(q) \in Skbs
           /\ \A P \in SUBSET Skbs : (\A i \in DOMAIN q : q[i] \in P) => Head(q) \in P /\ \A i \in DOMAIN Tail(q) : Tail(q)[i] \in P
           /\ Distinct(q) => Distinct(Tail(q)) /\ \A i \in DOMAIN Tail(q) : Tail(q)[i] # Head(q)
<1> DEFINE t == Tail(q)
<1>1. /\ t \in Seq(Skbs) /\ Len(t) = Len(q) - 1 /\ Len(q) \in Nat \ {0}
      /\ DOMAIN t = 1..Len(t) /\ DOMAIN q = 1..Len(q) /\ Head(q) = q[1] /\ Head(q) \in Skbs
      /\ \A i \in 1..Len(t) : t[i] = q[i + 1]
  BY HeadTailProperties, LenProperties, EmptySeq
<1> HIDE DEF t
<1>2. /\ \A i \in DOMAIN t : i + 1 \in DOMAIN q /\ i + 1 # 1 /\ t[i] = q[i + 1] /\ i \in Int
      /\ 1 \in DOMAIN q
  BY <1>1
<1>3. \A P \in SUBSET Skbs : (\A i \in DOMAIN q : q[i] \in P) => Head(q) \in P /\ \A i \in DOMAIN t : t[i] \in P
  BY <1>1, <1>2
<1>4. ASSUME Distinct(q) PROVE Distinct(t) /\ \A i \in DOMAIN t : t[i] # Head(q)
  <2>1. ASSUME NEW i \in DOMAIN t, NEW j \in DOMAIN t, t[i] = t[j] PROVE i = j
    <3>1. i + 1 = j + 1
      BY <1>2, <1>4, <2>1 DEF Distinct
    <3> QED BY <1>2, <3>1
  <2>2. ASSUME NEW i \in DOMAIN t, t[i] = Head(q) PROVE FALSE
    BY <1>1, <1>2, <1>4, <2>2 DEF Distinct
  <2> QED BY <2>1, <2>2 DEF Distinct
<1> QED BY <1>1, <1>3, <1>4 DEF t

LEMMA AppendToQueue ==
    ASSUME NEW q \in Seq(Skbs), NEW f \in Skbs
    PROVE  /\ Append(q, f) \in Seq(Skbs)
           /\ \A i \in DOMAIN Append(q, f) : Append(q, f)[i] = f \/ (i \in DOMAIN q /\ Append(q, f)[i] = q[i])
           /\ Distinct(q) /\ (\A i \in DOMAIN q : q[i] # f) => Distinct(Append(q, f))
<1> DEFINE a == Append(q, f)
           n == Len(q)
<1>1. /\ a \in Seq(Skbs) /\ Len(a) = n + 1 /\ n \in Nat /\ DOMAIN a = 1..(n + 1) /\ DOMAIN q = 1..n
      /\ \A i \in 1..n : a[i] = q[i]
      /\ a[n + 1] = f
  BY AppendProperties, LenProperties
<1> HIDE DEF a, n
<1>2. \A i \in DOMAIN a : (i = n + 1 /\ a[i] = f) \/ (i \in DOMAIN q /\ a[i] = q[i])
  BY <1>1
<1>3. Distinct(q) /\ (\A i \in DOMAIN q : q[i] # f) => Distinct(a)
  BY <1>2 DEF Distinct
<1> QED BY <1>1, <1>2, <1>3 DEF a

LEMMA TxInitial == TxPathInit => TxIInv
<1> SUFFICES ASSUME TxPathInit PROVE TxIInv
  OBVIOUS
<1>1. \A f \in Skbs : skb[f] = [kind |-> "data", at |-> "os", ends |-> 0, shake |-> "none"]
  BY DEF TxPathInit
<1>2. FrameTypes
  <2>1. skb \in [Skbs -> FrameRecords]
    BY DEF TxPathInit, FrameRecords, Kinds
  <2>2. mgmt_q \in Seq(Skbs) /\ cfm \in Seq(Confirmations)
    BY DEF TxPathInit
  <2> QED BY <2>1, <2>2 DEF TxPathInit, FrameTypes
<1>3. OsTypes /\ LinkTypes
  BY DEF TxPathInit, OsTypes, LinkTypes
<1>4. ~HasNull(cfm) /\ OneNull(cfm)
  BY DEF TxPathInit, HasNull, OneNull
<1>5. sta_skb = 0 /\ sending = 0 /\ 0 \notin Skbs
  BY DEF TxPathInit, None, Skbs
<1>6. \A f \in Skbs : skb[f].at = "os" /\ skb[f].ends = 0 /\ skb[f].kind = "data"
  BY <1>1
<1>7. QueueInv
  <2>1. mgmt_q = <<>> /\ DOMAIN mgmt_q = {}
    BY DEF TxPathInit
  <2> QED BY <1>5, <2>1 DEF QueueInv, Distinct
<1>8. LiveInv
  BY <1>6 DEF LiveInv
<1>9. NullInv
  BY <1>4, <1>5 DEF NullInv
<1>10. HeldInv
  BY <1>6 DEF HeldInv
<1>11. HandshakeInv
  BY DEF TxPathInit, HandshakeInv
<1>12. EndsOnce /\ NothingLost
  BY <1>6 DEF EndsOnce, NothingLost
<1>13. HandshakePasses
  BY <1>6 DEF HandshakePasses
<1> QED BY <1>2, <1>3, <1>7, <1>8, <1>9, <1>10, <1>11, <1>12, <1>13 DEF TxIInv

\* mac80211 changes the association, the interface and its peers; no frame is touched.
OsActs == Associates \/ Disassociates \/ PeerChanges \/ BgScanChanges \/ RemoveVif \/ IfaceDown \/ IfaceUp

LEMMA OsKeeps == ASSUME TxIInv, OsActs PROVE TxIInv'
<1>1. UNCHANGED <<ap, skb, mgmt_q, sending, sta_skb, cfm, txUpset, eapol4_confirm, handshaken>>
  BY DEF OsActs, Associates, Disassociates, PeerChanges, BgScanChanges, RemoveVif, IfaceDown, IfaceUp,
         linkVars, frameVars
<1>2. FrameTypes'
  BY <1>1 DEF TxIInv, FrameTypes
<1>3. OsTypes' /\ LinkTypes'
  <2>1. CASE Associates
    BY <1>1, <2>1 DEF Associates, TxIInv, OsTypes, LinkTypes
  <2>2. CASE Disassociates
    BY <1>1, <2>2 DEF Disassociates, TxIInv, OsTypes, LinkTypes
  <2>3. CASE PeerChanges
    BY <1>1, <2>3 DEF PeerChanges, linkVars, TxIInv, OsTypes, LinkTypes
  <2>4. CASE BgScanChanges
    BY <1>1, <2>4 DEF BgScanChanges, linkVars, TxIInv, OsTypes, LinkTypes
  <2>5. CASE RemoveVif \/ IfaceDown \/ IfaceUp
    BY <1>1, <2>5 DEF RemoveVif, IfaceDown, IfaceUp, linkVars, TxIInv, OsTypes, LinkTypes
  <2> QED BY <2>1, <2>2, <2>3, <2>4, <2>5 DEF OsActs
<1>4. QueueInv' /\ LiveInv' /\ NullInv' /\ HeldInv' /\ HandshakeInv'
  BY <1>1 DEF TxIInv, QueueInv, LiveInv, NullInv, HeldInv, HandshakeInv
<1>5. EndsOnce' /\ NothingLost' /\ HandshakePasses'
  BY <1>1 DEF TxIInv, EndsOnce, NothingLost, HandshakePasses
<1> QED BY <1>2, <1>3, <1>4, <1>5 DEF TxIInv

-----------------------------------------------------------------------------
(* mac80211 hands a frame over.                                            *)

\* What becomes of a new frame: queued, freed, or ended on the way with the trouble that
\* excuses it.
NewFrame(r) ==
    /\ r \in FrameRecords /\ r.at \in {"mgmt_q", "data_q", "gone"}
    /\ r.at # "gone" => r.ends = 0
    /\ r.ends > 1 => r.kind # "qosnull" /\ "descriptor" \in txUpset'
    /\ r.at = "gone" /\ r.ends = 0 => "down" \in txUpset'
    /\ r.kind \in Eapol /\ r.at = "data_q" /\ r.shake = "this" /\ ap = FALSE
          => eapol4_confirm = TRUE /\ handshaken = FALSE

\* What becomes of the others: at most they belong to an older handshake now.
OthersKept(f) ==
    \A g \in Skbs : g # f =>
        /\ skb'[g].kind = skb[g].kind /\ skb'[g].at = skb[g].at /\ skb'[g].ends = skb[g].ends
        /\ skb'[g].shake = skb[g].shake \/ skb'[g].shake = "old"

FrameComes(f) ==
    /\ skb[f].at = "os" /\ NewFrame(skb'[f]) /\ OthersKept(f)
    /\ skb' \in [Skbs -> FrameRecords] /\ cfm' \in Seq(Confirmations)
    /\ \/ mgmt_q' = mgmt_q
       \/ mgmt_q' = Append(mgmt_q, f) /\ skb'[f].at = "mgmt_q"
    /\ HasNull(cfm') <=> HasNull(cfm)
    /\ OneNull(cfm) => OneNull(cfm')
    /\ txUpset \subseteq txUpset' /\ txUpset' \subseteq txUpset \cup {"descriptor", "down"}
    /\ \/ UNCHANGED <<eapol4_confirm, handshaken>>
       \/ eapol4_confirm' = FALSE /\ handshaken' = FALSE
    /\ UNCHANGED <<ap, vif, iface_down, associated, peer, bgscan_en, data_blocked, sending, sta_skb>>

LEMMA FrameComesKeeps == ASSUME TxIInv, NEW f \in Skbs, FrameComes(f) PROVE TxIInv'
<1>1. FrameTypes'
  <2>1. mgmt_q' \in Seq(Skbs)
    <3>1. mgmt_q \in Seq(Skbs) /\ (mgmt_q' = mgmt_q \/ mgmt_q' = Append(mgmt_q, f))
      BY DEF FrameComes, TxIInv, FrameTypes
    <3> QED BY <3>1, AppendToQueue
  <2> QED BY <2>1 DEF FrameComes, TxIInv, FrameTypes, Troubles
<1>2. OsTypes' /\ LinkTypes'
  BY DEF FrameComes, TxIInv, OsTypes, LinkTypes
<1>3. LiveInv'
  BY DEF FrameComes, NewFrame, OthersKept, TxIInv, LiveInv
<1>4. NullInv'
  <2>1. /\ sta_skb' = sta_skb /\ sending' = sending
        /\ "overwritten" \in txUpset' <=> "overwritten" \in txUpset
        /\ "oops" \in txUpset' <=> "oops" \in txUpset
    BY DEF FrameComes
  <2>2. sta_skb \in Skbs => /\ sta_skb # f
                            /\ skb'[sta_skb].kind = skb[sta_skb].kind /\ skb'[sta_skb].at = skb[sta_skb].at
    BY DEF FrameComes, OthersKept, TxIInv, NullInv
  <2>3. sending \in Skbs /\ skb'[sending].at = "checked" =>
           skb[sending].at = "checked" /\ skb'[sending].kind = skb[sending].kind
    BY DEF FrameComes, NewFrame, OthersKept
  <2>4. (HasNull(cfm') <=> HasNull(cfm)) /\ (OneNull(cfm) => OneNull(cfm'))
    BY DEF FrameComes
  <2> QED BY <2>1, <2>2, <2>3, <2>4 DEF TxIInv, NullInv
<1>5. HeldInv'
  <2>1. sta_skb' = sta_skb /\ (HasNull(cfm') <=> HasNull(cfm)) /\ txUpset \subseteq txUpset'
    BY DEF FrameComes
  <2>2. \A g \in Skbs : skb'[g].at = "held" => skb[g].at = "held"
    BY DEF FrameComes, NewFrame, OthersKept
  <2> QED BY <2>1, <2>2 DEF TxIInv, HeldInv
<1>6. HandshakeInv'
  BY DEF FrameComes, TxIInv, HandshakeInv
<1>7. EndsOnce'
  <2>1. ASSUME NEW g \in Skbs, skb'[g].ends > 1
        PROVE  IF skb'[g].kind = "qosnull" THEN "overwritten" \in txUpset' ELSE "descriptor" \in txUpset'
    BY <2>1 DEF FrameComes, NewFrame, OthersKept, TxIInv, EndsOnce
  <2> QED BY <2>1 DEF EndsOnce
<1>8. NothingLost'
  BY DEF FrameComes, NewFrame, OthersKept, TxIInv, NothingLost
<1>9. QueueInv'
  <2>1. mgmt_q \in Seq(Skbs) /\ QueueInv /\ sending' = sending /\ (sending \in Skbs => sending # f)
    BY DEF TxIInv, FrameTypes, FrameComes, QueueInv
  <2>2. \A i \in DOMAIN mgmt_q : mgmt_q[i] \in Skbs /\ skb'[mgmt_q[i]].at = "mgmt_q" /\ mgmt_q[i] # f
    BY <2>1 DEF QueueInv, FrameComes, OthersKept
  <2>3. sending' \in Skbs => skb'[sending'].at # "os"
    BY <2>1 DEF QueueInv, FrameComes, OthersKept
  <2>4. CASE mgmt_q' = mgmt_q
    BY <2>1, <2>2, <2>3, <2>4 DEF QueueInv
  <2>5. CASE mgmt_q' = Append(mgmt_q, f) /\ skb'[f].at = "mgmt_q"
    <3>1. Distinct(Append(mgmt_q, f))
      BY <2>1, <2>2, AppendToQueue DEF QueueInv
    <3>2. \A i \in DOMAIN Append(mgmt_q, f) :
             Append(mgmt_q, f)[i] = f \/ (i \in DOMAIN mgmt_q /\ Append(mgmt_q, f)[i] = mgmt_q[i])
      BY <2>1, AppendToQueue
    <3>3. f # sending
      BY <2>1
    <3>4. ASSUME NEW i \in DOMAIN Append(mgmt_q, f)
          PROVE  skb'[Append(mgmt_q, f)[i]].at = "mgmt_q" /\ Append(mgmt_q, f)[i] # sending
      <4>1. CASE Append(mgmt_q, f)[i] = f
        BY <2>5, <3>3, <4>1
      <4>2. CASE i \in DOMAIN mgmt_q /\ Append(mgmt_q, f)[i] = mgmt_q[i]
        BY <2>1, <2>2, <4>2 DEF QueueInv
      <4> QED BY <3>2, <4>1, <4>2
    <3> QED BY <2>1, <2>3, <2>5, <3>1, <3>4 DEF QueueInv
  <2> QED BY <2>4, <2>5 DEF FrameComes
<1>10. HandshakePasses'
  <2> SUFFICES ASSUME NEW g \in Skbs, skb'[g].kind \in Eapol, skb'[g].at = "data_q",
                      skb'[g].shake = "this", ~ap
               PROVE  "late confirm" \in txUpset'
    <3>1. ap' = ap
      BY DEF FrameComes
    <3> QED BY <3>1 DEF HandshakePasses
  <2>1. CASE g = f
    <3>1. ap = FALSE
      BY DEF TxIInv, OsTypes
    <3>2. eapol4_confirm = TRUE /\ handshaken = FALSE
      BY <2>1, <3>1 DEF FrameComes, NewFrame
    <3> QED BY <3>1, <3>2 DEF FrameComes, TxIInv, HandshakeInv
  <2>2. CASE g # f
    BY <2>2 DEF FrameComes, OthersKept, TxIInv, HandshakePasses
  <2> QED BY <2>1, <2>2
<1> QED BY <1>1, <1>2, <1>3, <1>4, <1>5, <1>6, <1>7, <1>8, <1>9, <1>10 DEF TxIInv

\* The frame takes its place, and nothing else changes but the queue.
LEMMA FrameGoes ==
    ASSUME TxIInv, NEW f \in Skbs, skb[f].at = "os", NEW r \in FrameRecords, NewFrame(r),
           skb' = [skb EXCEPT ![f] = r],
           mgmt_q' = mgmt_q \/ (mgmt_q' = Append(mgmt_q, f) /\ r.at = "mgmt_q"),
           txUpset' = txUpset \/ txUpset' = txUpset \cup {"descriptor"} \/ txUpset' = txUpset \cup {"down"},
           UNCHANGED <<eapol4_confirm, handshaken, cfm>>,
           UNCHANGED <<osVars, data_blocked, sending, sta_skb>>
    PROVE  FrameComes(f)
<1>1. skb \in [Skbs -> FrameRecords] /\ cfm \in Seq(Confirmations)
  BY DEF TxIInv, FrameTypes
<1>2. skb' \in [Skbs -> FrameRecords] /\ skb'[f] = r /\ \A g \in Skbs : g # f => skb'[g] = skb[g]
  BY <1>1
<1>3. NewFrame(skb'[f]) /\ OthersKept(f)
  BY <1>2 DEF OthersKept
<1>4. txUpset \subseteq txUpset' /\ txUpset' \subseteq txUpset \cup {"descriptor", "down"}
  OBVIOUS
<1> QED BY <1>1, <1>2, <1>3, <1>4 DEF FrameComes, osVars

LEMMA FreedGoes ==
    ASSUME TxIInv, NEW f \in Skbs, skb[f].at = "os", NEW k \in Kinds, Freed(f, k),
           UNCHANGED <<eapol4_confirm, handshaken, cfm>>,
           UNCHANGED <<osVars, data_blocked, sending, sta_skb>>
    PROVE  FrameComes(f)
<1> DEFINE r == [kind |-> k, at |-> "gone", ends |-> 1, shake |-> Shake(k)]
<1>1. Shake(k) \in {"none", "this", "rekey", "old"}
  BY DEF Shake
<1>2. r \in FrameRecords
  BY <1>1 DEF FrameRecords
<1>3. r.at = "gone" /\ r.ends = 1
  OBVIOUS
<1>4. skb' = [skb EXCEPT ![f] = r] /\ mgmt_q' = mgmt_q /\ txUpset' = txUpset
  BY DEF Freed
<1> HIDE DEF r
<1>5. NewFrame(r)
  BY <1>2, <1>3 DEF NewFrame
<1> QED BY <1>2, <1>4, <1>5, FrameGoes

LEMMA QueuedGoes ==
    ASSUME TxIInv, NEW f \in Skbs, skb[f].at = "os", NEW k \in Kinds, NEW q \in {"mgmt_q", "data_q"},
           k \in Eapol /\ q = "data_q" => ~ap /\ eapol4_confirm,
           Queued(f, k, q), UNCHANGED <<eapol4_confirm, handshaken, cfm>>,
           UNCHANGED <<osVars, data_blocked, sending, sta_skb>>
    PROVE  FrameComes(f)
<1> DEFINE r == [kind |-> k, at |-> q, ends |-> 0, shake |-> Shake(k)]
<1>1. Shake(k) \in {"none", "this", "rekey", "old"} /\ (Shake(k) = "this" => ~handshaken)
  BY DEF Shake
<1>2. r \in FrameRecords
  BY <1>1 DEF FrameRecords
<1>3. r.at = q /\ r.ends = 0 /\ r.kind = k /\ r.shake = Shake(k)
  OBVIOUS
<1>4. /\ skb' = [skb EXCEPT ![f] = r] /\ txUpset' = txUpset
      /\ mgmt_q' = mgmt_q \/ (mgmt_q' = Append(mgmt_q, f) /\ r.at = "mgmt_q")
  BY DEF Queued
<1> HIDE DEF r
<1>5. eapol4_confirm \in BOOLEAN /\ handshaken \in BOOLEAN
  BY DEF TxIInv, LinkTypes
<1>6. k \in Eapol /\ q = "data_q" /\ Shake(k) = "this" => eapol4_confirm = TRUE /\ handshaken = FALSE
  BY <1>1, <1>5
<1>7. NewFrame(r)
  BY <1>2, <1>3, <1>6 DEF NewFrame
<1> QED BY <1>2, <1>4, <1>7, FrameGoes

\* The ends that are trouble: a descriptor that cannot be prepared, and a null frame with the
\* interface down.
LEMMA EndedGoes ==
    ASSUME TxIInv, NEW f \in Skbs, skb[f].at = "os", NEW k \in Kinds, k # "qosnull",
           \/ DescriptorFails(f, k) /\ UNCHANGED <<eapol4_confirm, handshaken, cfm>>
           \/ XmitNull(f, k),
           UNCHANGED <<osVars, data_blocked, sending, sta_skb>>
    PROVE  FrameComes(f)
<1>1. Shake(k) \in {"none", "this", "rekey", "old"}
  BY DEF Shake
<1>2. CASE DescriptorFails(f, k) /\ UNCHANGED <<eapol4_confirm, handshaken, cfm>>
  <2> DEFINE n == IF iface_down THEN 1 ELSE 2
             r == [kind |-> k, at |-> "gone", ends |-> n, shake |-> Shake(k)]
  <2>1. n \in 0..2 /\ n # 0
    OBVIOUS
  <2>2. /\ skb' = [skb EXCEPT ![f] = r] /\ mgmt_q' = mgmt_q
        /\ txUpset' = txUpset \cup {"descriptor"}
    BY <1>2 DEF DescriptorFails, Blame
  <2> HIDE DEF n
  <2>3. r \in FrameRecords /\ r.at = "gone" /\ r.ends = n /\ r.kind = k
    BY <1>1, <2>1 DEF FrameRecords
  <2> HIDE DEF r
  <2>4. NewFrame(r)
    BY <2>1, <2>2, <2>3 DEF NewFrame
  <2> QED BY <1>2, <2>2, <2>3, <2>4, FrameGoes
<1>3. CASE XmitNull(f, k)
  <2> DEFINE n == IF iface_down THEN 0 ELSE 1
             r == [kind |-> k, at |-> "gone", ends |-> n, shake |-> Shake(k)]
  <2>1. n \in 0..2 /\ ~(n > 1) /\ (n = 0 => iface_down)
    OBVIOUS
  <2>2. /\ skb' = [skb EXCEPT ![f] = r] /\ mgmt_q' = mgmt_q
        /\ UNCHANGED <<eapol4_confirm, handshaken, cfm>>
    BY <1>3 DEF XmitNull
  <2>3. /\ txUpset' = txUpset \/ txUpset' = txUpset \cup {"down"}
        /\ iface_down => "down" \in txUpset'
    BY <1>3 DEF XmitNull, Blame
  <2> HIDE DEF n
  <2>4. r \in FrameRecords /\ r.at = "gone" /\ r.ends = n /\ r.kind = k
    BY <1>1, <2>1 DEF FrameRecords
  <2> HIDE DEF r
  <2>5. NewFrame(r)
    BY <2>1, <2>3, <2>4 DEF NewFrame
  <2> QED BY <2>2, <2>3, <2>4, <2>5, FrameGoes
<1> QED BY <1>2, <1>3

\* An association request: the handshakes before it are old now, and so are their confirmations.
LEMMA AssocGoes ==
    ASSUME TxIInv, NEW f \in Skbs, skb[f].at = "os", NEW k \in Kinds, XmitAssoc(f, k),
           UNCHANGED <<osVars, data_blocked, sending, sta_skb>>
    PROVE  FrameComes(f)
<1>1. skb \in [Skbs -> FrameRecords] /\ cfm \in Seq(Confirmations) /\ k = "assoc" /\ txUpset' = txUpset
  BY DEF TxIInv, FrameTypes, XmitAssoc
<1>2. /\ cfm' \in Seq(Confirmations) /\ DOMAIN cfm' = DOMAIN cfm
      /\ \A i \in DOMAIN cfm : cfm'[i] = "null" <=> cfm[i] = "null"
  <2>1. Len(cfm) \in Nat /\ DOMAIN cfm = 1..Len(cfm) /\ \A i \in 1..Len(cfm) : cfm[i] \in Confirmations
    BY <1>1, LenProperties
  <2>2. cfm' = [i \in 1..Len(cfm) |-> IF cfm[i] = "eapol4" THEN "old eapol4" ELSE cfm[i]]
    BY <2>1 DEF XmitAssoc
  <2>3. cfm' \in [1..Len(cfm) -> Confirmations]
    BY <2>1, <2>2 DEF Confirmations
  <2>4. cfm' \in Seq(Confirmations)
    BY <2>1, <2>3, SeqDef
  <2> QED BY <2>1, <2>2, <2>4
<1>3. (HasNull(cfm') <=> HasNull(cfm)) /\ (OneNull(cfm) => OneNull(cfm'))
  BY <1>2 DEF HasNull, OneNull
<1>4. PICK q \in {"mgmt_q", "gone"} :
          /\ skb' = [g \in Skbs |->
                       IF g = f THEN [kind |-> k, at |-> q, shake |-> "none",
                                      ends |-> IF q = "gone" THEN 1 ELSE 0]
                       ELSE [skb[g] EXCEPT !.shake = Aged(@)]]
          /\ mgmt_q' = IF q = "gone" THEN mgmt_q ELSE Append(mgmt_q, f)
  BY DEF XmitAssoc
<1> DEFINE n == IF q = "gone" THEN 1 ELSE 0
           r == [kind |-> k, at |-> q, shake |-> "none", ends |-> n]
<1>5. n \in 0..2 /\ ~(n > 1) /\ (q = "gone" => n # 0) /\ (q # "gone" => n = 0)
  OBVIOUS
<1>6. skb'[f] = r
  BY <1>4
<1> HIDE DEF n
<1>7. r \in FrameRecords /\ r.at = q /\ r.ends = n /\ r.kind = "assoc" /\ r.shake = "none"
  BY <1>1, <1>4, <1>5 DEF FrameRecords
<1> HIDE DEF r
<1>8. NewFrame(r)
  BY <1>4, <1>5, <1>7 DEF NewFrame
<1>9. \A g \in Skbs : g # f => skb'[g] \in FrameRecords /\ skb'[g] = [skb[g] EXCEPT !.shake = Aged(@)]
  <2> SUFFICES ASSUME NEW g \in Skbs, g # f
               PROVE  skb'[g] \in FrameRecords /\ skb'[g] = [skb[g] EXCEPT !.shake = Aged(@)]
    OBVIOUS
  <2>1. skb[g] \in FrameRecords /\ skb'[g] = [skb[g] EXCEPT !.shake = Aged(@)]
    BY <1>1, <1>4
  <2>2. Aged(skb[g].shake) \in {"none", "this", "rekey", "old"}
    BY <2>1 DEF Aged, FrameRecords
  <2> QED BY <2>1, <2>2 DEF FrameRecords
<1>10. OthersKept(f)
  <2> SUFFICES ASSUME NEW g \in Skbs, g # f
               PROVE  /\ skb'[g].kind = skb[g].kind /\ skb'[g].at = skb[g].at /\ skb'[g].ends = skb[g].ends
                      /\ skb'[g].shake = skb[g].shake \/ skb'[g].shake = "old"
    BY DEF OthersKept
  <2>1. skb[g] \in FrameRecords /\ skb'[g] = [skb[g] EXCEPT !.shake = Aged(@)]
    BY <1>1, <1>9
  <2> QED BY <2>1 DEF FrameRecords, Aged
<1>11. skb' \in [Skbs -> FrameRecords]
  <2>1. \A g \in Skbs : skb'[g] \in FrameRecords
    BY <1>6, <1>7, <1>9
  <2>2. skb' = [g \in Skbs |-> skb'[g]]
    BY <1>4
  <2> QED BY <2>1, <2>2
<1>12. eapol4_confirm' = FALSE /\ handshaken' = FALSE
  BY DEF XmitAssoc, NewHandshake
<1>13. mgmt_q' = mgmt_q \/ (mgmt_q' = Append(mgmt_q, f) /\ skb'[f].at = "mgmt_q")
  BY <1>4, <1>6, <1>7
<1> QED BY <1>1, <1>2, <1>3, <1>6, <1>8, <1>10, <1>11, <1>12, <1>13 DEF FrameComes, osVars

LEMMA MacTxKeeps == ASSUME TxIInv, NEW f \in Skbs, MacTx(f) PROVE TxIInv'
<1>1. /\ skb[f].at = "os"
      /\ UNCHANGED <<osVars, data_blocked, sending, sta_skb>>
  BY DEF MacTx
<1>2. PICK k \in Kinds :
          TxRefused(f, k) \/ XmitMgmt(f, k) \/ XmitAssoc(f, k) \/ XmitNull(f, k) \/ XmitData(f, k)
  BY DEF MacTx
<1>3. CASE TxRefused(f, k)
  BY <1>1, <1>3, FreedGoes, FrameComesKeeps DEF TxRefused
<1>4. CASE XmitMgmt(f, k)
  <2>1. k \notin Eapol
    BY <1>4 DEF XmitMgmt, MgmtKinds, Eapol
  <2>2. FrameComes(f)
    BY <1>1, <1>4, <2>1, FreedGoes, QueuedGoes DEF XmitMgmt
  <2> QED BY <2>2, FrameComesKeeps
<1>5. CASE XmitAssoc(f, k)
  BY <1>1, <1>5, AssocGoes, FrameComesKeeps
<1>6. CASE XmitNull(f, k)
  <2>1. k # "qosnull"
    BY <1>6 DEF XmitNull
  <2> QED BY <1>1, <1>6, <2>1, EndedGoes, FrameComesKeeps
<1>7. CASE XmitData(f, k)
  <2>1. k # "qosnull" /\ UNCHANGED <<eapol4_confirm, handshaken, cfm>>
    BY <1>7 DEF XmitData, MgmtKinds
  <2>2. CASE Freed(f, k)
    BY <1>1, <2>1, <2>2, FreedGoes, FrameComesKeeps
  <2>3. CASE Queued(f, k, DataQueue(k))
    <3>1. /\ DataQueue(k) \in {"mgmt_q", "data_q"}
          /\ k \in Eapol /\ DataQueue(k) = "data_q" => ~ap /\ eapol4_confirm
      BY DEF DataQueue, Station
    <3>2. FrameComes(f)
      BY <1>1, <2>1, <2>3, <3>1, QueuedGoes
    <3> QED BY <3>2, FrameComesKeeps
  <2>4. CASE DescriptorFails(f, k)
    BY <1>1, <2>1, <2>4, EndedGoes, FrameComesKeeps
  <2> QED BY <1>7, <2>2, <2>3, <2>4 DEF XmitData
<1> QED BY <1>2, <1>3, <1>4, <1>5, <1>6, <1>7

-----------------------------------------------------------------------------
(* The tx thread and the confirmations.                                    *)

LEMMA TakeKeeps ==
    ASSUME TxIInv, TakeMgmt \/ \E f \in Skbs : TakeData(f)
    PROVE  TxIInv'
<1>1. /\ UNCHANGED <<osVars, linkVars, skb, sta_skb, cfm, txUpset>>
      /\ mgmt_q \in Seq(Skbs) /\ sending = None /\ QueueInv
  BY DEF TakeMgmt, TakeData, TxIInv, FrameTypes
<1>2. /\ mgmt_q' \in Seq(Skbs) /\ sending' \in Skbs
      /\ Distinct(mgmt_q') /\ skb[sending'].at \in {"mgmt_q", "data_q"}
      /\ \A i \in DOMAIN mgmt_q' : skb[mgmt_q'[i]].at = "mgmt_q" /\ mgmt_q'[i] # sending'
  <2>1. CASE TakeMgmt
    <3> DEFINE P == {g \in Skbs : skb[g].at = "mgmt_q"}
    <3>1. mgmt_q # <<>> /\ sending' = Head(mgmt_q) /\ mgmt_q' = Tail(mgmt_q)
      BY <2>1 DEF TakeMgmt
    <3>2. \A i \in DOMAIN mgmt_q : mgmt_q[i] \in P
      <4>1. \A i \in DOMAIN mgmt_q : mgmt_q[i] \in Skbs
        BY <1>1
      <4> QED BY <1>1, <4>1 DEF QueueInv
    <3>3. P \in SUBSET Skbs
      OBVIOUS
    <3> HIDE DEF P
    <3>4. /\ Tail(mgmt_q) \in Seq(Skbs) /\ Head(mgmt_q) \in P
          /\ \A i \in DOMAIN Tail(mgmt_q) : Tail(mgmt_q)[i] \in P
      BY <1>1, <3>1, <3>2, <3>3, TailOfQueue
    <3>5. Distinct(Tail(mgmt_q)) /\ \A i \in DOMAIN Tail(mgmt_q) : Tail(mgmt_q)[i] # Head(mgmt_q)
      BY <1>1, <3>1, TailOfQueue DEF QueueInv
    <3> QED BY <3>1, <3>4, <3>5 DEF P
  <2>2. CASE \E f \in Skbs : TakeData(f)
    <3>1. sending' \in Skbs /\ skb[sending'].at = "data_q" /\ mgmt_q' = mgmt_q
      BY <2>2 DEF TakeData
    <3>2. \A i \in DOMAIN mgmt_q : skb[mgmt_q[i]].at = "mgmt_q" /\ mgmt_q[i] # sending'
      BY <1>1, <3>1 DEF QueueInv
    <3> QED BY <1>1, <3>1, <3>2 DEF QueueInv
  <2> QED BY <2>1, <2>2
<1>3. FrameTypes' /\ OsTypes' /\ LinkTypes'
  BY <1>1, <1>2 DEF TxIInv, FrameTypes, OsTypes, LinkTypes, osVars, linkVars
<1>4. QueueInv'
  BY <1>1, <1>2 DEF QueueInv
<1>5. NullInv'
  BY <1>1, <1>2 DEF TxIInv, NullInv
<1>6. LiveInv' /\ HeldInv' /\ HandshakeInv' /\ EndsOnce' /\ NothingLost' /\ HandshakePasses'
  BY <1>1 DEF TxIInv, LiveInv, HeldInv, HandshakeInv, EndsOnce, NothingLost, HandshakePasses,
              osVars, linkVars
<1> QED BY <1>3, <1>4, <1>5, <1>6 DEF TxIInv

\* One frame moves on, and only on; what its end owes is owed to a trouble.
Moved(f) ==
    /\ skb' \in [Skbs -> FrameRecords]
    /\ \A g \in Skbs : g # f => skb'[g] = skb[g]
    /\ skb'[f].kind = skb[f].kind
    /\ skb'[f].at \in {"checked", "held", "gone"}
    /\ skb'[f].at # "gone" => skb'[f].ends = 0
    /\ skb'[f].ends > 1 => skb[f].kind = "qosnull" /\ "overwritten" \in txUpset'
    /\ skb'[f].at = "gone" /\ skb'[f].ends = 0 => "down" \in txUpset'
    /\ txUpset \subseteq txUpset' /\ txUpset' \subseteq Troubles
    /\ \A i \in DOMAIN mgmt_q : mgmt_q[i] # f
    /\ sending' \in {sending, None}
    /\ UNCHANGED <<osVars, linkVars, mgmt_q>>

LEMMA MovedKeeps ==
    ASSUME TxIInv, NEW f \in Skbs, Moved(f), NullInv', HeldInv',
           cfm' \in Seq(Confirmations), sta_skb' \in Skbs \cup {None}
    PROVE  TxIInv'
<1>1. FrameTypes' /\ OsTypes' /\ LinkTypes'
  BY DEF Moved, TxIInv, FrameTypes, OsTypes, LinkTypes, osVars, linkVars
<1>2. QueueInv'
  <2>1. /\ mgmt_q \in Seq(Skbs) /\ mgmt_q' = mgmt_q /\ QueueInv
        /\ sending' \in {sending, None} /\ None \notin Skbs
    BY DEF Moved, TxIInv, FrameTypes, None, Skbs
  <2>2. \A i \in DOMAIN mgmt_q : mgmt_q[i] \in Skbs /\ mgmt_q[i] # f
    BY <2>1 DEF Moved
  <2>3. \A i \in DOMAIN mgmt_q : skb'[mgmt_q[i]].at = "mgmt_q"
    BY <2>1, <2>2 DEF Moved, QueueInv
  <2>4. \A i \in DOMAIN mgmt_q : mgmt_q[i] # sending'
    BY <2>1, <2>2 DEF QueueInv
  <2>5. sending' \in Skbs => skb'[sending'].at # "os"
    BY <2>1 DEF QueueInv, Moved
  <2> QED BY <2>1, <2>3, <2>4, <2>5 DEF QueueInv
<1>3. LiveInv'
  BY DEF Moved, TxIInv, LiveInv
<1>4. HandshakeInv'
  BY DEF Moved, TxIInv, HandshakeInv, osVars, linkVars
<1>5. EndsOnce'
  <2>1. ASSUME NEW g \in Skbs, skb'[g].ends > 1
        PROVE  IF skb'[g].kind = "qosnull" THEN "overwritten" \in txUpset' ELSE "descriptor" \in txUpset'
    BY <2>1 DEF Moved, TxIInv, EndsOnce
  <2> QED BY <2>1 DEF EndsOnce
<1>6. NothingLost'
  BY DEF Moved, TxIInv, NothingLost
<1>7. HandshakePasses'
  <2>1. ap' = ap /\ txUpset \subseteq txUpset'
    BY DEF Moved, osVars
  <2>2. \A g \in Skbs : skb'[g].at = "data_q" => skb'[g] = skb[g]
    BY DEF Moved
  <2> QED BY <2>1, <2>2 DEF TxIInv, HandshakePasses
<1> QED BY <1>1, <1>2, <1>3, <1>4, <1>5, <1>6, <1>7 DEF TxIInv

\* No frame moves; a confirmation comes.
LEMMA UnmovedKeeps ==
    ASSUME TxIInv, UNCHANGED <<osVars, skb, mgmt_q, sending, sta_skb>>,
           LinkTypes', HandshakeInv',
           cfm' \in Seq(Confirmations),
           HasNull(cfm') => HasNull(cfm), OneNull(cfm) => OneNull(cfm'),
           txUpset \subseteq txUpset', txUpset' \subseteq Troubles,
           \/ HasNull(cfm) => HasNull(cfm')
           \/ txUpset' \cap {"not written", "overwritten", "oops"} # {}
    PROVE  TxIInv'
<1>1. FrameTypes' /\ OsTypes'
  BY DEF TxIInv, FrameTypes, OsTypes, osVars
<1>2. QueueInv' /\ LiveInv'
  BY DEF TxIInv, QueueInv, LiveInv
<1>3. NullInv'
  BY DEF TxIInv, NullInv
<1>4. HeldInv'
  BY DEF TxIInv, HeldInv
<1>5. EndsOnce' /\ NothingLost'
  BY DEF TxIInv, EndsOnce, NothingLost
<1>6. HandshakePasses'
  BY DEF TxIInv, HandshakePasses, osVars
<1> QED BY <1>1, <1>2, <1>3, <1>4, <1>5, <1>6 DEF TxIInv

\* Reporting a frame ends it once more, or leaves it to nobody when the interface is down.
LEMMA IndicateEffect ==
    ASSUME TxIInv, NEW f \in Skbs, Indicate(f)
    PROVE  /\ skb' \in [Skbs -> FrameRecords]
           /\ \A g \in Skbs : g # f => skb'[g] = skb[g]
           /\ skb'[f].kind = skb[f].kind /\ skb'[f].at = "gone"
           /\ skb[f].ends = 0 => ~(skb'[f].ends > 1)
           /\ skb'[f].ends = 0 => "down" \in txUpset'
           /\ txUpset' = txUpset \/ txUpset' = txUpset \cup {"down"}
<1> DEFINE e == skb[f].ends
           n == IF iface_down \/ e = 2 THEN e ELSE e + 1
<1>1. skb \in [Skbs -> FrameRecords] /\ skb[f] \in FrameRecords
  BY DEF TxIInv, FrameTypes
<1>2. e \in 0..2
  BY <1>1 DEF FrameRecords
<1>3. skb' = [skb EXCEPT ![f] = [skb[f] EXCEPT !.at = "gone", !.ends = n]]
  BY <1>1 DEF Indicate
<1> HIDE DEF e
<1>4. n \in 0..2 /\ (e = 0 => ~(n > 1)) /\ (n = 0 => iface_down)
  BY <1>2
<1> HIDE DEF n
<1>5. [skb[f] EXCEPT !.at = "gone", !.ends = n] \in FrameRecords
  BY <1>1, <1>4 DEF FrameRecords
<1>6. /\ skb'[f] = [skb[f] EXCEPT !.at = "gone", !.ends = n]
      /\ skb' \in [Skbs -> FrameRecords] /\ \A g \in Skbs : g # f => skb'[g] = skb[g]
  BY <1>1, <1>3, <1>5
<1>7. skb'[f].kind = skb[f].kind /\ skb'[f].at = "gone" /\ skb'[f].ends = n
  BY <1>1, <1>6 DEF FrameRecords
<1>8. /\ txUpset' = txUpset \/ txUpset' = txUpset \cup {"down"}
      /\ iface_down => "down" \in txUpset'
  BY DEF Indicate, Blame
<1> QED BY <1>4, <1>6, <1>7, <1>8 DEF e

LEMMA DropKeeps == ASSUME TxIInv, DropUnsent \/ DropProbe PROVE TxIInv'
<1> DEFINE f == sending
<1>1. /\ f \in Skbs /\ skb[f].at \in {"mgmt_q", "data_q"} /\ sending' = None /\ Indicate(f)
      /\ UNCHANGED <<osVars, linkVars, mgmt_q, sta_skb, cfm>>
  BY DEF DropUnsent, DropProbe, Reported, TxIInv, FrameTypes
<1>2. /\ \A i \in DOMAIN mgmt_q : mgmt_q[i] # f
      /\ skb[f].ends = 0 /\ txUpset \subseteq Troubles
  BY <1>1 DEF TxIInv, QueueInv, LiveInv, FrameTypes
<1> HIDE DEF f
<1>3. Moved(f)
  BY <1>1, <1>2, IndicateEffect DEF Moved, Troubles
<1>4. \A g \in Skbs : g # f => skb'[g] = skb[g]
  BY <1>3 DEF Moved
<1>5. txUpset' = txUpset \/ txUpset' = txUpset \cup {"down"}
  BY <1>1, IndicateEffect
<1>6. NullInv'
  <2>1. None \notin Skbs
    BY DEF None, Skbs
  <2>2. sta_skb \in Skbs => sta_skb # f
    BY <1>1 DEF TxIInv, NullInv
  <2> QED BY <1>1, <1>4, <1>5, <2>1, <2>2 DEF TxIInv, NullInv
<1>7. HeldInv'
  <2>1. \A g \in Skbs : skb'[g].at = "held" => g # f /\ skb[g].at = "held"
    BY <1>1, <1>4, IndicateEffect
  <2> QED BY <1>1, <1>5, <2>1 DEF TxIInv, HeldInv
<1>8. cfm' \in Seq(Confirmations) /\ sta_skb' \in Skbs \cup {None}
  BY <1>1 DEF TxIInv, FrameTypes
<1> QED BY <1>1, <1>3, <1>6, <1>7, <1>8, MovedKeeps

LEMMA CheckKeeps == ASSUME TxIInv, CheckFrame PROVE TxIInv'
<1> DEFINE f == sending
<1>1. /\ f \in Skbs /\ skb[f].at \in {"mgmt_q", "data_q"}
      /\ skb' = [skb EXCEPT ![f].at = "checked"]
      /\ UNCHANGED <<osVars, linkVars, mgmt_q, sending, cfm>>
  BY DEF CheckFrame, TxIInv, FrameTypes
<1>2. /\ skb \in [Skbs -> FrameRecords] /\ skb[f] \in FrameRecords
      /\ (\A i \in DOMAIN mgmt_q : mgmt_q[i] # f)
      /\ skb[f].ends = 0 /\ txUpset \subseteq Troubles
  BY <1>1 DEF TxIInv, QueueInv, LiveInv, FrameTypes
<1>3. \/ skb[f].kind # "qosnull" /\ sta_skb' = sta_skb /\ txUpset' = txUpset
      \/ sta_skb' = sta_skb /\ txUpset' = txUpset \cup {"oops"}
      \/ /\ skb[f].kind = "qosnull" /\ sta_skb' = f
         /\ \/ HasNull(cfm) /\ txUpset' = txUpset \cup {"overwritten"}
            \/ ~HasNull(cfm) /\ txUpset' = txUpset
  BY DEF CheckFrame, KeepsNull, Blame, HasNull
<1>4. f = sending
  OBVIOUS
<1> HIDE DEF f
<1>5. [skb[f] EXCEPT !.at = "checked"] \in FrameRecords
  BY <1>2 DEF FrameRecords
<1>6. /\ skb' \in [Skbs -> FrameRecords] /\ skb'[f] = [skb[f] EXCEPT !.at = "checked"]
      /\ \A g \in Skbs : g # f => skb'[g] = skb[g]
  BY <1>1, <1>2, <1>5
<1>7. skb'[f].at = "checked" /\ skb'[f].kind = skb[f].kind /\ skb'[f].ends = skb[f].ends
  BY <1>2, <1>6 DEF FrameRecords
<1>8. txUpset \subseteq txUpset' /\ txUpset' \subseteq Troubles
  BY <1>2, <1>3 DEF Troubles
<1>9. Moved(f)
  BY <1>1, <1>2, <1>4, <1>6, <1>7, <1>8 DEF Moved
<1>10. sta_skb \in Skbs => sta_skb # f /\ skb'[sta_skb] = skb[sta_skb]
  BY <1>1, <1>6 DEF TxIInv, NullInv
<1>11. NullInv'
  <2>1. CASE skb[f].kind # "qosnull" /\ sta_skb' = sta_skb /\ txUpset' = txUpset
    BY <1>1, <1>4, <1>7, <1>10, <2>1 DEF TxIInv, NullInv
  <2>2. CASE sta_skb' = sta_skb /\ txUpset' = txUpset \cup {"oops"}
    BY <1>1, <1>10, <2>2 DEF TxIInv, NullInv
  <2>3. CASE /\ skb[f].kind = "qosnull" /\ sta_skb' = f
             /\ HasNull(cfm) /\ txUpset' = txUpset \cup {"overwritten"}
    BY <1>7, <2>3 DEF NullInv
  <2>4. CASE /\ skb[f].kind = "qosnull" /\ sta_skb' = f
             /\ ~HasNull(cfm) /\ txUpset' = txUpset
    BY <1>1, <1>4, <1>7, <2>4 DEF TxIInv, NullInv
  <2> QED BY <1>3, <2>1, <2>2, <2>3, <2>4
<1>12. HeldInv'
  <2>1. \A g \in Skbs : skb'[g].at = "held" => g # f /\ skb[g].at = "held"
    BY <1>6, <1>7
  <2>2. ASSUME txUpset' \cap {"not written", "overwritten", "oops"} = {}, NEW g \in Skbs, skb'[g].at = "held"
        PROVE  g = sta_skb' /\ HasNull(cfm')
    <3>1. g = sta_skb /\ HasNull(cfm) /\ cfm' = cfm
      BY <1>1, <1>8, <2>1, <2>2 DEF TxIInv, HeldInv
    <3>2. sta_skb' = sta_skb
      BY <1>3, <2>2, <3>1
    <3> QED BY <3>1, <3>2
  <2> QED BY <2>2 DEF HeldInv
<1>13. cfm' \in Seq(Confirmations) /\ sta_skb' \in Skbs \cup {None}
  BY <1>1, <1>3 DEF TxIInv, FrameTypes
<1> QED BY <1>1, <1>9, <1>11, <1>12, <1>13, MovedKeeps

\* What writing a frame leaves to be confirmed.
LEMMA OwesMore ==
    ASSUME TxIInv, NEW f \in Skbs
    PROVE  /\ cfm \o Owes(f) \in Seq(Confirmations)
           /\ HasNull(cfm) => HasNull(cfm \o Owes(f))
           /\ skb[f].kind # "qosnull" => /\ HasNull(cfm \o Owes(f)) => HasNull(cfm)
                                         /\ OneNull(cfm) => OneNull(cfm \o Owes(f))
           /\ skb[f].kind = "qosnull" => /\ HasNull(cfm \o Owes(f))
                                         /\ ~HasNull(cfm) => OneNull(cfm \o Owes(f))
<1>1. cfm \in Seq(Confirmations)
  BY DEF TxIInv, FrameTypes
<1>2. CASE skb[f].kind = "qosnull"
  <2>1. Owes(f) = <<"null">> /\ "null" \in Confirmations
    BY <1>2 DEF Owes, Confirmations
  <2> QED BY <1>1, <1>2, <2>1, CfmOwed
<1>3. CASE skb[f].kind = "eapol4"
  <2>1. PICK x \in {"eapol4", "old eapol4"} : Owes(f) = <<x>>
    BY <1>3 DEF Owes
  <2>2. x \in Confirmations /\ x # "null"
    BY DEF Confirmations
  <2> QED BY <1>1, <1>3, <2>1, <2>2, CfmOwed
<1>4. CASE skb[f].kind \notin {"qosnull", "eapol4"}
  <2>1. Owes(f) = <<>>
    BY <1>4 DEF Owes
  <2>2. cfm \o <<>> = cfm
    BY <1>1, ConcatEmptySeq
  <2> QED BY <1>1, <1>4, <2>1, <2>2
<1> QED BY <1>2, <1>3, <1>4

LEMMA WriteKeeps == ASSUME TxIInv, WriteFrame PROVE TxIInv'
<1> DEFINE f == sending
<1>1. PICK written \in BOOLEAN :
          /\ cfm' = IF written THEN cfm \o Owes(f) ELSE cfm
          /\ IF WaitsForConfirm(f)
               THEN /\ skb' = [skb EXCEPT ![f].at = "held"]
                    /\ sending' = None
                    /\ IF written THEN UNCHANGED txUpset ELSE Blame("not written")
               ELSE Reported(f)
  BY DEF WriteFrame
<1>2. /\ f \in Skbs /\ skb[f].at = "checked" /\ "oops" \notin txUpset
      /\ UNCHANGED <<osVars, linkVars, mgmt_q, sta_skb>>
  BY DEF WriteFrame, TxIInv, FrameTypes
<1>3. /\ skb \in [Skbs -> FrameRecords] /\ skb[f] \in FrameRecords
      /\ (\A i \in DOMAIN mgmt_q : mgmt_q[i] # f)
      /\ skb[f].ends = 0 /\ txUpset \subseteq Troubles
      /\ cfm \in Seq(Confirmations)
  BY <1>2 DEF TxIInv, QueueInv, LiveInv, FrameTypes
<1>4. f = sending /\ None \notin Skbs
  BY DEF None, Skbs
<1> HIDE DEF f
<1>5. sending' = None
  BY <1>1 DEF Reported
<1>6. CASE skb[f].kind = "qosnull"
  <2>1. /\ skb' = [skb EXCEPT ![f].at = "held"]
        /\ \/ written = TRUE /\ txUpset' = txUpset /\ cfm' = cfm \o Owes(f)
           \/ txUpset' = txUpset \cup {"not written"} /\ cfm' = cfm
    BY <1>1, <1>6 DEF WaitsForConfirm, Blame
  <2>2. [skb[f] EXCEPT !.at = "held"] \in FrameRecords
    BY <1>3 DEF FrameRecords
  <2>3. /\ skb' \in [Skbs -> FrameRecords] /\ skb'[f] = [skb[f] EXCEPT !.at = "held"]
        /\ \A g \in Skbs : g # f => skb'[g] = skb[g]
    BY <1>2, <1>3, <2>1, <2>2
  <2>4. skb'[f].at = "held" /\ skb'[f].kind = skb[f].kind /\ skb'[f].ends = skb[f].ends
    BY <1>3, <2>3 DEF FrameRecords
  <2>5. txUpset \subseteq txUpset' /\ txUpset' \subseteq Troubles
    BY <1>3, <2>1 DEF Troubles
  <2>6. Moved(f)
    BY <1>2, <1>3, <1>5, <2>3, <2>4, <2>5 DEF Moved
  <2>7. cfm' \in Seq(Confirmations) /\ sta_skb' \in Skbs \cup {None}
    BY <1>2, <2>1, OwesMore DEF TxIInv, FrameTypes
  <2>8. "overwritten" \notin txUpset => ~HasNull(cfm) /\ sta_skb = f /\ OneNull(cfm)
    BY <1>2, <1>4, <1>6 DEF TxIInv, NullInv
  <2>9. "overwritten" \in txUpset' <=> "overwritten" \in txUpset
    BY <2>1
  <2>10. NullInv'
    <3>1. sta_skb' \in Skbs => skb'[sta_skb'].kind = "qosnull" /\ skb'[sta_skb'].at \in {"checked", "held", "gone"}
      BY <1>2, <1>6, <2>3, <2>4 DEF TxIInv, NullInv
    <3>2. "overwritten" \notin txUpset' => OneNull(cfm')
      BY <1>2, <1>6, <2>1, <2>8, <2>9, OwesMore
    <3>3. "overwritten" \notin txUpset' => sta_skb' \in Skbs /\ skb'[sta_skb'].at = "held"
      BY <1>2, <2>4, <2>8, <2>9
    <3>4. sending' \notin Skbs
      BY <1>4, <1>5
    <3> QED BY <3>1, <3>2, <3>3, <3>4 DEF NullInv
  <2>11. HeldInv'
    <3>1. ASSUME txUpset' \cap {"not written", "overwritten", "oops"} = {}, NEW g \in Skbs, skb'[g].at = "held"
          PROVE  g = sta_skb' /\ HasNull(cfm')
      <4>1. txUpset' = txUpset /\ cfm' = cfm \o Owes(f)
        BY <2>1, <3>1
      <4>2. HasNull(cfm')
        BY <1>2, <1>6, <4>1, OwesMore
      <4>3. ~HasNull(cfm) /\ sta_skb = f
        BY <2>8, <3>1, <4>1
      <4>4. g = f
        BY <2>3, <3>1, <4>1, <4>3 DEF TxIInv, HeldInv
      <4> QED BY <1>2, <4>2, <4>3, <4>4
    <3> QED BY <3>1 DEF HeldInv
  <2> QED BY <1>2, <2>6, <2>7, <2>10, <2>11, MovedKeeps
<1>7. CASE skb[f].kind # "qosnull"
  <2>1. Indicate(f) /\ (cfm' = cfm \/ cfm' = cfm \o Owes(f))
    BY <1>1, <1>7 DEF WaitsForConfirm, Reported
  <2>2. /\ skb'[f].at = "gone" /\ (\A g \in Skbs : g # f => skb'[g] = skb[g])
        /\ txUpset' = txUpset \/ txUpset' = txUpset \cup {"down"}
    BY <1>2, <2>1, IndicateEffect
  <2>3. Moved(f)
    BY <1>2, <1>3, <1>5, <2>1, IndicateEffect DEF Moved, Troubles
  <2>4. /\ cfm' \in Seq(Confirmations)
        /\ HasNull(cfm') <=> HasNull(cfm)
        /\ OneNull(cfm) => OneNull(cfm')
    BY <1>2, <1>3, <1>7, <2>1, OwesMore
  <2>5. NullInv'
    <3>1. sending' \notin Skbs
      BY <1>4, <1>5
    <3>2. sta_skb \in Skbs => sta_skb # f /\ skb'[sta_skb] = skb[sta_skb]
      BY <1>7, <2>2 DEF TxIInv, NullInv
    <3> QED BY <1>2, <2>2, <2>4, <3>1, <3>2 DEF TxIInv, NullInv
  <2>6. HeldInv'
    <3>1. \A g \in Skbs : skb'[g].at = "held" => skb[g].at = "held"
      BY <2>2
    <3> QED BY <1>2, <2>2, <2>4, <3>1 DEF TxIInv, HeldInv
  <2>7. sta_skb' \in Skbs \cup {None}
    BY <1>2 DEF TxIInv, FrameTypes
  <2> QED BY <1>2, <2>3, <2>4, <2>5, <2>6, <2>7, MovedKeeps
<1> QED BY <1>6, <1>7

LEMMA NullConfirmKeeps == ASSUME TxIInv, NullConfirm PROVE TxIInv'
<1> DEFINE f == sta_skb
<1>1. /\ cfm \in Seq(Confirmations) /\ cfm # <<>> /\ Head(cfm) = "null" /\ cfm' = Tail(cfm)
      /\ UNCHANGED <<osVars, linkVars, mgmt_q, sending, sta_skb>>
      /\ txUpset \subseteq Troubles /\ skb \in [Skbs -> FrameRecords]
  BY DEF NullConfirm, TxIInv, FrameTypes
<1>2. /\ cfm' \in Seq(Confirmations) /\ HasNull(cfm)
      /\ OneNull(cfm) => OneNull(cfm') /\ ~HasNull(cfm')
      /\ HasNull(cfm') => HasNull(cfm)
  BY <1>1, TailOfCfm
<1>3. LinkTypes' /\ OsTypes' /\ (HandshakeInv' \/ ~(txUpset \subseteq txUpset'))
  BY <1>1 DEF TxIInv, LinkTypes, OsTypes, HandshakeInv, osVars, linkVars
<1>4. CASE ~vif
  <2>1. UNCHANGED skb /\ txUpset' = txUpset \cup {"oops"}
    BY <1>4 DEF NullConfirm, Blame
  <2>2. txUpset \subseteq txUpset' /\ txUpset' \subseteq Troubles
    BY <1>1, <2>1 DEF Troubles
  <2>3. HandshakeInv'
    BY <1>3, <2>2
  <2>4. OneNull(cfm) => OneNull(cfm')
    BY <1>2
  <2>5. txUpset' \cap {"not written", "overwritten", "oops"} # {}
    BY <2>1
  <2> QED BY <1>1, <1>2, <1>3, <2>1, <2>2, <2>3, <2>4, <2>5, UnmovedKeeps
<1>5. CASE vif /\ f \notin Skbs
  <2>1. UNCHANGED skb /\ (txUpset' = txUpset \/ txUpset' = txUpset \cup {"down"})
    BY <1>1, <1>5 DEF NullConfirm, Indicate, Confirmed, Blame
  <2>2. "overwritten" \in txUpset
    BY <1>2, <1>5 DEF TxIInv, NullInv
  <2>3. txUpset \subseteq txUpset' /\ txUpset' \subseteq Troubles
    BY <1>1, <2>1 DEF Troubles
  <2>4. HandshakeInv'
    BY <1>3, <2>3
  <2>5. txUpset' \cap {"not written", "overwritten", "oops"} # {}
    BY <2>2, <2>3
  <2>6. OneNull(cfm) => OneNull(cfm')
    BY <1>2
  <2> QED BY <1>1, <1>2, <1>3, <2>1, <2>3, <2>4, <2>5, <2>6, UnmovedKeeps
<1>6. CASE vif /\ f \in Skbs
  <2>1. Indicate(f) /\ skb[f].kind = "qosnull" /\ skb[f].at \in {"checked", "held", "gone"}
    BY <1>6 DEF NullConfirm, Confirmed, TxIInv, NullInv
  <2>2. "overwritten" \notin txUpset => skb[f].at = "held" /\ skb[f].ends = 0 /\ OneNull(cfm)
    BY <1>2, <1>6 DEF TxIInv, NullInv, LiveInv
  <2>3. \A i \in DOMAIN mgmt_q : mgmt_q[i] # f
    BY <2>1 DEF TxIInv, QueueInv
  <2>4. f = sta_skb
    OBVIOUS
  <2> HIDE DEF f
  <2>5. /\ skb'[f].at = "gone" /\ skb'[f].kind = "qosnull" /\ (\A g \in Skbs : g # f => skb'[g] = skb[g])
        /\ txUpset' = txUpset \/ txUpset' = txUpset \cup {"down"}
    BY <1>6, <2>1, IndicateEffect
  <2>6. Moved(f)
    <3>1. skb'[f].ends > 1 => "overwritten" \in txUpset'
      BY <1>6, <2>1, <2>2, <2>5, IndicateEffect
    <3> QED BY <1>1, <1>6, <2>1, <2>3, <2>5, <3>1, IndicateEffect DEF Moved, Troubles
  <2>7. NullInv'
    <3>1. "overwritten" \notin txUpset' => OneNull(cfm') /\ ~HasNull(cfm')
      BY <1>2, <2>2, <2>5
    <3>2. ASSUME "overwritten" \notin txUpset', sending \in Skbs
          PROVE  ~(skb'[sending].at = "checked" /\ skb'[sending].kind = "qosnull" /\ "oops" \notin txUpset')
      <4>1. "overwritten" \notin txUpset /\ ("oops" \in txUpset' <=> "oops" \in txUpset)
        BY <2>5, <3>2
      <4>2. CASE sending = f
        BY <2>5, <4>2
      <4>3. CASE sending # f
        BY <1>2, <2>5, <3>2, <4>1, <4>3 DEF TxIInv, NullInv
      <4> QED BY <4>2, <4>3
    <3> QED BY <1>1, <2>4, <2>5, <3>1, <3>2 DEF NullInv
  <2>8. HeldInv'
    <3>1. ASSUME txUpset' \cap {"not written", "overwritten", "oops"} = {}, NEW g \in Skbs, skb'[g].at = "held"
          PROVE  FALSE
      <4>1. g # f /\ skb[g].at = "held" /\ txUpset \cap {"not written", "overwritten", "oops"} = {}
        BY <2>5, <3>1
      <4> QED BY <2>4, <4>1 DEF TxIInv, HeldInv
    <3> QED BY <3>1 DEF HeldInv
  <2>9. sta_skb' \in Skbs \cup {None}
    BY <1>1, <1>6, <2>4
  <2> QED BY <1>2, <1>6, <2>6, <2>7, <2>8, <2>9, MovedKeeps
<1> QED BY <1>4, <1>5, <1>6

LEMMA EapolConfirmKeeps == ASSUME TxIInv, EapolConfirm PROVE TxIInv'
<1>1. /\ cfm \in Seq(Confirmations) /\ cfm # <<>> /\ Head(cfm) # "null" /\ cfm' = Tail(cfm)
      /\ UNCHANGED <<osVars, skb, mgmt_q, sending, sta_skb>>
      /\ txUpset \subseteq Troubles
  BY DEF EapolConfirm, TxIInv, FrameTypes
<1>2. /\ cfm' \in Seq(Confirmations)
      /\ HasNull(cfm') => HasNull(cfm)
      /\ HasNull(cfm) => HasNull(cfm')
      /\ OneNull(cfm) => OneNull(cfm')
  BY <1>1, TailOfCfm
<1>3. \/ eapol4_confirm' = TRUE /\ handshaken' = TRUE /\ txUpset' = txUpset
      \/ eapol4_confirm' = TRUE /\ handshaken' = handshaken /\ txUpset' = txUpset \cup {"late confirm"}
      \/ eapol4_confirm' = eapol4_confirm /\ handshaken' = handshaken /\ txUpset' = txUpset
  BY DEF EapolConfirm, Blame
<1>4. data_blocked' \in {FALSE, data_blocked}
  BY DEF EapolConfirm
<1>5. LinkTypes'
  BY <1>3, <1>4 DEF TxIInv, LinkTypes
<1>6. HandshakeInv'
  BY <1>1, <1>3 DEF TxIInv, HandshakeInv, osVars
<1>7. txUpset \subseteq txUpset' /\ txUpset' \subseteq Troubles
  BY <1>1, <1>3 DEF Troubles
<1> QED BY <1>1, <1>2, <1>5, <1>6, <1>7, UnmovedKeeps

LEMMA TxStep == TxIInv /\ [TxPathNext]_txPathVars => TxIInv'
<1> SUFFICES ASSUME TxIInv, [TxPathNext]_txPathVars PROVE TxIInv'
  OBVIOUS
<1>1. CASE \E f \in Skbs : MacTx(f)
  BY <1>1, MacTxKeeps
<1>2. CASE TakeMgmt \/ \E f \in Skbs : TakeData(f)
  BY <1>2, TakeKeeps
<1>3. CASE DropUnsent \/ DropProbe
  BY <1>3, DropKeeps
<1>4. CASE CheckFrame
  BY <1>4, CheckKeeps
<1>5. CASE WriteFrame
  BY <1>5, WriteKeeps
<1>6. CASE NullConfirm
  BY <1>6, NullConfirmKeeps
<1>7. CASE EapolConfirm
  BY <1>7, EapolConfirmKeeps
<1>8. CASE OsActs
  BY <1>8, OsKeeps
<1>9. CASE UNCHANGED txPathVars
  <2>1. /\ UNCHANGED <<ap, vif, iface_down, associated, peer, bgscan_en>>
        /\ UNCHANGED <<data_blocked, eapol4_confirm, handshaken>>
        /\ UNCHANGED <<skb, mgmt_q, sending, sta_skb, cfm, txUpset>>
    BY <1>9 DEF txPathVars, osVars, linkVars, frameVars
  <2>2. FrameTypes' /\ OsTypes' /\ LinkTypes'
    BY <2>1 DEF TxIInv, FrameTypes, OsTypes, LinkTypes
  <2>3. QueueInv' /\ LiveInv' /\ NullInv' /\ HeldInv' /\ HandshakeInv'
    BY <2>1 DEF TxIInv, QueueInv, LiveInv, NullInv, HeldInv, HandshakeInv
  <2>4. EndsOnce' /\ NothingLost' /\ HandshakePasses'
    BY <2>1 DEF TxIInv, EndsOnce, NothingLost, HandshakePasses
  <2> QED BY <2>2, <2>3, <2>4 DEF TxIInv
<1> QED BY <1>1, <1>2, <1>3, <1>4, <1>5, <1>6, <1>7, <1>8, <1>9 DEF TxPathNext, OsActs

LEMMA TxImplies == TxIInv => TxPathInv
<1> SUFFICES ASSUME TxIInv PROVE HeldIsAwaited
  BY DEF TxIInv, TxPathInv
<1> QED BY DEF TxIInv, HeldInv, HasNull, HeldIsAwaited

\* Every frame comes back to mac80211 once, a kept frame has its confirmation coming, and no
\* handshake waits behind the data it unblocks, but for the troubles the code meets on the way
\* (rsi_mac80211_tx, rsi_core_xmit, the sends of rsi_91x_hal.c and TX_STATUS_IND).
THEOREM FramesComeBackOnce == TxPathSpec => []TxPathInv
<1>1. TxPathInit => TxIInv
  BY TxInitial
<1>2. TxIInv /\ [TxPathNext]_txPathVars => TxIInv'
  BY TxStep
<1>3. TxIInv => TxPathInv
  BY TxImplies
<1> QED BY <1>1, <1>2, <1>3, PTL DEF TxPathSpec

\* The three parts together (what the data run checks on its small instance).
THEOREM DataPathCorrect == TxPathSpec /\ FlowSpec /\ RxSpec => []DataPathInv
<1>1. TxPathInv /\ FlowInv /\ HeadersBelong => DataPathInv
  BY DEF DataPathInv
<1> QED BY <1>1, FramesComeBackOnce, QueuesAreWokenAndBounded, SubframesGetTheirHeader, PTL

-----------------------------------------------------------------------------
(* Start-up and tear-down.                                                 *)


Services == {"hw", "registered", "bands", "dfsentry"}

Running == at \notin {"out", "gone"}

\* The pointers name all that exists, and of what does not exist only what a trouble took
\* away behind their back.
PointerInv ==
    /\ held \subseteq points
    /\ "core" \in held <=> Running
    /\ points \ held \subseteq {"workqueue", "dfsentry", "rx_thread", "tx_buffer"}
    /\ "workqueue" \in points \ held => "workqueue" \in troubles
    /\ "dfsentry" \in points \ held => "dir" \in troubles
    /\ "rx_thread" \in points \ held => "read" \in troubles
    /\ "tx_buffer" \in points \ held => "urb" \in troubles

Entered == {"receive", "load", "msword", "submit", "up", "dev_init", "claim_irq",
            "kill_thread", "err1", "leave", "irq", "detach", "disable", "lower", "core"}

\* Which places belong to one bus only.
LineInv ==
    /\ at \in {"receive", "dev_init", "claim_irq", "kill_thread", "irq", "disable"} => line = "sdio"
    /\ at \in {"submit", "err1", "lower", "oops"} => line = "usb"

\* Between the interface and the end, its device structure exists.
DeviceInv == at \in Entered => "rsi_dev" \in held

\* Where each resource of the os layer and of the bus may exist, but for a forgotten one.
PlaceInv ==
    /\ "workqueue" \in held => Running \/ troubles \cap {"pins", "no_tx_thread", "coex"} # {}
    /\ "tx_thread" \in held => Running \/ "coex" \in troubles
    /\ "socket" \in held => Running
    /\ "rsi_dev" \in held => Running /\ at # "interface"
    /\ "func" \in held =>
         \/ at \in {"receive", "load", "msword", "up", "dev_init", "claim_irq",
                    "kill_thread", "leave", "irq", "detach", "disable"} /\ line = "sdio"
         \/ "id" \in troubles /\ line = "sdio"
    /\ "irq" \in held =>
         at \in {"load", "msword", "up", "dev_init", "leave", "irq"} /\ line = "sdio"
    /\ "temp_buf" \in held =>
         at \in {"load", "msword", "up", "dev_init", "claim_irq", "leave", "irq"} /\ line = "sdio"
    /\ "rx_thread" \in held =>
         \/ at \in {"load", "msword", "up", "dev_init", "claim_irq", "leave"} /\ line = "sdio"
         \/ at \in {"submit", "load", "msword", "up", "err1", "leave", "detach", "lower"}
              /\ line = "usb"
    /\ "tx_buffer" \in held =>
         at \in {"submit", "load", "msword", "up", "err1", "leave", "detach", "lower"}
              /\ line = "usb"
    /\ "rx_urb" \in held =>
         /\ line = "usb"
         /\ \/ at \in {"submit", "load", "msword", "up", "err1", "leave", "detach", "lower"}
            \/ "no_rx_thread" \in troubles

\* A transfer in flight: at the end of a probe only after a failure.
FlightInv ==
    "inflight" \in held =>
        /\ line = "usb" /\ at \in {"load", "msword", "up", "err1", "free_adapter", "gone"}
        /\ at = "free_adapter" => "rsi_dev" \in held
        /\ at \in {"err1", "free_adapter", "gone"} => troubles # {}

\* What the boot acquired: nothing before it, and past the detach only if it overtook it.
ServiceInv ==
    /\ card # "booted" => points \cap Services = {}
    /\ card = "booted" => at \notin {"out", "interface", "receive", "load", "submit", "oops"}
    /\ points \cap Services # {} =>
         BootOvertook \/ at \in {"msword", "up", "leave", "irq", "detach"}
    /\ "hw" \in points /\ "registered" \notin held => "register" \in troubles
    /\ at \in {"dev_init", "claim_irq", "err1"} => troubles \cap {"load", "submit", "irq", "id"} # {}
    /\ at \in {"dev_init", "err1"} /\ card = "booted" => BootOvertook
    /\ card = "booted" /\ ~ BootOvertook =>
         at \notin {"dev_init", "claim_irq", "kill_thread", "free_adapter", "err1"}

LifeIInv ==
    /\ LifeTypeOK /\ PointerInv /\ LineInv /\ DeviceInv /\ PlaceInv /\ FlightInv
    /\ ServiceInv /\ NothingTwice

\* Types are kept.
LEMMA TypeStep ==
    ASSUME LifeIInv, LifeNext
    PROVE  LifeTypeOK'
<1>. USE DEF LifeIInv, LifeTypeOK, Resources, Core, Moves, NoTrouble, Fails, Acquire,
     Release, KeepsAll
<1>1. CASE OsInit
  BY <1>1 DEF OsInit
<1>2. CASE OsDeinit
  BY <1>2 DEF OsDeinit
<1>3. CASE BadMode
  BY <1>3 DEF BadMode
<1>4. CASE SdioInterface
  BY <1>4 DEF SdioInterface
<1>5. CASE SdioReceive
  BY <1>5 DEF SdioReceive
<1>6. CASE SdioLoad
  BY <1>6 DEF SdioLoad
<1>7. CASE SdioUnwind
  BY <1>7 DEF SdioUnwind
<1>8. CASE SdioDisconnect
  BY <1>8 DEF SdioDisconnect
<1>9. CASE UsbInterface
  BY <1>9 DEF UsbInterface
<1>10. CASE UsbSubmit
  BY <1>10 DEF UsbSubmit
<1>11. CASE UsbLoad
  BY <1>11 DEF UsbLoad
<1>12. CASE UsbLate
  BY <1>12 DEF UsbLate
<1>13. CASE UsbDeinit
  BY <1>13 DEF UsbDeinit
<1>14. CASE UsbDisconnect
  BY <1>14 DEF UsbDisconnect
<1>15. CASE Attach
  BY <1>15 DEF Attach, Served, TooLate
<1>16. CASE Detach
  BY <1>16 DEF Detach
<1>17. CASE ReadFails
  BY <1>17 DEF ReadFails
<1>18. CASE Unplug
  BY <1>18 DEF Unplug
<1>. QED  BY <1>1, <1>2, <1>3, <1>4, <1>5, <1>6, <1>7, <1>8, <1>9,
             <1>10, <1>11, <1>12, <1>13, <1>14, <1>15, <1>16, <1>17, <1>18 DEF LifeNext

\* A pointer is set with what it names and cleared with its release.
LEMMA PointerStep ==
    ASSUME LifeIInv, LifeNext
    PROVE  PointerInv'
<1>. USE DEF LifeIInv, LifeTypeOK, PointerInv, LineInv, ServiceInv, Core, Running, Moves,
     NoTrouble, Fails, Acquire, Release, KeepsAll
<1>1. CASE OsInit
  BY <1>1 DEF OsInit
<1>2. CASE OsDeinit
  BY <1>2 DEF OsDeinit
<1>3. CASE BadMode
  BY <1>3 DEF BadMode
<1>4. CASE SdioInterface
  BY <1>4 DEF SdioInterface
<1>5. CASE SdioReceive
  BY <1>5 DEF SdioReceive
<1>6. CASE SdioLoad
  BY <1>6 DEF SdioLoad
<1>7. CASE SdioUnwind
  BY <1>7 DEF SdioUnwind
<1>8. CASE SdioDisconnect
  BY <1>8 DEF SdioDisconnect
<1>9. CASE UsbInterface
  BY <1>9 DEF UsbInterface
<1>10. CASE UsbSubmit
  BY <1>10 DEF UsbSubmit
<1>11. CASE UsbLoad
  BY <1>11 DEF UsbLoad
<1>12. CASE UsbLate
  BY <1>12 DEF UsbLate
<1>13. CASE UsbDeinit
  BY <1>13 DEF UsbDeinit
<1>14. CASE UsbDisconnect
  BY <1>14 DEF UsbDisconnect
<1>15. CASE Attach
  BY <1>15 DEF Attach, Served, TooLate
<1>16. CASE Detach
  BY <1>16 DEF Detach
<1>17. CASE ReadFails
  BY <1>17 DEF ReadFails
<1>18. CASE Unplug
  BY <1>18 DEF Unplug
<1>. QED  BY <1>1, <1>2, <1>3, <1>4, <1>5, <1>6, <1>7, <1>8, <1>9,
             <1>10, <1>11, <1>12, <1>13, <1>14, <1>15, <1>16, <1>17, <1>18 DEF LifeNext

\* Each bus keeps to its own labels.
LEMMA LineStep ==
    ASSUME LifeIInv, LifeNext
    PROVE  LineInv'
<1>. USE DEF LifeIInv, LifeTypeOK, LineInv, Resources, Moves, NoTrouble, Fails, Acquire,
     Release, KeepsAll
<1>1. CASE OsInit
  BY <1>1 DEF OsInit
<1>2. CASE OsDeinit
  BY <1>2 DEF OsDeinit
<1>3. CASE BadMode
  BY <1>3 DEF BadMode
<1>4. CASE SdioInterface
  BY <1>4 DEF SdioInterface
<1>5. CASE SdioReceive
  BY <1>5 DEF SdioReceive
<1>6. CASE SdioLoad
  BY <1>6 DEF SdioLoad
<1>7. CASE SdioUnwind
  BY <1>7 DEF SdioUnwind
<1>8. CASE SdioDisconnect
  BY <1>8 DEF SdioDisconnect
<1>9. CASE UsbInterface
  BY <1>9 DEF UsbInterface
<1>10. CASE UsbSubmit
  BY <1>10 DEF UsbSubmit
<1>11. CASE UsbLoad
  BY <1>11 DEF UsbLoad
<1>12. CASE UsbLate
  BY <1>12 DEF UsbLate
<1>13. CASE UsbDeinit
  BY <1>13 DEF UsbDeinit
<1>14. CASE UsbDisconnect
  BY <1>14 DEF UsbDisconnect
<1>15. CASE Attach
  BY <1>15 DEF Attach, Served, TooLate
<1>16. CASE Detach
  BY <1>16 DEF Detach
<1>17. CASE ReadFails
  BY <1>17 DEF ReadFails
<1>18. CASE Unplug
  BY <1>18 DEF Unplug
<1>. QED  BY <1>1, <1>2, <1>3, <1>4, <1>5, <1>6, <1>7, <1>8, <1>9,
             <1>10, <1>11, <1>12, <1>13, <1>14, <1>15, <1>16, <1>17, <1>18 DEF LifeNext

\* The device structure is released by rsi_91x_deinit only.
LEMMA DeviceStep ==
    ASSUME LifeIInv, LifeNext
    PROVE  DeviceInv'
<1>. USE DEF LifeIInv, PointerInv, LineInv, DeviceInv, Entered, Core, Moves, NoTrouble,
     Fails, Acquire, Release, KeepsAll
<1>1. CASE OsInit
  BY <1>1 DEF OsInit
<1>2. CASE OsDeinit
  BY <1>2 DEF OsDeinit
<1>3. CASE BadMode
  BY <1>3 DEF BadMode
<1>4. CASE SdioInterface
  BY <1>4 DEF SdioInterface
<1>5. CASE SdioReceive
  BY <1>5 DEF SdioReceive
<1>6. CASE SdioLoad
  BY <1>6 DEF SdioLoad
<1>7. CASE SdioUnwind
  BY <1>7 DEF SdioUnwind
<1>8. CASE SdioDisconnect
  BY <1>8 DEF SdioDisconnect
<1>9. CASE UsbInterface
  BY <1>9 DEF UsbInterface
<1>10. CASE UsbSubmit
  BY <1>10 DEF UsbSubmit
<1>11. CASE UsbLoad
  BY <1>11 DEF UsbLoad
<1>12. CASE UsbLate
  BY <1>12 DEF UsbLate
<1>13. CASE UsbDeinit
  BY <1>13 DEF UsbDeinit
<1>14. CASE UsbDisconnect
  BY <1>14 DEF UsbDisconnect
<1>15. CASE Attach
  BY <1>15 DEF Attach, Served, TooLate
<1>16. CASE Detach
  BY <1>16 DEF Detach
<1>17. CASE ReadFails
  BY <1>17 DEF ReadFails
<1>18. CASE Unplug
  BY <1>18 DEF Unplug
<1>. QED  BY <1>1, <1>2, <1>3, <1>4, <1>5, <1>6, <1>7, <1>8, <1>9,
             <1>10, <1>11, <1>12, <1>13, <1>14, <1>15, <1>16, <1>17, <1>18 DEF LifeNext

\* What a label does not release does not exist there.
LEMMA PlaceStep ==
    ASSUME LifeIInv, LifeNext
    PROVE  PlaceInv'
<1>. USE DEF LifeIInv, PointerInv, LineInv, PlaceInv, LifeTypeOK, Running, Core, Moves,
     NoTrouble, Fails, Acquire, Release, KeepsAll
<1>1. CASE OsInit
  BY <1>1 DEF OsInit
<1>2. CASE OsDeinit
  BY <1>2 DEF OsDeinit
<1>3. CASE BadMode
  BY <1>3 DEF BadMode
<1>4. CASE SdioInterface
  BY <1>4 DEF SdioInterface
<1>5. CASE SdioReceive
  BY <1>5 DEF SdioReceive
<1>6. CASE SdioLoad
  BY <1>6 DEF SdioLoad
<1>7. CASE SdioUnwind
  BY <1>7 DEF SdioUnwind
<1>8. CASE SdioDisconnect
  BY <1>8 DEF SdioDisconnect
<1>9. CASE UsbInterface
  BY <1>9 DEF UsbInterface
<1>10. CASE UsbSubmit
  BY <1>10 DEF UsbSubmit
<1>11. CASE UsbLoad
  BY <1>11 DEF UsbLoad
<1>12. CASE UsbLate
  BY <1>12 DEF UsbLate
<1>13. CASE UsbDeinit
  BY <1>13 DEF UsbDeinit
<1>14. CASE UsbDisconnect
  BY <1>14 DEF UsbDisconnect
<1>15. CASE Attach
  BY <1>15 DEF Attach, Served, TooLate
<1>16. CASE Detach
  BY <1>16 DEF Detach
<1>17. CASE ReadFails
  BY <1>17 DEF ReadFails
<1>18. CASE Unplug
  BY <1>18 DEF Unplug
<1>. QED  BY <1>1, <1>2, <1>3, <1>4, <1>5, <1>6, <1>7, <1>8, <1>9,
             <1>10, <1>11, <1>12, <1>13, <1>14, <1>15, <1>16, <1>17, <1>18 DEF LifeNext

\* A transfer in flight is forgotten by a failing probe only.
LEMMA FlightStep ==
    ASSUME LifeIInv, LifeNext
    PROVE  FlightInv'
<1>. USE DEF LifeIInv, PointerInv, LineInv, DeviceInv, FlightInv, LifeTypeOK, Entered,
     Core, Moves, NoTrouble, Fails, Acquire, Release, KeepsAll
<1>1. CASE OsInit
  BY <1>1 DEF OsInit
<1>2. CASE OsDeinit
  BY <1>2 DEF OsDeinit
<1>3. CASE BadMode
  BY <1>3 DEF BadMode
<1>4. CASE SdioInterface
  BY <1>4 DEF SdioInterface
<1>5. CASE SdioReceive
  BY <1>5 DEF SdioReceive
<1>6. CASE SdioLoad
  BY <1>6 DEF SdioLoad
<1>7. CASE SdioUnwind
  BY <1>7 DEF SdioUnwind
<1>8. CASE SdioDisconnect
  BY <1>8 DEF SdioDisconnect
<1>9. CASE UsbInterface
  BY <1>9 DEF UsbInterface
<1>10. CASE UsbSubmit
  BY <1>10 DEF UsbSubmit
<1>11. CASE UsbLoad
  BY <1>11 DEF UsbLoad
<1>12. CASE UsbLate
  BY <1>12 DEF UsbLate
<1>13. CASE UsbDeinit
  BY <1>13 DEF UsbDeinit
<1>14. CASE UsbDisconnect
  BY <1>14 DEF UsbDisconnect
<1>15. CASE Attach
  BY <1>15 DEF Attach, Served, TooLate
<1>16. CASE Detach
  BY <1>16 DEF Detach
<1>17. CASE ReadFails
  BY <1>17 DEF ReadFails
<1>18. CASE Unplug
  BY <1>18 DEF Unplug
<1>. QED  BY <1>1, <1>2, <1>3, <1>4, <1>5, <1>6, <1>7, <1>8, <1>9,
             <1>10, <1>11, <1>12, <1>13, <1>14, <1>15, <1>16, <1>17, <1>18 DEF LifeNext

\* The services come with the boot and go with the detach.
LEMMA ServiceStep ==
    ASSUME LifeIInv, LifeNext
    PROVE  ServiceInv'
<1>. USE DEF LifeIInv, PointerInv, LineInv, ServiceInv, LifeTypeOK, Services, BootOvertook,
     Core, Moves, NoTrouble, Fails, Acquire, Release, KeepsAll
<1>1. CASE OsInit
  BY <1>1 DEF OsInit
<1>2. CASE OsDeinit
  BY <1>2 DEF OsDeinit
<1>3. CASE BadMode
  BY <1>3 DEF BadMode
<1>4. CASE SdioInterface
  BY <1>4 DEF SdioInterface
<1>5. CASE SdioReceive
  BY <1>5 DEF SdioReceive
<1>6. CASE SdioLoad
  BY <1>6 DEF SdioLoad
<1>7. CASE SdioUnwind
  BY <1>7 DEF SdioUnwind
<1>8. CASE SdioDisconnect
  BY <1>8 DEF SdioDisconnect
<1>9. CASE UsbInterface
  BY <1>9 DEF UsbInterface
<1>10. CASE UsbSubmit
  BY <1>10 DEF UsbSubmit
<1>11. CASE UsbLoad
  BY <1>11 DEF UsbLoad
<1>12. CASE UsbLate
  BY <1>12 DEF UsbLate
<1>13. CASE UsbDeinit
  BY <1>13 DEF UsbDeinit
<1>14. CASE UsbDisconnect
  BY <1>14 DEF UsbDisconnect
<1>15. CASE Attach
  BY <1>15 DEF Attach, Served, TooLate
<1>16. CASE Detach
  BY <1>16 DEF Detach
<1>17. CASE ReadFails
  BY <1>17 DEF ReadFails
<1>18. CASE Unplug
  BY <1>18 DEF Unplug
<1>. QED  BY <1>1, <1>2, <1>3, <1>4, <1>5, <1>6, <1>7, <1>8, <1>9,
             <1>10, <1>11, <1>12, <1>13, <1>14, <1>15, <1>16, <1>17, <1>18 DEF LifeNext

\* A release of what only a trouble took away.
LEMMA ReleasesMiss ==
    ASSUME LifeIInv, misuse' \subseteq misuse \cup (points \ held),
           at' # "gone" /\ at # "gone" /\ line' = line /\ troubles' = troubles
    PROVE  NothingTwice'
BY DEF LifeIInv, PointerInv, NothingTwice, Without, Forgetful

\* A step that misuses nothing.
LEMMA QuietTwice ==
    ASSUME LifeIInv, misuse' = misuse, at # "gone", line' = line, troubles \subseteq troubles'
    PROVE  NothingTwice'
BY DEF LifeIInv, NothingTwice, Without, Forgetful

\* A release meets what does not exist only after a trouble.
LEMMA TwiceStep ==
    ASSUME LifeIInv, LifeNext
    PROVE  NothingTwice'
<1>. USE DEF LifeIInv, PointerInv, LineInv, PlaceInv, DeviceInv, ServiceInv, NothingTwice,
     LifeTypeOK, Without, Forgetful, Core, Running, Services, Resources, Moves, NoTrouble,
     Fails, Acquire, Release, KeepsAll
<1>1. CASE OsInit
  <2>1. misuse' = misuse /\ at # "gone" /\ line' = line /\ troubles \subseteq troubles'
    BY <1>1 DEF OsInit
  <2>. QED  BY <2>1, QuietTwice
<1>2. CASE OsDeinit
  BY <1>2 DEF OsDeinit
<1>3. CASE BadMode
  BY <1>3 DEF BadMode
<1>4. CASE SdioInterface
  BY <1>4, ZenonT(60) DEF SdioInterface
<1>5. CASE SdioReceive
  BY <1>5, ZenonT(60) DEF SdioReceive
<1>6. CASE SdioLoad
  BY <1>6 DEF SdioLoad
<1>7. CASE SdioUnwind
  <2>1. misuse' \subseteq misuse \cup (points \ held)
    BY <1>7 DEF SdioUnwind
  <2>2. at' # "gone" /\ at # "gone" /\ line' = line /\ troubles' = troubles
    BY <1>7 DEF SdioUnwind
  <2>. QED  BY <2>1, <2>2, ReleasesMiss
<1>8. CASE SdioDisconnect
  <2>1. misuse' \subseteq misuse \cup (points \ held)
    BY <1>8 DEF SdioDisconnect
  <2>2. at' # "gone" /\ at # "gone" /\ line' = line /\ troubles' = troubles
    BY <1>8 DEF SdioDisconnect
  <2>. QED  BY <2>1, <2>2, ReleasesMiss
<1>9. CASE UsbInterface
  <2>1. at' # "gone" /\ at # "gone" /\ line' = line /\ troubles \subseteq troubles'
    BY <1>9 DEF UsbInterface
  <2>2. \/ misuse' = misuse
        \/ misuse' = misuse \cup {"rx_urb"} /\ "urb" \in troubles'
        \/ misuse' = misuse \cup {"rx_thread"} /\ "no_rx_thread" \in troubles' /\ line = "usb"
    BY <1>9 DEF UsbInterface
  <2>3. CASE "urb" \in troubles'
    BY <2>3
  <2>4. CASE "no_rx_thread" \in troubles' /\ line = "usb"
    BY <2>1, <2>4
  <2>5. CASE misuse' = misuse
    BY <2>1, <2>5
  <2>. QED  BY <2>2, <2>3, <2>4, <2>5
<1>10. CASE UsbSubmit
  BY <1>10, ZenonT(60) DEF UsbSubmit
<1>11. CASE UsbLoad
  BY <1>11 DEF UsbLoad
<1>12. CASE UsbLate
  BY <1>12, ZenonT(60) DEF UsbLate
<1>13. CASE UsbDeinit
  <2>1. misuse' \subseteq misuse \cup (points \ held)
    BY <1>13 DEF UsbDeinit
  <2>2. at' # "gone" /\ at # "gone" /\ line' = line /\ troubles' = troubles
    BY <1>13 DEF UsbDeinit
  <2>. QED  BY <2>1, <2>2, ReleasesMiss
<1>14. CASE UsbDisconnect
  <2>1. misuse' \subseteq misuse \cup (points \ held)
    BY <1>14 DEF UsbDisconnect
  <2>2. at' # "gone" /\ at # "gone" /\ line' = line /\ troubles' = troubles
    BY <1>14 DEF UsbDisconnect
  <2>. QED  BY <2>1, <2>2, ReleasesMiss
<1>15. CASE Attach
  BY <1>15, ZenonT(60) DEF Attach, Served, TooLate
<1>16. CASE Detach
  BY <1>16 DEF Detach
<1>17. CASE ReadFails
  BY <1>17 DEF ReadFails
<1>18. CASE Unplug
  BY <1>18 DEF Unplug
<1>. QED  BY <1>1, <1>2, <1>3, <1>4, <1>5, <1>6, <1>7, <1>8, <1>9,
             <1>10, <1>11, <1>12, <1>13, <1>14, <1>15, <1>16, <1>17, <1>18 DEF LifeNext

LEMMA LifeStart == LifeInit => LifeIInv
<1>. SUFFICES ASSUME LifeInit PROVE LifeIInv
  OBVIOUS
<1>1. LifeTypeOK
  BY DEF LifeInit, LifeTypeOK
<1>2. PointerInv /\ LineInv /\ DeviceInv /\ PlaceInv /\ FlightInv
  BY DEF LifeInit, PointerInv, LineInv, DeviceInv, PlaceInv, FlightInv, Running, Entered
<1>3. ServiceInv /\ NothingTwice
  BY DEF LifeInit, ServiceInv, NothingTwice, BootOvertook, Without
<1>. QED  BY <1>1, <1>2, <1>3 DEF LifeIInv

LEMMA LifeStep == LifeIInv /\ [LifeNext]_lifeVars => LifeIInv'
<1>. SUFFICES ASSUME LifeIInv, [LifeNext]_lifeVars PROVE LifeIInv'
  OBVIOUS
<1>1. CASE LifeNext
  BY <1>1, TypeStep, PointerStep, LineStep, DeviceStep, PlaceStep, FlightStep, ServiceStep,
     TwiceStep DEF LifeIInv
<1>2. CASE UNCHANGED lifeVars
  BY <1>2 DEF lifeVars, LifeIInv, LifeTypeOK, PointerInv, LineInv, DeviceInv, PlaceInv, FlightInv,
     ServiceInv, NothingTwice, Running, Entered, BootOvertook, Without, Forgetful
<1>. QED  BY <1>1, <1>2

\* Nothing is left at the end.
LEMMA NothingLeft == LifeIInv => LeftNothing
BY DEF LifeIInv, LifeTypeOK, LeftNothing, PointerInv, PlaceInv, ServiceInv, Running, Services,
       Resources, Core, Without, Forgetful

\* Everybody who calls has what he reads.
LEMMA CallersHave == LifeIInv => CallersServed
<1>. SUFFICES ASSUME LifeIInv PROVE CallersServed
  OBVIOUS
<1>1. Needs["inflight"] = {"core", "rsi_dev"}
  BY DEF Needs, Resources, Core
<1>2. ASSUME Without({"coex"}), ~ BootOvertook, NEW r \in held \ {"inflight"}
      PROVE  Needs[r] \subseteq held
  <2>1. CASE r \in {"tx_thread", "socket", "hw", "dfsentry"}
    <3>1. Needs[r] = {"core"}
      BY <2>1 DEF Needs, Resources, Core
    <3>2. Running
      BY <1>2, <2>1 DEF LifeIInv, PointerInv, PlaceInv, ServiceInv, Services, Without, Running
    <3>. QED  BY <3>1, <3>2 DEF LifeIInv, PointerInv
  <2>2. CASE r \in {"rx_thread", "irq"}
    <3>1. Needs[r] = {"core", "rsi_dev"}
      BY <2>2 DEF Needs, Resources, Core
    <3>2. Running /\ at \in Entered
      BY <1>2, <2>2 DEF LifeIInv, PlaceInv, Running, Entered
    <3>. QED  BY <3>1, <3>2 DEF LifeIInv, PointerInv, DeviceInv
  <2>3. CASE r \notin {"tx_thread", "socket", "hw", "dfsentry", "rx_thread", "irq"}
    <3>1. r \in Resources /\ r # "inflight"
      BY <1>2 DEF LifeIInv, LifeTypeOK
    <3>. QED  BY <2>3, <3>1 DEF Needs
  <2>. QED  BY <2>1, <2>2, <2>3
<1>3. "inflight" \in held /\ ~ (Needs["inflight"] \subseteq held) => at = "gone" /\ troubles # {}
  BY <1>1 DEF LifeIInv, PointerInv, FlightInv, DeviceInv, Entered, Running
<1>. QED  BY <1>2, <1>3 DEF CallersServed

\* Whatever step of a probe fails and whenever the device goes, what was acquired is given
\* back once, and no caller outlives what it reads (rsi_probe, rsi_disconnect).
THEOREM LifeSafe == LifeSpec => []LifeInv
<1>1. LifeIInv => LifeInv
  BY NothingLeft, CallersHave DEF LifeIInv, LifeInv
<1>. QED  BY <1>1, LifeStart, LifeStep, PTL DEF LifeSpec

-----------------------------------------------------------------------------
(* Target wake time.                                                       *)


Ids == FLOWS \cup {0, 1}
Frames == [kind : {"setup"}, flow : Ids] \cup [kind : {"teardown"}, flow : Ids \cup {AllFlows}]
Replies == [kind : {"teardown"}, flow : Ids \cup {AllFlows}] \cup UNION {Answers(f) : f \in Ids}

Tells(m, f) == m.kind = "answer" /\ m.cmd = "accept" /\ m.flow = f
EndsFlow(m, f) == m.kind = "teardown" /\ m.flow \in {f, AllFlows}

\* A teardown of flow f is on its way in q.
Torn(q, f) == \E i \in 1..Len(q) : EndsFlow(q[i], f)

\* What the station will hold of flow f once it has heard all of q, holding session s now.
Holds(s, q, f) ==
    \/ \E i \in 1..Len(q) : Tells(q[i], f) /\ \A j \in 1..Len(q) : j > i => ~ EndsFlow(q[j], f)
    \/ s = f /\ \A j \in 1..Len(q) : ~ EndsFlow(q[j], f)

NoTeardown(q) == \A i \in 1..Len(q) : q[i].kind # "teardown"

TwtShape ==
    /\ config \in [enable : BOOLEAN, cmd : {"request", "suggest", "demand"},
                   flow : Ids \cup {AllFlows}]
    /\ config.flow = AllFlows => config.enable = FALSE
    /\ session \in Ids \cup {NoFlow} /\ apFlows \subseteq Ids
    /\ toAp \in Seq(Frames) /\ toSta \in Seq(Replies)
    /\ linked \in BOOLEAN /\ supports \in BOOLEAN /\ progress \in BOOLEAN
    /\ timer \in BOOLEAN /\ calling \in BOOLEAN /\ saves \in BOOLEAN /\ paused \in BOOLEAN
    /\ apart \in BOOLEAN /\ unsent \in BOOLEAN

\* Nothing is on its way without a link, and replies only from an access point that knows TWT.
TwtAir ==
    /\ linked = FALSE => toAp = <<>> /\ toSta = <<>> /\ apFlows = {}
    /\ toSta # <<>> => supports = TRUE

\* While nothing parted the two sides: there is no negotiation beside a session.
OneThing ==
    apart = FALSE =>
        /\ progress = TRUE => session = NoFlow
        /\ linked = FALSE => session = NoFlow /\ progress = FALSE
        /\ toSta # <<>> => NoTeardown(toAp)

\* ... and once everything on its way has arrived, both hold the same flows.
Converges ==
    apart = FALSE =>
        \A f \in Ids : (f \in apFlows /\ ~ Torn(toAp, f)) <=> Holds(session, toSta, f)

TwtIInv == TwtShape /\ TwtAir /\ OneThing /\ Converges /\ PowerSaveReturns /\ NeverStuck

LEMMA NoSuchFlow == ASSUME TwtAssumption PROVE NoFlow \notin Ids /\ AllFlows \notin Ids
BY DEF TwtAssumption, NoFlow, AllFlows, Ids

-----------------------------------------------------------------------------
(* What a sequence of frames says of a flow, under Append and Tail.        *)

LEMMA TornAppend ==
    ASSUME NEW S, NEW q \in Seq(S), NEW m \in S, NEW f
    PROVE  Torn(Append(q, m), f) <=> (Torn(q, f) \/ EndsFlow(m, f))
<1>1. Append(q, m) \in Seq(S) /\ Len(Append(q, m)) = Len(q) + 1
  BY AppendProperties
<1>2. \A i \in 1..Len(q) : Append(q, m)[i] = q[i]
  BY AppendProperties
<1>3. Append(q, m)[Len(q) + 1] = m /\ Len(q) \in Nat
  BY AppendProperties, LenProperties
<1>. QED  BY <1>1, <1>2, <1>3 DEF Torn

LEMMA TornTail ==
    ASSUME NEW S, NEW q \in Seq(S), q # <<>>, NEW f
    PROVE  Torn(q, f) <=> (EndsFlow(Head(q), f) \/ Torn(Tail(q), f))
<1>1. Len(Tail(q)) = Len(q) - 1 /\ Head(q) = q[1] /\ Len(q) \in Nat /\ Len(q) > 0
  BY HeadTailProperties, LenProperties, EmptySeq
<1>2. \A i \in 1..Len(Tail(q)) : Tail(q)[i] = q[i + 1]
  BY HeadTailProperties
<1>3. ASSUME Torn(q, f) PROVE EndsFlow(Head(q), f) \/ Torn(Tail(q), f)
  <2>1. PICK i \in 1..Len(q) : EndsFlow(q[i], f)
    BY <1>3 DEF Torn
  <2>2. CASE i = 1
    BY <1>1, <2>1, <2>2
  <2>3. CASE i # 1
    <3>1. i - 1 \in 1..Len(Tail(q)) /\ Tail(q)[i - 1] = q[i]
      BY <1>1, <1>2, <2>3
    <3>. QED  BY <2>1, <3>1 DEF Torn
  <2>. QED  BY <2>2, <2>3
<1>4. ASSUME Torn(Tail(q), f) PROVE Torn(q, f)
  <2>1. PICK i \in 1..Len(Tail(q)) : EndsFlow(Tail(q)[i], f)
    BY <1>4 DEF Torn
  <2>2. i + 1 \in 1..Len(q) /\ q[i + 1] = Tail(q)[i]
    BY <1>1, <1>2
  <2>. QED  BY <2>1, <2>2 DEF Torn
<1>5. ASSUME EndsFlow(Head(q), f) PROVE Torn(q, f)
  <2>1. 1 \in 1..Len(q)
    BY <1>1
  <2>. QED  BY <1>1, <1>5, <2>1 DEF Torn
<1>. QED  BY <1>3, <1>4, <1>5

\* Nothing is torn where no teardown is.
LEMMA NoneTorn == ASSUME NEW q, NoTeardown(q), NEW f PROVE ~ Torn(q, f)
BY DEF NoTeardown, Torn, EndsFlow

LEMMA EmptyTears == ASSUME NEW f PROVE ~ Torn(<<>>, f) /\ NoTeardown(<<>>)
BY DEF Torn, NoTeardown

LEMMA NoTeardownAppend ==
    ASSUME NEW S, NEW q \in Seq(S), NEW m \in S, NoTeardown(q), m.kind # "teardown"
    PROVE  NoTeardown(Append(q, m))
<1>1. Len(Append(q, m)) = Len(q) + 1 /\ Len(q) \in Nat
  BY AppendProperties, LenProperties
<1>2. \A i \in 1..Len(q) : Append(q, m)[i] = q[i]
  BY AppendProperties
<1>3. Append(q, m)[Len(q) + 1] = m
  BY AppendProperties
<1>. QED  BY <1>1, <1>2, <1>3 DEF NoTeardown

LEMMA NoTeardownTail ==
    ASSUME NEW S, NEW q \in Seq(S), q # <<>>, NoTeardown(q)
    PROVE  NoTeardown(Tail(q))
<1>1. Len(Tail(q)) = Len(q) - 1 /\ Len(q) \in Nat /\ Len(q) > 0
  BY HeadTailProperties, LenProperties, EmptySeq
<1>2. \A i \in 1..Len(Tail(q)) : Tail(q)[i] = q[i + 1]
  BY HeadTailProperties
<1>. QED  BY <1>1, <1>2 DEF NoTeardown

LEMMA HoldsEmpty == ASSUME NEW s, NEW f PROVE Holds(s, <<>>, f) <=> s = f
BY DEF Holds

LEMMA HoldsAppend ==
    ASSUME NEW S, NEW q \in Seq(S), NEW m \in S, NEW s, NEW f
    PROVE  Holds(s, Append(q, m), f) <=> (~ EndsFlow(m, f) /\ (Tells(m, f) \/ Holds(s, q, f)))
<1>1. Len(Append(q, m)) = Len(q) + 1 /\ Len(q) \in Nat
  BY AppendProperties, LenProperties
<1>2. \A i \in 1..Len(q) : Append(q, m)[i] = q[i]
  BY AppendProperties
<1>3. Append(q, m)[Len(q) + 1] = m
  BY AppendProperties
<1>4. Tells(m, f) => ~ EndsFlow(m, f)
  BY DEF Tells, EndsFlow
<1>5. ASSUME Holds(s, Append(q, m), f) PROVE ~ EndsFlow(m, f) /\ (Tells(m, f) \/ Holds(s, q, f))
  <2>1. CASE s = f /\ \A j \in 1..Len(Append(q, m)) : ~ EndsFlow(Append(q, m)[j], f)
    BY <1>1, <1>2, <1>3, <2>1 DEF Holds
  <2>2. CASE \E i \in 1..Len(Append(q, m)) :
               /\ Tells(Append(q, m)[i], f)
               /\ \A j \in 1..Len(Append(q, m)) : j > i => ~ EndsFlow(Append(q, m)[j], f)
    <3>1. PICK i \in 1..Len(Append(q, m)) :
               /\ Tells(Append(q, m)[i], f)
               /\ \A j \in 1..Len(Append(q, m)) : j > i => ~ EndsFlow(Append(q, m)[j], f)
      BY <2>2
    <3>2. CASE i = Len(q) + 1
      BY <1>3, <1>4, <3>1, <3>2
    <3>3. CASE i \in 1..Len(q)
      <4>1. Tells(q[i], f) /\ \A j \in 1..Len(q) : j > i => ~ EndsFlow(q[j], f)
        BY <1>1, <1>2, <3>1, <3>3
      <4>2. ~ EndsFlow(m, f)
        BY <1>1, <1>3, <3>1, <3>3
      <4>. QED  BY <3>3, <4>1, <4>2 DEF Holds
    <3>. QED  BY <1>1, <3>2, <3>3
  <2>. QED  BY <1>5, <2>1, <2>2 DEF Holds
<1>6. ASSUME ~ EndsFlow(m, f), Tells(m, f) PROVE Holds(s, Append(q, m), f)
  <2>1. Len(q) + 1 \in 1..Len(Append(q, m))
    BY <1>1
  <2>2. \A j \in 1..Len(Append(q, m)) : ~ (j > Len(q) + 1)
    BY <1>1
  <2>. QED  BY <1>3, <1>6, <2>1, <2>2 DEF Holds
<1>7. ASSUME ~ EndsFlow(m, f), Holds(s, q, f) PROVE Holds(s, Append(q, m), f)
  <2>1. CASE s = f /\ \A j \in 1..Len(q) : ~ EndsFlow(q[j], f)
    BY <1>1, <1>2, <1>3, <1>7, <2>1 DEF Holds
  <2>2. CASE \E i \in 1..Len(q) :
               Tells(q[i], f) /\ \A j \in 1..Len(q) : j > i => ~ EndsFlow(q[j], f)
    <3>1. PICK i \in 1..Len(q) :
               Tells(q[i], f) /\ \A j \in 1..Len(q) : j > i => ~ EndsFlow(q[j], f)
      BY <2>2
    <3>2. i \in 1..Len(Append(q, m)) /\ Tells(Append(q, m)[i], f)
      BY <1>1, <1>2, <3>1
    <3>3. \A j \in 1..Len(Append(q, m)) : j > i => ~ EndsFlow(Append(q, m)[j], f)
      BY <1>1, <1>2, <1>3, <1>7, <3>1
    <3>. QED  BY <3>2, <3>3 DEF Holds
  <2>. QED  BY <1>7, <2>1, <2>2 DEF Holds
<1>. QED  BY <1>5, <1>6, <1>7

\* Hearing the first frame turns session s into t.
LEMMA HoldsTail ==
    ASSUME NEW S, NEW q \in Seq(S), q # <<>>, NEW s, NEW t, NEW f,
           (t = f) <=> (~ EndsFlow(Head(q), f) /\ (Tells(Head(q), f) \/ s = f))
    PROVE  Holds(s, q, f) <=> Holds(t, Tail(q), f)
<1>1. Len(Tail(q)) = Len(q) - 1 /\ Head(q) = q[1] /\ Len(q) \in Nat /\ Len(q) > 0
  BY HeadTailProperties, LenProperties, EmptySeq
<1>2. \A i \in 1..Len(Tail(q)) : Tail(q)[i] = q[i + 1]
  BY HeadTailProperties
<1>3. Tells(Head(q), f) => ~ EndsFlow(Head(q), f)
  BY DEF Tells, EndsFlow
<1>4. \A i \in 1..Len(q) : i # 1 => i - 1 \in 1..Len(Tail(q)) /\ Tail(q)[i - 1] = q[i]
  BY <1>1, <1>2
<1>5. ASSUME Holds(s, q, f) PROVE Holds(t, Tail(q), f)
  <2>1. CASE s = f /\ \A j \in 1..Len(q) : ~ EndsFlow(q[j], f)
    <3>1. t = f
      BY <1>1, <2>1
    <3>2. \A j \in 1..Len(Tail(q)) : ~ EndsFlow(Tail(q)[j], f)
      BY <1>1, <1>2, <2>1
    <3>. QED  BY <3>1, <3>2 DEF Holds
  <2>2. CASE \E i \in 1..Len(q) :
               Tells(q[i], f) /\ \A j \in 1..Len(q) : j > i => ~ EndsFlow(q[j], f)
    <3>1. PICK i \in 1..Len(q) :
               Tells(q[i], f) /\ \A j \in 1..Len(q) : j > i => ~ EndsFlow(q[j], f)
      BY <2>2
    <3>2. CASE i = 1
      <4>1. t = f
        BY <1>1, <1>3, <3>1, <3>2
      <4>2. \A j \in 1..Len(Tail(q)) : ~ EndsFlow(Tail(q)[j], f)
        BY <1>1, <1>2, <3>1, <3>2
      <4>. QED  BY <4>1, <4>2 DEF Holds
    <3>3. CASE i # 1
      <4>1. i - 1 \in 1..Len(Tail(q)) /\ Tells(Tail(q)[i - 1], f)
        BY <1>4, <3>1, <3>3
      <4>2. \A j \in 1..Len(Tail(q)) : j > i - 1 => ~ EndsFlow(Tail(q)[j], f)
        BY <1>1, <1>2, <3>1
      <4>. QED  BY <4>1, <4>2 DEF Holds
    <3>. QED  BY <3>2, <3>3
  <2>. QED  BY <1>5, <2>1, <2>2 DEF Holds
<1>6. ASSUME Holds(t, Tail(q), f) PROVE Holds(s, q, f)
  <2>1. CASE t = f /\ \A j \in 1..Len(Tail(q)) : ~ EndsFlow(Tail(q)[j], f)
    <3>1. \A j \in 1..Len(q) : ~ EndsFlow(q[j], f)
      BY <1>1, <1>4, <2>1
    <3>2. 1 \in 1..Len(q)
      BY <1>1
    <3>3. CASE Tells(q[1], f)
      BY <3>1, <3>2, <3>3 DEF Holds
    <3>4. CASE s = f
      BY <3>1, <3>4 DEF Holds
    <3>. QED  BY <1>1, <2>1, <3>3, <3>4
  <2>2. CASE \E i \in 1..Len(Tail(q)) : /\ Tells(Tail(q)[i], f)
               /\ \A j \in 1..Len(Tail(q)) : j > i => ~ EndsFlow(Tail(q)[j], f)
    <3>1. PICK i \in 1..Len(Tail(q)) : /\ Tells(Tail(q)[i], f)
               /\ \A j \in 1..Len(Tail(q)) : j > i => ~ EndsFlow(Tail(q)[j], f)
      BY <2>2
    <3>2. i + 1 \in 1..Len(q) /\ Tells(q[i + 1], f)
      BY <1>1, <1>2, <3>1
    <3>3. \A j \in 1..Len(q) : j > i + 1 => ~ EndsFlow(q[j], f)
      <4>. SUFFICES ASSUME NEW j \in 1..Len(q), j > i + 1 PROVE ~ EndsFlow(q[j], f)
        OBVIOUS
      <4>1. j - 1 \in 1..Len(Tail(q)) /\ Tail(q)[j - 1] = q[j] /\ j - 1 > i
        BY <1>4, <3>1
      <4>. QED  BY <3>1, <4>1
    <3>. QED  BY <3>2, <3>3 DEF Holds
  <2>. QED  BY <1>6, <2>1, <2>2 DEF Holds
<1>. QED  BY <1>5, <1>6

-----------------------------------------------------------------------------
(* The frames.                                                             *)

LEMMA FrameFacts ==
    /\ \A f \in Ids : Setup(f) \in Frames /\ Setup(f).kind = "setup"
    /\ \A f \in Ids \cup {AllFlows} : /\ Teardown(f) \in Frames /\ Teardown(f) \in Replies
                                      /\ Teardown(f).kind = "teardown" /\ Teardown(f).flow = f
    /\ \A f \in Ids : Answers(f) \subseteq Replies
    /\ \A m \in Frames : \/ m.kind = "setup" /\ m.flow \in Ids
                         \/ m.kind = "teardown" /\ m.flow \in Ids \cup {AllFlows}
    /\ \A m \in Frames : \A f : EndsFlow(m, f) => m.kind = "teardown"
BY DEF Frames, Replies, Setup, Teardown, EndsFlow

LEMMA ReplyFacts ==
    ASSUME NEW m \in Replies
    PROVE  \/ m.kind = "teardown" /\ m.flow \in Ids \cup {AllFlows}
           \/ m.kind = "answer" /\ m.flow \in Ids /\ m.cmd \in {"accept", "counter", "reject"}
BY DEF Replies, Answers

LEMMA AnswerFacts ==
    ASSUME NEW f \in Ids, NEW a \in Answers(f)
    PROVE  a \in Replies /\ a.kind = "answer" /\ a.flow = f /\ a.cmd \in {"accept", "counter", "reject"}
BY DEF Replies, Answers

\* What a step does to the frames for the access point, if it does not tear down.
ApGetsSetup == toAp' = toAp \/ \E f \in Ids : toAp' = Append(toAp, Setup(f))

LEMMA SetupsTearNothing ==
    ASSUME TwtShape, ApGetsSetup
    PROVE  /\ toAp' \in Seq(Frames)
           /\ \A f : Torn(toAp', f) <=> Torn(toAp, f)
           /\ NoTeardown(toAp) => NoTeardown(toAp')
<1>1. CASE toAp' = toAp
  BY <1>1 DEF TwtShape
<1>2. ASSUME NEW x \in Ids, toAp' = Append(toAp, Setup(x))
      PROVE  /\ toAp' \in Seq(Frames)
             /\ \A f : Torn(toAp', f) <=> Torn(toAp, f)
             /\ NoTeardown(toAp) => NoTeardown(toAp')
  <2>1. Setup(x) \in Frames /\ Setup(x).kind = "setup" /\ toAp \in Seq(Frames)
    BY FrameFacts DEF TwtShape
  <2>2. \A f : ~ EndsFlow(Setup(x), f)
    BY <2>1 DEF EndsFlow
  <2>3. toAp' \in Seq(Frames)
    BY <1>2, <2>1, AppendProperties
  <2>4. \A f : Torn(toAp', f) <=> Torn(toAp, f)
    BY <1>2, <2>1, <2>2, TornAppend
  <2>5. NoTeardown(toAp) => NoTeardown(toAp')
    BY <1>2, <2>1, NoTeardownAppend
  <2>. QED  BY <2>3, <2>4, <2>5
<1>. QED  BY <1>1, <1>2 DEF ApGetsSetup

-----------------------------------------------------------------------------
(* The kinds of steps, as they concern the agreement of the two sides.     *)

Keeps ==
    /\ ApGetsSetup /\ UNCHANGED <<session, toSta, apFlows>>

Hears ==
    /\ toSta # <<>> /\ toSta' = Tail(toSta) /\ UNCHANGED apFlows /\ ApGetsSetup
    /\ \A f \in Ids : session' = f <=>
                        (~ EndsFlow(Head(toSta), f) /\ (Tells(Head(toSta), f) \/ session = f))

\* The station tears flow x down, its own or one it has just been told of.
TearsDown(x) ==
    /\ toSta' = <<>> /\ toAp' = Append(toAp, Teardown(x)) /\ UNCHANGED apFlows
    /\ \/ toSta = <<>>
       \/ /\ toSta # <<>> /\ Tail(toSta) = <<>> /\ Head(toSta).kind = "answer"
          /\ \A f \in Ids : Tells(Head(toSta), f) <=> f = x
    /\ \A f \in Ids : session' = f <=> (session = f /\ ~ EndsFlow(Teardown(x), f))

ApTearsDown ==
    /\ toAp # <<>> /\ toAp' = Tail(toAp) /\ toSta = <<>> /\ UNCHANGED <<session, toSta>>
    /\ \A f \in Ids : f \in apFlows' <=> (f \in apFlows /\ ~ EndsFlow(Head(toAp), f))

ApIgnores ==
    /\ toAp # <<>> /\ toAp' = Tail(toAp) /\ Head(toAp).kind = "setup"
    /\ UNCHANGED <<session, toSta, apFlows>>

ApTells(m) ==
    /\ toAp' \in Seq(Frames) /\ NoTeardown(toAp') /\ \A f : Torn(toAp, f) <=> Torn(toAp', f)
    /\ toSta' = Append(toSta, m) /\ UNCHANGED session
    /\ \A f \in Ids : f \in apFlows' <=> (~ EndsFlow(m, f) /\ (Tells(m, f) \/ f \in apFlows))

LinkParts == toAp' = <<>> /\ toSta' = <<>> /\ apFlows' = {} /\ session' = NoFlow

Change ==
    \/ Keeps \/ Hears \/ ApTearsDown \/ ApIgnores \/ LinkParts
    \/ \E x \in Ids \cup {AllFlows} : TearsDown(x)
    \/ \E m \in Replies : ApTells(m)

AgreeOn(f) == (f \in apFlows /\ ~ Torn(toAp, f)) <=> Holds(session, toSta, f)
Quiets == toSta # <<>> => NoTeardown(toAp)

\* Each kind of step keeps the agreement to come, as long as nothing parts the two sides.
LEMMA ChangeAgrees ==
    ASSUME TwtAssumption, TwtShape, Quiets, Change, \A f \in Ids : AgreeOn(f)
    PROVE  Quiets' /\ \A f \in Ids : AgreeOn(f)'
<1>. USE DEF TwtShape
<1>1. CASE Keeps
  <2>1. /\ \A f : Torn(toAp', f) <=> Torn(toAp, f)
        /\ NoTeardown(toAp) => NoTeardown(toAp')
    BY <1>1, SetupsTearNothing DEF Keeps
  <2>. QED  BY <1>1, <2>1 DEF Keeps, Quiets, AgreeOn
<1>2. CASE Hears
  <2>1. /\ \A f : Torn(toAp', f) <=> Torn(toAp, f)
        /\ NoTeardown(toAp) => NoTeardown(toAp')
    BY <1>2, SetupsTearNothing DEF Hears
  <2>2. ASSUME NEW f \in Ids PROVE Holds(session, toSta, f) <=> Holds(session', toSta', f)
    <3>1. (session' = f) <=> (~ EndsFlow(Head(toSta), f) /\ (Tells(Head(toSta), f) \/ session = f))
      BY <1>2 DEF Hears
    <3>2. toSta \in Seq(Replies) /\ toSta # <<>> /\ toSta' = Tail(toSta)
      BY <1>2 DEF Hears
    <3>3. Holds(session, toSta, f) <=> Holds(session', Tail(toSta), f)
      BY <3>1, <3>2, HoldsTail
    <3>. QED  BY <3>2, <3>3, Zenon
  <2>. QED  BY <1>2, <2>1, <2>2 DEF Hears, Quiets, AgreeOn
<1>3. ASSUME NEW x \in Ids \cup {AllFlows}, TearsDown(x) PROVE Quiets' /\ \A f \in Ids : AgreeOn(f)'
  <2>1. Teardown(x) \in Frames /\ Teardown(x).kind = "teardown" /\ Teardown(x).flow = x
    BY FrameFacts
  <2>2. \A f : Torn(toAp', f) <=> (Torn(toAp, f) \/ EndsFlow(Teardown(x), f))
    BY <1>3, <2>1, TornAppend DEF TearsDown
  <2>3. EndsFlow(Teardown(x), x)
    BY <2>1 DEF EndsFlow
  <2>. SUFFICES ASSUME NEW f \in Ids PROVE AgreeOn(f)'
    BY <1>3 DEF TearsDown, Quiets
  <2>4. Holds(session', toSta', f) <=> session' = f
    BY <1>3, HoldsEmpty DEF TearsDown
  <2>5. CASE toSta = <<>>
    <3>1. Holds(session, toSta, f) <=> session = f
      BY <2>5, HoldsEmpty
    <3>. QED  BY <1>3, <2>2, <2>4, <3>1 DEF TearsDown, AgreeOn
  <2>6. CASE /\ toSta # <<>> /\ Tail(toSta) = <<>> /\ Head(toSta).kind = "answer"
             /\ Tells(Head(toSta), f) <=> f = x
    <3>1. ~ Torn(toAp, f)
      BY <2>6, NoneTorn DEF Quiets
    <3>2. CASE f = x
      BY <1>3, <2>2, <2>3, <2>4, <3>2 DEF TearsDown, AgreeOn
    <3>3. CASE f # x
      <4>1. ~ EndsFlow(Head(toSta), f)
        BY <2>6 DEF EndsFlow
      <4>2. (session = f) <=> (~ EndsFlow(Head(toSta), f) /\ (Tells(Head(toSta), f) \/ session = f))
        BY <2>6, <3>3, <4>1
      <4>3. toSta \in Seq(Replies) /\ toSta # <<>>
        BY <2>6
      <4>4. Holds(session, toSta, f) <=> Holds(session, Tail(toSta), f)
        BY <4>2, <4>3, HoldsTail
      <4>5. Tail(toSta) = <<>>
        BY <2>6
      <4>6. Holds(session, toSta, f) <=> session = f
        <5>1. Holds(session, <<>>, f) <=> session = f
          BY HoldsEmpty
        <5>2. Holds(session, Tail(toSta), f) <=> Holds(session, <<>>, f)
          BY <4>5, ZenonT(60)
        <5>. QED  BY <4>4, <5>1, <5>2
      <4>. QED  BY <1>3, <2>2, <2>4, <3>1, <3>3, <4>6, <2>1 DEF TearsDown, AgreeOn, EndsFlow
    <3>. QED  BY <3>2, <3>3
  <2>. QED  BY <1>3, <2>5, <2>6 DEF TearsDown
<1>4. CASE ApTearsDown
  <2>1. \A f \in Ids : Torn(toAp, f) <=> (EndsFlow(Head(toAp), f) \/ Torn(toAp', f))
    BY <1>4, TornTail DEF ApTearsDown
  <2>. QED  BY <1>4, <2>1 DEF ApTearsDown, Quiets, AgreeOn
<1>5. CASE ApIgnores
  <2>1. \A f \in Ids : Torn(toAp, f) <=> (EndsFlow(Head(toAp), f) \/ Torn(toAp', f))
    BY <1>5, TornTail DEF ApIgnores
  <2>2. \A f : ~ EndsFlow(Head(toAp), f)
    BY <1>5 DEF ApIgnores, EndsFlow
  <2>3. NoTeardown(toAp) => NoTeardown(toAp')
    BY <1>5, NoTeardownTail DEF ApIgnores
  <2>. QED  BY <1>5, <2>1, <2>2, <2>3 DEF ApIgnores, Quiets, AgreeOn
<1>6. ASSUME NEW m \in Replies, ApTells(m) PROVE Quiets' /\ \A f \in Ids : AgreeOn(f)'
  <2>1. \A f : ~ Torn(toAp', f) /\ ~ Torn(toAp, f)
    BY <1>6, NoneTorn DEF ApTells
  <2>2. \A f : Holds(session', toSta', f) <=> (~ EndsFlow(m, f) /\ (Tells(m, f) \/ Holds(session, toSta, f)))
    BY <1>6, HoldsAppend DEF ApTells
  <2>. QED  BY <1>6, <2>1, <2>2 DEF ApTells, Quiets, AgreeOn
<1>7. CASE LinkParts
  <2>1. \A f \in Ids : ~ Holds(session', toSta', f)
    BY <1>7, HoldsEmpty, NoSuchFlow DEF LinkParts
  <2>. QED  BY <1>7, <2>1 DEF LinkParts, Quiets, AgreeOn
<1>. QED  BY <1>1, <1>2, <1>3, <1>4, <1>5, <1>6, <1>7 DEF Change

-----------------------------------------------------------------------------
(* The parts the actions are made of.                                      *)

Configs == [enable : BOOLEAN, cmd : {"request", "suggest", "demand"}, flow : Ids \cup {AllFlows}]
Proper(c) == c \in Configs /\ (c.flow = AllFlows => c.enable = FALSE)

LEMMA AskedIsProper == ASSUME TwtAssumption, NEW c, Proper(c) PROVE Proper(Asked(c)) /\ Asked(c).flow \in Ids
BY NoSuchFlow DEF Proper, Configs, Asked, Ids

\* A setup that was sent, or could not be: a timer runs, or the trouble is remembered.
SetupDone ==
    /\ Proper(config') /\ ApGetsSetup /\ (linked' = FALSE => toAp' = toAp)
    /\ progress' \in BOOLEAN /\ timer' \in BOOLEAN /\ unsent' \in BOOLEAN
    /\ saves' \in BOOLEAN /\ paused' \in BOOLEAN
    /\ unsent' = FALSE => progress' = TRUE /\ timer' = TRUE

LEMMA FrameGoesOut ==
    ASSUME TwtAssumption, TwtShape, NEW n, NEW c, Proper(c), GoesOut(n, c)
    PROVE  /\ Proper(config') /\ ApGetsSetup /\ (linked' = FALSE => toAp' = toAp)
           /\ progress' = TRUE /\ timer' = TRUE /\ unsent' = unsent
<1>1. Proper(Asked(c)) /\ Asked(c).flow \in Ids
  BY AskedIsProper
<1>2. config' = Asked(c) /\ progress' = TRUE /\ timer' = TRUE /\ unsent' = unsent
  BY DEF GoesOut, Starts
<1>3. Sends(Setup(Asked(c).flow))
  BY DEF GoesOut
<1>4. ApGetsSetup /\ (linked' = FALSE => toAp' = toAp)
  BY <1>1, <1>3 DEF Sends, ApGetsSetup
<1>. QED  BY <1>1, <1>2, <1>4

LEMMA SetupEnds ==
    ASSUME TwtAssumption, TwtShape, NEW n, NEW c, Proper(c), SendSetup(n, c)
    PROVE  SetupDone
<1>1. CASE GoesOut(n, c) /\ saves' = FALSE /\ paused' = (paused \/ saves)
  <2>1. saves' \in BOOLEAN /\ paused' \in BOOLEAN
    BY <1>1
  <2>2. unsent' \in BOOLEAN
    BY <1>1, FrameGoesOut DEF TwtShape
  <2>. QED  BY <1>1, <2>1, <2>2, FrameGoesOut DEF SetupDone
<1>2. CASE /\ unsent' = TRUE /\ config' = Asked(c) /\ UNCHANGED <<toAp, progress, timer>>
           /\ saves' = FALSE /\ paused' = (paused \/ saves)
  <2>1. paused' \in BOOLEAN
    BY <1>2
  <2>2. Proper(config')
    BY <1>2, AskedIsProper
  <2>. QED  BY <1>2, <2>1, <2>2 DEF SetupDone, ApGetsSetup, TwtShape
<1>3. CASE unsent' = TRUE /\ config' = c /\ UNCHANGED <<toAp, progress, timer, psVars>>
  BY <1>3 DEF SetupDone, ApGetsSetup, TwtShape, psVars
<1>. QED  BY <1>1, <1>2, <1>3 DEF SendSetup, TrySetup

\* Nothing of a negotiation changes.
LEMMA NothingSent ==
    ASSUME TwtShape, NoSetup
    PROVE  /\ UNCHANGED <<toAp, progress, timer, saves, paused, unsent>> /\ ApGetsSetup
BY DEF NoSetup, triesVars, psVars, ApGetsSetup

\* What is kept of the agreement by a step that changes it as one of the kinds.
Good ==
    apart' = FALSE => /\ apart = FALSE /\ Change
                      /\ progress' = TRUE => session' = NoFlow
                      /\ linked' = FALSE => session' = NoFlow /\ progress' = FALSE

LEMMA GoodAgrees ==
    ASSUME TwtAssumption, TwtShape, OneThing, Converges, Good
    PROVE  OneThing' /\ Converges'
<1>1. CASE apart' = FALSE
  <2>1. Quiets /\ Change /\ \A f \in Ids : AgreeOn(f)
    BY <1>1 DEF Good, OneThing, Converges, Quiets, AgreeOn
  <2>2. Quiets' /\ \A f \in Ids : AgreeOn(f)'
    BY <2>1, ChangeAgrees
  <2>. QED  BY <1>1, <2>2 DEF Good, OneThing, Converges, Quiets, AgreeOn
<1>2. CASE apart' # FALSE
  BY <1>2 DEF OneThing, Converges
<1>. QED  BY <1>1, <1>2

LEMMA Parted == ASSUME NEW c, SetsApart(c), apart \in BOOLEAN, apart' = FALSE PROVE apart = FALSE /\ ~ c
BY DEF SetsApart

LEMMA PartedType == ASSUME NEW c, SetsApart(c) PROVE apart' \in BOOLEAN
BY DEF SetsApart

Kept == TwtShape' /\ TwtAir' /\ Good /\ PowerSaveReturns' /\ NeverStuck'

SessionSame == UNCHANGED <<session, toSta, apFlows>>

\* A step that may send a setup and touches neither session nor what the station hears.
LEMMA SetupKept ==
    ASSUME TwtAssumption, TwtIInv, SetupDone, SessionSame, TwtAir',
           linked' \in BOOLEAN, supports' \in BOOLEAN, calling' \in BOOLEAN, apart' \in BOOLEAN,
           apart' = FALSE => apart = FALSE /\ session = NoFlow /\ linked' = TRUE
    PROVE  Kept
<1>1. TwtShape /\ ApGetsSetup /\ toAp' \in Seq(Frames)
  BY SetupsTearNothing DEF TwtIInv, SetupDone
<1>2. TwtShape'
  BY <1>1 DEF TwtShape, SetupDone, SessionSame, Proper, Configs
<1>3. Good
  BY <1>1 DEF Good, Change, Keeps, SessionSame
<1>4. PowerSaveReturns' /\ NeverStuck'
  BY DEF SetupDone, PowerSaveReturns, NeverStuck
<1>. QED  BY <1>2, <1>3, <1>4 DEF Kept

\* A step that leaves the negotiation and the agreement alone.
LEMMA StillKept ==
    ASSUME TwtAssumption, TwtIInv, NoSetup, SessionSame, Proper(config'),
           UNCHANGED <<linked, supports, calling>>, apart' \in BOOLEAN,
           apart' = FALSE => apart = FALSE
    PROVE  Kept
<1>1. UNCHANGED <<toAp, progress, timer, saves, paused, unsent>> /\ ApGetsSetup /\ TwtShape
  BY NothingSent DEF TwtIInv
<1>2. TwtShape'
  BY <1>1 DEF TwtShape, SessionSame, Proper, Configs
<1>3. Good
  BY <1>1 DEF Good, Change, Keeps, SessionSame, TwtIInv, OneThing
<1>4. PowerSaveReturns' /\ NeverStuck' /\ TwtAir'
  BY <1>1 DEF TwtIInv, PowerSaveReturns, NeverStuck, TwtAir, SessionSame
<1>. QED  BY <1>2, <1>3, <1>4 DEF Kept

LEMMA ConfigIsProper == ASSUME TwtIInv PROVE Proper(config)
BY DEF TwtIInv, TwtShape, Proper, Configs

LEMMA UserSetupKeeps ==
    ASSUME TwtAssumption, TwtIInv, NEW cmd \in {"request", "suggest", "demand"}, NEW f \in FLOWS,
           UserSetup(cmd, f)
    PROVE  Kept
<1>. DEFINE c == [enable |-> TRUE, cmd |-> cmd, flow |-> f]
<1>1. Proper(c)
  BY DEF Proper, Configs, Ids, TwtAssumption, AllFlows
<1>2. UNCHANGED <<linked, supports, session, apart, calling, toSta, apFlows>> /\ SessionSame
  BY DEF UserSetup, SessionSame
<1>3. apart' \in BOOLEAN /\ linked' \in BOOLEAN /\ supports' \in BOOLEAN /\ calling' \in BOOLEAN
  BY <1>2 DEF TwtIInv, TwtShape
<1>4. CASE session # NoFlow \/ progress
  BY <1>2, <1>3, <1>4, StillKept, ConfigIsProper DEF UserSetup
<1>5. CASE ~ (session # NoFlow \/ progress) /\ ~ linked
  <2>1. config' = c /\ NoSetup
    BY <1>5 DEF UserSetup
  <2>. QED  BY <1>1, <1>2, <1>3, <2>1, StillKept
<1>6. CASE ~ (session # NoFlow \/ progress) /\ linked
  <2>1. SendSetup(retries, c)
    BY <1>6 DEF UserSetup
  <2>2. SetupDone
    BY <1>1, <2>1, SetupEnds DEF TwtIInv
  <2>3. linked' = TRUE /\ session = NoFlow
    BY <1>2, <1>6 DEF TwtIInv, TwtShape
  <2>4. TwtAir'
    BY <1>2, <2>3 DEF TwtIInv, TwtAir
  <2>. QED  BY <1>2, <1>3, <2>2, <2>3, <2>4, SetupKept
<1>. QED  BY <1>4, <1>5, <1>6

\* The station's own teardown, without a frame to it under way.
LEMMA TornDown ==
    ASSUME TwtAssumption, TwtIInv, NEW x \in Ids \cup {AllFlows}, toSta = <<>>,
           toSta' = toSta, apFlows' = apFlows, toAp' = Append(toAp, Teardown(x)),
           session' = NoFlow, session \in {NoFlow, x} \/ x = AllFlows
    PROVE  Change
<1>1. Teardown(x).kind = "teardown" /\ Teardown(x).flow = x
  BY FrameFacts
<1>2. \A f \in Ids : session' = f <=> (session = f /\ ~ EndsFlow(Teardown(x), f))
  BY <1>1, NoSuchFlow DEF EndsFlow
<1>3. TearsDown(x)
  BY <1>2 DEF TearsDown
<1>. QED  BY <1>3 DEF Change

LEMMA AppendsTeardown ==
    ASSUME TwtAssumption, TwtIInv, NEW x \in Ids \cup {AllFlows}, Sends(Teardown(x))
    PROVE  /\ toAp' \in Seq(Frames)
           /\ linked' = TRUE => toAp' = Append(toAp, Teardown(x))
           /\ linked' = FALSE => toAp' = toAp
<1>1. Teardown(x) \in Frames /\ toAp \in Seq(Frames)
  BY FrameFacts DEF TwtIInv, TwtShape
<1>2. Append(toAp, Teardown(x)) \in Seq(Frames)
  BY <1>1, AppendProperties
<1>. QED  BY <1>1, <1>2 DEF Sends

LEMMA UserTeardownKeeps ==
    ASSUME TwtAssumption, TwtIInv, NEW x \in FLOWS \cup {AllFlows}, UserTeardown(x)
    PROVE  Kept
<1>1. UNCHANGED <<linked, toSta, supports, unsent, progress, timer, calling, saves, paused, apFlows>>
  BY DEF UserTeardown, triesVars, psVars
<1>2. x \in Ids \cup {AllFlows} /\ TwtShape
  BY DEF Ids, TwtIInv
<1>3. Proper(config')
  <2>1. CASE config' = [config EXCEPT !.enable = FALSE, !.flow = x]
    BY <1>2, <2>1, ConfigIsProper DEF Proper, Configs
  <2>2. CASE config' = config
    BY <2>2, ConfigIsProper
  <2>. QED  BY <2>1, <2>2 DEF UserTeardown
<1>4. CASE session # NoFlow /\ x \in {session, AllFlows} /\ linked
  <2>1. Sends(Teardown(x)) /\ Closes(Crossing)
    BY <1>4 DEF UserTeardown
  <2>2. toAp' \in Seq(Frames) /\ toAp' = Append(toAp, Teardown(x)) /\ linked' = TRUE
    BY <1>1, <1>2, <1>4, <2>1, AppendsTeardown DEF TwtShape
  <2>3. session' \in {session, NoFlow} /\ apart' \in BOOLEAN
    BY <2>1, PartedType DEF Closes
  <2>4. ASSUME apart' = FALSE
        PROVE  apart = FALSE /\ session' = NoFlow /\ toSta' = <<>>
    <3>1. session' = NoFlow /\ SetsApart(Crossing)
      BY <2>1, <2>4 DEF Closes, SetsApart
    <3>. QED  BY <1>2, <2>4, <3>1, Parted DEF TwtShape, Crossing
  <2>5. Good
    <3>1. ASSUME apart' = FALSE PROVE Change
      BY <1>1, <1>2, <1>4, <2>2, <2>4, <3>1, TornDown
    <3>. QED  BY <1>1, <2>2, <2>4, <3>1 DEF Good
  <2>6. TwtShape'
    BY <1>1, <1>2, <1>3, <2>2, <2>3 DEF TwtShape, Proper, Configs
  <2>7. TwtAir' /\ PowerSaveReturns' /\ NeverStuck'
    BY <1>1, <2>2 DEF TwtIInv, TwtAir, PowerSaveReturns, NeverStuck
  <2>. QED  BY <2>5, <2>6, <2>7 DEF Kept
<1>5. CASE ~ (session # NoFlow /\ x \in {session, AllFlows} /\ linked)
  <2>1. UNCHANGED <<session, toAp, apart, retries>>
    BY <1>5 DEF UserTeardown, triesVars
  <2>2. NoSetup /\ SessionSame /\ apart' \in BOOLEAN
    BY <1>1, <1>2, <2>1 DEF NoSetup, triesVars, psVars, SessionSame, TwtShape
  <2>. QED  BY <1>1, <1>3, <2>1, <2>2, StillKept
<1>. QED  BY <1>4, <1>5

LEMMA AutoConfigKeeps ==
    ASSUME TwtAssumption, TwtIInv, NEW enable \in BOOLEAN, NEW valid \in BOOLEAN,
           AutoConfig(enable, valid)
    PROVE  Kept
<1>. DEFINE c == IF valid THEN [enable |-> TRUE, cmd |-> "suggest", flow |-> 0] ELSE config
<1>1. UNCHANGED <<linked, toSta, supports, calling, apFlows>> /\ TwtShape
  BY DEF AutoConfig, TwtIInv
<1>2. Proper(c)
  <2>1. CASE valid
    BY <2>1 DEF Proper, Configs, Ids, AllFlows
  <2>2. CASE ~ valid
    BY <2>2, ConfigIsProper
  <2>. QED  BY <2>1, <2>2
<1>. HIDE DEF c
<1>3. CASE /\ linked /\ enable /\ SendSetup(0, c) /\ UNCHANGED session
           /\ SetsApart(session # NoFlow \/ progress)
  <2>1. SetupDone
    BY <1>1, <1>2, <1>3, SetupEnds
  <2>2. apart' \in BOOLEAN
    BY <1>3, PartedType
  <2>3. apart' = FALSE => apart = FALSE /\ session = NoFlow /\ linked' = TRUE
    BY <1>1, <1>3, Parted DEF TwtShape
  <2>4. linked' = TRUE /\ SessionSame /\ supports' \in BOOLEAN /\ calling' \in BOOLEAN
    BY <1>1, <1>3 DEF TwtShape, SessionSame
  <2>5. TwtAir'
    BY <1>1, <2>4 DEF TwtIInv, TwtAir
  <2>. QED  BY <2>1, <2>2, <2>3, <2>4, <2>5, SetupKept
<1>4. CASE /\ linked /\ ~ enable /\ config' = c
           /\ Sends(Teardown(c.flow))
           /\ Closes(Crossing \/ session \notin {NoFlow, c.flow} \/ progress)
           /\ UNCHANGED <<triesVars, psVars, unsent>>
  <2>1. c.flow \in Ids \cup {AllFlows}
    BY <1>2 DEF Proper, Configs
  <2>2. toAp' \in Seq(Frames) /\ toAp' = Append(toAp, Teardown(c.flow)) /\ linked' = TRUE
    BY <1>1, <1>4, <2>1, AppendsTeardown DEF TwtShape
  <2>3. session' \in {session, NoFlow} /\ apart' \in BOOLEAN
    BY <1>4, PartedType DEF Closes
  <2>4. ASSUME apart' = FALSE
        PROVE  /\ apart = FALSE /\ session' = NoFlow /\ toSta' = <<>>
               /\ session \in {NoFlow, c.flow}
    <3>1. /\ session' = NoFlow
          /\ SetsApart(Crossing \/ session \notin {NoFlow, c.flow} \/ progress)
      BY <1>4, <2>4 DEF Closes, SetsApart
    <3>. QED  BY <1>1, <2>4, <3>1, Parted DEF TwtShape, Crossing
  <2>5. ASSUME apart' = FALSE PROVE Change
    BY <1>1, <2>1, <2>2, <2>4, <2>5, TornDown
  <2>6. Good
    BY <2>2, <2>4, <2>5 DEF Good
  <2>7. UNCHANGED <<progress, timer, saves, paused, unsent>>
    BY <1>4 DEF triesVars, psVars
  <2>8. TwtShape'
    BY <1>1, <1>2, <1>4, <2>2, <2>3, <2>7 DEF TwtShape, Proper, Configs
  <2>9. TwtAir' /\ PowerSaveReturns' /\ NeverStuck'
    BY <1>1, <2>2, <2>7 DEF TwtIInv, TwtAir, PowerSaveReturns, NeverStuck
  <2>. QED  BY <2>6, <2>8, <2>9 DEF Kept
<1>5. CASE ~ linked /\ config' = c /\ UNCHANGED <<session, apart>> /\ NoSetup
  <2>1. SessionSame /\ apart' = apart /\ apart' \in BOOLEAN /\ Proper(config')
    BY <1>1, <1>2, <1>5 DEF SessionSame, TwtShape
  <2>. QED  BY <1>1, <1>5, <2>1, StillKept
<1>. QED  BY <1>3, <1>4, <1>5 DEF AutoConfig, c

LEMMA TimerKeeps == ASSUME TwtAssumption, TwtIInv, TwtTimerFires PROVE Kept
<1>1. /\ UNCHANGED <<linked, supports, config, session, progress, saves, paused, toAp, toSta,
                     apFlows, apart, unsent>>
      /\ timer' = FALSE /\ calling' = TRUE
  BY DEF TwtTimerFires, psVars, airVars, ghosts
<1>2. TwtShape'
  BY <1>1, ZenonT(60) DEF TwtIInv, TwtShape
<1>3. Good
  BY <1>1 DEF TwtIInv, OneThing, Good, Change, Keeps, ApGetsSetup
<1>4. TwtAir' /\ PowerSaveReturns' /\ NeverStuck'
  BY <1>1 DEF TwtIInv, TwtAir, PowerSaveReturns, NeverStuck
<1>. QED  BY <1>2, <1>3, <1>4 DEF Kept

LEMMA CallbackKeeps == ASSUME TwtAssumption, TwtIInv, TwtCallback PROVE Kept
<1>1. /\ UNCHANGED <<linked, supports, session, toSta, apFlows>> /\ calling' = FALSE
      /\ SetsApart(~ progress) /\ TwtShape
  BY DEF TwtCallback, TwtIInv
<1>2. apart' \in BOOLEAN /\ (apart' = FALSE => apart = FALSE /\ progress = TRUE)
  BY <1>1, Parted, PartedType DEF TwtShape
<1>3. apart' = FALSE => session = NoFlow /\ linked' = TRUE
  BY <1>1, <1>2 DEF TwtIInv, OneThing, TwtShape
<1>4. CASE SendSetup(retries, config)
  <2>1. SetupDone
    BY <1>1, <1>4, SetupEnds, ConfigIsProper
  <2>2. TwtAir'
    BY <1>1, <2>1 DEF TwtIInv, TwtAir, SetupDone
  <2>. QED  BY <1>1, <1>2, <1>3, <2>1, <2>2, SetupKept DEF SessionSame, TwtShape
<1>5. CASE GivesUp /\ UNCHANGED <<config, toAp, unsent>>
  <2>1. progress' = FALSE /\ timer' = FALSE /\ EnablePs
    BY <1>5 DEF GivesUp
  <2>2. saves' \in BOOLEAN /\ paused' = FALSE
    BY <1>1, <2>1 DEF EnablePs, psVars, TwtShape
  <2>3. TwtShape'
    BY <1>1, <1>2, <1>5, <2>1, <2>2 DEF TwtShape
  <2>4. Good
    BY <1>1, <1>2, <1>3, <1>5, <2>1 DEF Good, Change, Keeps, ApGetsSetup
  <2>5. TwtAir' /\ PowerSaveReturns' /\ NeverStuck'
    BY <1>1, <1>5, <2>1, <2>2 DEF TwtIInv, TwtAir, PowerSaveReturns, NeverStuck
  <2>. QED  BY <2>3, <2>4, <2>5 DEF Kept
<1>. QED  BY <1>4, <1>5 DEF TwtCallback

LEMMA AssociateKeeps ==
    ASSUME TwtAssumption, TwtIInv, NEW open \in BOOLEAN, NEW twt \in BOOLEAN, AssociateAx(open, twt)
    PROVE  Kept
<1>1. /\ linked = FALSE /\ linked' = TRUE /\ supports' = twt /\ TwtShape
      /\ UNCHANGED <<session, apart, calling, toSta, apFlows>>
  BY DEF AssociateAx, TwtIInv, TwtShape
<1>2. toSta = <<>> /\ (apart = FALSE => session = NoFlow /\ progress = FALSE)
  BY <1>1 DEF TwtIInv, TwtAir, OneThing
<1>3. CASE SendSetup(retries, config)
  <2>1. SetupDone
    BY <1>1, <1>3, SetupEnds, ConfigIsProper
  <2>2. TwtAir'
    BY <1>1, <1>2 DEF TwtAir
  <2>. QED  BY <1>1, <1>2, <2>1, <2>2, SetupKept DEF SessionSame, TwtShape
<1>4. CASE UNCHANGED config /\ NoSetup
  <2>1. UNCHANGED <<toAp, progress, timer, saves, paused, unsent>> /\ ApGetsSetup
    BY <1>1, <1>4, NothingSent
  <2>2. TwtShape'
    BY <1>1, <1>4, <2>1 DEF TwtShape
  <2>3. Good
    BY <1>1, <1>2, <2>1 DEF Good, Change, Keeps
  <2>4. TwtAir' /\ PowerSaveReturns' /\ NeverStuck'
    BY <1>1, <1>2, <2>1 DEF TwtIInv, TwtAir, PowerSaveReturns, NeverStuck
  <2>. QED  BY <2>2, <2>3, <2>4 DEF Kept
<1>. QED  BY <1>3, <1>4 DEF AssociateAx

LEMMA HandshakeKeeps == ASSUME TwtAssumption, TwtIInv, HandshakeEnds PROVE Kept
<1>1. /\ UNCHANGED <<linked, supports, session, calling, toSta, apFlows>> /\ linked = TRUE
      /\ SendSetup(retries, config) /\ SetsApart(session # NoFlow) /\ TwtShape
  BY DEF HandshakeEnds, TwtIInv, TwtShape
<1>2. apart' \in BOOLEAN /\ (apart' = FALSE => apart = FALSE /\ session = NoFlow)
  BY <1>1, Parted, PartedType DEF TwtShape
<1>3. SetupDone
  BY <1>1, SetupEnds, ConfigIsProper
<1>4. TwtAir'
  BY <1>1 DEF TwtIInv, TwtAir
<1>. QED  BY <1>1, <1>2, <1>3, <1>4, SetupKept DEF SessionSame, TwtShape

LEMMA LinkLostKeeps == ASSUME TwtAssumption, TwtIInv, LinkLost PROVE Kept
<1>1. /\ linked' = FALSE /\ toAp' = <<>> /\ toSta' = <<>> /\ apFlows' = {}
      /\ SetsApart(session # NoFlow \/ progress) /\ TwtShape
      /\ UNCHANGED <<unsent, supports, config, session, progress, timer, calling, saves, paused>>
  BY DEF LinkLost, TwtIInv, triesVars, psVars
<1>2. apart' \in BOOLEAN /\ (apart' = FALSE => apart = FALSE /\ session = NoFlow /\ progress = FALSE)
  BY <1>1, Parted, PartedType DEF TwtShape
<1>3. TwtShape'
  BY <1>1, <1>2, EmptySeq, ZenonT(60) DEF TwtShape
<1>4. Good
  BY <1>1, <1>2 DEF Good, Change, LinkParts
<1>5. TwtAir' /\ PowerSaveReturns' /\ NeverStuck'
  BY <1>1 DEF TwtIInv, TwtAir, PowerSaveReturns, NeverStuck
<1>. QED  BY <1>3, <1>4, <1>5 DEF Kept

LEMMA HeadOfReplies ==
    ASSUME TwtIInv, toSta # <<>>
    PROVE  /\ Head(toSta) \in Replies /\ Tail(toSta) \in Seq(Replies)
           /\ linked = TRUE /\ supports = TRUE
<1>1. toSta \in Seq(Replies) /\ linked \in BOOLEAN
  BY DEF TwtIInv, TwtShape
<1>. QED  BY <1>1, HeadTailProperties DEF TwtIInv, TwtAir

LEMMA ReceiveTeardownKeeps == ASSUME TwtAssumption, TwtIInv, ReceiveTeardown PROVE Kept
<1>1. /\ UNCHANGED <<linked, supports, config, progress, timer, calling, saves, paused, toAp,
                     apFlows, unsent>>
      /\ toSta # <<>> /\ toSta' = Tail(toSta) /\ Head(toSta).kind = "teardown" /\ TwtShape
  BY DEF ReceiveTeardown, triesVars, psVars, TwtIInv
<1>2. Tail(toSta) \in Seq(Replies) /\ linked = TRUE /\ supports = TRUE
  BY <1>1, HeadOfReplies
<1>3. session' \in {session, NoFlow} /\ apart' \in BOOLEAN /\ (apart' = FALSE => apart = FALSE)
  <2>1. CASE Closes(FALSE)
    BY <1>1, <2>1, PartedType, Parted DEF Closes, TwtShape
  <2>2. CASE UNCHANGED <<session, apart>>
    BY <1>1, <2>2 DEF TwtShape
  <2>. QED  BY <2>1, <2>2 DEF ReceiveTeardown
<1>4. ASSUME apart' = FALSE PROVE Hears
  <2>. SUFFICES ASSUME NEW f \in Ids
                PROVE  session' = f <=> (session = f /\ ~ EndsFlow(Head(toSta), f))
    BY <1>1 DEF Hears, ApGetsSetup, Tells
  <2>1. CASE Concerns(Head(toSta))
    <3>1. session' = NoFlow
      BY <1>4, <2>1 DEF ReceiveTeardown, Closes, SetsApart
    <3>. QED  BY <1>1, <2>1, <3>1, NoSuchFlow DEF Concerns, EndsFlow
  <2>2. CASE ~ Concerns(Head(toSta))
    <3>1. session' = session
      BY <2>2 DEF ReceiveTeardown
    <3>. QED  BY <1>1, <2>2, <3>1, NoSuchFlow DEF Concerns, EndsFlow
  <2>. QED  BY <2>1, <2>2
<1>5. Good
  BY <1>1, <1>2, <1>3, <1>4 DEF Good, Change, TwtIInv, OneThing
<1>6. TwtShape'
  BY <1>1, <1>2, <1>3 DEF TwtShape
<1>7. TwtAir' /\ PowerSaveReturns' /\ NeverStuck'
  BY <1>1, <1>2 DEF TwtIInv, TwtAir, PowerSaveReturns, NeverStuck
<1>. QED  BY <1>5, <1>6, <1>7 DEF Kept

-----------------------------------------------------------------------------
(* The answers.                                                            *)

\* What any answer does: the frame is taken, the link stays.
Heard ==
    /\ toSta # <<>> /\ toSta' = Tail(toSta) /\ Head(toSta).kind = "answer"
    /\ UNCHANGED <<linked, supports, calling, apFlows>>

\* An answer that is not an acceptance, or one that leaves the session as it tells.
LEMMA AnswerTaken ==
    ASSUME TwtAssumption, TwtIInv, Heard, ApGetsSetup,
           \/ session' = session /\ Head(toSta).cmd # "accept"
           \/ /\ session' = Head(toSta).flow /\ Head(toSta).cmd = "accept"
              /\ session \in {NoFlow, Head(toSta).flow}
    PROVE  Change
<1>1. Head(toSta).kind = "answer"
  BY DEF Heard
<1>2. \A f \in Ids : session' = f <=>
                     (~ EndsFlow(Head(toSta), f) /\ (Tells(Head(toSta), f) \/ session = f))
  BY <1>1, NoSuchFlow DEF EndsFlow, Tells
<1>. QED  BY <1>2 DEF Heard, Hears, Change

\* An acceptance the station will not have, with nothing behind it.
LEMMA AnswerRefused ==
    ASSUME TwtAssumption, TwtIInv, Heard, Head(toSta).cmd = "accept", toSta' = <<>>,
           toAp' = Append(toAp, Teardown(Head(toSta).flow)),
           session' = IF session = Head(toSta).flow THEN NoFlow ELSE session
    PROVE  Change
<1>. DEFINE x == Head(toSta).flow
<1>1. x \in Ids /\ Head(toSta).kind = "answer" /\ session \in Ids \cup {NoFlow}
  BY HeadOfReplies, ReplyFacts DEF Heard, TwtIInv, TwtShape
<1>2. Teardown(x).kind = "teardown" /\ Teardown(x).flow = x
  BY <1>1, FrameFacts
<1>3. \A f \in Ids : Tells(Head(toSta), f) <=> f = x
  BY <1>1 DEF Tells
<1>4. \A f \in Ids : session' = f <=> (session = f /\ ~ EndsFlow(Teardown(x), f))
  BY <1>1, <1>2, NoSuchFlow DEF EndsFlow
<1>5. TearsDown(x)
  BY <1>1, <1>3, <1>4 DEF TearsDown, Heard
<1>. QED  BY <1>1, <1>5 DEF Change

\* An acceptance the station has: the session is opened, or nobody could tell the device.
LEMMA AnswerOpens ==
    ASSUME TwtAssumption, TwtIInv, Heard, Head(toSta).cmd = "accept",
           Opens(Head(toSta).flow), session \in {NoFlow, Head(toSta).flow} \/ apart = TRUE,
           ApGetsSetup
    PROVE  /\ session' \in Ids \cup {NoFlow} /\ apart' \in BOOLEAN
           /\ apart' = FALSE => apart = FALSE /\ Change
<1>1. Head(toSta).flow \in Ids /\ session \in Ids \cup {NoFlow} /\ apart \in BOOLEAN
  BY HeadOfReplies, ReplyFacts DEF Heard, TwtIInv, TwtShape
<1>2. CASE session' = Head(toSta).flow /\ UNCHANGED apart
  <2>1. apart' = FALSE => Change
    BY <1>2, AnswerTaken
  <2>. QED  BY <1>1, <1>2, <2>1
<1>3. CASE SetsApart(TRUE) /\ UNCHANGED session
  <2>1. apart' = TRUE
    BY <1>3 DEF SetsApart
  <2>. QED  BY <1>1, <1>3, <2>1
<1>. QED  BY <1>2, <1>3 DEF Opens

\* An acceptance the station refuses.
LEMMA AnswerRefuses ==
    ASSUME TwtAssumption, TwtIInv, Heard, Head(toSta).cmd = "accept",
           Sends(Teardown(Head(toSta).flow)),
           \/ session = Head(toSta).flow /\ Closes(Crossing)
           \/ session # Head(toSta).flow /\ UNCHANGED session /\ SetsApart(Crossing)
    PROVE  /\ session' \in Ids \cup {NoFlow} /\ apart' \in BOOLEAN /\ toAp' \in Seq(Frames)
           /\ apart' = FALSE => apart = FALSE /\ Change
<1>1. /\ Head(toSta).flow \in Ids /\ session \in Ids \cup {NoFlow} /\ apart \in BOOLEAN
      /\ linked' = TRUE
  BY HeadOfReplies, ReplyFacts DEF Heard, TwtIInv, TwtShape
<1>2. toAp' \in Seq(Frames) /\ toAp' = Append(toAp, Teardown(Head(toSta).flow))
  BY <1>1, AppendsTeardown
<1>3. session' \in {session, NoFlow} /\ apart' \in BOOLEAN
  BY PartedType DEF Closes
<1>4. ASSUME apart' = FALSE PROVE apart = FALSE /\ Change
  <2>1. /\ SetsApart(Crossing)
        /\ session' = IF session = Head(toSta).flow THEN NoFlow ELSE session
    BY <1>4 DEF Closes, SetsApart
  <2>2. apart = FALSE /\ toSta' = <<>>
    BY <1>1, <1>4, <2>1, Parted DEF Crossing
  <2>. QED  BY <1>2, <2>1, <2>2, AnswerRefused
<1>. QED  BY <1>1, <1>2, <1>3, <1>4

\* process_twt_setup_resp as a whole, outside of a negotiation for acceptances only.
LEMMA ResponseProcessed ==
    ASSUME TwtAssumption, TwtIInv, Heard, ProcessSetupResp(Head(toSta)),
           session \in {NoFlow, Head(toSta).flow} \/ apart = TRUE,
           progress = TRUE \/ Head(toSta).cmd = "accept"
    PROVE  /\ session' \in Ids \cup {NoFlow} /\ apart' \in BOOLEAN /\ toAp' \in Seq(Frames)
           /\ Proper(config') /\ progress' \in BOOLEAN /\ timer' \in BOOLEAN
           /\ unsent' \in BOOLEAN /\ Good
           /\ progress' = TRUE /\ unsent' = FALSE => timer' = TRUE
           /\ progress = FALSE => unsent' = unsent
<1>. DEFINE m == Head(toSta)
<1>1. /\ m.flow \in Ids /\ m.cmd \in {"accept", "counter", "reject"}
      /\ linked = TRUE /\ linked' = TRUE /\ TwtShape
  BY HeadOfReplies, ReplyFacts DEF Heard, TwtIInv, TwtShape
<1>2. apart = FALSE => (progress = TRUE => session = NoFlow)
  BY DEF TwtIInv, OneThing
<1>. HIDE DEF m
<1>3. CASE Concludes(m)
  <2>1. progress' = FALSE /\ UNCHANGED <<config, unsent>>
    BY <1>3 DEF Concludes, Ends
  <2>2. timer' \in BOOLEAN
    BY <1>1, <1>3 DEF Concludes, StopsRetries, TwtShape
  <2>3. /\ session' \in Ids \cup {NoFlow} /\ apart' \in BOOLEAN /\ toAp' \in Seq(Frames)
        /\ apart' = FALSE => apart = FALSE /\ Change
    <3>1. CASE m.cmd = "accept" /\ Opens(m.flow) /\ UNCHANGED toAp
      <4>1. ApGetsSetup /\ toAp' \in Seq(Frames)
        BY <1>1, <3>1 DEF ApGetsSetup, TwtShape
      <4>. QED  BY <3>1, <4>1, AnswerOpens DEF m
    <3>2. CASE m.cmd = "accept" /\ Refuses(m)
      <4>1. \/ session = m.flow /\ Closes(Crossing)
            \/ session # m.flow /\ UNCHANGED session /\ SetsApart(Crossing)
        BY <3>2 DEF Refuses
      <4>2. Sends(Teardown(m.flow))
        BY <3>2 DEF Refuses
      <4>. QED  BY <3>2, <4>1, <4>2, AnswerRefuses DEF m
    <3>3. CASE m.cmd # "accept" /\ NotTaken
      <4>1. ApGetsSetup /\ UNCHANGED <<session, apart, toAp>>
        BY <3>3 DEF NotTaken, ApGetsSetup
      <4>2. Change
        BY <3>3, <4>1, AnswerTaken DEF m
      <4>. QED  BY <1>1, <4>1, <4>2 DEF TwtShape
    <3>. QED  BY <1>1, <1>3, <3>1, <3>2, <3>3 DEF Concludes
  <2>4. Good
    BY <1>1, <2>1, <2>3 DEF Good
  <2>5. Proper(config') /\ unsent' \in BOOLEAN
    BY <1>1, <2>1, ConfigIsProper DEF TwtShape
  <2>. QED  BY <2>1, <2>2, <2>3, <2>4, <2>5
<1>4. CASE AsksAgain(m)
  <2>1. m.cmd = "counter" /\ UNCHANGED <<session, apart>> /\ progress = TRUE
    BY <1>1, <1>4 DEF AsksAgain, m
  <2>2. CASE GoesOut(0, config)
    <3>1. /\ Proper(config') /\ ApGetsSetup /\ progress' = TRUE /\ timer' = TRUE
          /\ unsent' = unsent
      BY <1>1, <2>2, FrameGoesOut, ConfigIsProper
    <3>2. Change /\ toAp' \in Seq(Frames)
      BY <1>1, <2>1, <3>1, AnswerTaken, SetupsTearNothing DEF m
    <3>3. Good
      BY <1>1, <1>2, <2>1, <3>2 DEF Good
    <3>. QED  BY <1>1, <2>1, <3>1, <3>2, <3>3 DEF TwtShape
  <2>3. CASE /\ unsent' = TRUE /\ config' \in {config, Asked(config)}
             /\ StopsRetries /\ UNCHANGED <<toAp, progress>>
    <3>1. Proper(config')
      BY <2>3, ConfigIsProper, AskedIsProper
    <3>2. ApGetsSetup /\ timer' \in BOOLEAN /\ toAp' \in Seq(Frames)
      BY <1>1, <2>3 DEF ApGetsSetup, StopsRetries, TwtShape
    <3>3. Change
      BY <2>1, <3>2, AnswerTaken DEF m
    <3>4. Good
      BY <1>1, <1>2, <2>1, <2>3, <3>3 DEF Good
    <3>. QED  BY <1>1, <2>1, <2>3, <3>1, <3>2, <3>4 DEF TwtShape
  <2>. QED  BY <1>4, <2>2, <2>3 DEF AsksAgain
<1>. QED  BY <1>3, <1>4 DEF ProcessSetupResp, m

LEMMA ReceiveSetupKeeps == ASSUME TwtAssumption, TwtIInv, ReceiveSetup PROVE Kept
<1>. DEFINE m == Head(toSta)
<1>1. Heard /\ toSta # <<>> /\ TwtShape
  BY DEF ReceiveSetup, Heard, TwtIInv
<1>2. /\ m.flow \in Ids /\ m.cmd \in {"accept", "counter", "reject"}
      /\ linked = TRUE /\ linked' = TRUE /\ supports = TRUE /\ supports' = TRUE
      /\ toSta' \in Seq(Replies) /\ m.kind = "answer"
  BY <1>1, HeadOfReplies, ReplyFacts DEF Heard
<1>. HIDE DEF m
<1>3. /\ calling' = calling /\ apFlows' = apFlows /\ progress \in BOOLEAN
  BY <1>1 DEF Heard, TwtShape
<1>4. TwtAir'
  BY <1>2 DEF TwtAir
<1>5. CASE progress /\ ProcessSetupResp(m) /\ EnablePs
  <2>1. session \in {NoFlow, m.flow} \/ apart = TRUE
    BY <1>1, <1>5 DEF TwtIInv, OneThing, TwtShape
  <2>2. /\ session' \in Ids \cup {NoFlow} /\ apart' \in BOOLEAN /\ toAp' \in Seq(Frames)
        /\ Proper(config') /\ progress' \in BOOLEAN /\ timer' \in BOOLEAN
        /\ unsent' \in BOOLEAN /\ Good
        /\ progress' = TRUE /\ unsent' = FALSE => timer' = TRUE
    BY <1>1, <1>3, <1>5, <2>1, ResponseProcessed DEF m
  <2>3. saves' \in BOOLEAN /\ paused' = FALSE
    BY <1>1, <1>5 DEF EnablePs, psVars, TwtShape
  <2>4. TwtShape'
    BY <1>1, <1>2, <1>3, <2>2, <2>3 DEF TwtShape, Proper, Configs
  <2>5. PowerSaveReturns' /\ NeverStuck'
    BY <2>2, <2>3 DEF PowerSaveReturns, NeverStuck
  <2>. QED  BY <1>4, <2>2, <2>4, <2>5 DEF Kept
<1>6. CASE ~ progress /\ (session = m.flow \/ session = NoFlow) /\ m.cmd = "accept"
           /\ ProcessSetupResp(m) /\ UNCHANGED psVars
  <2>1. /\ session' \in Ids \cup {NoFlow} /\ apart' \in BOOLEAN /\ toAp' \in Seq(Frames)
        /\ Proper(config') /\ progress' \in BOOLEAN /\ timer' \in BOOLEAN
        /\ unsent' = unsent /\ Good
        /\ progress' = TRUE /\ unsent' = FALSE => timer' = TRUE
    BY <1>1, <1>3, <1>6, ResponseProcessed DEF m
  <2>2. TwtShape'
    BY <1>1, <1>2, <1>3, <1>6, <2>1 DEF TwtShape, Proper, Configs, psVars
  <2>3. PowerSaveReturns' /\ NeverStuck'
    BY <1>1, <1>3, <1>6, <2>1 DEF TwtIInv, PowerSaveReturns, NeverStuck, psVars, TwtShape
  <2>. QED  BY <1>4, <2>1, <2>2, <2>3 DEF Kept
<1>7. ASSUME ~ progress, UNCHANGED <<config, progress, timer, saves, paused, unsent>>,
             session' \in Ids \cup {NoFlow}, apart' \in BOOLEAN, toAp' \in Seq(Frames),
             apart' = FALSE => apart = FALSE /\ Change
      PROVE  Kept
  <2>1. Good
    BY <1>2, <1>3, <1>7 DEF Good
  <2>2. TwtShape'
    BY <1>1, <1>2, <1>3, <1>7 DEF TwtShape
  <2>3. PowerSaveReturns' /\ NeverStuck'
    BY <1>3, <1>7 DEF TwtIInv, PowerSaveReturns, NeverStuck
  <2>. QED  BY <1>4, <2>1, <2>2, <2>3 DEF Kept
<1>8. CASE ~ progress /\ m.cmd = "accept" /\ session # NoFlow /\ session # m.flow
           /\ Sends(Teardown(m.flow)) /\ SetsApart(Crossing)
           /\ UNCHANGED <<config, session, demands, triesVars, unsent>> /\ UNCHANGED psVars
  <2>1. /\ session' \in Ids \cup {NoFlow} /\ apart' \in BOOLEAN /\ toAp' \in Seq(Frames)
        /\ apart' = FALSE => apart = FALSE /\ Change
    BY <1>1, <1>8, AnswerRefuses DEF m
  <2>. QED  BY <1>7, <1>8, <2>1 DEF triesVars, psVars
<1>9. CASE ~ progress /\ m.cmd = "accept" /\ session = NoFlow /\ Opens(m.flow)
           /\ UNCHANGED <<config, demands, triesVars, toAp, unsent>> /\ UNCHANGED psVars
  <2>1. ApGetsSetup /\ toAp' \in Seq(Frames)
    BY <1>1, <1>9 DEF ApGetsSetup, TwtShape
  <2>2. /\ session' \in Ids \cup {NoFlow} /\ apart' \in BOOLEAN
        /\ apart' = FALSE => apart = FALSE /\ Change
    BY <1>1, <1>9, <2>1, AnswerOpens DEF m
  <2>. QED  BY <1>7, <1>9, <2>1, <2>2 DEF triesVars, psVars
<1>10. CASE ~ progress /\ m.cmd = "accept" /\ session = NoFlow
           /\ Sends(Teardown(m.flow)) /\ SetsApart(Crossing)
           /\ UNCHANGED <<config, session, demands, triesVars, unsent>> /\ UNCHANGED psVars
  <2>1. session # m.flow
    BY <1>2, <1>10, NoSuchFlow
  <2>2. /\ session' \in Ids \cup {NoFlow} /\ apart' \in BOOLEAN /\ toAp' \in Seq(Frames)
        /\ apart' = FALSE => apart = FALSE /\ Change
    BY <1>1, <1>10, <2>1, AnswerRefuses DEF m
  <2>. QED  BY <1>7, <1>10, <2>2 DEF triesVars, psVars
<1>11. CASE ~ progress /\ m.cmd # "accept" /\ UNCHANGED <<config, session, apart, demands>>
            /\ NoSetup
  <2>1. UNCHANGED <<toAp, progress, timer, saves, paused, unsent>> /\ ApGetsSetup
    BY <1>1, <1>11, NothingSent
  <2>2. Change
    BY <1>1, <1>11, <2>1, AnswerTaken DEF m
  <2>. QED  BY <1>1, <1>7, <1>11, <2>1, <2>2 DEF TwtShape
<1>. QED  BY <1>2, <1>5, <1>6, <1>8, <1>9, <1>10, <1>11 DEF ReceiveSetup, m

-----------------------------------------------------------------------------
(* The access point and the air.                                           *)

LEMMA HeadOfFrames ==
    ASSUME TwtIInv, toAp # <<>>
    PROVE  /\ Head(toAp) \in Frames /\ Tail(toAp) \in Seq(Frames) /\ linked = TRUE
           /\ NoTeardown(toAp) => Head(toAp).kind # "teardown"
<1>1. toAp \in Seq(Frames) /\ linked \in BOOLEAN
  BY DEF TwtIInv, TwtShape
<1>2. Head(toAp) = toAp[1] /\ 1 \in 1..Len(toAp)
  BY <1>1, HeadTailProperties, EmptySeq, LenProperties
<1>. QED  BY <1>1, <1>2, HeadTailProperties DEF TwtIInv, TwtAir, NoTeardown

\* A frame of the access point's behind the others.
LEMMA StaGets ==
    ASSUME TwtIInv, NEW a \in Replies
    PROVE  Append(toSta, a) \in Seq(Replies) /\ Append(toSta, a) # <<>>
<1>1. toSta \in Seq(Replies)
  BY DEF TwtIInv, TwtShape
<1>2. Append(toSta, a) \in Seq(Replies) /\ Len(Append(toSta, a)) = Len(toSta) + 1 /\ Len(toSta) \in Nat
  BY <1>1, AppendProperties, LenProperties
<1>. QED  BY <1>2, EmptySeq

\* What no step of the access point or of the air touches.
Aside == UNCHANGED <<linked, supports, config, session, progress, timer, calling, saves, paused,
                     unsent>>

LEMMA AsideKeeps ==
    ASSUME TwtAssumption, TwtIInv, Aside, linked = TRUE, supports = TRUE \/ toSta' = <<>>,
           apart' \in BOOLEAN, toAp' \in Seq(Frames), toSta' \in Seq(Replies), apFlows' \subseteq Ids,
           apart' = FALSE => apart = FALSE /\ Change
    PROVE  Kept
<1>1. TwtShape'
  BY DEF TwtIInv, TwtShape, Aside
<1>2. Good
  BY DEF Good, TwtIInv, OneThing, Aside
<1>3. TwtAir' /\ PowerSaveReturns' /\ NeverStuck'
  BY DEF TwtIInv, TwtAir, PowerSaveReturns, NeverStuck, Aside
<1>. QED  BY <1>1, <1>2, <1>3 DEF Kept

LEMMA ApTakesKeeps == ASSUME TwtAssumption, TwtIInv, ApTakes PROVE Kept
<1>. DEFINE m == Head(toAp)
<1>1. toAp # <<>> /\ toAp' = Tail(toAp) /\ Aside /\ TwtShape
  BY DEF ApTakes, Aside, triesVars, psVars, TwtIInv
<1>2. m \in Frames /\ toAp' \in Seq(Frames) /\ linked = TRUE /\ toAp \in Seq(Frames)
  BY <1>1, HeadOfFrames DEF TwtShape
<1>3. supports = TRUE \/ toSta = <<>>
  BY DEF TwtIInv, TwtAir
<1>4. toSta \in Seq(Replies) /\ apFlows \subseteq Ids /\ apart \in BOOLEAN /\ session' = session
  BY <1>1 DEF TwtShape, Aside
<1>. HIDE DEF m
<1>5. CASE /\ m.kind = "teardown" /\ UNCHANGED <<toSta, apart>>
           /\ apFlows' = (IF m.flow = AllFlows THEN {} ELSE apFlows \ {m.flow})
  <2>1. apFlows' \subseteq Ids
    BY <1>4, <1>5
  <2>2. ASSUME apart = FALSE PROVE Change
    <3>1. toSta = <<>>
      BY <1>1, <1>5, <2>2, HeadOfFrames DEF TwtIInv, OneThing, m
    <3>2. \A f \in Ids : f \in apFlows' <=> (f \in apFlows /\ ~ EndsFlow(m, f))
      BY <1>5 DEF EndsFlow
    <3>. QED  BY <1>1, <1>4, <1>5, <3>1, <3>2 DEF ApTearsDown, Change, m
  <2>. QED  BY <1>1, <1>2, <1>3, <1>4, <1>5, <2>1, <2>2, AsideKeeps
<1>6. CASE m.kind = "setup" /\ UNCHANGED <<toSta, apFlows, apart>>
  <2>1. Change
    BY <1>1, <1>4, <1>6 DEF ApIgnores, Change, m
  <2>. QED  BY <1>1, <1>2, <1>3, <1>4, <1>6, <2>1, AsideKeeps
<1>7. ASSUME m.kind = "setup", supports, NEW a \in Answers(m.flow),
             toSta' = Append(toSta, a),
             apFlows' = (IF a.cmd = "accept" THEN apFlows \cup {m.flow} ELSE apFlows),
             SetsApart(\E i \in DOMAIN toAp' : toAp'[i].kind = "teardown")
      PROVE  Kept
  <2>1. m.flow \in Ids
    BY <1>2, <1>7, FrameFacts
  <2>2. a \in Replies /\ a.kind = "answer" /\ a.flow = m.flow
    BY <2>1, AnswerFacts
  <2>3. toSta' \in Seq(Replies) /\ apFlows' \subseteq Ids /\ supports = TRUE
    BY <1>1, <1>4, <1>7, <2>1, <2>2, StaGets DEF TwtShape
  <2>4. apart' \in BOOLEAN
    BY <1>7, PartedType
  <2>5. ASSUME apart' = FALSE PROVE apart = FALSE /\ Change
    <3>1. apart = FALSE /\ ~ \E i \in DOMAIN toAp' : toAp'[i].kind = "teardown"
      BY <1>4, <1>7, <2>5, Parted
    <3>2. NoTeardown(toAp')
      BY <1>2, <3>1, LenProperties DEF NoTeardown
    <3>3. \A f : ~ EndsFlow(m, f)
      BY <1>7 DEF EndsFlow
    <3>4. \A f : Torn(toAp, f) <=> Torn(toAp', f)
      BY <1>1, <1>2, <3>3, TornTail DEF m
    <3>5. \A f \in Ids : f \in apFlows' <=> (~ EndsFlow(a, f) /\ (Tells(a, f) \/ f \in apFlows))
      BY <1>7, <2>2 DEF EndsFlow, Tells
    <3>6. ApTells(a)
      BY <1>2, <1>4, <1>7, <3>2, <3>4, <3>5 DEF ApTells
    <3>. QED  BY <2>2, <3>1, <3>6 DEF Change
  <2>. QED  BY <1>1, <1>2, <2>3, <2>4, <2>5, AsideKeeps
<1>. QED  BY <1>5, <1>6, <1>7 DEF ApTakes, m

LEMMA ApActsKeeps == ASSUME TwtAssumption, TwtIInv, ApActs PROVE Kept
<1>1. /\ linked = TRUE /\ supports = TRUE /\ Aside /\ TwtShape /\ toAp' = toAp
      /\ SetsApart(toAp # <<>>)
  BY DEF ApActs, Aside, triesVars, psVars, TwtIInv, TwtShape
<1>2. toAp' \in Seq(Frames) /\ apFlows \subseteq Ids /\ session' = session /\ apart' \in BOOLEAN
  BY <1>1, PartedType DEF TwtShape, Aside
<1>3. apart' = FALSE => apart = FALSE /\ toAp = <<>>
  BY <1>1, Parted DEF TwtShape
<1>4. ASSUME NEW a \in Replies, toSta' = Append(toSta, a), apFlows' \subseteq Ids,
             \A f \in Ids : f \in apFlows' <=> (~ EndsFlow(a, f) /\ (Tells(a, f) \/ f \in apFlows))
      PROVE  Kept
  <2>1. toSta' \in Seq(Replies)
    BY <1>4, StaGets
  <2>2. ASSUME apart' = FALSE PROVE apart = FALSE /\ Change
    <3>1. apart = FALSE /\ toAp = <<>> /\ NoTeardown(toAp')
      BY <1>1, <1>3, <2>2, EmptyTears
    <3>2. ApTells(a)
      BY <1>1, <1>2, <1>4, <3>1 DEF ApTells
    <3>. QED  BY <3>1, <3>2 DEF Change
  <2>. QED  BY <1>1, <1>2, <1>4, <2>1, <2>2, AsideKeeps
<1>5. ASSUME NEW f \in FLOWS, NEW g \in BOOLEAN, NEW h \in BOOLEAN,
             toSta' = Append(toSta, [kind |-> "answer", flow |-> f, good |-> g, fits |-> h,
                                     cmd |-> "accept"]),
             apFlows' = apFlows \cup {f}
      PROVE  Kept
  <2>. DEFINE a == [kind |-> "answer", flow |-> f, good |-> g, fits |-> h, cmd |-> "accept"]
  <2>1. f \in Ids /\ a \in Answers(f)
    BY DEF Ids, Answers
  <2>2. a \in Replies
    BY <2>1, AnswerFacts
  <2>3. a.kind = "answer" /\ a.flow = f /\ a.cmd = "accept"
    OBVIOUS
  <2>. HIDE DEF a
  <2>4. \A e \in Ids : e \in apFlows' <=> (~ EndsFlow(a, e) /\ (Tells(a, e) \/ e \in apFlows))
    BY <1>5, <2>3 DEF EndsFlow, Tells
  <2>. QED  BY <1>2, <1>4, <1>5, <2>1, <2>2, <2>4 DEF a
<1>6. CASE apFlows' = {} /\ toSta' = Append(toSta, Teardown(AllFlows))
  <2>1. /\ Teardown(AllFlows) \in Replies /\ Teardown(AllFlows).kind = "teardown"
        /\ Teardown(AllFlows).flow = AllFlows
    BY FrameFacts
  <2>2. \A e \in Ids : EndsFlow(Teardown(AllFlows), e)
    BY <2>1 DEF EndsFlow
  <2>. QED  BY <1>4, <1>6, <2>1, <2>2
<1>7. ASSUME NEW f \in apFlows, apFlows' = apFlows \ {f}, toSta' = Append(toSta, Teardown(f))
      PROVE  Kept
  <2>1. /\ f \in Ids /\ Teardown(f) \in Replies /\ Teardown(f).kind = "teardown"
        /\ Teardown(f).flow = f
    BY <1>2, FrameFacts
  <2>2. \A e \in Ids : ~ Tells(Teardown(f), e) /\ (EndsFlow(Teardown(f), e) <=> e = f)
    BY <2>1, NoSuchFlow DEF EndsFlow, Tells
  <2>. QED  BY <1>2, <1>4, <1>7, <2>1, <2>2
<1>. QED  BY <1>5, <1>6, <1>7, ZenonT(60) DEF ApActs

LEMMA LossKeeps == ASSUME TwtAssumption, TwtIInv, FrameLostInAir PROVE Kept
<1>1. Aside /\ apFlows' = apFlows /\ SetsApart(TRUE) /\ TwtShape
  BY DEF FrameLostInAir, Aside, triesVars, psVars, TwtIInv
<1>2. apart' = TRUE
  BY <1>1 DEF SetsApart
<1>3. CASE toAp # <<>> /\ toAp' = Tail(toAp) /\ UNCHANGED toSta
  <2>1. toAp' \in Seq(Frames) /\ linked = TRUE /\ toSta' \in Seq(Replies)
    BY <1>1, <1>3, HeadOfFrames DEF TwtShape
  <2>2. supports = TRUE \/ toSta' = <<>>
    BY <1>3 DEF TwtIInv, TwtAir
  <2>. QED  BY <1>1, <1>2, <2>1, <2>2, AsideKeeps DEF TwtShape
<1>4. CASE toSta # <<>> /\ toSta' = Tail(toSta) /\ UNCHANGED toAp
  <2>1. toSta' \in Seq(Replies) /\ linked = TRUE /\ supports = TRUE /\ toAp' \in Seq(Frames)
    BY <1>1, <1>4, HeadOfReplies DEF TwtShape
  <2>. QED  BY <1>1, <1>2, <2>1, AsideKeeps DEF TwtShape
<1>. QED  BY <1>3, <1>4 DEF FrameLostInAir

-----------------------------------------------------------------------------
LEMMA TwtStart == ASSUME TwtAssumption, TwtInit PROVE TwtIInv
<1>1. TwtShape
  BY EmptySeq DEF TwtInit, TwtShape, Ids, NoFlow, AllFlows
<1>2. TwtAir /\ OneThing /\ PowerSaveReturns /\ NeverStuck
  BY DEF TwtInit, TwtAir, OneThing, PowerSaveReturns, NeverStuck
<1>3. Converges
  <2>1. \A f \in Ids : ~ Holds(NoFlow, <<>>, f)
    BY HoldsEmpty, NoSuchFlow
  <2>. QED  BY <2>1 DEF TwtInit, Converges
<1>. QED  BY <1>1, <1>2, <1>3 DEF TwtIInv

LEMMA TwtStep == ASSUME TwtAssumption, TwtIInv, [TwtNext]_twtVars PROVE TwtIInv'
<1>1. CASE TwtNext
  <2>1. Kept
    BY <1>1, UserSetupKeeps, UserTeardownKeeps, AutoConfigKeeps, TimerKeeps, CallbackKeeps,
       ReceiveSetupKeeps, ReceiveTeardownKeeps, AssociateKeeps, HandshakeKeeps, LinkLostKeeps,
       ApTakesKeeps, ApActsKeeps, LossKeeps DEF TwtNext
  <2>2. OneThing' /\ Converges'
    BY <2>1, GoodAgrees DEF Kept, TwtIInv
  <2>. QED  BY <2>1, <2>2 DEF Kept, TwtIInv
<1>2. CASE UNCHANGED twtVars
  <2>1. UNCHANGED <<linked, supports, config, session, progress, timer, calling, saves, paused,
                    toAp, toSta, apFlows, apart, unsent>>
    BY <1>2 DEF twtVars, triesVars, psVars, airVars, ghosts
  <2>2. TwtShape' /\ TwtAir' /\ OneThing' /\ PowerSaveReturns' /\ NeverStuck'
    BY <2>1 DEF TwtIInv, TwtShape, TwtAir, OneThing, PowerSaveReturns, NeverStuck
  <2>3. Converges'
    BY <2>1 DEF TwtIInv, Converges
  <2>. QED  BY <2>2, <2>3 DEF TwtIInv
<1>. QED  BY <1>1, <1>2

\* With nothing on its way, what both will hold is what both hold.
LEMMA QuietAgrees == ASSUME TwtAssumption, TwtIInv PROVE BothAgree
<1>. SUFFICES ASSUME Quiet, ~ apart
              PROVE  apFlows = (IF session = NoFlow THEN {} ELSE {session})
  BY DEF BothAgree
<1>1. toAp = <<>> /\ toSta = <<>> /\ apart = FALSE /\ apFlows \subseteq Ids
      /\ session \in Ids \cup {NoFlow}
  BY DEF Quiet, TwtIInv, TwtShape
<1>2. \A f \in Ids : f \in apFlows <=> session = f
  <2>1. \A f \in Ids : (f \in apFlows /\ ~ Torn(<<>>, f)) <=> Holds(session, <<>>, f)
    BY <1>1 DEF TwtIInv, Converges
  <2>. QED  BY <2>1, HoldsEmpty, EmptyTears
<1>. QED  BY <1>1, <1>2, NoSuchFlow

\* Whatever course a negotiation takes, the two sides agree once nothing is under way, power
\* save returns, and somebody can end it (process_twt_setup_resp, the retry timer, the
\* teardowns); for any number of flows, retries and frames in the air.
THEOREM TwtSafe == TwtSpec => []TwtInv
<1>1. TwtInit => TwtIInv
  BY TwtStart, TwtAssumption
<1>2. TwtIInv /\ [TwtNext]_twtVars => TwtIInv'
  BY TwtStep, TwtAssumption
<1>3. TwtIInv => TwtInv
  BY QuietAgrees, TwtAssumption DEF TwtIInv, TwtInv
<1>. QED  BY <1>1, <1>2, <1>3, PTL DEF TwtSpec
=============================================================================
