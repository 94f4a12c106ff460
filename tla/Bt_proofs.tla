----------------------------- MODULE Bt_proofs -----------------------------
(***************************************************************************)
(* Proofs about Bluetooth and the tests, each part from its own            *)
(* specification.                                                          *)
(*                                                                         *)
(* BtChar: the ring of rsi_91x_bluedroid.c implements the queue of BtFifo  *)
(* until it breaks, for every size of the ring and any number of frames    *)
(* (RingIsFifo).  Indices go round modulo QUEUE_SIZE; the lemmas of the    *)
(* first part say once and for all which slot the i-th frame is in and how *)
(* many frames there are, and the rest of the proof adds and subtracts.    *)
(* IndexInv says what the receive thread may still rely on of the tests it *)
(* made: the reader runs beside it, but while the ring is whole it only    *)
(* ever makes room.  NameInv keeps a frame apart from all that came before *)
(* it.                                                                     *)
(*                                                                         *)
(* BtLink: HostInv ties what the host detaches to what it is doing, and    *)
(* AskedInv says that the answer a reader will wait for is under way       *)
(* before it waits.                                                        *)
(*                                                                         *)
(* PerMode: while commands do not cross there is one at a time             *)
(* (OneCommand), the device is told only at its end (TellsDevice), and a   *)
(* confirmation is to come before the wait for it begins (AnswerComes).    *)
(***************************************************************************)
EXTENDS BtChar, BtLink, PerMode, SequenceTheorems, TLAPS

Distance(r, f) == IF r >= f THEN r - f ELSE r + QUEUE_SIZE - f
SlotOf(f, i) == IF f + i - 1 < QUEUE_SIZE THEN f + i - 1 ELSE f + i - 1 - QUEUE_SIZE
SlotValues == {0} \cup Frames

IndexInv ==
    torn = "no" =>
        /\ front = -1 <=> rear = -1
        /\ adding.at = "first" => front = -1
        /\ adding.at = "store" => front # -1
        /\ adding.at = "next" /\ front # -1 => front # NextSlot(rear)

NameInv ==
    /\ \A i \in Slots : rsi_skb_queue[i] <= received
    /\ last <= received
    /\ adding.at # "idle" =>
          /\ adding.frame = received /\ received \in Frames
          /\ \A i \in Slots : rsi_skb_queue[i] < received
          /\ last < received

IInv == CharTypeOK /\ IndexInv /\ NameInv

-----------------------------------------------------------------------------
(* Arithmetic of the ring.                                                 *)

\* The remainder of a number below twice the divisor.
LEMMA Remainder ==
    ASSUME NEW a \in Nat, NEW q \in Nat \ {0}, a < q + q
    PROVE  a % q = IF a < q THEN a ELSE a - q
<1>1. CASE a < q
  BY <1>1
<1>2. CASE q <= a
  BY <1>2
<1> QED BY <1>1, <1>2

\* The slot after a slot.
LEMMA NextOf ==
    ASSUME RingAssumption, NEW i \in Slots
    PROVE  NextSlot(i) \in Slots /\ NextSlot(i) = IF i + 1 = QUEUE_SIZE THEN 0 ELSE i + 1
<1>1. i + 1 \in Nat /\ QUEUE_SIZE \in Nat \ {0} /\ i + 1 < QUEUE_SIZE + QUEUE_SIZE
  BY DEF RingAssumption, Slots
<1>2. NextSlot(i) = IF i + 1 < QUEUE_SIZE THEN i + 1 ELSE i + 1 - QUEUE_SIZE
  <2> DEFINE a == i + 1
  <2>1. a % QUEUE_SIZE = IF a < QUEUE_SIZE THEN a ELSE a - QUEUE_SIZE
    <3> HIDE DEF a
    <3> QED BY <1>1, Remainder DEF a
  <2>2. NextSlot(i) = a % QUEUE_SIZE
    BY DEF NextSlot
  <2> HIDE DEF a
  <2>3. NextSlot(i) = IF a < QUEUE_SIZE THEN a ELSE a - QUEUE_SIZE
    BY <2>1, <2>2
  <2> QED BY <1>1, <2>3 DEF a, Slots
<1> QED BY <1>1, <1>2 DEF Slots

\* The slot of the i-th frame after the front.
LEMMA SlotIs ==
    ASSUME RingAssumption, NEW f \in Slots, NEW i \in 1..QUEUE_SIZE
    PROVE  (f + i - 1) % QUEUE_SIZE = SlotOf(f, i) /\ SlotOf(f, i) \in Slots
<1>1. f + i - 1 \in Nat /\ QUEUE_SIZE \in Nat \ {0} /\ f + i - 1 < QUEUE_SIZE + QUEUE_SIZE
  BY DEF RingAssumption, Slots
<1>2. SlotOf(f, i) \in Slots
  BY <1>1 DEF SlotOf, Slots
<1> DEFINE a == f + i - 1
<1>3. a % QUEUE_SIZE = IF a < QUEUE_SIZE THEN a ELSE a - QUEUE_SIZE
  <2> HIDE DEF a
  <2> QED BY <1>1, Remainder DEF a
<1>4. SlotOf(f, i) = IF a < QUEUE_SIZE THEN a ELSE a - QUEUE_SIZE
  BY <1>1 DEF SlotOf, Slots
<1>5. a % QUEUE_SIZE = SlotOf(f, i)
  <2> HIDE DEF a
  <2> QED BY <1>3, <1>4
<1> QED BY <1>2, <1>5

\* How far the rear is from the front.
LEMMA DistanceIs ==
    ASSUME RingAssumption, NEW r \in Slots, NEW f \in Slots
    PROVE  (r + QUEUE_SIZE - f) % QUEUE_SIZE = Distance(r, f) /\ Distance(r, f) \in 0..QUEUE_SIZE - 1
<1>1. r + QUEUE_SIZE - f \in Nat /\ QUEUE_SIZE \in Nat \ {0} /\ r + QUEUE_SIZE - f < QUEUE_SIZE + QUEUE_SIZE
  BY DEF RingAssumption, Slots
<1>2. Distance(r, f) \in 0..QUEUE_SIZE - 1
  BY <1>1 DEF Distance, Slots
<1> DEFINE a == r + QUEUE_SIZE - f
<1>3. a % QUEUE_SIZE = IF a < QUEUE_SIZE THEN a ELSE a - QUEUE_SIZE
  <2> HIDE DEF a
  <2> QED BY <1>1, Remainder DEF a
<1>4. (IF a < QUEUE_SIZE THEN a ELSE a - QUEUE_SIZE) = Distance(r, f)
  BY <1>1 DEF Distance, Slots
<1> QED BY <1>2, <1>3, <1>4

(* Held and Content as functions of the state, for the state before a step *)
(* and the one after it.                                                   *)
HeldOf(f, r, storing) ==
    IF f = -1 THEN 0 ELSE ((r + QUEUE_SIZE - f) % QUEUE_SIZE) + (IF storing THEN 0 ELSE 1)
ContentOf(f, r, storing, q) ==
    [i \in 1..HeldOf(f, r, storing) |-> q[(f + i - 1) % QUEUE_SIZE]]

\* The number of frames, while the indices agree on whether there are any.
LEMMA HeldIs ==
    ASSUME RingAssumption, NEW f \in {-1} \cup Slots, NEW r \in {-1} \cup Slots, f = -1 <=> r = -1,
           NEW storing \in BOOLEAN
    PROVE  /\ HeldOf(f, r, storing) \in 0..QUEUE_SIZE
           /\ f = -1 => HeldOf(f, r, storing) = 0
           /\ f # -1 => /\ f \in Slots /\ r \in Slots
                        /\ HeldOf(f, r, storing) = Distance(r, f) + IF storing THEN 0 ELSE 1
                        /\ Distance(r, f) \in 0..QUEUE_SIZE - 1
<1>1. CASE f = -1
  BY <1>1 DEF HeldOf, RingAssumption
<1>2. CASE f # -1
  <2>1. f \in Slots /\ r \in Slots
    BY <1>2
  <2>2. HeldOf(f, r, storing) = Distance(r, f) + IF storing THEN 0 ELSE 1
    BY <1>2, <2>1, DistanceIs DEF HeldOf
  <2> QED BY <1>2, <2>1, <2>2, DistanceIs DEF RingAssumption
<1> QED BY <1>1, <1>2

\* The frames held are a sequence, and the i-th is in its slot.
LEMMA ContentIs ==
    ASSUME RingAssumption, NEW f \in {-1} \cup Slots, NEW r \in {-1} \cup Slots, f = -1 <=> r = -1,
           NEW storing \in BOOLEAN, NEW q \in [Slots -> SlotValues]
    PROVE  /\ ContentOf(f, r, storing, q) \in Seq(SlotValues)
           /\ Len(ContentOf(f, r, storing, q)) = HeldOf(f, r, storing)
           /\ \A i \in 1..HeldOf(f, r, storing) :
                 /\ SlotOf(f, i) \in Slots
                 /\ ContentOf(f, r, storing, q)[i] = q[SlotOf(f, i)]
<1> DEFINE held == HeldOf(f, r, storing)
<1>1. held \in Nat /\ held <= QUEUE_SIZE /\ (held # 0 => f \in Slots)
  BY HeldIs DEF RingAssumption
<1>2. \A i \in 1..held : (f + i - 1) % QUEUE_SIZE = SlotOf(f, i) /\ SlotOf(f, i) \in Slots
  <2> SUFFICES ASSUME NEW i \in 1..held
               PROVE  (f + i - 1) % QUEUE_SIZE = SlotOf(f, i) /\ SlotOf(f, i) \in Slots
    OBVIOUS
  <2> HIDE DEF held
  <2>1. f \in Slots /\ i \in 1..QUEUE_SIZE
    BY <1>1 DEF RingAssumption
  <2> QED BY <2>1, SlotIs
<1>3. ContentOf(f, r, storing, q) \in [1..held -> SlotValues]
  BY <1>2 DEF ContentOf
<1> HIDE DEF held
<1>4. ContentOf(f, r, storing, q) \in Seq(SlotValues) /\ Len(ContentOf(f, r, storing, q)) = held
  BY <1>1, <1>3
<1>5. \A i \in 1..held : ContentOf(f, r, storing, q)[i] = q[SlotOf(f, i)]
  BY <1>2 DEF ContentOf, held
<1> QED BY <1>2, <1>4, <1>5 DEF held

-----------------------------------------------------------------------------
(* The invariant.                                                          *)

LEMMA CharInitial == RingAssumption /\ CharInit => IInv
<1> SUFFICES ASSUME RingAssumption, CharInit PROVE IInv
  OBVIOUS
<1>1. CharTypeOK
  <2>1. front \in {-1} \cup Slots /\ rear \in {-1} \cup Slots /\ rsi_skb_queue \in [Slots -> {0} \cup Frames]
    BY DEF CharInit
  <2>2. received \in 0..MAX_FRAMES /\ last \in {0} \cup Frames /\ files \in 0..2
    BY DEF CharInit, RingAssumption
  <2>3. read_wait \in BOOLEAN /\ hci_up \in BOOLEAN
    BY DEF CharInit
  <2> QED BY <2>1, <2>2, <2>3 DEF CharInit, CharTypeOK
<1>2. IndexInv /\ NameInv
  BY DEF CharInit, IndexInv, NameInv
<1> QED BY <1>1, <1>2 DEF IInv

\* Opening, closing, and a reader that waits, is woken, or finds nothing, leave the ring
\* alone (rsi_btchr_open, rsi_btchr_close, rsi_btchr_read).
Beside == CharOpen \/ CharClose \/ CharRead \/ ReadWoken \/ DequeueNothing

LEMMA BesideKeeps ==
    ASSUME IInv, Beside
    PROVE  IInv' /\ UNCHANGED <<ringVars, adding, last>>
<1>1. UNCHANGED <<front, rear, rsi_skb_queue, torn, adding, received, last>>
  BY DEF Beside, CharOpen, CharClose, CharRead, ReadWoken, DequeueNothing, ringVars, readVars
<1>2. read_wait' \in BOOLEAN /\ hci_up' \in BOOLEAN
  BY DEF Beside, CharOpen, CharClose, CharRead, ReadWoken, DequeueNothing, IInv, CharTypeOK
<1>3. files' \in 0..2
  BY DEF Beside, CharOpen, CharClose, CharRead, ReadWoken, DequeueNothing, IInv, CharTypeOK
<1>4. reader' \in {"idle", "wait", "dequeue"}
  BY DEF Beside, CharOpen, CharClose, CharRead, ReadWoken, DequeueNothing, IInv, CharTypeOK,
     readVars
<1>5. CharTypeOK'
  BY <1>1, <1>2, <1>3, <1>4 DEF IInv, CharTypeOK
<1>6. IndexInv' /\ NameInv'
  BY <1>1 DEF IInv, IndexInv, NameInv, NextSlot
<1> QED BY <1>1, <1>5, <1>6 DEF IInv, ringVars

\* A frame is received: it has a number none before it had (rsi_send_to_stack).
LEMMA SendKeeps == ASSUME RingAssumption, IInv, SendToStack PROVE IInv'
<1>1. /\ adding.at = "idle" /\ received < MAX_FRAMES
      /\ received' = received + 1 /\ adding' = [at |-> "test", frame |-> received + 1]
      /\ UNCHANGED <<front, rear, rsi_skb_queue, torn, reader, last, files>>
  BY DEF SendToStack, ringVars, readVars
<1>2. received + 1 \in Frames /\ received + 1 \in 0..MAX_FRAMES
  BY <1>1 DEF IInv, CharTypeOK, RingAssumption, Frames
<1>3. UNCHANGED <<read_wait, hci_up>>
  BY DEF SendToStack
<1>4. read_wait' \in BOOLEAN /\ hci_up' \in BOOLEAN
  BY <1>3 DEF IInv, CharTypeOK
<1>5. CharTypeOK'
  BY <1>1, <1>2, <1>4 DEF IInv, CharTypeOK
<1>6. IndexInv'
  BY <1>1 DEF IInv, IndexInv
<1>7. NameInv'
  <2>1. \A i \in Slots : rsi_skb_queue[i] \in {0} \cup Frames /\ rsi_skb_queue[i] < received + 1
    BY DEF IInv, CharTypeOK, NameInv, Frames
  <2>2. last < received + 1 /\ last <= received + 1
    BY DEF IInv, CharTypeOK, NameInv, Frames
  <2>3. \A i \in Slots : rsi_skb_queue[i] <= received + 1
    BY <1>2, <2>1 DEF Frames
  <2> QED BY <1>1, <1>2, <2>1, <2>2, <2>3 DEF NameInv
<1> QED BY <1>5, <1>6, <1>7 DEF IInv

\* The test of rsi_enqueue: a full ring drops the frame, an empty one is begun, any other
\* has a free slot after its rear.
LEMMA TestsKeeps == ASSUME RingAssumption, IInv, EnqueueTests PROVE IInv'
<1>1. /\ adding.at = "test"
      /\ UNCHANGED <<front, rear, rsi_skb_queue, torn, received, reader, last, files>>
  BY DEF EnqueueTests, ringVars, readVars
<1>2. hci_up' = hci_up /\ (read_wait' = TRUE \/ read_wait' = read_wait)
  BY DEF EnqueueTests
<1>3. read_wait' \in BOOLEAN /\ hci_up' \in BOOLEAN
  BY <1>2 DEF IInv, CharTypeOK
<1>4. \/ adding' = [at |-> "idle", frame |-> 0]
      \/ adding' = [adding EXCEPT !.at = "first"] /\ front = -1
      \/ adding' = [adding EXCEPT !.at = "next"] /\ front # -1 /\ front # NextSlot(rear)
  BY DEF EnqueueTests, Full, Empty
<1>5. CharTypeOK'
  <2>1. adding' \in [at : {"idle", "test", "first", "next", "store"}, frame : {0} \cup Frames]
    BY <1>4 DEF IInv, CharTypeOK
  <2> QED BY <1>1, <1>3, <2>1 DEF IInv, CharTypeOK
<1>6. IndexInv' /\ NameInv'
  <2>1. CASE adding' = [at |-> "idle", frame |-> 0]
    BY <1>1, <2>1 DEF IInv, IndexInv, NameInv
  <2>2. CASE adding' = [adding EXCEPT !.at = "first"] /\ front = -1
    BY <1>1, <2>2 DEF IInv, IndexInv, NameInv, CharTypeOK
  <2>3. CASE adding' = [adding EXCEPT !.at = "next"] /\ front # -1 /\ front # NextSlot(rear)
    <3>1. adding'.at = "next" /\ adding'.frame = adding.frame /\ NextSlot(rear)' = NextSlot(rear)
      BY <1>1, <2>3 DEF IInv, CharTypeOK, NextSlot
    <3> QED BY <1>1, <2>3, <3>1 DEF IInv, IndexInv, NameInv
  <2> QED BY <1>4, <2>1, <2>2, <2>3
<1> QED BY <1>5, <1>6 DEF IInv

\* The index moves to the free slot (rsi_enqueue); if the reader has emptied the ring
\* since the test, the ring is torn.
LEMMA IndexKeeps == ASSUME RingAssumption, IInv, EnqueueIndexes PROVE IInv'
<1>1. /\ adding' = [adding EXCEPT !.at = "store"]
      /\ adding.at \in {"first", "next"}
      /\ UNCHANGED <<rsi_skb_queue, received, reader, last, files>>
  BY DEF EnqueueIndexes, readVars
<1>2. hci_up' \in BOOLEAN /\ read_wait' \in BOOLEAN
  BY DEF EnqueueIndexes, IInv, CharTypeOK
<1>3. /\ front' \in {-1} \cup Slots /\ rear' \in {-1} \cup Slots
      /\ torn' \in {"no", "lost", "unstored", "partial"}
  <2>1. NextSlot(rear) \in Slots
    <3>1. CASE rear = -1
      BY <3>1, Remainder DEF NextSlot, RingAssumption, Slots
    <3>2. CASE rear \in Slots
      BY <3>2, NextOf
    <3> QED BY <3>1, <3>2 DEF IInv, CharTypeOK
  <2>2. 0 \in Slots
    BY DEF RingAssumption, Slots
  <2> QED BY <2>1, <2>2 DEF EnqueueIndexes, Breaks, IInv, CharTypeOK
<1>4. CharTypeOK'
  <2>1. adding' \in [at : {"idle", "test", "first", "next", "store"}, frame : {0} \cup Frames]
    BY <1>1 DEF IInv, CharTypeOK
  <2> QED BY <1>1, <1>2, <1>3, <2>1 DEF IInv, CharTypeOK
<1>5. IndexInv'
  <2> SUFFICES ASSUME torn' = "no" PROVE IndexInv'
    BY DEF IndexInv
  <2>1. adding'.at = "store" /\ torn = "no"
    BY <1>1 DEF EnqueueIndexes, Breaks, IInv, CharTypeOK
  <2>2. front' # -1 /\ rear' # -1
    <3>1. CASE adding.at = "first"
      BY <3>1 DEF EnqueueIndexes
    <3>2. CASE adding.at = "next"
      <4>1. front # -1 /\ front' = front /\ rear' = NextSlot(rear)
        BY <2>1, <3>2 DEF EnqueueIndexes, Breaks, Empty
      <4>2. rear \in Slots
        BY <2>1, <4>1 DEF IInv, IndexInv, CharTypeOK
      <4>3. NextSlot(rear) \in Slots
        BY <4>2, NextOf
      <4> QED BY <4>1, <4>3 DEF Slots
    <3> QED BY <1>1, <3>1, <3>2
  <2> QED BY <2>1, <2>2 DEF IndexInv
<1>6. NameInv'
  BY <1>1 DEF IInv, NameInv, CharTypeOK
<1> QED BY <1>4, <1>5, <1>6 DEF IInv

\* The frame is stored (rsi_enqueue).
LEMMA StoreKeeps == ASSUME RingAssumption, IInv, EnqueueStores PROVE IInv'
<1>1. /\ adding.at = "store" /\ adding' = [at |-> "idle", frame |-> 0]
      /\ UNCHANGED <<front, rear, torn, received, reader, last, files>>
  BY DEF EnqueueStores, readVars
<1>2. hci_up' = hci_up /\ read_wait' = TRUE
  BY DEF EnqueueStores
<1>3. hci_up' \in BOOLEAN /\ read_wait' \in BOOLEAN
  BY <1>2 DEF IInv, CharTypeOK
<1>4. /\ rsi_skb_queue' \in [Slots -> {0} \cup Frames]
      /\ \A i \in Slots : rsi_skb_queue'[i] <= received
  <2>1. rsi_skb_queue' = rsi_skb_queue \/ rsi_skb_queue' = [rsi_skb_queue EXCEPT ![rear] = adding.frame]
    BY DEF EnqueueStores, StoredAt
  <2>2. adding.frame = received /\ received \in Frames /\ received <= received
    BY <1>1 DEF IInv, NameInv, Frames
  <2> QED BY <2>1, <2>2 DEF IInv, CharTypeOK, NameInv
<1>5. CharTypeOK'
  BY <1>1, <1>3, <1>4 DEF IInv, CharTypeOK
<1>6. IndexInv' /\ NameInv'
  BY <1>1, <1>4 DEF IInv, IndexInv, NameInv
<1> QED BY <1>5, <1>6 DEF IInv

\* The reader takes a frame, or a part of one (rsi_dequeue).
LEMMA TakeKeeps == ASSUME RingAssumption, IInv, Dequeue \/ DequeuePart PROVE IInv'
<1>1. /\ front # -1 /\ reader' = "idle" /\ last' = rsi_skb_queue[front]
      /\ UNCHANGED <<rsi_skb_queue, adding, received, files>>
  BY DEF Dequeue, DequeuePart, Empty
<1>2. hci_up' \in BOOLEAN /\ read_wait' \in BOOLEAN
  BY DEF Dequeue, DequeuePart, IInv, CharTypeOK
<1>3. front \in Slots /\ NextSlot(front) \in Slots
  BY <1>1, NextOf DEF IInv, CharTypeOK
<1>4. /\ front' \in {-1} \cup Slots /\ rear' \in {-1} \cup Slots
      /\ torn' \in {"no", "lost", "unstored", "partial"}
  BY <1>3 DEF Dequeue, DequeuePart, LastLeaves, Breaks, IInv, CharTypeOK
<1>5. last' \in {0} \cup Frames
  BY <1>1, <1>3 DEF IInv, CharTypeOK
<1>6. CharTypeOK'
  BY <1>1, <1>2, <1>4, <1>5 DEF IInv, CharTypeOK
<1>7. IndexInv'
  <2> SUFFICES ASSUME torn' = "no" PROVE IndexInv'
    BY DEF IndexInv
  <2>1. /\ torn = "no" /\ ~Unstored /\ Dequeue
    BY DEF Dequeue, DequeuePart, Breaks, IInv, CharTypeOK
  <2>2. /\ rear # -1 /\ rear \in Slots /\ adding.at # "first"
        /\ adding.at = "next" => front # NextSlot(rear)
    BY <1>1, <2>1 DEF IInv, IndexInv, CharTypeOK
  <2>3. CASE front = rear
    <3>1. front' = -1 /\ rear' = -1 /\ adding.at # "store"
      BY <2>1, <2>3 DEF Dequeue, LastLeaves, Unstored
    <3> QED BY <1>1, <2>2, <3>1 DEF IndexInv
  <2>4. CASE front # rear
    <3>1. front' = NextSlot(front) /\ rear' = rear
      BY <2>1, <2>4 DEF Dequeue
    <3>2. front' # -1
      BY <1>3, <3>1 DEF Slots
    <3>3. front' # NextSlot(rear')
      BY <1>3, <2>2, <2>4, <3>1, NextOf DEF Slots
    <3> QED BY <1>1, <2>2, <3>1, <3>2, <3>3 DEF IndexInv, NextSlot
  <2> QED BY <2>3, <2>4
<1>8. NameInv'
  BY <1>1, <1>3 DEF IInv, NameInv
<1> QED BY <1>6, <1>7, <1>8 DEF IInv

LEMMA CharStep == RingAssumption /\ IInv /\ [CharNext]_charVars => IInv'
<1> SUFFICES ASSUME RingAssumption, IInv, [CharNext]_charVars PROVE IInv'
  OBVIOUS
<1>1. CASE Beside
  BY <1>1, BesideKeeps
<1>2. CASE SendToStack
  BY <1>2, SendKeeps
<1>3. CASE EnqueueTests
  BY <1>3, TestsKeeps
<1>4. CASE EnqueueIndexes
  BY <1>4, IndexKeeps
<1>5. CASE EnqueueStores
  BY <1>5, StoreKeeps
<1>6. CASE Dequeue \/ DequeuePart
  BY <1>6, TakeKeeps
<1>7. CASE UNCHANGED charVars
  <2>1. UNCHANGED <<front, rear, rsi_skb_queue, torn, adding, received, reader, last, read_wait, hci_up, files>>
    BY <1>7 DEF charVars, ringVars, readVars
  <2>2. CharTypeOK'
    BY <2>1 DEF IInv, CharTypeOK
  <2>3. IndexInv' /\ NameInv'
    BY <2>1 DEF IInv, IndexInv, NameInv, NextSlot
  <2> QED BY <2>2, <2>3 DEF IInv
<1> QED BY <1>1, <1>2, <1>3, <1>4, <1>5, <1>6, <1>7 DEF CharNext, Beside

-----------------------------------------------------------------------------
(* The refinement: what each step does to the frames held, while the ring  *)
(* stays whole.                                                            *)

Storing == adding.at = "store"
Whole == IInv /\ torn = "no"

\* Content is the function of the state that the lemmas are about, before a step and after.
LEMMA ContentNow ==
    /\ Content = ContentOf(front, rear, Storing, rsi_skb_queue)
    /\ Content' = ContentOf(front', rear', Storing', rsi_skb_queue')
BY DEF Content, ContentOf, Held, HeldOf, Empty, Storing

\* What the lemmas suppose holds of a whole ring, before a step and after.
LEMMA WholeRing ==
    Whole => /\ front \in {-1} \cup Slots /\ rear \in {-1} \cup Slots /\ (front = -1 <=> rear = -1)
             /\ Storing \in BOOLEAN /\ rsi_skb_queue \in [Slots -> SlotValues]
BY DEF Whole, IInv, IndexInv, CharTypeOK, Storing, SlotValues

LEMMA WholeRingAfter ==
    Whole' => /\ front' \in {-1} \cup Slots /\ rear' \in {-1} \cup Slots /\ (front' = -1 <=> rear' = -1)
              /\ Storing' \in BOOLEAN /\ rsi_skb_queue' \in [Slots -> SlotValues]
BY DEF Whole, IInv, IndexInv, CharTypeOK, Storing, SlotValues

\* The lemmas about Content for a whole ring, before a step and after.
LEMMA ContentBefore ==
    ASSUME RingAssumption, Whole
    PROVE  /\ Content \in Seq(SlotValues) /\ Len(Content) = HeldOf(front, rear, Storing)
           /\ \A i \in 1..HeldOf(front, rear, Storing) :
                 SlotOf(front, i) \in Slots /\ Content[i] = rsi_skb_queue[SlotOf(front, i)]
<1> DEFINE c == ContentOf(front, rear, Storing, rsi_skb_queue)
           n == HeldOf(front, rear, Storing)
<1>1. /\ c \in Seq(SlotValues) /\ Len(c) = n
      /\ \A i \in 1..n : SlotOf(front, i) \in Slots /\ c[i] = rsi_skb_queue[SlotOf(front, i)]
  BY ContentIs, WholeRing, ZenonT(60)
<1>2. Content = c
  BY ContentNow
<1> HIDE DEF c, n
<1> QED BY <1>1, <1>2 DEF n

LEMMA ContentAfter ==
    ASSUME RingAssumption, Whole'
    PROVE  /\ Content' \in Seq(SlotValues) /\ Len(Content') = HeldOf(front', rear', Storing')
           /\ \A i \in 1..HeldOf(front', rear', Storing') :
                 SlotOf(front', i) \in Slots /\ Content'[i] = rsi_skb_queue'[SlotOf(front', i)]
<1> DEFINE c == ContentOf(front', rear', Storing', rsi_skb_queue')
           n == HeldOf(front', rear', Storing')
<1>1. /\ c \in Seq(SlotValues) /\ Len(c) = n
      /\ \A i \in 1..n : SlotOf(front', i) \in Slots /\ c[i] = rsi_skb_queue'[SlotOf(front', i)]
  BY ContentIs, WholeRingAfter, ZenonT(60)
<1>2. Content' = c
  BY ContentNow
<1> HIDE DEF c, n
<1> QED BY <1>1, <1>2 DEF n

\* A frame that came first, an index that moves to a free slot, and all that leaves the ring
\* alone, change nothing a reader could see.
LEMMA IndexStutters ==
    ASSUME RingAssumption, Whole, Whole', EnqueueIndexes
    PROVE  Content' = Content
<1> DEFINE n == HeldOf(front, rear, Storing)
           m == HeldOf(front', rear', Storing')
<1>1. Storing = FALSE /\ Storing' = TRUE /\ rsi_skb_queue' = rsi_skb_queue
  BY DEF EnqueueIndexes, Whole, IInv, CharTypeOK, Storing
<1>2. m = n /\ n \in Nat /\ (n # 0 => front' = front)
  <2>1. CASE adding.at = "first"
    <3>1. front = -1 /\ front' = 0 /\ rear' = 0
      BY <2>1 DEF EnqueueIndexes, Whole, IInv, IndexInv
    <3>2. n = 0
      BY <3>1 DEF HeldOf
    <3>3. m = Distance(rear', front') + 0
      <4>1. front' # -1
        BY <3>1
      <4> QED BY <1>1, <4>1, HeldIs, WholeRingAfter
    <3>4. Distance(rear', front') = 0
      BY <3>1 DEF Distance
    <3> QED BY <3>2, <3>3, <3>4
  <2>2. CASE adding.at = "next"
    <3>1. front # -1 /\ front' = front /\ rear' = NextSlot(rear) /\ front # NextSlot(rear)
      BY <2>2 DEF EnqueueIndexes, Breaks, Empty, Whole, IInv, IndexInv
    <3>2. n = Distance(rear, front) + 1 /\ front \in Slots /\ rear \in Slots
      BY <1>1, <3>1, HeldIs, WholeRing
    <3>3. m = Distance(rear', front') + 0
      BY <1>1, <3>1, HeldIs, WholeRingAfter
    <3>4. Distance(rear', front') = Distance(rear, front) + 1
      BY <3>1, <3>2, NextOf DEF Distance, Slots, RingAssumption
    <3>5. Distance(rear, front) \in Nat
      BY <3>2, DistanceIs DEF RingAssumption
    <3> HIDE DEF n, m
    <3> QED BY <3>1, <3>2, <3>3, <3>4, <3>5
  <2> QED BY <2>1, <2>2 DEF EnqueueIndexes
<1>3. Content \in Seq(SlotValues) /\ Len(Content) = n /\ \A i \in 1..n : Content[i] = rsi_skb_queue[SlotOf(front, i)]
  BY ContentBefore
<1>4. Content' \in Seq(SlotValues) /\ Len(Content') = m
      /\ \A i \in 1..m : Content'[i] = rsi_skb_queue'[SlotOf(front', i)]
  BY ContentAfter
<1> HIDE DEF n, m
<1>5. \A i \in 1..Len(Content) : Content[i] = Content'[i]
  BY <1>1, <1>2, <1>3, <1>4
<1> QED BY <1>2, <1>3, <1>4, <1>5, SeqEqual

\* A frame that is stored joins the end of the queue, which has room, and is new to it.
LEMMA StorePuts ==
    ASSUME RingAssumption, Whole, Whole', EnqueueStores
    PROVE  Fifo!Put
<1> DEFINE n == HeldOf(front, rear, Storing)
           m == HeldOf(front', rear', Storing')
           frame == adding.frame
<1>1. /\ Storing = TRUE /\ Storing' = FALSE
      /\ front # -1 /\ front' = front /\ rear' = rear /\ last' = last /\ torn' = torn
  <2>1. adding.at = "store" /\ adding'.at = "idle"
    BY DEF EnqueueStores
  <2>2. front # -1 /\ front' = front /\ rear' = rear /\ last' = last /\ torn' = torn
    BY <2>1 DEF EnqueueStores, readVars, Whole, IInv, IndexInv
  <2> QED BY <2>1, <2>2 DEF Storing
<1>2. /\ front \in Slots /\ rear \in Slots
      /\ n = Distance(rear, front) /\ n \in 0..QUEUE_SIZE - 1
  <2>1. /\ front \in Slots /\ rear \in Slots /\ Distance(rear, front) \in 0..QUEUE_SIZE - 1
        /\ n = Distance(rear, front) + 0
    BY <1>1, HeldIs, WholeRing
  <2> HIDE DEF n
  <2> QED BY <2>1 DEF RingAssumption
<1>3. m = n + 1
  <2>1. m = Distance(rear', front') + 1
    BY <1>1, HeldIs, WholeRingAfter
  <2> HIDE DEF n, m
  <2> QED BY <1>1, <1>2, <2>1
<1>4. rsi_skb_queue' = [rsi_skb_queue EXCEPT ![rear] = frame]
  BY <1>2 DEF EnqueueStores, StoredAt, Slots
<1>5. /\ frame \in Frames /\ frame \in SlotValues /\ frame # last
      /\ \A i \in Slots : rsi_skb_queue[i] # frame
  <2>1. /\ frame = received /\ received \in Frames /\ last < received
        /\ \A i \in Slots : rsi_skb_queue[i] < received
    BY DEF EnqueueStores, Whole, IInv, NameInv
  <2>2. frame # last
    BY <2>1 DEF Frames, Whole, IInv, CharTypeOK
  <2>3. \A i \in Slots : rsi_skb_queue[i] # frame
    BY <2>1 DEF Frames, Whole, IInv, CharTypeOK
  <2> QED BY <2>1, <2>2, <2>3 DEF SlotValues
<1>6. Content \in Seq(SlotValues) /\ Len(Content) = n
      /\ \A i \in 1..n : SlotOf(front, i) \in Slots /\ Content[i] = rsi_skb_queue[SlotOf(front, i)]
  BY ContentBefore
<1>7. Content' \in Seq(SlotValues) /\ Len(Content') = m
      /\ \A i \in 1..m : SlotOf(front, i) \in Slots /\ Content'[i] = rsi_skb_queue'[SlotOf(front, i)]
  BY <1>1, ContentAfter
<1>8. SlotOf(front, n + 1) = rear /\ \A i \in 1..n : SlotOf(front, i) # rear
  <2> HIDE DEF n
  <2> QED BY <1>2 DEF SlotOf, Distance, Slots, RingAssumption
<1> HIDE DEF n, m, frame
<1>9. Content' = Append(Content, frame)
  <2>1. Append(Content, frame) \in Seq(SlotValues) /\ Len(Append(Content, frame)) = n + 1
        /\ \A i \in 1..n : Append(Content, frame)[i] = Content[i]
        /\ Append(Content, frame)[n + 1] = frame
    BY <1>2, <1>5, <1>6, AppendProperties DEF RingAssumption
  <2>2. \A i \in 1..n : Content'[i] = Content[i]
    BY <1>2, <1>3, <1>4, <1>6, <1>7, <1>8, WholeRing DEF RingAssumption
  <2>3. Content'[n + 1] = frame
    BY <1>2, <1>3, <1>4, <1>7, <1>8, WholeRing DEF RingAssumption
  <2>4. \A i \in 1..Len(Content') : Content'[i] = Append(Content, frame)[i]
    BY <1>2, <1>3, <1>7, <2>1, <2>2, <2>3 DEF RingAssumption
  <2> QED BY <1>3, <1>7, <2>1, <2>4, SeqEqual
<1>10. Len(Content) < QUEUE_SIZE /\ DOMAIN Content = 1..n
  BY <1>2, <1>6 DEF RingAssumption
<1>11. frame \in Frames \ {Content[i] : i \in DOMAIN Content}
  BY <1>5, <1>6, <1>10
<1> QED BY <1>1, <1>5, <1>9, <1>10, <1>11 DEF Fifo!Put

\* A read takes the frame at the front, and the others move up.
LEMMA DequeueTakes ==
    ASSUME RingAssumption, Whole, Whole', Dequeue
    PROVE  Fifo!Take
<1> DEFINE n == HeldOf(front, rear, Storing)
           m == HeldOf(front', rear', Storing')
<1>1. /\ front # -1 /\ last' = rsi_skb_queue[front] /\ torn' = torn
      /\ Storing' = Storing /\ rsi_skb_queue' = rsi_skb_queue
      /\ (front = rear => ~Storing)
  BY DEF Dequeue, Empty, Unstored, Breaks, Whole, Storing
<1>2. /\ front \in Slots /\ rear \in Slots /\ Distance(rear, front) \in 0..QUEUE_SIZE - 1
      /\ n = Distance(rear, front) + IF Storing THEN 0 ELSE 1
  BY <1>1, HeldIs, WholeRing
<1>3. /\ n \in Nat \ {0} /\ n <= QUEUE_SIZE /\ m = n - 1
      /\ \A i \in 1..m : SlotOf(front', i) = SlotOf(front, i + 1)
  <2>1. CASE front = rear
    <3>1. front' = -1
      BY <2>1 DEF Dequeue, LastLeaves
    <3>2. m = 0
      BY <3>1 DEF HeldOf
    <3>3. n = 1
      <4>1. Distance(rear, front) = 0
        BY <1>2, <2>1 DEF Distance, Slots
      <4> HIDE DEF n
      <4> QED BY <1>1, <1>2, <2>1, <4>1
    <3> HIDE DEF n, m
    <3> QED BY <3>2, <3>3 DEF RingAssumption
  <2>2. CASE front # rear
    <3>1. front' = NextSlot(front) /\ rear' = rear /\ front' # -1 /\ front' \in Slots
      BY <1>2, <2>2, NextOf DEF Dequeue, Slots
    <3>2. m = Distance(rear', front') + IF Storing' THEN 0 ELSE 1
      BY <3>1, HeldIs, WholeRingAfter
    <3>3. Distance(rear', front') = Distance(rear, front) - 1 /\ Distance(rear, front) \in Nat \ {0}
      BY <1>2, <2>2, <3>1, NextOf DEF Distance, Slots, RingAssumption
    <3>4. \A i \in 1..QUEUE_SIZE - 1 : SlotOf(front', i) = SlotOf(front, i + 1)
      <4>1. front' = IF front + 1 = QUEUE_SIZE THEN 0 ELSE front + 1
        BY <1>2, <3>1, NextOf
      <4> QED BY <1>2, <4>1 DEF SlotOf, Slots, RingAssumption
    <3> HIDE DEF n, m
    <3>5. n \in Nat \ {0} /\ n <= QUEUE_SIZE /\ m = n - 1
      BY <1>1, <1>2, <3>2, <3>3 DEF RingAssumption
    <3> QED BY <3>4, <3>5 DEF RingAssumption
  <2> QED BY <2>1, <2>2
<1>4. Content \in Seq(SlotValues) /\ Len(Content) = n /\ \A i \in 1..n : Content[i] = rsi_skb_queue[SlotOf(front, i)]
  BY ContentBefore
<1>5. Content' \in Seq(SlotValues) /\ Len(Content') = m
      /\ \A i \in 1..m : Content'[i] = rsi_skb_queue'[SlotOf(front', i)]
  BY ContentAfter
<1> HIDE DEF n, m
<1>6. SlotOf(front, 1) = front
  BY <1>2 DEF SlotOf, Slots, RingAssumption
<1>7. Content # <<>> /\ Head(Content) = Content[1] /\ Content[1] = rsi_skb_queue[front]
  BY <1>3, <1>4, <1>6
<1>8. Content' = Tail(Content)
  <2>1. /\ Tail(Content) \in Seq(SlotValues) /\ Len(Tail(Content)) = n - 1
        /\ \A i \in 1..n - 1 : Tail(Content)[i] = Content[i + 1]
    BY <1>3, <1>4, <1>7, HeadTailProperties
  <2>2. \A i \in 1..m : i + 1 \in 1..n
    BY <1>3
  <2>3. \A i \in 1..Len(Content') : Content'[i] = Tail(Content)[i]
    BY <1>1, <1>3, <1>4, <1>5, <2>1, <2>2
  <2> QED BY <1>3, <1>5, <2>1, <2>3, SeqEqual
<1> QED BY <1>1, <1>7, <1>8 DEF Fifo!Take

-----------------------------------------------------------------------------
LEMMA EmptyAtFirst == RingAssumption /\ CharInit => Fifo!Init
<1> SUFFICES ASSUME RingAssumption, CharInit PROVE Fifo!Init
  OBVIOUS
<1>1. Whole
  BY CharInitial DEF Whole, CharInit
<1>2. HeldOf(front, rear, Storing) = 0
  BY DEF CharInit, HeldOf
<1>3. Content = <<>>
  <2>1. Content \in Seq(SlotValues) /\ Len(Content) = 0
    BY <1>1, <1>2, ContentBefore
  <2> QED BY <2>1, EmptySeq
<1>4. last \notin Frames
  BY DEF CharInit, Frames
<1>5. (torn # "no") = FALSE
  BY DEF CharInit
<1> QED BY <1>3, <1>4, <1>5 DEF Fifo!Init

\* Every step of the ring is a step of the queue, or none that it sees.
LEMMA StepsAreFifoSteps ==
    RingAssumption /\ IInv /\ [CharNext]_charVars
        => [~(torn # "no") => Fifo!Next]_<<Content, last, torn # "no">>
<1> SUFFICES ASSUME RingAssumption, IInv, [CharNext]_charVars, torn = "no"
             PROVE  Fifo!Next \/ UNCHANGED <<Content, last, torn # "no">>
  OBVIOUS
<1>1. IInv'
  BY CharStep
<1>2. CASE torn' # "no"
  <2>1. (torn' # "no") = TRUE
    BY <1>2
  <2> QED BY <2>1 DEF Fifo!Next, Fifo!Break
<1>3. CASE torn' = "no"
  <2> USE <1>3
  <2>1. Whole /\ Whole'
    BY <1>1 DEF Whole
  <2>2. ASSUME UNCHANGED <<front, rear, rsi_skb_queue>>, Storing' = Storing
        PROVE  Content' = Content
    <3>1. /\ Content = ContentOf(front, rear, Storing, rsi_skb_queue)
          /\ Content' = ContentOf(front', rear', Storing', rsi_skb_queue')
      BY ContentNow
    <3> QED BY <2>2, <3>1
  <2>3. CASE Beside \/ UNCHANGED charVars
    <3>1. UNCHANGED <<front, rear, rsi_skb_queue, last>> /\ adding' = adding
      BY <2>3, BesideKeeps DEF ringVars, charVars, readVars
    <3> QED BY <2>2, <3>1 DEF Storing
  <2>4. CASE SendToStack \/ EnqueueTests
    <3>1. UNCHANGED <<front, rear, rsi_skb_queue, last>>
      BY <2>4 DEF SendToStack, EnqueueTests, ringVars, readVars
    <3>2. adding.at # "store" /\ adding'.at # "store"
      BY <2>4 DEF SendToStack, EnqueueTests, IInv, CharTypeOK
    <3> QED BY <2>2, <3>1, <3>2 DEF Storing
  <2>5. CASE EnqueueIndexes
    <3>1. last' = last
      BY <2>5 DEF EnqueueIndexes, readVars
    <3> QED BY <2>1, <2>5, <3>1, IndexStutters
  <2>6. CASE EnqueueStores
    BY <2>1, <2>6, StorePuts DEF Fifo!Next
  <2>7. CASE Dequeue
    BY <2>1, <2>7, DequeueTakes DEF Fifo!Next
  <2>8. CASE DequeuePart
    BY <2>8 DEF DequeuePart, Breaks
  <2> QED BY <2>3, <2>4, <2>5, <2>6, <2>7, <2>8 DEF CharNext, Beside
<1> QED BY <1>2, <1>3

\* The ring of the Bluetooth character device (rsi_91x_bluedroid.c) is a bounded queue
\* until the reader empties it in the middle of an enqueue, takes a slot before it is
\* stored, or reads less than a frame: for every size of the ring.
THEOREM RingImplementsFifo == CharSpec => RingIsFifo
<1>1. CharInit => IInv
  BY CharInitial, RingAssumption
<1>2. IInv /\ [CharNext]_charVars => IInv'
  BY CharStep, RingAssumption
<1>3. CharInit => Fifo!Init
  BY EmptyAtFirst, RingAssumption
<1>4. IInv /\ [CharNext]_charVars => [~(torn # "no") => Fifo!Next]_<<Content, last, torn # "no">>
  BY StepsAreFifoSteps, RingAssumption
<1> QED BY <1>1, <1>2, <1>3, <1>4, PTL DEF CharSpec, RingIsFifo, Fifo!Spec

\* Every variable of the character device keeps its type.
THEOREM CharTypes == CharSpec => []CharTypeOK
<1>1. CharInit => IInv
  BY CharInitial, RingAssumption
<1>2. IInv /\ [CharNext]_charVars => IInv'
  BY CharStep, RingAssumption
<1>3. IInv => CharTypeOK
  BY DEF IInv
<1> QED BY <1>1, <1>2, <1>3, PTL DEF CharSpec

-----------------------------------------------------------------------------
(* The HCI device and the coexistence scheduler.                           *)

\* What the host may be doing, and that only a hibernation or a disconnect detaches.
HostInv ==
    /\ host.does \in {"up", "thawed"} => host.at = "idle"
    /\ host.does = "freeze" => host.at \in {"detach", "unregistered", "free", "asleep"}
    /\ host.does \in {"freeze", "thawed"} => sleeps > 0
    /\ host.does = "disconnect" => host.at \notin {"idle", "asleep"}
    /\ host.does = "disconnect" /\ ~bt_usb => bt_rx = "ended"
    /\ hci_adapter = "freed" => sleeps > 0 \/ host.does = "disconnect"

\* An attachment is under way only while the driver is not ready.
AttachInv == bt_rx \in {"reg", "attach"} => bt_fsm_state = "NOT_READY"

\* A frame that arrives after the queue was seen empty leaves the event set.
ClearInv == coex.at = "clear" /\ ~coex.event => bt_q = <<>> \/ "refused" \in btUpset

\* The answer is already coming when the reader has not reset the event yet.
AskedInv ==
    app \in {"asked", "waiting"} =>
        \/ per_event
        \/ \E i \in DOMAIN bt_q : bt_q[i] = "per"
        \/ owed \/ bt_rx = "use_per"
        \/ "unanswered" \in btUpset
        \/ sleeps > 0 \/ host.does = "disconnect"

BtIInv ==
    /\ BtTypeOK
    /\ HostInv /\ AttachInv /\ ClearInv /\ AskedInv
    /\ ReadyIsLive /\ FramesMeetAdapter /\ DetachedOnce /\ CoexNeverSleepsOver

LEMMA CoexSendTyped ==
    ASSUME BtTypeOK, NEW p \in BtPackets, CoexSendPkt(p)
    PROVE  bt_q' \in Seq(BtPackets) /\ Len(bt_q') <= MAX_BT_Q
<1>1. bt_q' = Append(bt_q, p) /\ Len(bt_q) < MAX_BT_Q /\ bt_q \in Seq(BtPackets)
  BY DEF CoexSendPkt, BtTypeOK
<1>2. bt_q' \in Seq(BtPackets) /\ Len(bt_q') = Len(bt_q) + 1 /\ Len(bt_q) \in Nat
  BY <1>1, AppendProperties
<1>3. QED
  BY <1>1, <1>2, BtAssumption

LEMMA BtQueueTyped ==
    ASSUME BtIInv, BtNext
    PROVE  bt_q' \in Seq(BtPackets) /\ Len(bt_q') <= MAX_BT_Q
<1> USE BtAssumption DEF BtIInv, BtTypeOK, hciVars, coexVars, appVars, hostVars
<1>1. CASE CoexWoken
  BY <1>1 DEF CoexWoken
<1>2. CASE CoexAsk
  BY <1>2 DEF CoexAsk, CoexAt, Finished, Goes
<1>3. CASE CoexDequeue
  BY <1>3 DEF CoexDequeue, Goes
<1>4. CASE CoexDrained
  BY <1>4 DEF CoexDrained, CoexAt
<1>5. CASE CoexClear
  BY <1>5 DEF CoexClear, Finished, EventKept
<1>6. CASE BtCardReady
  BY <1>6 DEF BtCardReady, RxTakes
<1>7. CASE SendsRegParams
  <2>1. CASE CoexSendPkt("frame")
    BY <2>1, CoexSendTyped DEF BtPackets
  <2>2. CASE UNCHANGED bt_q
    BY <2>2
  <2>3. QED
    BY <1>7, <2>1, <2>2 DEF SendsRegParams
<1>8. CASE HciAttach
  BY <1>8 DEF HciAttach, AttachFails
<1>9. CASE BtPacketArrives
  BY <1>9 DEF BtPacketArrives, RxTakes
<1>10. CASE BtPacketUsed
  BY <1>10 DEF BtPacketUsed
<1>11. CASE BtPerAnswered
  BY <1>11 DEF BtPerAnswered
<1>12. CASE HciUnregister
  BY <1>12 DEF HciUnregister, HostAt, AfterDetach
<1>13. CASE HciFree
  BY <1>13 DEF HciFree, HostAt
<1>14. CASE HciDetached
  BY <1>14 DEF HciDetached, HostAt, HciNotReady, AfterDetach
<1>15. CASE KillCoex
  BY <1>15 DEF KillCoex, WakesCoex
<1>16. CASE CoexDeinit
  BY <1>16 DEF CoexDeinit, CoexAt, HostAt
<1>17. CASE NlSkExit
  BY <1>17 DEF NlSkExit, HostAt
<1>18. CASE HciOpen
  BY <1>18 DEF HciOpen
<1>19. CASE HciClose
  BY <1>19 DEF HciClose
<1>20. CASE HciSendPkt
  BY <1>20, CoexSendTyped DEF HciSendPkt, BtPackets
<1>21. CASE AppRequest
  <2>1. CASE bt_fsm_state = "READY"
    BY <1>21, <2>1, CoexSendTyped DEF AppRequest
  <2>2. CASE bt_fsm_state # "READY"
    BY <1>21, <2>2 DEF AppRequest
  <2>3. QED
    BY <2>1, <2>2
<1>22. CASE AppResets
  BY <1>22 DEF AppResets
<1>23. CASE AppWoken
  BY <1>23 DEF AppWoken
<1>24. CASE AppInterrupted
  BY <1>24 DEF AppInterrupted
<1>25. CASE Freeze
  BY <1>25 DEF Freeze
<1>26. CASE BtDisconnect
  BY <1>26 DEF BtDisconnect, RxJoined
<1>27. CASE Thaw
  BY <1>27 DEF Thaw
<1>28. CASE BtRestore
  BY <1>28 DEF BtRestore
<1>29. QED
  BY <1>1, <1>2, <1>3, <1>4, <1>5, <1>6, <1>7, <1>8, <1>9, <1>10, <1>11, <1>12, <1>13, <1>14,
     <1>15, <1>16, <1>17, <1>18, <1>19, <1>20, <1>21, <1>22, <1>23, <1>24, <1>25, <1>26, <1>27,
     <1>28 DEF BtNext, Coex, BtRx, Detach, Deinit

LEMMA BtThreadsTyped ==
    ASSUME BtIInv, BtNext
    PROVE  /\ coex' \in [at : {"wait", "ask", "drain", "clear", "ended", "freed"},
                       event : BOOLEAN, done : BOOLEAN]
           /\ host' \in [does : {"up", "freeze", "thawed", "disconnect"},
                       at : {"idle", "detach", "unregistered", "free", "asleep", "kill_coex", "nl_exit",
                             "gone"}]
<1> USE BtAssumption DEF BtIInv, BtTypeOK, hciVars, coexVars, appVars, hostVars
<1>1. CASE CoexWoken
  BY <1>1 DEF CoexWoken
<1>2. CASE CoexAsk
  BY <1>2 DEF CoexAsk, CoexAt, Finished, Goes
<1>3. CASE CoexDequeue
  BY <1>3 DEF CoexDequeue, Goes
<1>4. CASE CoexDrained
  BY <1>4 DEF CoexDrained, CoexAt
<1>5. CASE CoexClear
  BY <1>5 DEF CoexClear, Finished, EventKept
<1>6. CASE BtCardReady
  BY <1>6 DEF BtCardReady, RxTakes
<1>7. CASE SendsRegParams
  BY <1>7 DEF SendsRegParams, CoexSendPkt
<1>8. CASE HciAttach
  BY <1>8 DEF HciAttach, AttachFails
<1>9. CASE BtPacketArrives
  BY <1>9 DEF BtPacketArrives, RxTakes
<1>10. CASE BtPacketUsed
  BY <1>10 DEF BtPacketUsed
<1>11. CASE BtPerAnswered
  BY <1>11 DEF BtPerAnswered
<1>12. CASE HciUnregister
  BY <1>12 DEF HciUnregister, HostAt, AfterDetach
<1>13. CASE HciFree
  BY <1>13 DEF HciFree, HostAt
<1>14. CASE HciDetached
  BY <1>14 DEF HciDetached, HostAt, HciNotReady, AfterDetach
<1>15. CASE KillCoex
  BY <1>15 DEF KillCoex, WakesCoex
<1>16. CASE CoexDeinit
  BY <1>16 DEF CoexDeinit, CoexAt, HostAt
<1>17. CASE NlSkExit
  BY <1>17 DEF NlSkExit, HostAt
<1>18. CASE HciOpen
  BY <1>18 DEF HciOpen
<1>19. CASE HciClose
  BY <1>19 DEF HciClose
<1>20. CASE HciSendPkt
  BY <1>20 DEF HciSendPkt, CoexSendPkt
<1>21. CASE AppRequest
  BY <1>21 DEF AppRequest, CoexSendPkt, BtPackets
<1>22. CASE AppResets
  BY <1>22 DEF AppResets
<1>23. CASE AppWoken
  BY <1>23 DEF AppWoken
<1>24. CASE AppInterrupted
  BY <1>24 DEF AppInterrupted
<1>25. CASE Freeze
  BY <1>25 DEF Freeze
<1>26. CASE BtDisconnect
  BY <1>26 DEF BtDisconnect, RxJoined
<1>27. CASE Thaw
  BY <1>27 DEF Thaw
<1>28. CASE BtRestore
  BY <1>28 DEF BtRestore
<1>29. QED
  BY <1>1, <1>2, <1>3, <1>4, <1>5, <1>6, <1>7, <1>8, <1>9, <1>10, <1>11, <1>12, <1>13, <1>14,
     <1>15, <1>16, <1>17, <1>18, <1>19, <1>20, <1>21, <1>22, <1>23, <1>24, <1>25, <1>26, <1>27,
     <1>28 DEF BtNext, Coex, BtRx, Detach, Deinit

LEMMA BtNamesTyped ==
    ASSUME BtIInv, BtNext
    PROVE  /\ bt_usb' \in BOOLEAN
           /\ bt_fsm_state' \in {"NOT_READY", "READY"}
           /\ hci_adapter' \in {"none", "live", "freed", "failed"}
           /\ hdev' \in {"none", "down", "running"}
           /\ bt_rx' \in {"idle", "reg", "attach", "use", "use_per", "ended"}
           /\ app' \in {"idle", "asked", "waiting"}
<1> USE BtAssumption DEF BtIInv, BtTypeOK, hciVars, coexVars, appVars, hostVars
<1>1. CASE CoexWoken
  BY <1>1 DEF CoexWoken
<1>2. CASE CoexAsk
  BY <1>2 DEF CoexAsk, CoexAt, Finished, Goes
<1>3. CASE CoexDequeue
  BY <1>3 DEF CoexDequeue, Goes
<1>4. CASE CoexDrained
  BY <1>4 DEF CoexDrained, CoexAt
<1>5. CASE CoexClear
  BY <1>5 DEF CoexClear, Finished, EventKept
<1>6. CASE BtCardReady
  BY <1>6 DEF BtCardReady, RxTakes
<1>7. CASE SendsRegParams
  BY <1>7 DEF SendsRegParams, CoexSendPkt
<1>8. CASE HciAttach
  BY <1>8 DEF HciAttach, AttachFails
<1>9. CASE BtPacketArrives
  BY <1>9 DEF BtPacketArrives, RxTakes
<1>10. CASE BtPacketUsed
  BY <1>10 DEF BtPacketUsed
<1>11. CASE BtPerAnswered
  BY <1>11 DEF BtPerAnswered
<1>12. CASE HciUnregister
  BY <1>12 DEF HciUnregister, HostAt, AfterDetach
<1>13. CASE HciFree
  BY <1>13 DEF HciFree, HostAt
<1>14. CASE HciDetached
  BY <1>14 DEF HciDetached, HostAt, HciNotReady, AfterDetach
<1>15. CASE KillCoex
  BY <1>15 DEF KillCoex, WakesCoex
<1>16. CASE CoexDeinit
  BY <1>16 DEF CoexDeinit, CoexAt, HostAt
<1>17. CASE NlSkExit
  BY <1>17 DEF NlSkExit, HostAt
<1>18. CASE HciOpen
  BY <1>18 DEF HciOpen
<1>19. CASE HciClose
  BY <1>19 DEF HciClose
<1>20. CASE HciSendPkt
  BY <1>20 DEF HciSendPkt, CoexSendPkt
<1>21. CASE AppRequest
  BY <1>21 DEF AppRequest, CoexSendPkt, BtPackets
<1>22. CASE AppResets
  BY <1>22 DEF AppResets
<1>23. CASE AppWoken
  BY <1>23 DEF AppWoken
<1>24. CASE AppInterrupted
  BY <1>24 DEF AppInterrupted
<1>25. CASE Freeze
  BY <1>25 DEF Freeze
<1>26. CASE BtDisconnect
  BY <1>26 DEF BtDisconnect, RxJoined
<1>27. CASE Thaw
  BY <1>27 DEF Thaw
<1>28. CASE BtRestore
  BY <1>28 DEF BtRestore
<1>29. QED
  BY <1>1, <1>2, <1>3, <1>4, <1>5, <1>6, <1>7, <1>8, <1>9, <1>10, <1>11, <1>12, <1>13, <1>14,
     <1>15, <1>16, <1>17, <1>18, <1>19, <1>20, <1>21, <1>22, <1>23, <1>24, <1>25, <1>26, <1>27,
     <1>28 DEF BtNext, Coex, BtRx, Detach, Deinit

LEMMA BtFlagsTyped ==
    ASSUME BtIInv, BtNext
    PROVE  /\ bt_suspend' \in BOOLEAN /\ per_event' \in BOOLEAN /\ owed' \in BOOLEAN
           /\ sleeps' \in 0..MAX_SLEEPS
           /\ btUpset' \subseteq {"refused", "unanswered"}
<1> USE BtAssumption DEF BtIInv, BtTypeOK, hciVars, coexVars, appVars, hostVars
<1>1. CASE CoexWoken
  BY <1>1 DEF CoexWoken
<1>2. CASE CoexAsk
  BY <1>2 DEF CoexAsk, CoexAt, Finished, Goes
<1>3. CASE CoexDequeue
  BY <1>3 DEF CoexDequeue, Goes
<1>4. CASE CoexDrained
  BY <1>4 DEF CoexDrained, CoexAt
<1>5. CASE CoexClear
  BY <1>5 DEF CoexClear, Finished, EventKept
<1>6. CASE BtCardReady
  BY <1>6 DEF BtCardReady, RxTakes
<1>7. CASE SendsRegParams
  BY <1>7 DEF SendsRegParams, CoexSendPkt
<1>8. CASE HciAttach
  BY <1>8 DEF HciAttach, AttachFails
<1>9. CASE BtPacketArrives
  BY <1>9 DEF BtPacketArrives, RxTakes
<1>10. CASE BtPacketUsed
  BY <1>10 DEF BtPacketUsed
<1>11. CASE BtPerAnswered
  BY <1>11 DEF BtPerAnswered
<1>12. CASE HciUnregister
  BY <1>12 DEF HciUnregister, HostAt, AfterDetach
<1>13. CASE HciFree
  BY <1>13 DEF HciFree, HostAt
<1>14. CASE HciDetached
  BY <1>14 DEF HciDetached, HostAt, HciNotReady, AfterDetach
<1>15. CASE KillCoex
  BY <1>15 DEF KillCoex, WakesCoex
<1>16. CASE CoexDeinit
  BY <1>16 DEF CoexDeinit, CoexAt, HostAt
<1>17. CASE NlSkExit
  BY <1>17 DEF NlSkExit, HostAt
<1>18. CASE HciOpen
  BY <1>18 DEF HciOpen
<1>19. CASE HciClose
  BY <1>19 DEF HciClose
<1>20. CASE HciSendPkt
  BY <1>20 DEF HciSendPkt, CoexSendPkt
<1>21. CASE AppRequest
  BY <1>21 DEF AppRequest, CoexSendPkt, BtPackets
<1>22. CASE AppResets
  BY <1>22 DEF AppResets
<1>23. CASE AppWoken
  BY <1>23 DEF AppWoken
<1>24. CASE AppInterrupted
  BY <1>24 DEF AppInterrupted
<1>25. CASE Freeze
  BY <1>25 DEF Freeze
<1>26. CASE BtDisconnect
  BY <1>26 DEF BtDisconnect, RxJoined
<1>27. CASE Thaw
  BY <1>27 DEF Thaw
<1>28. CASE BtRestore
  BY <1>28 DEF BtRestore
<1>29. QED
  BY <1>1, <1>2, <1>3, <1>4, <1>5, <1>6, <1>7, <1>8, <1>9, <1>10, <1>11, <1>12, <1>13, <1>14,
     <1>15, <1>16, <1>17, <1>18, <1>19, <1>20, <1>21, <1>22, <1>23, <1>24, <1>25, <1>26, <1>27,
     <1>28 DEF BtNext, Coex, BtRx, Detach, Deinit

LEMMA BtHost ==
    ASSUME BtIInv, BtNext
    PROVE  HostInv'
<1> USE BtAssumption DEF BtIInv, BtTypeOK, hciVars, coexVars, appVars, hostVars, HostInv
<1>1. CASE CoexWoken
  BY <1>1 DEF CoexWoken
<1>2. CASE CoexAsk
  BY <1>2 DEF CoexAsk, CoexAt, Finished, Goes
<1>3. CASE CoexDequeue
  BY <1>3 DEF CoexDequeue, Goes
<1>4. CASE CoexDrained
  BY <1>4 DEF CoexDrained, CoexAt
<1>5. CASE CoexClear
  BY <1>5 DEF CoexClear, Finished, EventKept
<1>6. CASE BtCardReady
  BY <1>6 DEF BtCardReady, RxTakes
<1>7. CASE SendsRegParams
  BY <1>7 DEF SendsRegParams, CoexSendPkt
<1>8. CASE HciAttach
  BY <1>8 DEF HciAttach, AttachFails
<1>9. CASE BtPacketArrives
  BY <1>9 DEF BtPacketArrives, RxTakes
<1>10. CASE BtPacketUsed
  BY <1>10 DEF BtPacketUsed
<1>11. CASE BtPerAnswered
  BY <1>11 DEF BtPerAnswered
<1>12. CASE HciUnregister
  BY <1>12 DEF HciUnregister, HostAt, AfterDetach
<1>13. CASE HciFree
  BY <1>13 DEF HciFree, HostAt
<1>14. CASE HciDetached
  BY <1>14 DEF HciDetached, HostAt, HciNotReady, AfterDetach
<1>15. CASE KillCoex
  BY <1>15 DEF KillCoex, WakesCoex
<1>16. CASE CoexDeinit
  BY <1>16 DEF CoexDeinit, CoexAt, HostAt
<1>17. CASE NlSkExit
  BY <1>17 DEF NlSkExit, HostAt
<1>18. CASE HciOpen
  BY <1>18 DEF HciOpen
<1>19. CASE HciClose
  BY <1>19 DEF HciClose
<1>20. CASE HciSendPkt
  BY <1>20 DEF HciSendPkt, CoexSendPkt
<1>21. CASE AppRequest
  BY <1>21 DEF AppRequest, CoexSendPkt, BtPackets
<1>22. CASE AppResets
  BY <1>22 DEF AppResets
<1>23. CASE AppWoken
  BY <1>23 DEF AppWoken
<1>24. CASE AppInterrupted
  BY <1>24 DEF AppInterrupted
<1>25. CASE Freeze
  BY <1>25 DEF Freeze
<1>26. CASE BtDisconnect
  BY <1>26 DEF BtDisconnect, RxJoined
<1>27. CASE Thaw
  BY <1>27 DEF Thaw
<1>28. CASE BtRestore
  BY <1>28 DEF BtRestore
<1>29. QED
  BY <1>1, <1>2, <1>3, <1>4, <1>5, <1>6, <1>7, <1>8, <1>9, <1>10, <1>11, <1>12, <1>13, <1>14,
     <1>15, <1>16, <1>17, <1>18, <1>19, <1>20, <1>21, <1>22, <1>23, <1>24, <1>25, <1>26, <1>27,
     <1>28 DEF BtNext, Coex, BtRx, Detach, Deinit

LEMMA BtAttach ==
    ASSUME BtIInv, BtNext
    PROVE  AttachInv'
<1> USE BtAssumption DEF BtIInv, BtTypeOK, hciVars, coexVars, appVars, hostVars, AttachInv
<1>1. CASE CoexWoken
  BY <1>1 DEF CoexWoken
<1>2. CASE CoexAsk
  BY <1>2 DEF CoexAsk, CoexAt, Finished, Goes
<1>3. CASE CoexDequeue
  BY <1>3 DEF CoexDequeue, Goes
<1>4. CASE CoexDrained
  BY <1>4 DEF CoexDrained, CoexAt
<1>5. CASE CoexClear
  BY <1>5 DEF CoexClear, Finished, EventKept
<1>6. CASE BtCardReady
  BY <1>6 DEF BtCardReady, RxTakes
<1>7. CASE SendsRegParams
  BY <1>7 DEF SendsRegParams, CoexSendPkt
<1>8. CASE HciAttach
  BY <1>8 DEF HciAttach, AttachFails
<1>9. CASE BtPacketArrives
  BY <1>9 DEF BtPacketArrives, RxTakes
<1>10. CASE BtPacketUsed
  BY <1>10 DEF BtPacketUsed
<1>11. CASE BtPerAnswered
  BY <1>11 DEF BtPerAnswered
<1>12. CASE HciUnregister
  BY <1>12 DEF HciUnregister, HostAt, AfterDetach
<1>13. CASE HciFree
  BY <1>13 DEF HciFree, HostAt
<1>14. CASE HciDetached
  BY <1>14 DEF HciDetached, HostAt, HciNotReady, AfterDetach
<1>15. CASE KillCoex
  BY <1>15 DEF KillCoex, WakesCoex
<1>16. CASE CoexDeinit
  BY <1>16 DEF CoexDeinit, CoexAt, HostAt
<1>17. CASE NlSkExit
  BY <1>17 DEF NlSkExit, HostAt
<1>18. CASE HciOpen
  BY <1>18 DEF HciOpen
<1>19. CASE HciClose
  BY <1>19 DEF HciClose
<1>20. CASE HciSendPkt
  BY <1>20 DEF HciSendPkt, CoexSendPkt
<1>21. CASE AppRequest
  BY <1>21 DEF AppRequest, CoexSendPkt, BtPackets
<1>22. CASE AppResets
  BY <1>22 DEF AppResets
<1>23. CASE AppWoken
  BY <1>23 DEF AppWoken
<1>24. CASE AppInterrupted
  BY <1>24 DEF AppInterrupted
<1>25. CASE Freeze
  BY <1>25 DEF Freeze
<1>26. CASE BtDisconnect
  BY <1>26 DEF BtDisconnect, RxJoined
<1>27. CASE Thaw
  BY <1>27 DEF Thaw
<1>28. CASE BtRestore
  BY <1>28 DEF BtRestore
<1>29. QED
  BY <1>1, <1>2, <1>3, <1>4, <1>5, <1>6, <1>7, <1>8, <1>9, <1>10, <1>11, <1>12, <1>13, <1>14,
     <1>15, <1>16, <1>17, <1>18, <1>19, <1>20, <1>21, <1>22, <1>23, <1>24, <1>25, <1>26, <1>27,
     <1>28 DEF BtNext, Coex, BtRx, Detach, Deinit

LEMMA BtCoex ==
    ASSUME BtIInv, BtNext
    PROVE  ClearInv' /\ CoexNeverSleepsOver'
<1> USE BtAssumption DEF BtIInv, BtTypeOK, hciVars, coexVars, appVars, hostVars, ClearInv,
CoexNeverSleepsOver
<1>1. CASE CoexWoken
  BY <1>1 DEF CoexWoken
<1>2. CASE CoexAsk
  BY <1>2 DEF CoexAsk, CoexAt, Finished, Goes
<1>3. CASE CoexDequeue
  BY <1>3 DEF CoexDequeue, Goes
<1>4. CASE CoexDrained
  BY <1>4 DEF CoexDrained, CoexAt
<1>5. CASE CoexClear
  BY <1>5 DEF CoexClear, Finished, EventKept
<1>6. CASE BtCardReady
  BY <1>6 DEF BtCardReady, RxTakes
<1>7. CASE SendsRegParams
  BY <1>7 DEF SendsRegParams, CoexSendPkt
<1>8. CASE HciAttach
  BY <1>8 DEF HciAttach, AttachFails
<1>9. CASE BtPacketArrives
  BY <1>9 DEF BtPacketArrives, RxTakes
<1>10. CASE BtPacketUsed
  BY <1>10 DEF BtPacketUsed
<1>11. CASE BtPerAnswered
  BY <1>11 DEF BtPerAnswered
<1>12. CASE HciUnregister
  BY <1>12 DEF HciUnregister, HostAt, AfterDetach
<1>13. CASE HciFree
  BY <1>13 DEF HciFree, HostAt
<1>14. CASE HciDetached
  BY <1>14 DEF HciDetached, HostAt, HciNotReady, AfterDetach
<1>15. CASE KillCoex
  BY <1>15 DEF KillCoex, WakesCoex
<1>16. CASE CoexDeinit
  BY <1>16 DEF CoexDeinit, CoexAt, HostAt
<1>17. CASE NlSkExit
  BY <1>17 DEF NlSkExit, HostAt
<1>18. CASE HciOpen
  BY <1>18 DEF HciOpen
<1>19. CASE HciClose
  BY <1>19 DEF HciClose
<1>20. CASE HciSendPkt
  BY <1>20 DEF HciSendPkt, CoexSendPkt
<1>21. CASE AppRequest
  BY <1>21 DEF AppRequest, CoexSendPkt, BtPackets
<1>22. CASE AppResets
  BY <1>22 DEF AppResets
<1>23. CASE AppWoken
  BY <1>23 DEF AppWoken
<1>24. CASE AppInterrupted
  BY <1>24 DEF AppInterrupted
<1>25. CASE Freeze
  BY <1>25 DEF Freeze
<1>26. CASE BtDisconnect
  BY <1>26 DEF BtDisconnect, RxJoined
<1>27. CASE Thaw
  BY <1>27 DEF Thaw
<1>28. CASE BtRestore
  BY <1>28 DEF BtRestore
<1>29. QED
  BY <1>1, <1>2, <1>3, <1>4, <1>5, <1>6, <1>7, <1>8, <1>9, <1>10, <1>11, <1>12, <1>13, <1>14,
     <1>15, <1>16, <1>17, <1>18, <1>19, <1>20, <1>21, <1>22, <1>23, <1>24, <1>25, <1>26, <1>27,
     <1>28 DEF BtNext, Coex, BtRx, Detach, Deinit

LEMMA BtAsked ==
    ASSUME BtIInv, BtNext
    PROVE  AskedInv'
<1> USE BtAssumption DEF BtIInv, BtTypeOK, hciVars, coexVars, appVars, hostVars, HostInv, AskedInv
<1>1. CASE CoexWoken
  BY <1>1 DEF CoexWoken
<1>2. CASE CoexAsk
  BY <1>2 DEF CoexAsk, CoexAt, Finished, Goes
<1>3. CASE CoexDequeue
  <2>1. /\ bt_q # <<>> /\ bt_q' = Tail(bt_q) /\ bt_q \in Seq(BtPackets)
        /\ UNCHANGED <<app, per_event, bt_rx, sleeps, host>>
    BY <1>3 DEF CoexDequeue
  <2>2. /\ owed => owed'
        /\ "unanswered" \in btUpset => "unanswered" \in btUpset'
        /\ Head(bt_q) = "per" => owed' \/ "unanswered" \in btUpset'
    <3>1. CASE owed' = (owed \/ Head(bt_q) = "per") /\ UNCHANGED btUpset
      <4>1. owed' <=> (owed \/ Head(bt_q) = "per")
        BY <3>1
      <4>2. QED
        BY <3>1, <4>1
    <3>2. CASE /\ IF Head(bt_q) = "per" THEN Goes("unanswered") ELSE UNCHANGED btUpset
               /\ UNCHANGED owed
      BY <3>2 DEF Goes
    <3>3. QED
      BY <1>3, <3>1, <3>2 DEF CoexDequeue
  <2>3. /\ Len(bt_q) \in Nat /\ Len(bt_q) > 0 /\ Head(bt_q) = bt_q[1]
        /\ Tail(bt_q) \in Seq(BtPackets) /\ Len(Tail(bt_q)) = Len(bt_q) - 1
        /\ \A i \in 1 .. Len(Tail(bt_q)) : Tail(bt_q)[i] = bt_q[i + 1]
    <3>1. Len(bt_q) \in Nat /\ Len(bt_q) > 0
      BY <2>1, EmptySeq
    <3>2. Head(bt_q) = bt_q[1]
      BY <2>1
    <3>3. QED
      BY <2>1, <3>1, <3>2, HeadTailProperties
  <2>4. ASSUME NEW i \in DOMAIN bt_q, bt_q[i] = "per"
        PROVE  Head(bt_q) = "per" \/ \E j \in DOMAIN bt_q' : bt_q'[j] = "per"
    <3>1. i \in 1 .. Len(bt_q)
      BY <2>1
    <3>2. CASE i = 1
      BY <2>3, <2>4, <3>2
    <3>3. CASE i # 1
      <4>1. i - 1 \in 1 .. Len(Tail(bt_q)) /\ (i - 1) + 1 = i
        BY <2>3, <3>1, <3>3
      <4>2. bt_q'[i - 1] = "per"
        BY <2>1, <2>3, <2>4, <4>1
      <4>3. i - 1 \in DOMAIN bt_q'
        BY <2>1, <2>3, <4>1
      <4>4. QED
        BY <4>2, <4>3
    <3>4. QED
      BY <3>2, <3>3
  <2>5. QED
    BY <2>1, <2>2, <2>4
<1>4. CASE CoexDrained
  BY <1>4 DEF CoexDrained, CoexAt
<1>5. CASE CoexClear
  BY <1>5 DEF CoexClear, Finished, EventKept
<1>6. CASE BtCardReady
  BY <1>6 DEF BtCardReady, RxTakes
<1>7. CASE SendsRegParams
  BY <1>7 DEF SendsRegParams, CoexSendPkt
<1>8. CASE HciAttach
  BY <1>8 DEF HciAttach, AttachFails
<1>9. CASE BtPacketArrives
  BY <1>9 DEF BtPacketArrives, RxTakes
<1>10. CASE BtPacketUsed
  BY <1>10 DEF BtPacketUsed
<1>11. CASE BtPerAnswered
  BY <1>11 DEF BtPerAnswered
<1>12. CASE HciUnregister
  BY <1>12 DEF HciUnregister, HostAt, AfterDetach
<1>13. CASE HciFree
  BY <1>13 DEF HciFree, HostAt
<1>14. CASE HciDetached
  BY <1>14 DEF HciDetached, HostAt, HciNotReady, AfterDetach
<1>15. CASE KillCoex
  BY <1>15 DEF KillCoex, WakesCoex
<1>16. CASE CoexDeinit
  BY <1>16 DEF CoexDeinit, CoexAt, HostAt
<1>17. CASE NlSkExit
  BY <1>17 DEF NlSkExit, HostAt
<1>18. CASE HciOpen
  BY <1>18 DEF HciOpen
<1>19. CASE HciClose
  BY <1>19 DEF HciClose
<1>20. CASE HciSendPkt
  BY <1>20 DEF HciSendPkt, CoexSendPkt
<1>21. CASE AppRequest
  BY <1>21 DEF AppRequest, CoexSendPkt, BtPackets
<1>22. CASE AppResets
  BY <1>22 DEF AppResets
<1>23. CASE AppWoken
  BY <1>23 DEF AppWoken
<1>24. CASE AppInterrupted
  BY <1>24 DEF AppInterrupted
<1>25. CASE Freeze
  BY <1>25 DEF Freeze
<1>26. CASE BtDisconnect
  BY <1>26 DEF BtDisconnect, RxJoined
<1>27. CASE Thaw
  BY <1>27 DEF Thaw
<1>28. CASE BtRestore
  BY <1>28 DEF BtRestore
<1>29. QED
  BY <1>1, <1>2, <1>3, <1>4, <1>5, <1>6, <1>7, <1>8, <1>9, <1>10, <1>11, <1>12, <1>13, <1>14,
     <1>15, <1>16, <1>17, <1>18, <1>19, <1>20, <1>21, <1>22, <1>23, <1>24, <1>25, <1>26, <1>27,
     <1>28 DEF BtNext, Coex, BtRx, Detach, Deinit

LEMMA BtReady ==
    ASSUME BtIInv, BtNext
    PROVE  ReadyIsLive'
<1> USE BtAssumption DEF BtIInv, BtTypeOK, hciVars, coexVars, appVars, hostVars, HostInv,
AttachInv, ReadyIsLive
<1>1. CASE CoexWoken
  BY <1>1 DEF CoexWoken
<1>2. CASE CoexAsk
  BY <1>2 DEF CoexAsk, CoexAt, Finished, Goes
<1>3. CASE CoexDequeue
  BY <1>3 DEF CoexDequeue, Goes
<1>4. CASE CoexDrained
  BY <1>4 DEF CoexDrained, CoexAt
<1>5. CASE CoexClear
  BY <1>5 DEF CoexClear, Finished, EventKept
<1>6. CASE BtCardReady
  BY <1>6 DEF BtCardReady, RxTakes
<1>7. CASE SendsRegParams
  BY <1>7 DEF SendsRegParams, CoexSendPkt
<1>8. CASE HciAttach
  BY <1>8 DEF HciAttach, AttachFails
<1>9. CASE BtPacketArrives
  BY <1>9 DEF BtPacketArrives, RxTakes
<1>10. CASE BtPacketUsed
  BY <1>10 DEF BtPacketUsed
<1>11. CASE BtPerAnswered
  BY <1>11 DEF BtPerAnswered
<1>12. CASE HciUnregister
  BY <1>12 DEF HciUnregister, HostAt, AfterDetach
<1>13. CASE HciFree
  BY <1>13 DEF HciFree, HostAt
<1>14. CASE HciDetached
  BY <1>14 DEF HciDetached, HostAt, HciNotReady, AfterDetach
<1>15. CASE KillCoex
  BY <1>15 DEF KillCoex, WakesCoex
<1>16. CASE CoexDeinit
  BY <1>16 DEF CoexDeinit, CoexAt, HostAt
<1>17. CASE NlSkExit
  BY <1>17 DEF NlSkExit, HostAt
<1>18. CASE HciOpen
  BY <1>18 DEF HciOpen
<1>19. CASE HciClose
  BY <1>19 DEF HciClose
<1>20. CASE HciSendPkt
  BY <1>20 DEF HciSendPkt, CoexSendPkt
<1>21. CASE AppRequest
  BY <1>21 DEF AppRequest, CoexSendPkt, BtPackets
<1>22. CASE AppResets
  BY <1>22 DEF AppResets
<1>23. CASE AppWoken
  BY <1>23 DEF AppWoken
<1>24. CASE AppInterrupted
  BY <1>24 DEF AppInterrupted
<1>25. CASE Freeze
  BY <1>25 DEF Freeze
<1>26. CASE BtDisconnect
  BY <1>26 DEF BtDisconnect, RxJoined
<1>27. CASE Thaw
  BY <1>27 DEF Thaw
<1>28. CASE BtRestore
  BY <1>28 DEF BtRestore
<1>29. QED
  BY <1>1, <1>2, <1>3, <1>4, <1>5, <1>6, <1>7, <1>8, <1>9, <1>10, <1>11, <1>12, <1>13, <1>14,
     <1>15, <1>16, <1>17, <1>18, <1>19, <1>20, <1>21, <1>22, <1>23, <1>24, <1>25, <1>26, <1>27,
     <1>28 DEF BtNext, Coex, BtRx, Detach, Deinit

LEMMA BtFrames ==
    ASSUME BtIInv, BtNext
    PROVE  FramesMeetAdapter' /\ DetachedOnce'
<1> USE BtAssumption DEF BtIInv, BtTypeOK, hciVars, coexVars, appVars, hostVars, HostInv,
ReadyIsLive, FramesMeetAdapter, DetachedOnce
<1>1. CASE CoexWoken
  BY <1>1 DEF CoexWoken
<1>2. CASE CoexAsk
  BY <1>2 DEF CoexAsk, CoexAt, Finished, Goes
<1>3. CASE CoexDequeue
  BY <1>3 DEF CoexDequeue, Goes
<1>4. CASE CoexDrained
  BY <1>4 DEF CoexDrained, CoexAt
<1>5. CASE CoexClear
  BY <1>5 DEF CoexClear, Finished, EventKept
<1>6. CASE BtCardReady
  BY <1>6 DEF BtCardReady, RxTakes
<1>7. CASE SendsRegParams
  BY <1>7 DEF SendsRegParams, CoexSendPkt
<1>8. CASE HciAttach
  BY <1>8 DEF HciAttach, AttachFails
<1>9. CASE BtPacketArrives
  BY <1>9 DEF BtPacketArrives, RxTakes
<1>10. CASE BtPacketUsed
  BY <1>10 DEF BtPacketUsed
<1>11. CASE BtPerAnswered
  BY <1>11 DEF BtPerAnswered
<1>12. CASE HciUnregister
  BY <1>12 DEF HciUnregister, HostAt, AfterDetach
<1>13. CASE HciFree
  BY <1>13 DEF HciFree, HostAt
<1>14. CASE HciDetached
  BY <1>14 DEF HciDetached, HostAt, HciNotReady, AfterDetach
<1>15. CASE KillCoex
  BY <1>15 DEF KillCoex, WakesCoex
<1>16. CASE CoexDeinit
  BY <1>16 DEF CoexDeinit, CoexAt, HostAt
<1>17. CASE NlSkExit
  BY <1>17 DEF NlSkExit, HostAt
<1>18. CASE HciOpen
  BY <1>18 DEF HciOpen
<1>19. CASE HciClose
  BY <1>19 DEF HciClose
<1>20. CASE HciSendPkt
  BY <1>20 DEF HciSendPkt, CoexSendPkt
<1>21. CASE AppRequest
  BY <1>21 DEF AppRequest, CoexSendPkt, BtPackets
<1>22. CASE AppResets
  BY <1>22 DEF AppResets
<1>23. CASE AppWoken
  BY <1>23 DEF AppWoken
<1>24. CASE AppInterrupted
  BY <1>24 DEF AppInterrupted
<1>25. CASE Freeze
  BY <1>25 DEF Freeze
<1>26. CASE BtDisconnect
  BY <1>26 DEF BtDisconnect, RxJoined
<1>27. CASE Thaw
  BY <1>27 DEF Thaw
<1>28. CASE BtRestore
  BY <1>28 DEF BtRestore
<1>29. QED
  BY <1>1, <1>2, <1>3, <1>4, <1>5, <1>6, <1>7, <1>8, <1>9, <1>10, <1>11, <1>12, <1>13, <1>14,
     <1>15, <1>16, <1>17, <1>18, <1>19, <1>20, <1>21, <1>22, <1>23, <1>24, <1>25, <1>26, <1>27,
     <1>28 DEF BtNext, Coex, BtRx, Detach, Deinit

LEMMA BtInitInv == BtInit => BtIInv
<1> SUFFICES ASSUME BtInit PROVE BtIInv
  OBVIOUS
<1>1. BtTypeOK
  <2>1. bt_q \in Seq(BtPackets) /\ Len(bt_q) <= MAX_BT_Q
    BY BtAssumption DEF BtInit
  <2>2. sleeps \in 0..MAX_SLEEPS
    BY BtAssumption DEF BtInit
  <2>3. QED
    BY <2>1, <2>2 DEF BtInit, BtTypeOK
<1>2. QED
  BY <1>1 DEF BtInit, BtIInv, HostInv, AttachInv, ClearInv, AskedInv, ReadyIsLive,
     FramesMeetAdapter,
     DetachedOnce, CoexNeverSleepsOver

LEMMA BtStepKeepsInv ==
    ASSUME BtIInv, [BtNext]_btVars PROVE BtIInv'
<1>1. CASE BtNext
  <2>1. BtTypeOK'
    BY <1>1, BtQueueTyped, BtThreadsTyped, BtNamesTyped, BtFlagsTyped DEF BtTypeOK
  <2>2. QED
    BY <1>1, <2>1, BtHost, BtAttach, BtCoex, BtAsked, BtReady, BtFrames DEF BtIInv
<1>2. CASE UNCHANGED btVars
  <2>1. BtTypeOK'
    BY <1>2 DEF btVars, BtIInv, BtTypeOK
  <2>2. QED
    BY <1>2, <2>1 DEF btVars, BtIInv, HostInv, AttachInv, ClearInv, AskedInv, ReadyIsLive,
       FramesMeetAdapter, DetachedOnce, CoexNeverSleepsOver
<1>3. QED
  BY <1>1, <1>2

\* The adapter the driver believes in exists, no frame meets a freed one but in a hibernation or
\* a USB disconnect, nothing is detached twice, the coexistence thread does not sleep over a
\* frame, and a reader's answer is coming (rsi_91x_hci.c, rsi_91x_coex.c).
THEOREM BluetoothSafe == BtSpec => []BtInv
<1>1. BtIInv => BtInv
  BY DEF BtIInv, BtInv, AnswerComing, AskedInv
<1>2. QED
  BY <1>1, BtInitInv, BtStepKeepsInv, PTL DEF BtSpec

-----------------------------------------------------------------------------
(* The packet error rate tests.                                            *)

\* A transmit command goes on with what it copied, and while its AMPDU indication is waited
\* for no other can change it.
Copied ==
    /\ at["tx"] # "idle" => per_params.enable
    /\ at["tx"] = "ampdu" \/ per_fsm = "AMPDU_IND_SENT" => per_params.enable /\ per_params.aggr

\* Without commands that cross there is one at a time, and the state is its own.
OneCommand ==
    Without({"crossed"}) =>
        /\ at["tx"] = "idle" \/ at["rx"] = "idle"
        /\ per_fsm = "AMPDU_IND_SENT" => at["tx"] = "idle" /\ at["rx"] = "idle"
        /\ device.ampdu => at["tx"] = "ampdu" \/ per_fsm = "AMPDU_IND_SENT"
        /\ at["tx"] \in {"prog", "cmd", "ampdu"} => per_fsm = "MAC_INIT_DONE"
        /\ rx_thread = "idle"

\* The device transmits nothing before SEND_PER_CMD, and transmits once an aggregate's
\* indication is on its way.
TellsDevice ==
    Without({"unsent", "bt", "crossed"}) =>
        /\ at["tx"] \in {"prog", "sent", "wait", "woken", "cmd"} => tx_running = 0 /\ ~device.tx
        /\ at["tx"] = "ampdu" \/ per_fsm = "AMPDU_IND_SENT" => device.tx

\* A request for a channel has an answer to come before the wait begins.
AnswerComes ==
    \A a \in Apps :
        Without({"unsent", "early", "crossed"}) /\ at[a] \in {"sent", "wait"}
            => chan_set_event \/ device.scans > 0

StatsAsked ==
    Without({"unsent", "refused", "interrupted"}) => (rx_stats_inprog => device.stats)

PerIInv ==
    /\ PerTypeOK
    /\ Copied /\ OneCommand /\ TellsDevice /\ AnswerComes /\ StatsAsked
    /\ KnowsItRuns /\ HasItsPacket /\ StateReturns /\ StatsAgree

LEMMA PerAtTyped ==
    ASSUME PerTypeOK, PerNext
    PROVE  at' \in [Apps -> {"idle", "prog", "sent", "wait", "woken", "cmd", "ampdu"}]
<1> USE DEF PerTypeOK, At, statsVars, Apps, CONTINUOUS_RUNNING, BURST_RUNNING
<1>1. CASE \E m \in {"cont", "burst"}, g \in BOOLEAN : TransmitCmd(m, g)
  BY <1>1 DEF TransmitCmd, MayStart, Crossing, Troubled
<1>2. CASE StopTransmit
  BY <1>2 DEF StopTransmit, Stopped, SendPerFrame, Troubled
<1>3. CASE BtTransmit
  BY <1>3 DEF BtTransmit, Troubled
<1>4. CASE \E s \in BOOLEAN : ReceiveCmd(s)
  BY <1>4 DEF ReceiveCmd, Crossing, Troubled
<1>5. CASE SendStats
  BY <1>5 DEF SendStats, StatsRequest, Troubled
<1>6. CASE \E a \in Apps : NoChannel(a)
  BY <1>6 DEF NoChannel, Troubled
<1>7. CASE \E a \in Apps : SetChannel(a)
  BY <1>7 DEF SetChannel, Troubled
<1>8. CASE \E a \in Apps : ResetEvent(a)
  BY <1>8 DEF ResetEvent, Troubled
<1>9. CASE \E a \in Apps : WaitEnds(a)
  BY <1>9 DEF WaitEnds
<1>10. CASE \E a \in Apps : WaitInterrupted(a)
  BY <1>10 DEF WaitInterrupted, Troubled
<1>11. CASE \E a \in Apps : ChannelSet(a)
  BY <1>11 DEF ChannelSet, AfterChannel
<1>12. CASE NoPerCmd
  BY <1>12 DEF NoPerCmd
<1>13. CASE StartContinuous
  BY <1>13 DEF StartContinuous, Troubled
<1>14. CASE StartBurst
  BY <1>14 DEF StartBurst, SendPerFrame, Troubled
<1>15. CASE SendAmpdu
  BY <1>15 DEF SendAmpdu, Troubled
<1>16. CASE AmpduSent
  BY <1>16 DEF AmpduSent, Troubled
<1>17. CASE ScanConfirm
  BY <1>17 DEF ScanConfirm
<1>18. CASE AmpduConfirm
  BY <1>18 DEF AmpduConfirm, BurstEnds, BurstDone
<1>19. CASE SpinEnds
  BY <1>19 DEF SpinEnds, BurstEnds, BurstDone
<1>20. QED
  BY <1>1, <1>2, <1>3, <1>4, <1>5, <1>6, <1>7, <1>8, <1>9, <1>10, <1>11, <1>12, <1>13, <1>14,
     <1>15, <1>16, <1>17, <1>18, <1>19 DEF PerNext

LEMMA PerDeviceTyped ==
    ASSUME PerTypeOK, PerNext
    PROVE  device' \in [scans : 0..2, ampdu : BOOLEAN, tx : BOOLEAN, packet : BOOLEAN, stats : BOOLEAN]
<1> USE DEF PerTypeOK, At, statsVars, Apps, CONTINUOUS_RUNNING, BURST_RUNNING
<1>1. CASE \E m \in {"cont", "burst"}, g \in BOOLEAN : TransmitCmd(m, g)
  BY <1>1 DEF TransmitCmd, MayStart, Crossing, Troubled
<1>2. CASE StopTransmit
  BY <1>2, ZenonT(60) DEF StopTransmit, Stopped, SendPerFrame, Troubled
<1>3. CASE BtTransmit
  BY <1>3 DEF BtTransmit, Troubled
<1>4. CASE \E s \in BOOLEAN : ReceiveCmd(s)
  BY <1>4 DEF ReceiveCmd, Crossing, Troubled
<1>5. CASE SendStats
  BY <1>5 DEF SendStats, StatsRequest, Troubled
<1>6. CASE \E a \in Apps : NoChannel(a)
  BY <1>6 DEF NoChannel, Troubled
<1>7. CASE \E a \in Apps : SetChannel(a)
  BY <1>7 DEF SetChannel, Troubled
<1>8. CASE \E a \in Apps : ResetEvent(a)
  BY <1>8 DEF ResetEvent, Troubled
<1>9. CASE \E a \in Apps : WaitEnds(a)
  BY <1>9 DEF WaitEnds
<1>10. CASE \E a \in Apps : WaitInterrupted(a)
  BY <1>10 DEF WaitInterrupted, Troubled
<1>11. CASE \E a \in Apps : ChannelSet(a)
  BY <1>11 DEF ChannelSet, AfterChannel
<1>12. CASE NoPerCmd
  BY <1>12 DEF NoPerCmd
<1>13. CASE StartContinuous
  BY <1>13, ZenonT(60) DEF StartContinuous, Troubled
<1>14. CASE StartBurst
  BY <1>14 DEF StartBurst, SendPerFrame, Troubled
<1>15. CASE SendAmpdu
  BY <1>15, ZenonT(60) DEF SendAmpdu, Troubled
<1>16. CASE AmpduSent
  BY <1>16 DEF AmpduSent, Troubled
<1>17. CASE ScanConfirm
  BY <1>17 DEF ScanConfirm
<1>18. CASE AmpduConfirm
  BY <1>18 DEF AmpduConfirm, BurstEnds, BurstDone
<1>19. CASE SpinEnds
  BY <1>19 DEF SpinEnds, BurstEnds, BurstDone
<1>20. QED
  BY <1>1, <1>2, <1>3, <1>4, <1>5, <1>6, <1>7, <1>8, <1>9, <1>10, <1>11, <1>12, <1>13, <1>14,
     <1>15, <1>16, <1>17, <1>18, <1>19 DEF PerNext

LEMMA PerStateTyped ==
    ASSUME PerTypeOK, PerNext
    PROVE  /\ per_fsm' \in {"MAC_INIT_DONE", "SCAN_CFM", "AMPDU_IND_SENT"}
           /\ per_params' \in [enable : BOOLEAN, mode : {"cont", "burst"}, aggr : BOOLEAN]
           /\ tx_running' \in 0..2
           /\ rx_thread' \in {"idle", "spins"}
<1> USE DEF PerTypeOK, At, statsVars, Apps, CONTINUOUS_RUNNING, BURST_RUNNING
<1>1. CASE \E m \in {"cont", "burst"}, g \in BOOLEAN : TransmitCmd(m, g)
  BY <1>1 DEF TransmitCmd, MayStart, Crossing, Troubled
<1>2. CASE StopTransmit
  <2>1. per_params' = [per_params EXCEPT !.enable = FALSE]
    BY <1>2 DEF StopTransmit
  <2>2. tx_running' \in {tx_running, 0} /\ UNCHANGED <<per_fsm, rx_thread>>
    BY <1>2 DEF StopTransmit, Stopped
  <2>3. tx_running' \in 0..2
    BY <2>2
  <2>4. per_params' \in [enable : BOOLEAN, mode : {"cont", "burst"}, aggr : BOOLEAN]
    BY <2>1
  <2>5. QED
    BY <2>2, <2>3, <2>4
<1>3. CASE BtTransmit
  BY <1>3 DEF BtTransmit, Troubled
<1>4. CASE \E s \in BOOLEAN : ReceiveCmd(s)
  BY <1>4 DEF ReceiveCmd, Crossing, Troubled
<1>5. CASE SendStats
  BY <1>5 DEF SendStats, StatsRequest, Troubled
<1>6. CASE \E a \in Apps : NoChannel(a)
  BY <1>6 DEF NoChannel, Troubled
<1>7. CASE \E a \in Apps : SetChannel(a)
  BY <1>7 DEF SetChannel, Troubled
<1>8. CASE \E a \in Apps : ResetEvent(a)
  BY <1>8 DEF ResetEvent, Troubled
<1>9. CASE \E a \in Apps : WaitEnds(a)
  BY <1>9 DEF WaitEnds
<1>10. CASE \E a \in Apps : WaitInterrupted(a)
  BY <1>10 DEF WaitInterrupted, Troubled
<1>11. CASE \E a \in Apps : ChannelSet(a)
  BY <1>11 DEF ChannelSet, AfterChannel
<1>12. CASE NoPerCmd
  BY <1>12 DEF NoPerCmd
<1>13. CASE StartContinuous
  BY <1>13 DEF StartContinuous, Troubled
<1>14. CASE StartBurst
  BY <1>14 DEF StartBurst, SendPerFrame, Troubled
<1>15. CASE SendAmpdu
  BY <1>15 DEF SendAmpdu, Troubled
<1>16. CASE AmpduSent
  BY <1>16 DEF AmpduSent, Troubled
<1>17. CASE ScanConfirm
  BY <1>17 DEF ScanConfirm
<1>18. CASE AmpduConfirm
  BY <1>18 DEF AmpduConfirm, BurstEnds, BurstDone
<1>19. CASE SpinEnds
  BY <1>19 DEF SpinEnds, BurstEnds, BurstDone
<1>20. QED
  BY <1>1, <1>2, <1>3, <1>4, <1>5, <1>6, <1>7, <1>8, <1>9, <1>10, <1>11, <1>12, <1>13, <1>14,
     <1>15, <1>16, <1>17, <1>18, <1>19 DEF PerNext

LEMMA PerFlagsTyped ==
    ASSUME PerTypeOK, PerNext
    PROVE  /\ rx_stats_inprog' \in BOOLEAN /\ recv_stop' \in BOOLEAN /\ chan_set_event' \in BOOLEAN
           /\ perUpset' \subseteq {"interrupted", "unsent", "early", "crossed", "full", "bt", "refused"}
<1> USE DEF PerTypeOK, At, statsVars, Apps, CONTINUOUS_RUNNING, BURST_RUNNING
<1>1. CASE \E m \in {"cont", "burst"}, g \in BOOLEAN : TransmitCmd(m, g)
  BY <1>1 DEF TransmitCmd, MayStart, Crossing, Troubled
<1>2. CASE StopTransmit
  BY <1>2 DEF StopTransmit, Stopped, SendPerFrame, Troubled
<1>3. CASE BtTransmit
  BY <1>3 DEF BtTransmit, Troubled
<1>4. CASE \E s \in BOOLEAN : ReceiveCmd(s)
  BY <1>4, ZenonT(60) DEF ReceiveCmd, Crossing, Troubled
<1>5. CASE SendStats
  BY <1>5 DEF SendStats, StatsRequest, Troubled
<1>6. CASE \E a \in Apps : NoChannel(a)
  BY <1>6 DEF NoChannel, Troubled
<1>7. CASE \E a \in Apps : SetChannel(a)
  BY <1>7 DEF SetChannel, Troubled
<1>8. CASE \E a \in Apps : ResetEvent(a)
  BY <1>8 DEF ResetEvent, Troubled
<1>9. CASE \E a \in Apps : WaitEnds(a)
  BY <1>9 DEF WaitEnds
<1>10. CASE \E a \in Apps : WaitInterrupted(a)
  BY <1>10 DEF WaitInterrupted, Troubled
<1>11. CASE \E a \in Apps : ChannelSet(a)
  BY <1>11 DEF ChannelSet, AfterChannel
<1>12. CASE NoPerCmd
  BY <1>12 DEF NoPerCmd
<1>13. CASE StartContinuous
  BY <1>13 DEF StartContinuous, Troubled
<1>14. CASE StartBurst
  BY <1>14 DEF StartBurst, SendPerFrame, Troubled
<1>15. CASE SendAmpdu
  BY <1>15 DEF SendAmpdu, Troubled
<1>16. CASE AmpduSent
  BY <1>16 DEF AmpduSent, Troubled
<1>17. CASE ScanConfirm
  BY <1>17 DEF ScanConfirm
<1>18. CASE AmpduConfirm
  BY <1>18 DEF AmpduConfirm, BurstEnds, BurstDone
<1>19. CASE SpinEnds
  BY <1>19 DEF SpinEnds, BurstEnds, BurstDone
<1>20. QED
  BY <1>1, <1>2, <1>3, <1>4, <1>5, <1>6, <1>7, <1>8, <1>9, <1>10, <1>11, <1>12, <1>13, <1>14,
     <1>15, <1>16, <1>17, <1>18, <1>19 DEF PerNext

LEMMA PerCopied ==
    ASSUME PerIInv, PerNext PROVE Copied'
<1> USE DEF PerIInv, PerTypeOK, Apps, At, statsVars, Copied
<1>1. CASE \E m \in {"cont", "burst"}, g \in BOOLEAN : TransmitCmd(m, g)
  BY <1>1 DEF TransmitCmd, MayStart, Crossing, Troubled
<1>2. CASE StopTransmit
  BY <1>2 DEF StopTransmit, Stopped, SendPerFrame, Troubled
<1>3. CASE BtTransmit
  BY <1>3 DEF BtTransmit, CONTINUOUS_RUNNING, Troubled
<1>4. CASE \E s \in BOOLEAN : ReceiveCmd(s)
  BY <1>4 DEF ReceiveCmd, Crossing, Troubled
<1>5. CASE SendStats
  BY <1>5 DEF SendStats, StatsRequest, Troubled
<1>6. CASE \E a \in Apps : NoChannel(a)
  BY <1>6 DEF NoChannel, Troubled
<1>7. CASE \E a \in Apps : SetChannel(a)
  BY <1>7 DEF SetChannel, Troubled
<1>8. CASE \E a \in Apps : ResetEvent(a)
  BY <1>8 DEF ResetEvent, Troubled
<1>9. CASE \E a \in Apps : WaitEnds(a)
  BY <1>9 DEF WaitEnds
<1>10. CASE \E a \in Apps : WaitInterrupted(a)
  BY <1>10 DEF WaitInterrupted, Troubled
<1>11. CASE \E a \in Apps : ChannelSet(a)
  BY <1>11 DEF ChannelSet, AfterChannel
<1>12. CASE NoPerCmd
  BY <1>12 DEF NoPerCmd
<1>13. CASE StartContinuous
  BY <1>13 DEF StartContinuous, CONTINUOUS_RUNNING, Troubled
<1>14. CASE StartBurst
  BY <1>14 DEF StartBurst, BURST_RUNNING, SendPerFrame, Troubled
<1>15. CASE SendAmpdu
  BY <1>15 DEF SendAmpdu, Troubled
<1>16. CASE AmpduSent
  BY <1>16 DEF AmpduSent, Troubled
<1>17. CASE ScanConfirm
  BY <1>17 DEF ScanConfirm
<1>18. CASE AmpduConfirm
  BY <1>18 DEF AmpduConfirm, BurstEnds, BurstDone, BURST_RUNNING
<1>19. CASE SpinEnds
  BY <1>19 DEF SpinEnds, BurstEnds, BurstDone, BURST_RUNNING
<1>20. QED
  BY <1>1, <1>2, <1>3, <1>4, <1>5, <1>6, <1>7, <1>8, <1>9, <1>10, <1>11, <1>12, <1>13, <1>14,
     <1>15, <1>16, <1>17, <1>18, <1>19 DEF PerNext

LEMMA PerOneCommand ==
    ASSUME PerIInv, PerNext PROVE OneCommand'
<1> USE DEF PerIInv, PerTypeOK, Apps, At, statsVars, Copied, OneCommand, Without
<1>1. CASE \E m \in {"cont", "burst"}, g \in BOOLEAN : TransmitCmd(m, g)
  BY <1>1 DEF TransmitCmd, MayStart, Crossing, Troubled
<1>2. CASE StopTransmit
  BY <1>2 DEF StopTransmit, Stopped, SendPerFrame, Troubled
<1>3. CASE BtTransmit
  BY <1>3 DEF BtTransmit, CONTINUOUS_RUNNING, Troubled
<1>4. CASE \E s \in BOOLEAN : ReceiveCmd(s)
  BY <1>4 DEF ReceiveCmd, Crossing, Troubled
<1>5. CASE SendStats
  BY <1>5 DEF SendStats, StatsRequest, Troubled
<1>6. CASE \E a \in Apps : NoChannel(a)
  BY <1>6 DEF NoChannel, Troubled
<1>7. CASE \E a \in Apps : SetChannel(a)
  BY <1>7 DEF SetChannel, Troubled
<1>8. CASE \E a \in Apps : ResetEvent(a)
  BY <1>8 DEF ResetEvent, Troubled
<1>9. CASE \E a \in Apps : WaitEnds(a)
  BY <1>9 DEF WaitEnds
<1>10. CASE \E a \in Apps : WaitInterrupted(a)
  BY <1>10 DEF WaitInterrupted, Troubled
<1>11. CASE \E a \in Apps : ChannelSet(a)
  BY <1>11 DEF ChannelSet, AfterChannel
<1>12. CASE NoPerCmd
  BY <1>12 DEF NoPerCmd
<1>13. CASE StartContinuous
  BY <1>13 DEF StartContinuous, CONTINUOUS_RUNNING, Troubled
<1>14. CASE StartBurst
  BY <1>14 DEF StartBurst, BURST_RUNNING, SendPerFrame, Troubled
<1>15. CASE SendAmpdu
  BY <1>15 DEF SendAmpdu, Troubled
<1>16. CASE AmpduSent
  BY <1>16 DEF AmpduSent, Troubled
<1>17. CASE ScanConfirm
  BY <1>17 DEF ScanConfirm
<1>18. CASE AmpduConfirm
  BY <1>18 DEF AmpduConfirm, BurstEnds, BurstDone, BURST_RUNNING
<1>19. CASE SpinEnds
  BY <1>19 DEF SpinEnds, BurstEnds, BurstDone, BURST_RUNNING
<1>20. QED
  BY <1>1, <1>2, <1>3, <1>4, <1>5, <1>6, <1>7, <1>8, <1>9, <1>10, <1>11, <1>12, <1>13, <1>14,
     <1>15, <1>16, <1>17, <1>18, <1>19 DEF PerNext

LEMMA PerTellsDevice ==
    ASSUME PerIInv, PerNext PROVE TellsDevice'
<1> USE DEF PerIInv, PerTypeOK, Apps, At, statsVars, Copied, OneCommand, TellsDevice,
KnowsItRuns, Without, BURST_RUNNING
<1>1. CASE \E m \in {"cont", "burst"}, g \in BOOLEAN : TransmitCmd(m, g)
  BY <1>1 DEF TransmitCmd, MayStart, Crossing, Troubled
<1>2. CASE StopTransmit
  BY <1>2 DEF StopTransmit, Stopped, SendPerFrame, Troubled
<1>3. CASE BtTransmit
  BY <1>3 DEF BtTransmit, CONTINUOUS_RUNNING, Troubled
<1>4. CASE \E s \in BOOLEAN : ReceiveCmd(s)
  BY <1>4 DEF ReceiveCmd, Crossing, Troubled
<1>5. CASE SendStats
  BY <1>5 DEF SendStats, StatsRequest, Troubled
<1>6. CASE \E a \in Apps : NoChannel(a)
  BY <1>6 DEF NoChannel, Troubled
<1>7. CASE \E a \in Apps : SetChannel(a)
  BY <1>7 DEF SetChannel, Troubled
<1>8. CASE \E a \in Apps : ResetEvent(a)
  BY <1>8 DEF ResetEvent, Troubled
<1>9. CASE \E a \in Apps : WaitEnds(a)
  BY <1>9 DEF WaitEnds
<1>10. CASE \E a \in Apps : WaitInterrupted(a)
  BY <1>10 DEF WaitInterrupted, Troubled
<1>11. CASE \E a \in Apps : ChannelSet(a)
  BY <1>11 DEF ChannelSet, AfterChannel
<1>12. CASE NoPerCmd
  BY <1>12 DEF NoPerCmd
<1>13. CASE StartContinuous
  BY <1>13 DEF StartContinuous, CONTINUOUS_RUNNING, Troubled
<1>14. CASE StartBurst
  BY <1>14 DEF StartBurst, SendPerFrame, Troubled
<1>15. CASE SendAmpdu
  BY <1>15 DEF SendAmpdu, Troubled
<1>16. CASE AmpduSent
  BY <1>16 DEF AmpduSent, Troubled
<1>17. CASE ScanConfirm
  BY <1>17 DEF ScanConfirm
<1>18. CASE AmpduConfirm
  BY <1>18 DEF AmpduConfirm, BurstEnds, BurstDone
<1>19. CASE SpinEnds
  BY <1>19 DEF SpinEnds, BurstEnds, BurstDone
<1>20. QED
  BY <1>1, <1>2, <1>3, <1>4, <1>5, <1>6, <1>7, <1>8, <1>9, <1>10, <1>11, <1>12, <1>13, <1>14,
     <1>15, <1>16, <1>17, <1>18, <1>19 DEF PerNext

LEMMA PerAnswerComes ==
    ASSUME PerIInv, PerNext PROVE AnswerComes'
<1> USE DEF PerIInv, PerTypeOK, Apps, At, statsVars, OneCommand, AnswerComes, Without
<1>1. CASE \E m \in {"cont", "burst"}, g \in BOOLEAN : TransmitCmd(m, g)
  BY <1>1 DEF TransmitCmd, MayStart, Crossing, Troubled
<1>2. CASE StopTransmit
  BY <1>2 DEF StopTransmit, Stopped, SendPerFrame, Troubled
<1>3. CASE BtTransmit
  BY <1>3 DEF BtTransmit, CONTINUOUS_RUNNING, Troubled
<1>4. CASE \E s \in BOOLEAN : ReceiveCmd(s)
  BY <1>4 DEF ReceiveCmd, Crossing, Troubled
<1>5. CASE SendStats
  BY <1>5 DEF SendStats, StatsRequest, Troubled
<1>6. CASE \E a \in Apps : NoChannel(a)
  BY <1>6 DEF NoChannel, Troubled
<1>7. CASE \E a \in Apps : SetChannel(a)
  BY <1>7 DEF SetChannel, Troubled
<1>8. CASE \E a \in Apps : ResetEvent(a)
  BY <1>8 DEF ResetEvent, Troubled
<1>9. CASE \E a \in Apps : WaitEnds(a)
  BY <1>9 DEF WaitEnds
<1>10. CASE \E a \in Apps : WaitInterrupted(a)
  BY <1>10 DEF WaitInterrupted, Troubled
<1>11. CASE \E a \in Apps : ChannelSet(a)
  BY <1>11 DEF ChannelSet, AfterChannel
<1>12. CASE NoPerCmd
  BY <1>12 DEF NoPerCmd
<1>13. CASE StartContinuous
  BY <1>13 DEF StartContinuous, CONTINUOUS_RUNNING, Troubled
<1>14. CASE StartBurst
  BY <1>14 DEF StartBurst, BURST_RUNNING, SendPerFrame, Troubled
<1>15. CASE SendAmpdu
  BY <1>15 DEF SendAmpdu, Troubled
<1>16. CASE AmpduSent
  BY <1>16 DEF AmpduSent, Troubled
<1>17. CASE ScanConfirm
  BY <1>17 DEF ScanConfirm
<1>18. CASE AmpduConfirm
  BY <1>18 DEF AmpduConfirm, BurstEnds, BurstDone, BURST_RUNNING
<1>19. CASE SpinEnds
  BY <1>19 DEF SpinEnds, BurstEnds, BurstDone, BURST_RUNNING
<1>20. QED
  BY <1>1, <1>2, <1>3, <1>4, <1>5, <1>6, <1>7, <1>8, <1>9, <1>10, <1>11, <1>12, <1>13, <1>14,
     <1>15, <1>16, <1>17, <1>18, <1>19 DEF PerNext

LEMMA PerStats ==
    ASSUME PerIInv, PerNext PROVE StatsAsked' /\ StatsAgree'
<1> USE DEF PerIInv, PerTypeOK, Apps, At, statsVars, StatsAsked, StatsAgree, Without
<1>1. CASE \E m \in {"cont", "burst"}, g \in BOOLEAN : TransmitCmd(m, g)
  BY <1>1 DEF TransmitCmd, MayStart, Crossing, Troubled
<1>2. CASE StopTransmit
  BY <1>2 DEF StopTransmit, Stopped, SendPerFrame, Troubled
<1>3. CASE BtTransmit
  BY <1>3 DEF BtTransmit, CONTINUOUS_RUNNING, Troubled
<1>4. CASE \E s \in BOOLEAN : ReceiveCmd(s)
  BY <1>4 DEF ReceiveCmd, Crossing, Troubled
<1>5. CASE SendStats
  BY <1>5 DEF SendStats, StatsRequest, Troubled
<1>6. CASE \E a \in Apps : NoChannel(a)
  BY <1>6 DEF NoChannel, Troubled
<1>7. CASE \E a \in Apps : SetChannel(a)
  BY <1>7 DEF SetChannel, Troubled
<1>8. CASE \E a \in Apps : ResetEvent(a)
  BY <1>8 DEF ResetEvent, Troubled
<1>9. CASE \E a \in Apps : WaitEnds(a)
  BY <1>9 DEF WaitEnds
<1>10. CASE \E a \in Apps : WaitInterrupted(a)
  BY <1>10 DEF WaitInterrupted, Troubled
<1>11. CASE \E a \in Apps : ChannelSet(a)
  BY <1>11 DEF ChannelSet, AfterChannel
<1>12. CASE NoPerCmd
  BY <1>12 DEF NoPerCmd
<1>13. CASE StartContinuous
  BY <1>13, ZenonT(60) DEF StartContinuous, CONTINUOUS_RUNNING, Troubled
<1>14. CASE StartBurst
  BY <1>14 DEF StartBurst, BURST_RUNNING, SendPerFrame, Troubled
<1>15. CASE SendAmpdu
  BY <1>15 DEF SendAmpdu, Troubled
<1>16. CASE AmpduSent
  BY <1>16 DEF AmpduSent, Troubled
<1>17. CASE ScanConfirm
  BY <1>17 DEF ScanConfirm
<1>18. CASE AmpduConfirm
  BY <1>18 DEF AmpduConfirm, BurstEnds, BurstDone, BURST_RUNNING
<1>19. CASE SpinEnds
  BY <1>19 DEF SpinEnds, BurstEnds, BurstDone, BURST_RUNNING
<1>20. QED
  BY <1>1, <1>2, <1>3, <1>4, <1>5, <1>6, <1>7, <1>8, <1>9, <1>10, <1>11, <1>12, <1>13, <1>14,
     <1>15, <1>16, <1>17, <1>18, <1>19 DEF PerNext

LEMMA PerKnows ==
    ASSUME PerIInv, PerNext PROVE KnowsItRuns'
<1> USE DEF PerIInv, PerTypeOK, Apps, At, statsVars, Copied, OneCommand, TellsDevice,
KnowsItRuns, Without, BURST_RUNNING, CONTINUOUS_RUNNING
<1>1. CASE \E m \in {"cont", "burst"}, g \in BOOLEAN : TransmitCmd(m, g)
  BY <1>1 DEF TransmitCmd, MayStart, Crossing, Troubled
<1>2. CASE StopTransmit
  BY <1>2 DEF StopTransmit, Stopped, SendPerFrame, Troubled
<1>3. CASE BtTransmit
  BY <1>3 DEF BtTransmit, Troubled
<1>4. CASE \E s \in BOOLEAN : ReceiveCmd(s)
  BY <1>4 DEF ReceiveCmd, Crossing, Troubled
<1>5. CASE SendStats
  BY <1>5 DEF SendStats, StatsRequest, Troubled
<1>6. CASE \E a \in Apps : NoChannel(a)
  BY <1>6 DEF NoChannel, Troubled
<1>7. CASE \E a \in Apps : SetChannel(a)
  BY <1>7 DEF SetChannel, Troubled
<1>8. CASE \E a \in Apps : ResetEvent(a)
  BY <1>8 DEF ResetEvent, Troubled
<1>9. CASE \E a \in Apps : WaitEnds(a)
  BY <1>9 DEF WaitEnds
<1>10. CASE \E a \in Apps : WaitInterrupted(a)
  BY <1>10 DEF WaitInterrupted, Troubled
<1>11. CASE \E a \in Apps : ChannelSet(a)
  BY <1>11 DEF ChannelSet, AfterChannel
<1>12. CASE NoPerCmd
  BY <1>12 DEF NoPerCmd
<1>13. CASE StartContinuous
  <2>1. SUFFICES ASSUME Without({"unsent", "bt", "crossed"})' PROVE (tx_running' # 0) = device'.tx
    BY DEF KnowsItRuns
  <2>2. tx_running' = 1 /\ per_params.enable = TRUE
    BY <1>13 DEF StartContinuous
  <2>3. device'.tx = TRUE
    BY <1>13, <2>1, <2>2 DEF StartContinuous, Troubled
  <2>4. (tx_running' # 0) = TRUE
    BY <2>2
  <2>5. QED
    BY <2>3, <2>4
<1>14. CASE StartBurst
  BY <1>14 DEF StartBurst, SendPerFrame, Troubled
<1>15. CASE SendAmpdu
  BY <1>15 DEF SendAmpdu, Troubled
<1>16. CASE AmpduSent
  BY <1>16 DEF AmpduSent, Troubled
<1>17. CASE ScanConfirm
  BY <1>17 DEF ScanConfirm
<1>18. CASE AmpduConfirm
  BY <1>18 DEF AmpduConfirm, BurstEnds, BurstDone
<1>19. CASE SpinEnds
  BY <1>19 DEF SpinEnds, BurstEnds, BurstDone
<1>20. QED
  BY <1>1, <1>2, <1>3, <1>4, <1>5, <1>6, <1>7, <1>8, <1>9, <1>10, <1>11, <1>12, <1>13, <1>14,
     <1>15, <1>16, <1>17, <1>18, <1>19 DEF PerNext

LEMMA PerPacket ==
    ASSUME PerIInv, PerNext PROVE HasItsPacket'
<1> USE DEF PerIInv, PerTypeOK, Apps, At, statsVars, HasItsPacket, Without, CONTINUOUS_RUNNING,
BURST_RUNNING
<1>1. CASE \E m \in {"cont", "burst"}, g \in BOOLEAN : TransmitCmd(m, g)
  BY <1>1 DEF TransmitCmd, MayStart, Crossing, Troubled
<1>2. CASE StopTransmit
  BY <1>2 DEF StopTransmit, Stopped, SendPerFrame, Troubled
<1>3. CASE BtTransmit
  BY <1>3 DEF BtTransmit, Troubled
<1>4. CASE \E s \in BOOLEAN : ReceiveCmd(s)
  BY <1>4 DEF ReceiveCmd, Crossing, Troubled
<1>5. CASE SendStats
  BY <1>5 DEF SendStats, StatsRequest, Troubled
<1>6. CASE \E a \in Apps : NoChannel(a)
  BY <1>6 DEF NoChannel, Troubled
<1>7. CASE \E a \in Apps : SetChannel(a)
  BY <1>7 DEF SetChannel, Troubled
<1>8. CASE \E a \in Apps : ResetEvent(a)
  BY <1>8 DEF ResetEvent, Troubled
<1>9. CASE \E a \in Apps : WaitEnds(a)
  BY <1>9 DEF WaitEnds
<1>10. CASE \E a \in Apps : WaitInterrupted(a)
  BY <1>10 DEF WaitInterrupted, Troubled
<1>11. CASE \E a \in Apps : ChannelSet(a)
  BY <1>11 DEF ChannelSet, AfterChannel
<1>12. CASE NoPerCmd
  BY <1>12 DEF NoPerCmd
<1>13. CASE StartContinuous
  BY <1>13 DEF StartContinuous, Troubled
<1>14. CASE StartBurst
  BY <1>14 DEF StartBurst, SendPerFrame, Troubled
<1>15. CASE SendAmpdu
  BY <1>15 DEF SendAmpdu, Troubled
<1>16. CASE AmpduSent
  BY <1>16 DEF AmpduSent, Troubled
<1>17. CASE ScanConfirm
  BY <1>17 DEF ScanConfirm
<1>18. CASE AmpduConfirm
  BY <1>18 DEF AmpduConfirm, BurstEnds, BurstDone
<1>19. CASE SpinEnds
  BY <1>19 DEF SpinEnds, BurstEnds, BurstDone
<1>20. QED
  BY <1>1, <1>2, <1>3, <1>4, <1>5, <1>6, <1>7, <1>8, <1>9, <1>10, <1>11, <1>12, <1>13, <1>14,
     <1>15, <1>16, <1>17, <1>18, <1>19 DEF PerNext

LEMMA PerReturns ==
    ASSUME PerIInv, PerNext PROVE StateReturns'
<1> USE DEF PerIInv, PerTypeOK, Apps, At, statsVars, Copied, StateReturns, Without
<1>1. CASE \E m \in {"cont", "burst"}, g \in BOOLEAN : TransmitCmd(m, g)
  BY <1>1 DEF TransmitCmd, MayStart, Crossing, Troubled
<1>2. CASE StopTransmit
  BY <1>2 DEF StopTransmit, Stopped, SendPerFrame, Troubled
<1>3. CASE BtTransmit
  BY <1>3 DEF BtTransmit, CONTINUOUS_RUNNING, Troubled
<1>4. CASE \E s \in BOOLEAN : ReceiveCmd(s)
  BY <1>4 DEF ReceiveCmd, Crossing, Troubled
<1>5. CASE SendStats
  BY <1>5 DEF SendStats, StatsRequest, Troubled
<1>6. CASE \E a \in Apps : NoChannel(a)
  BY <1>6 DEF NoChannel, Troubled
<1>7. CASE \E a \in Apps : SetChannel(a)
  BY <1>7 DEF SetChannel, Troubled
<1>8. CASE \E a \in Apps : ResetEvent(a)
  BY <1>8 DEF ResetEvent, Troubled
<1>9. CASE \E a \in Apps : WaitEnds(a)
  BY <1>9 DEF WaitEnds
<1>10. CASE \E a \in Apps : WaitInterrupted(a)
  BY <1>10 DEF WaitInterrupted, Troubled
<1>11. CASE \E a \in Apps : ChannelSet(a)
  BY <1>11 DEF ChannelSet, AfterChannel
<1>12. CASE NoPerCmd
  BY <1>12 DEF NoPerCmd
<1>13. CASE StartContinuous
  BY <1>13 DEF StartContinuous, CONTINUOUS_RUNNING, Troubled
<1>14. CASE StartBurst
  BY <1>14 DEF StartBurst, BURST_RUNNING, SendPerFrame, Troubled
<1>15. CASE SendAmpdu
  BY <1>15 DEF SendAmpdu, Troubled
<1>16. CASE AmpduSent
  BY <1>16 DEF AmpduSent, Troubled
<1>17. CASE ScanConfirm
  BY <1>17 DEF ScanConfirm
<1>18. CASE AmpduConfirm
  BY <1>18 DEF AmpduConfirm, BurstEnds, BurstDone, BURST_RUNNING
<1>19. CASE SpinEnds
  BY <1>19 DEF SpinEnds, BurstEnds, BurstDone, BURST_RUNNING
<1>20. QED
  BY <1>1, <1>2, <1>3, <1>4, <1>5, <1>6, <1>7, <1>8, <1>9, <1>10, <1>11, <1>12, <1>13, <1>14,
     <1>15, <1>16, <1>17, <1>18, <1>19 DEF PerNext

LEMMA PerRfTyped == ASSUME PerTypeOK, PerNext PROVE rf_eval' \in BOOLEAN
  BY DEF PerTypeOK, PerNext

LEMMA PerInitInv == PerInit => PerIInv
<1> SUFFICES ASSUME PerInit PROVE PerIInv
  OBVIOUS
<1>1. at["tx"] = "idle" /\ at["rx"] = "idle" /\ tx_running = 0
  BY DEF PerInit, Apps
<1>2. PerTypeOK
  <2>1. device \in [scans : 0..2, ampdu : BOOLEAN, tx : BOOLEAN, packet : BOOLEAN, stats : BOOLEAN]
    BY DEF PerInit
  <2>2. per_params \in [enable : BOOLEAN, mode : {"cont", "burst"}, aggr : BOOLEAN]
    BY DEF PerInit
  <2>3. at \in [Apps -> {"idle", "prog", "sent", "wait", "woken", "cmd", "ampdu"}]
    BY DEF PerInit
  <2>4. rf_eval \in BOOLEAN
    BY PerAssumption DEF PerInit
  <2>5. tx_running \in 0..2
    BY DEF PerInit
  <2>6. QED
    BY <2>1, <2>2, <2>3, <2>4, <2>5 DEF PerInit, PerTypeOK
<1>3. Copied
  BY <1>1 DEF PerInit, Copied
<1>4. device.ampdu = FALSE /\ device.tx = FALSE /\ device.stats = FALSE
  BY DEF PerInit
<1>5. OneCommand
  BY <1>1, <1>4 DEF PerInit, OneCommand
<1>6. TellsDevice /\ KnowsItRuns
  BY <1>1, <1>4 DEF PerInit, TellsDevice, KnowsItRuns
<1>7. AnswerComes
  BY <1>1 DEF PerInit, AnswerComes, Apps
<1>8. StatsAsked /\ StatsAgree
  BY <1>4 DEF PerInit, StatsAsked, StatsAgree
<1>9. HasItsPacket /\ StateReturns
  BY <1>1 DEF PerInit, HasItsPacket, StateReturns, CONTINUOUS_RUNNING
<1>10. QED
  BY <1>2, <1>3, <1>5, <1>6, <1>7, <1>8, <1>9 DEF PerIInv

LEMMA PerStepKeepsInv ==
    ASSUME PerIInv, [PerNext]_perVars PROVE PerIInv'
<1>1. CASE PerNext
  <2>1. PerTypeOK'
    BY <1>1, PerRfTyped, PerAtTyped, PerDeviceTyped, PerStateTyped, PerFlagsTyped DEF PerIInv,
       PerTypeOK
  <2>2. QED
    BY <1>1, <2>1, PerCopied, PerOneCommand, PerTellsDevice, PerAnswerComes, PerStats, PerKnows,
       PerPacket, PerReturns DEF PerIInv
<1>2. CASE UNCHANGED perVars
  BY <1>2 DEF perVars, PerIInv, PerTypeOK, Copied, OneCommand, TellsDevice, AnswerComes,
     StatsAsked, KnowsItRuns, HasItsPacket, StateReturns, StatsAgree, Without
<1>3. QED
  BY <1>1, <1>2

\* What the driver believes of a test is what the device does, a state that refuses commands is
\* left again, a wait is answered, and the receive thread leaves the burst loop
\* (rsi_91x_per.c), each unless the trouble it names occurred.
THEOREM PerTestsAgree == PerSpec => []PerInv
<1>1. PerIInv => PerInv
  BY DEF PerIInv, PerInv, WaitIsAnswered, AnswerComes, LeavesBurst, OneCommand
<1>2. QED
  BY <1>1, PerInitInv, PerStepKeepsInv, PTL DEF PerSpec
=============================================================================
