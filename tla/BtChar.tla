------------------------------- MODULE BtChar -------------------------------
(***************************************************************************)
(* The character device through which Android's Bluetooth stack reads      *)
(* (rsi_91x_bluedroid.c, a build with CONFIG_RSI_BT_ANDROID): a ring of    *)
(* frame pointers, filled by the receive thread in rsi_send_to_stack and   *)
(* emptied by the reader in rsi_btchr_read.  Nothing locks the ring.  The  *)
(* two indices are -1 when it is empty.                                    *)
(***************************************************************************)
EXTENDS Integers, Sequences

CONSTANTS
    QUEUE_SIZE,    \* slots of the ring (500 in the code)
    MAX_FRAMES     \* bound of the model: frames received

ASSUME RingAssumption == QUEUE_SIZE \in Nat \ {0} /\ MAX_FRAMES \in Nat

VARIABLES
    front, rear,   \* common->rsi_skb_queue_front, common->rsi_skb_queue_rear
    rsi_skb_queue, \* the slots: the frame each points to, 0 for nothing
    adding,        \* the receive thread in rsi_enqueue: [at, frame]
    received,      \* frames received so far; a frame is named by its number
    reader,        \* rsi_btchr_read: "idle", "wait", "dequeue"
    last,          \* the frame given to the reader last
    read_wait,     \* common->rsi_btchr_read_wait is set
    hci_up,        \* HCI_UP and HCI_RUNNING of the device, set and cleared together
    files,         \* open files of the device
    torn           \* the ring gave up its promise: "no", or why it broke

ringVars == <<front, rear, rsi_skb_queue, torn>>
readVars == <<reader, last>>
charVars == <<ringVars, adding, received, readVars, read_wait, hci_up, files>>

Slots == 0..QUEUE_SIZE - 1
Frames == 1..MAX_FRAMES

CharTypeOK ==
    /\ front \in {-1} \cup Slots /\ rear \in {-1} \cup Slots
    /\ rsi_skb_queue \in [Slots -> {0} \cup Frames]
    /\ adding \in [at : {"idle", "test", "first", "next", "store"}, frame : {0} \cup Frames]
    /\ received \in 0..MAX_FRAMES
    /\ reader \in {"idle", "wait", "dequeue"} /\ last \in {0} \cup Frames
    /\ read_wait \in BOOLEAN /\ hci_up \in BOOLEAN /\ files \in 0..2
    /\ torn \in {"no", "lost", "unstored", "partial"}

CharInit ==
    /\ front = -1 /\ rear = -1 /\ rsi_skb_queue = [i \in Slots |-> 0] /\ torn = "no"
    /\ adding = [at |-> "idle", frame |-> 0] /\ received = 0
    /\ reader = "idle" /\ last = 0
    /\ read_wait = FALSE /\ hci_up = FALSE /\ files = 0

(* the first break is remembered                                           *)
Breaks(why) == torn' = IF torn = "no" THEN why ELSE torn
Empty == front = -1

-----------------------------------------------------------------------------
(* rsi_btchr_open and rsi_btchr_close; one close stops the device for all  *)

CharOpen ==
    /\ files < 2 /\ files' = files + 1
    /\ hci_up' = TRUE
    /\ UNCHANGED <<ringVars, adding, received, readVars, read_wait>>

CharClose ==
    /\ files > 0 /\ reader = "idle" /\ files' = files - 1
    /\ hci_up' = FALSE
    /\ UNCHANGED <<ringVars, adding, received, readVars, read_wait>>

-----------------------------------------------------------------------------
(* The receive thread: rsi_send_to_stack, rsi_enqueue.                     *)

SendToStack ==
    /\ adding.at = "idle" /\ received < MAX_FRAMES /\ hci_up
    /\ received' = received + 1
    /\ adding' = [at |-> "test", frame |-> received']
    /\ UNCHANGED <<ringVars, readVars, read_wait, hci_up, files>>

(* a frame that finds the queue full is freed; the reader is woken anyway  *)
NextSlot(i) == (i + 1) % QUEUE_SIZE
Full_Never == FALSE
Full == front = NextSlot(rear)
EnqueueTests ==
    /\ adding.at = "test"
    /\ IF Full
         THEN adding' = [at |-> "idle", frame |-> 0] /\ read_wait' = TRUE
         ELSE adding' = [adding EXCEPT !.at = IF Empty THEN "first" ELSE "next"] /\ UNCHANGED read_wait
    /\ UNCHANGED <<ringVars, received, readVars, hci_up, files>>

(* the reader may have emptied the ring since the test: then the frame     *)
(* goes where nobody looks                                                 *)
EnqueueIndexes ==
    /\ adding' = [adding EXCEPT !.at = "store"]
    /\ \/ adding.at = "first" /\ front' = 0 /\ rear' = 0 /\ UNCHANGED torn
       \/ /\ adding.at = "next" /\ rear' = NextSlot(rear) /\ UNCHANGED front
          /\ IF Empty THEN Breaks("lost") ELSE UNCHANGED torn
    /\ UNCHANGED <<rsi_skb_queue, received, readVars, read_wait, hci_up, files>>

StoredAt_Front == front
StoredAt == rear
EnqueueStores ==
    /\ adding.at = "store"
    /\ rsi_skb_queue' = IF StoredAt = -1 THEN rsi_skb_queue
                        ELSE [rsi_skb_queue EXCEPT ![StoredAt] = adding.frame]
    /\ adding' = [at |-> "idle", frame |-> 0] /\ read_wait' = TRUE
    /\ UNCHANGED <<front, rear, torn, received, readVars, hci_up, files>>

-----------------------------------------------------------------------------
(* The reader: rsi_btchr_read, rsi_dequeue.                                *)

CharRead ==
    /\ reader = "idle" /\ files > 0
    /\ reader' = IF Empty THEN "wait" ELSE "dequeue"
    /\ UNCHANGED <<ringVars, adding, received, last, read_wait, hci_up, files>>

(* the event that is reset before the wait is another one                  *)
(* (chan_set_event), so once it was set this wait never waits again        *)
ReadWoken ==
    /\ reader = "wait" /\ read_wait
    /\ reader' = "dequeue"
    /\ UNCHANGED <<ringVars, adding, received, last, read_wait, hci_up, files>>

(* a queue found empty after the wait is answered -ENOMEM                  *)
DequeueNothing ==
    /\ reader = "dequeue" /\ Empty
    /\ reader' = "idle"
    /\ UNCHANGED <<ringVars, adding, received, last, read_wait, hci_up, files>>

(* a read long enough takes the frame; the slot may not be stored yet      *)
Unstored == adding.at = "store" /\ front = rear
LastLeaves_Kept == front' = NextSlot(front) /\ UNCHANGED rear
LastLeaves == front' = -1 /\ rear' = -1
Dequeue ==
    /\ reader = "dequeue" /\ ~Empty
    /\ reader' = "idle" /\ last' = rsi_skb_queue[front]
    /\ IF front = rear THEN LastLeaves ELSE front' = NextSlot(front) /\ UNCHANGED rear
    /\ IF Unstored THEN Breaks("unstored") ELSE UNCHANGED torn
    /\ UNCHANGED <<rsi_skb_queue, adding, received, read_wait, hci_up, files>>

(* a shorter read returns a copy of the beginning and frees the frame that *)
(* the slot still points to                                                *)
DequeuePart ==
    /\ reader = "dequeue" /\ ~Empty
    /\ reader' = "idle" /\ last' = rsi_skb_queue[front]
    /\ Breaks(IF Unstored THEN "unstored" ELSE "partial")
    /\ UNCHANGED <<front, rear, rsi_skb_queue, adding, received, read_wait, hci_up, files>>

-----------------------------------------------------------------------------
CharNext ==
    \/ CharOpen \/ CharClose
    \/ SendToStack \/ EnqueueTests \/ EnqueueIndexes \/ EnqueueStores
    \/ CharRead \/ ReadWoken \/ DequeueNothing \/ Dequeue \/ DequeuePart

CharSpec == CharInit /\ [][CharNext]_charVars

-----------------------------------------------------------------------------
(* The frames between the indices, without the slot being stored.          *)
Held == IF Empty THEN 0
        ELSE ((rear + QUEUE_SIZE - front) % QUEUE_SIZE) + (IF adding.at = "store" THEN 0 ELSE 1)
Content == [i \in 1..Held |-> rsi_skb_queue[(front + i - 1) % QUEUE_SIZE]]

Fifo == INSTANCE BtFifo WITH
    CAPACITY <- QUEUE_SIZE, content <- Content, taken <- last, broken <- (torn # "no")

(* The ring of rsi_91x_bluedroid.c is a queue until one of three things    *)
(* happens: the reader empties it between the test and the index of an     *)
(* enqueue, it takes a slot before the frame is stored, or it reads less   *)
(* than a frame.                                                           *)
RingIsFifo == Fifo!Spec
=============================================================================
