------------------------------- MODULE BtFifo -------------------------------
(***************************************************************************)
(* What the queue between the receive thread and a reader of the Bluetooth *)
(* character device promises: frames come out in the order they went in,   *)
(* none twice, and one that finds the queue full is dropped.  The promise  *)
(* ends when the queue breaks.                                             *)
(***************************************************************************)
EXTENDS Naturals, Sequences

CONSTANTS CAPACITY, Frames

VARIABLES
    content,   \* the frames in the queue, oldest first
    taken,     \* the frame a reader took last
    broken     \* no promise any more

Init == content = <<>> /\ taken \notin Frames /\ broken = FALSE

Put ==
    /\ Len(content) < CAPACITY
    /\ \E f \in Frames \ {content[i] : i \in DOMAIN content} :
          f # taken /\ content' = Append(content, f)
    /\ UNCHANGED <<taken, broken>>

Take ==
    /\ content # <<>>
    /\ taken' = Head(content) /\ content' = Tail(content)
    /\ UNCHANGED broken

Break == broken' = TRUE

Next == ~broken /\ (Put \/ Take \/ Break)

Spec == Init /\ [][~broken => Next]_<<content, taken, broken>>
=============================================================================
