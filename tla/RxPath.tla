------------------------------- MODULE RxPath -------------------------------
(***************************************************************************)
(* From a received buffer to mac80211: rsi_read_pkt takes the packets of a *)
(* buffer one by one, rsi_indicate_pkt_to_os completes the subframes of an *)
(* A-MSDU with the header of the first one, which it keeps in              *)
(* common->last_mac_hdr.  What it does with a subframe depends on          *)
(* adapter->amsdu_bit, which outlives the packet that set it.              *)
(***************************************************************************)
EXTENDS Integers, Sequences

CONSTANT MAX_AMSDUS    \* bound of the model: A-MSDUs the device receives

ASSUME RxAssumption == MAX_AMSDUS \in Nat

VARIABLES
    rx_down,        \* common->iface_down
    amsdu_bit,      \* adapter->amsdu_bit
    last_mac_hdr,   \* the header common->last_mac_hdr holds
    air,            \* [id, open]: A-MSDUs so far; the last one is not complete yet
    buffer,         \* the packets of the buffer that are still to be read
    given,          \* the frame given to mac80211 last: [part, id, hdr: the header put before it]
    inside,         \* auxiliary: between the first and the last subframe of an A-MSDU
    rxUpset         \* auxiliary: why the header kept is not that of the A-MSDU under way

rxVars == <<rx_down, amsdu_bit, last_mac_hdr, air, buffer, given, inside, rxUpset>>

(* parts of an A-MSDU; frames that are none, of the data or the management queue *)
Parts == {"first", "middle", "last"}
Singles == {"single", "mgmt"}

(* a header: of an A-MSDU, by its number, or one of these                  *)
Other == 0
NoHeader == -1
Zeroed == -2
Headers == Zeroed..MAX_AMSDUS
Packets == [part : Parts \cup Singles \cup {"invalid"}, id : 0..MAX_AMSDUS]

RxTypeOK ==
    /\ rx_down \in BOOLEAN /\ inside \in BOOLEAN /\ amsdu_bit \in 0..3
    /\ last_mac_hdr \in Headers
    /\ air \in [id : 0..MAX_AMSDUS, open : BOOLEAN]
    /\ buffer \in Seq(Packets)
    /\ given \in [part : Parts \cup Singles, id : 0..MAX_AMSDUS, hdr : Headers]
    /\ rxUpset \subseteq {"lost", "between", "down"}

RxInit ==
    /\ rx_down = FALSE /\ amsdu_bit = 0 /\ last_mac_hdr = Zeroed
    /\ air = [id |-> 0, open |-> FALSE] /\ buffer = <<>>
    /\ given = [part |-> "single", id |-> 0, hdr |-> NoHeader]
    /\ inside = FALSE /\ rxUpset = {}

(* the device fills the next buffer: subframes in their order, and other   *)
(* packets before, between and behind them                                 *)
NextPackets ==
    { p \in Packets :
         \/ p.part \in Singles \cup {"invalid"} /\ p.id = 0
         \/ p.part = "first" /\ ~air.open /\ p.id = air.id + 1
         \/ p.part \in {"middle", "last"} /\ air.open /\ p.id = air.id }
DeviceFills ==
    /\ Len(buffer) < 2
    /\ \E p \in NextPackets :
          /\ buffer' = Append(buffer, p)
          /\ air' = IF p.part \notin Parts THEN air
                    ELSE [id |-> p.id, open |-> p.part # "last"]
    /\ UNCHANGED <<rx_down, amsdu_bit, last_mac_hdr, given, inside, rxUpset>>

-----------------------------------------------------------------------------
(* rsi_indicate_pkt_to_os, with amsdu_bit as bit.                          *)

(* a header is kept of every frame while amsdu_bit is 1 ...                *)
HeaderOf(p) == IF p.part \in Parts THEN p.id ELSE Other
(* ... put before every frame while it is 2 or 3, and forgotten after 3    *)
Pushed(bit) == IF bit \in {2, 3} THEN last_mac_hdr ELSE NoHeader
KeptHeader(bit, p) == IF bit = 1 THEN HeaderOf(p) ELSE IF bit = 3 THEN Zeroed ELSE last_mac_hdr
BitAfter_Kept(bit) == IF bit = 3 THEN 2 ELSE bit
BitAfter(bit) == IF bit = 3 THEN 0 ELSE bit

(* an A-MSDU's first subframe puts everything right again                  *)
Disturbs(p) ==
    IF p.part = "first" THEN {} ELSE
    rxUpset \cup (IF p.part \in Singles /\ inside THEN {"between"} ELSE {})

IndicateToOs(p, bit) ==
    IF rx_down
      THEN /\ amsdu_bit' = bit /\ UNCHANGED <<last_mac_hdr, given>>
           /\ rxUpset' = IF p.part \in Parts THEN rxUpset \cup {"down"} ELSE rxUpset
      ELSE /\ last_mac_hdr' = KeptHeader(bit, p)
           /\ amsdu_bit' = BitAfter(bit)
           /\ given' = [part |-> p.part, id |-> p.id, hdr |-> Pushed(bit)]
           /\ rxUpset' = Disturbs(p)

-----------------------------------------------------------------------------
(* rsi_read_pkt, one packet.                                               *)

Takes(p) == buffer # <<>> /\ Head(buffer) = p
Left == buffer' = Tail(buffer)

(* bits 25, 22 and 23 of the descriptor; a packet without bit 25 leaves    *)
(* amsdu_bit as it is                                                      *)
BitOf(part) ==
    IF part = "first" THEN 1 ELSE IF part = "last" THEN 3 ELSE IF part = "middle" THEN 2 ELSE amsdu_bit

ReadData(p) ==
    /\ Takes(p) /\ p.part \in Parts \cup {"single"} /\ Left
    /\ IndicateToOs(p, BitOf(p.part))
    /\ inside' = IF p.part = "single" THEN inside ELSE p.part # "last"
    /\ UNCHANGED <<rx_down, air>>

(* rsi_mgmt_pkt_to_core, which looks at iface_down first                   *)
ReadMgmt(p) ==
    /\ Takes(p) /\ p.part = "mgmt" /\ Left
    /\ IF rx_down THEN UNCHANGED <<amsdu_bit, last_mac_hdr, given, rxUpset>>
       ELSE IndicateToOs(p, amsdu_bit)
    /\ UNCHANGED <<rx_down, air, inside>>

(* no memory for a data packet, or a packet nobody knows: the rest of the  *)
(* buffer is not read                                                      *)
PacketUnreadable(p) ==
    /\ Takes(p) /\ p.part # "mgmt" /\ buffer' = <<>>
    /\ rxUpset' = rxUpset \cup (IF \E i \in DOMAIN buffer : buffer[i].part \in Parts
                                  THEN {"lost"} ELSE {})
    /\ UNCHANGED <<rx_down, amsdu_bit, last_mac_hdr, air, given, inside>>

RxIfaceChanges ==
    /\ rx_down' = ~rx_down
    /\ UNCHANGED <<amsdu_bit, last_mac_hdr, air, buffer, given, inside, rxUpset>>

RxNext ==
    \/ DeviceFills \/ RxIfaceChanges
    \/ \E p \in Packets : ReadData(p) \/ ReadMgmt(p) \/ PacketUnreadable(p)

RxSpec == RxInit /\ [][RxNext]_rxVars

-----------------------------------------------------------------------------
(* What mac80211 is given is a whole frame: a later subframe of an A-MSDU  *)
(* with the header of its own first one, any other frame with none before  *)
(* it.  Until the next A-MSDU begins this ends with a subframe lost or     *)
(* dropped while the interface was down, and with a frame of another kind  *)
(* between the subframes (main.c:637, mac80211.c:2784).                    *)
HeadersBelong ==
    rxUpset = {} =>
        given.hdr = IF given.part \in {"middle", "last"} THEN given.id ELSE NoHeader
=============================================================================
