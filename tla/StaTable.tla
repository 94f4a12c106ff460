------------------------------ MODULE StaTable ------------------------------
(***************************************************************************)
(* The table of peers, common->stations: stations that join and leave an   *)
(* access point (rsi_mac80211_sta_add, sta_remove), the access point of a  *)
(* station, their pairwise keys (set_key), their aggregation sessions      *)
(* (rsi_core_xmit, ampdu_action), a restore from hibernation, and what the *)
(* device has been told through the queue of management frames.  The       *)
(* default build: one interface, peers 0 to MaxStations-1 of an access     *)
(* point and the entry Own (RSI_MAX_ASSOC_STAS) for the peer of a station. *)
(*                                                                         *)
(* rsi_send_internal_mgmt_frame puts a peer notification at the head of    *)
(* the queue and every other frame at its tail; the tx thread takes from   *)
(* the head.  A frame is lost only when it cannot be allocated.            *)
(***************************************************************************)
EXTENDS Integers, Sequences, FiniteSets

CONSTANTS
    Stas,           \* peers mac80211 may upload
    NoSta,          \* no peer
    MaxStations,    \* common->max_stations
    Tids,           \* traffic identifiers
    NoTid,          \* no sequence number
    MaxQueue,       \* bound on the queue, which has none in the code
    MaxSessions,    \* bound on the aggregation sessions at a time
    MaxStaTroubles  \* bound on the different things that go wrong

ASSUME StaTableAssumption ==
    /\ NoSta \notin Stas
    /\ NoTid \notin Tids
    /\ MaxStations \in Nat \ {0}
    /\ MaxQueue \in Nat /\ MaxSessions \in Nat /\ MaxStaTroubles \in Nat

VARIABLES
    role,           \* the type of the interface: "AP" or "STATION"
    uploaded,       \* the peers mac80211 believes the driver knows
    linked,         \* the peers mac80211 has reported associated
    keyed,          \* the peers mac80211 has given a pairwise key
    session,        \* mac80211's aggregation session of each peer and TID
    stations,       \* common->stations[i].sta
    num_stations,
    start_tx_aggr,  \* common->stations[i].start_tx_aggr
    seq_start,      \* stations[i].seq_start of an access point, vif_info[0].seq_start
                    \* of a station: the TID whose starting number was stored last
    mgmtQ,          \* common->tx_queue[MGMT_SOFT_Q]
    fwPeer,         \* the device's peers, by sta_id
    fwKey,          \* the peer whose key the device holds, by sta_id
    fwStart,        \* the starting number of the device's session of each TID
    staUpset        \* auxiliary: what has gone wrong so far

staVars == <<role, uploaded, linked, keyed, session, stations, num_stations, start_tx_aggr,
             seq_start, mgmtQ, fwPeer, fwKey, fwStart, staUpset>>
macVars == <<uploaded, linked, keyed, session>>
tableVars == <<stations, num_stations, start_tx_aggr, seq_start>>
deviceVars == <<fwPeer, fwKey, fwStart>>

Own    == MaxStations            \* the entry of a station's access point
Slots  == 0 .. MaxStations - 1
StaId(i) == IF i = Own THEN 0 ELSE i     \* stations[Own].sta_id is 0

Phases == {"none", "wanted", "started", "up", "stuck"}
StaTroubles == {"lost", "overtaken", "restored", "stopped", "refused", "two_starts"}
Peers  == Stas \union {NoSta}

Frame ==
    [kind : {"add", "delete", "key"}, id : Slots, sta : Stas]
    \union [kind : {"ba"}, tid : Tids, start : Tids \union {NoTid}]

StaTypeOK ==
    /\ role \in {"AP", "STATION"}
    /\ uploaded \subseteq Stas /\ linked \subseteq Stas /\ keyed \subseteq Stas
    /\ session \in [Stas \X Tids -> Phases]
    /\ stations \in [Slots \union {Own} -> Peers]
    /\ num_stations \in 0 .. MaxStations
    /\ start_tx_aggr \in [(Slots \union {Own}) \X Tids -> BOOLEAN]
    /\ seq_start \in [Slots \union {Own} -> Tids \union {NoTid}]
    /\ mgmtQ \in Seq(Frame)
    /\ fwPeer \in [Slots -> Peers] /\ fwKey \in [Slots -> Peers]
    /\ fwStart \in [Tids -> Tids \union {NoTid}]
    /\ staUpset \subseteq StaTroubles

NoSessions == [p \in Stas \X Tids |-> "none"]
NoAggr     == [p \in (Slots \union {Own}) \X Tids |-> FALSE]
Nobody     == [i \in Slots \union {Own} |-> NoSta]
NoPeers    == [i \in Slots |-> NoSta]

StaInit ==
    /\ role \in {"AP", "STATION"}
    /\ uploaded = {} /\ linked = {} /\ keyed = {} /\ session = NoSessions
    /\ stations = Nobody /\ num_stations = 0 /\ start_tx_aggr = NoAggr
    /\ seq_start = [i \in Slots \union {Own} |-> NoTid]
    /\ mgmtQ = << >>
    /\ fwPeer = NoPeers /\ fwKey = NoPeers /\ fwStart = [t \in Tids |-> NoTid]
    /\ staUpset = {}

-----------------------------------------------------------------------------
(* The queue. *)

(* Mutant: the notification carries peer number 0. *)
NotifyPeerZero(kind, i, s) == [kind |-> kind, id |-> 0, sta |-> s]

(* rsi_send_sta_notify_frame and rsi_load_key: what a frame carries *)
Notify(kind, i, s) == [kind |-> kind, id |-> StaId(i), sta |-> s]

(* Mutant: keys are loaded for peer 0. *)
LoadKeyPeerZero(i, s) == [kind |-> "key", id |-> 0, sta |-> s]

LoadKey(i, s)      == [kind |-> "key", id |-> StaId(i), sta |-> s]
(* rsi_send_aggr_params_frame: the peer is 0, whoever it is *)
Aggr(t, start)     == [kind |-> "ba", tid |-> t, start |-> start]

(* rsi_send_internal_mgmt_frame *)
Enqueued(q, f) == IF f.kind \in {"add", "delete"} THEN <<f>> \o q ELSE Append(q, f)

(* A notification that overtakes another of the same peer number. *)
Overtakes(f) ==
    /\ f.kind \in {"add", "delete"}
    /\ \E n \in DOMAIN mgmtQ : mgmtQ[n].kind \in {"add", "delete"} /\ mgmtQ[n].id = f.id

Lossy == IF "lost" \in staUpset THEN {TRUE} ELSE BOOLEAN
Sent(f, ok, more) ==
    /\ Len(mgmtQ) < MaxQueue
    /\ mgmtQ' = IF ok THEN Enqueued(mgmtQ, f) ELSE mgmtQ
    /\ staUpset' = staUpset \union more
                     \union (IF ok THEN {} ELSE {"lost"})
                     \union (IF ok /\ Overtakes(f) THEN {"overtaken"} ELSE {})

(* The tx thread takes the frame at the head and the device acts on it. *)
DeliverFrame ==
    /\ mgmtQ # << >>
    /\ mgmtQ' = Tail(mgmtQ)
    /\ LET f == Head(mgmtQ)
       IN  /\ fwPeer' = CASE f.kind = "add"    -> [fwPeer EXCEPT ![f.id] = f.sta]
                          [] f.kind = "delete" -> [fwPeer EXCEPT ![f.id] = NoSta]
                          [] OTHER             -> fwPeer
           /\ fwKey' = IF f.kind = "key" THEN [fwKey EXCEPT ![f.id] = f.sta] ELSE fwKey
           /\ fwStart' = IF f.kind = "ba" THEN [fwStart EXCEPT ![f.tid] = f.start] ELSE fwStart
    /\ UNCHANGED <<role, macVars, tableVars, staUpset>>

-----------------------------------------------------------------------------
(* Peers of an access point. *)

(* rsi_find_sta *)
SlotOf(s) == CHOOSE i \in Slots : stations[i] = s
Known(s)  == \E i \in Slots : stations[i] = s

Entry(s) == IF role = "AP" THEN SlotOf(s) ELSE Own

NewAggr(i) == [p \in DOMAIN start_tx_aggr |-> IF p[1] = i THEN FALSE ELSE start_tx_aggr[p]]

(* "Check if max stations reached" *)
TableFull == num_stations >= MaxStations

(* the first free entry *)
FreeSlot == CHOOSE i \in Slots : /\ stations[i] = NoSta
                                 /\ \A j \in Slots : stations[j] = NoSta => i <= j

(* Mutant: the new station is not counted. *)
Uncounted(n) == n

CountedAfter(n) == n + 1

(* rsi_mac80211_sta_add for an access point; a station the table knows is not notified *)
StaAdd == \E s \in Stas, ok \in Lossy :
    /\ role = "AP" /\ s \notin uploaded /\ ~TableFull
    /\ uploaded' = uploaded \union {s}
    /\ IF Known(s)
         THEN /\ start_tx_aggr' = NewAggr(SlotOf(s))
              /\ UNCHANGED <<stations, num_stations, mgmtQ, staUpset>>
         ELSE /\ stations' = [stations EXCEPT ![FreeSlot] = s]
              /\ num_stations' = CountedAfter(num_stations)
              /\ start_tx_aggr' = NewAggr(FreeSlot)
              /\ Sent(Notify("add", FreeSlot, s), ok, {})
    /\ UNCHANGED <<role, linked, keyed, session, seq_start, deviceVars>>

(* rsi_mac80211_sta_remove for an access point; mac80211 has ended the sessions and
   taken the key back *)
StaRemove(s) == \E ok \in Lossy :
    /\ role = "AP" /\ s \in uploaded /\ s \notin keyed
    /\ \A t \in Tids : session[<<s, t>>] \in {"none", "wanted", "stuck"}
    /\ uploaded' = uploaded \ {s}
    /\ session' = [p \in Stas \X Tids |-> IF p[1] = s THEN "none" ELSE session[p]]
    /\ IF Known(s)
         THEN /\ stations' = [stations EXCEPT ![SlotOf(s)] = NoSta]
              /\ num_stations' = IF num_stations > 0 THEN num_stations - 1 ELSE 0
              /\ Sent(Notify("delete", SlotOf(s), s), ok, {})
         ELSE UNCHANGED <<stations, num_stations, mgmtQ, staUpset>>
    /\ UNCHANGED <<role, linked, keyed, start_tx_aggr, seq_start, deviceVars>>

-----------------------------------------------------------------------------
(* The access point of a station. *)

OwnAdd(s) ==
    /\ role = "STATION" /\ uploaded = {} /\ linked = {}
    /\ uploaded' = {s}
    /\ stations' = [stations EXCEPT ![Own] = s]
    /\ start_tx_aggr' = NewAggr(Own)
    /\ UNCHANGED <<role, linked, keyed, session, num_stations, seq_start, mgmtQ, deviceVars,
                   staUpset>>

OwnRemove(s) ==
    /\ role = "STATION" /\ s \in uploaded /\ s \notin keyed
    /\ \A t \in Tids : session[<<s, t>>] \in {"none", "wanted", "stuck"}
    /\ uploaded' = {}
    /\ session' = NoSessions
    /\ stations' = [stations EXCEPT ![Own] = NoSta]
    /\ start_tx_aggr' = NewAggr(Own)
    /\ seq_start' = [seq_start EXCEPT ![Own] = NoTid]
    /\ UNCHANGED <<role, linked, keyed, num_stations, mgmtQ, deviceVars, staUpset>>

(* rsi_inform_bss_status: the peer is notified between sta_add and sta_remove, its
   deletion after sta_remove *)
OwnLinked(s) == \E ok \in Lossy :
    /\ role = "STATION" /\ s \in uploaded /\ linked = {}
    /\ linked' = {s}
    /\ Sent(Notify("add", Own, s), ok, {})
    /\ UNCHANGED <<role, uploaded, keyed, session, tableVars, deviceVars>>

OwnUnlinked(s) == \E ok \in Lossy :
    /\ role = "STATION" /\ s \in linked /\ uploaded = {}
    /\ linked' = {}
    /\ Sent(Notify("delete", Own, s), ok, {})
    /\ UNCHANGED <<role, uploaded, keyed, session, tableVars, deviceVars>>

-----------------------------------------------------------------------------
(* Pairwise keys: rsi_mac80211_set_key and rsi_hal_key_config.  DISABLE_KEY loads the
   key once more. *)

KeyPeer(s) == s \in uploaded /\ (role = "AP" \/ s \in linked)

SetKey(s) == \E ok \in Lossy :
    /\ KeyPeer(s) /\ s \notin keyed
    /\ keyed' = IF ok THEN keyed \union {s} ELSE keyed
    /\ Sent(LoadKey(Entry(s), s), ok, {})
    /\ UNCHANGED <<role, uploaded, linked, session, tableVars, deviceVars>>

DisableKey(s) == \E ok \in Lossy :
    /\ s \in keyed
    /\ keyed' = keyed \ {s}
    /\ Sent(LoadKey(Entry(s), s), ok, {})
    /\ UNCHANGED <<role, uploaded, linked, session, tableVars, deviceVars>>

-----------------------------------------------------------------------------
(* Aggregation. *)

Sessions == {p \in Stas \X Tids : session[p] # "none"}

(* rsi_core_xmit: the first data frame of a TID asks for a session, once; mac80211 may
   refuse, and the result is not looked at *)
XmitStarts(s, t) == \E accepted \in BOOLEAN :
    /\ KeyPeer(s) /\ ~start_tx_aggr[<<Entry(s), t>>] /\ session[<<s, t>>] = "none"
    /\ Cardinality(Sessions) < MaxSessions
    /\ start_tx_aggr' = [start_tx_aggr EXCEPT ![<<Entry(s), t>>] = TRUE]
    /\ session' = [session EXCEPT ![<<s, t>>] = IF accepted THEN "wanted" ELSE "none"]
    /\ staUpset' = staUpset \union (IF accepted THEN {} ELSE {"refused"})
    /\ UNCHANGED <<role, uploaded, linked, keyed, stations, num_stations, seq_start, mgmtQ,
                   deviceVars>>

(* Mutant: only the first session stores its number. *)
FirstStart(s, t) == IF seq_start[Entry(s)] = NoTid THEN t ELSE seq_start[Entry(s)]

(* rsi_mac80211_ampdu_action, IEEE80211_AMPDU_TX_START: one starting number per entry *)
StoredStart(s, t) == t
TxStart(s, t) ==
    /\ session[<<s, t>>] = "wanted"
    /\ session' = [session EXCEPT ![<<s, t>>] = "started"]
    /\ seq_start' = [seq_start EXCEPT ![Entry(s)] = StoredStart(s, t)]
    /\ staUpset' = staUpset \union
         (IF \E u \in Tids \ {t} : session[<<s, u>>] = "started" THEN {"two_starts"} ELSE {})
    /\ UNCHANGED <<role, uploaded, linked, keyed, stations, num_stations, start_tx_aggr, mgmtQ,
                   deviceVars>>

(* IEEE80211_AMPDU_TX_OPERATIONAL *)
TxOperational(s, t) == \E ok \in Lossy :
    /\ session[<<s, t>>] = "started"
    /\ session' = [session EXCEPT ![<<s, t>>] = "up"]
    /\ Sent(Aggr(t, seq_start[Entry(s)]), ok, {})
    /\ UNCHANGED <<role, uploaded, linked, keyed, tableVars, deviceVars>>

(* Mutant: the entry is not cleared. *)
AggrKept(t) == start_tx_aggr

(* IEEE80211_AMPDU_TX_STOP_*: the callback is skipped when the frame fails; the entry of
   a station is cleared, whichever the peer *)
ClearedAggr(t) == [start_tx_aggr EXCEPT ![<<Own, t>>] = FALSE]
TxStop(s, t) == \E ok \in Lossy :
    /\ session[<<s, t>>] \in {"started", "up"}
    /\ session' = [session EXCEPT ![<<s, t>>] = IF ok THEN "none" ELSE "stuck"]
    /\ start_tx_aggr' = IF ok THEN ClearedAggr(t) ELSE start_tx_aggr
    /\ Sent(Aggr(t, NoTid), ok, IF role = "AP" THEN {"stopped"} ELSE {})
    /\ UNCHANGED <<role, uploaded, linked, keyed, stations, num_stations, seq_start, deviceVars>>

-----------------------------------------------------------------------------
(* rsi_restore and the addition of the interface it leads to: the device and the entries
   of an access point start afresh, the count and the entry of a station do not.
   mac80211 uploads its peers again. *)
StaRestore ==
    /\ mgmtQ = << >> /\ role = "AP" /\ "restored" \notin staUpset
    /\ uploaded' = {} /\ keyed' = {} /\ session' = NoSessions
    /\ stations' = [i \in Slots \union {Own} |-> IF i = Own THEN stations[i] ELSE NoSta]
    /\ fwPeer' = NoPeers /\ fwKey' = NoPeers /\ fwStart' = [t \in Tids |-> NoTid]
    /\ staUpset' = staUpset \union {"restored"}
    /\ UNCHANGED <<role, linked, num_stations, start_tx_aggr, seq_start, mgmtQ>>

StaNext ==
    /\ \/ DeliverFrame \/ StaAdd \/ StaRestore
       \/ \E s \in Stas :
            \/ StaRemove(s) \/ OwnAdd(s) \/ OwnRemove(s) \/ OwnLinked(s) \/ OwnUnlinked(s)
            \/ SetKey(s) \/ DisableKey(s)
            \/ \E t \in Tids : \/ XmitStarts(s, t) \/ TxStart(s, t)
                               \/ TxOperational(s, t) \/ TxStop(s, t)
    /\ Cardinality(staUpset') <= MaxStaTroubles

StaSpec == StaInit /\ [][StaNext]_staVars

-----------------------------------------------------------------------------
Without(troubles) == staUpset \intersect troubles = {}

(* sta_add and sta_remove (mac80211.c:2831-3087) keep the table, its count and
   mac80211's peers in step, so that a station is turned away only when every entry is
   taken; a restore empties the table and not the count. *)
TableAgrees ==
    /\ {stations[i] : i \in Slots} \ {NoSta} = (IF role = "AP" THEN uploaded ELSE {})
    /\ \A i, j \in Slots : stations[i] = stations[j] /\ stations[i] # NoSta => i = j
    /\ Without({"restored"}) => num_stations = Cardinality({i \in Slots : stations[i] # NoSta})

(* Once the queue has drained the device knows the peers of the table, under their
   numbers; two notifications of one number that meet in the queue arrive the other way
   round (mgmt.c:734). *)
DeviceKnowsPeers ==
    mgmtQ = << >> /\ Without({"lost", "overtaken"}) =>
        \A i \in Slots :
            fwPeer[i] = IF role = "AP" THEN stations[i]
                        ELSE IF i = 0 /\ linked # {} THEN CHOOSE s \in linked : TRUE ELSE NoSta

(* The key the device holds for a peer's number is that peer's, whatever keys of peers
   gone before were in the queue (rsi_load_key after rsi_find_sta). *)
KeyOfPeer ==
    mgmtQ = << >> /\ Without({"lost"}) =>
        \A s \in keyed : fwKey[StaId(Entry(s))] = s

(* A session starts in the device where mac80211 said, except when a second TID of the
   peer starts before the first is operational (one seq_start for all). *)
StartsAsAgreed ==
    Without({"two_starts"}) =>
        /\ \A t \in Tids : fwStart[t] \in {t, NoTid}
        /\ \A n \in DOMAIN mgmtQ : mgmtQ[n].kind = "ba" => mgmtQ[n].start \in {mgmtQ[n].tid, NoTid}

(* A TID whose session has ended may ask for another (core.c:648, mgmt.c:1270): true of a
   station; the stop of an access point's session clears the wrong entry, and a request
   mac80211 refused is never repeated. *)
MayAggregateAgain ==
    Without({"lost", "stopped", "refused"}) =>
        \A s \in uploaded, t \in Tids :
            start_tx_aggr[<<Entry(s), t>>] => session[<<s, t>>] # "none"

(* Safety of the peers: the table, the device, the keys and the aggregation sessions. *)
StaInv ==
    /\ StaTypeOK /\ TableAgrees /\ DeviceKnowsPeers /\ KeyOfPeer
    /\ StartsAsAgreed /\ MayAggregateAgain
=============================================================================
