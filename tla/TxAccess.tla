------------------------------ MODULE TxAccess ------------------------------
(***************************************************************************)
(* The tx-access handshake between the driver's threads and the firmware's *)
(* low-power state machine (rsi_91x_ps.c, rsi_91x_mgmt.c, rsi_91x_hal.c).  *)
(*                                                                         *)
(* A thread that wants to write announces a tx_intention and waits for     *)
(* common_hal_tx_access.  The LMAC asks to sleep (ULP sleep entry); the    *)
(* host acknowledges when nobody intends to write, and answers a refused   *)
(* entry later, when the last intention is cleared.  The LMAC announces    *)
(* its wake-up (ULP sleep exit), which grants access again.                *)
(*                                                                         *)
(* Every section the code runs under tx_access_lock is one step.  Reads    *)
(* and writes it makes outside the lock are steps of their own.            *)
(***************************************************************************)
EXTENDS Naturals, Sequences

CONSTANTS
    Owners,      \* threads with a technology id of their own: the WLAN tx
                 \* scheduler (WLAN_ID) and the coex scheduler (BT_ZB_ID)
    Direct,      \* callers of rsi_send_pkt outside those threads (PER mode)
    COMMON_ID,   \* the id rsi_send_pkt uses
    AckOutcomes  \* what sending a sleep ack may come to

ASSUME IdsDistinct == COMMON_ID \notin Owners /\ Owners \cap Direct = {}
ASSUME OutcomesKnown == AckOutcomes \subseteq {"sent", "nomem", "buserr"}

VARIABLES
    tx_intention,          \* techs[id].tx_intention
    wait_for_tx_access,    \* techs[id].wait_for_tx_access
    common_hal_tx_access,
    sleep_entry_received,
    ulp_sleep_ack_sent,
    ulp_token,
    rx,                    \* the rx thread: "idle", or "scan" inside sleep_exit_recvd
    pc,                    \* where each tx thread stands
    asking,                \* the id its set_clr_tx_intention call is for
    lmac,                  \* firmware: "awake", "entry" (asked to sleep), "asleep"
    notes,                 \* ULP notifications on their way to the host
    acks                   \* tokens of the sleep acks on their way to the LMAC

access  == <<common_hal_tx_access, sleep_entry_received, ulp_sleep_ack_sent, ulp_token>>
wires   == <<lmac, notes, acks>>
vars    == <<tx_intention, wait_for_tx_access, access, rx, pc, asking, wires>>

Threads == Owners \cup Direct
Ids     == Owners \cup {COMMON_ID}

ULP_TOKEN  == "ULP_TOKEN"     \* the token of a sleep entry
EXIT_TOKEN == "0xABCD"        \* what a sleep exit leaves in ulp_token
Tokens     == {ULP_TOKEN, EXIT_TOKEN}
Notes      == {"ENTRY", "EXIT"}

TypeOK ==
    /\ tx_intention \in [Ids -> BOOLEAN]
    /\ wait_for_tx_access \in [Ids -> BOOLEAN]
    /\ common_hal_tx_access \in BOOLEAN
    /\ sleep_entry_received \in BOOLEAN
    /\ ulp_sleep_ack_sent \in BOOLEAN
    /\ ulp_token \in Tokens
    /\ rx \in {"idle", "scan"}
    /\ pc \in [Threads -> {"idle", "ask", "check", "wait_set", "waiting", "woken",
                           "run", "read_int", "read_access", "write",
                           "write_common", "clear_common", "clear"}]
    /\ asking \in [Threads -> Ids]
    /\ lmac \in {"awake", "entry", "asleep"}
    /\ notes \in Seq(Notes)
    /\ acks \in Seq(Tokens)

\* Probe is over: card ready has set common_hal_tx_access, nothing is queued.
Init ==
    /\ tx_intention = [id \in Ids |-> FALSE]
    /\ wait_for_tx_access = [id \in Ids |-> FALSE]
    /\ common_hal_tx_access = TRUE
    /\ sleep_entry_received = FALSE
    /\ ulp_sleep_ack_sent = FALSE
    /\ ulp_token = EXIT_TOKEN
    /\ rx = "idle"
    /\ pc = [t \in Threads |-> "idle"]
    /\ asking = [t \in Threads |-> IF t \in Owners THEN t ELSE COMMON_ID]
    /\ lmac = "awake"
    /\ notes = <<>>
    /\ acks = <<>>

-----------------------------------------------------------------------------
(* set_clr_tx_intention(id, 1), by thread t for the id asking[t]            *)

Goto(t, l) == pc' = [pc EXCEPT ![t] = l]

\* Where a call of rsi_send_pkt returns to.
Caller(t) == IF t \in Owners THEN "run" ELSE "idle"

\* rsi_tx_scheduler_thread / rsi_coex_scheduler_thread: its event is set.
WakeThread(t) ==
    /\ t \in Owners
    /\ pc[t] = "idle"
    /\ asking' = [asking EXCEPT ![t] = t]
    /\ Goto(t, "ask")
    /\ UNCHANGED <<tx_intention, wait_for_tx_access, access, rx, wires>>

SetIntention(t) ==
    /\ pc[t] = "ask"
    /\ tx_intention' = [tx_intention EXCEPT ![asking[t]] = TRUE]
    /\ Goto(t, "check")
    /\ UNCHANGED <<wait_for_tx_access, access, rx, asking, wires>>

\* The call returned 0, and what its caller does with that.
Granted(t) == Goto(t, IF asking[t] = COMMON_ID THEN "write_common" ELSE "run")

\* (mutant: the scheduler thread serves its queues whatever the call returned)
Denied_Ignored(t) == Goto(t, IF asking[t] = COMMON_ID THEN Caller(t) ELSE "run")

\* The call returned -EPERM or -ETIME.  The tx threads clear their intention;
\* rsi_send_pkt returns at once and leaves the COMMON_ID intention set.
Denied(t) == Goto(t, IF asking[t] = COMMON_ID THEN Caller(t) ELSE "clear")

CheckAccess(t) ==
    /\ pc[t] = "check"
    /\ IF common_hal_tx_access THEN Granted(t) ELSE Goto(t, "wait_set")
    /\ UNCHANGED <<tx_intention, wait_for_tx_access, access, rx, asking, wires>>

StartWait(t) ==
    /\ pc[t] = "wait_set"
    /\ wait_for_tx_access' = [wait_for_tx_access EXCEPT ![asking[t]] = TRUE]
    /\ Goto(t, "waiting")
    /\ UNCHANGED <<tx_intention, access, rx, asking, wires>>

WaitEnds(t) ==
    /\ pc[t] = "waiting"
    /\ ~wait_for_tx_access[asking[t]]
    /\ Goto(t, "woken")
    /\ UNCHANGED <<tx_intention, wait_for_tx_access, access, rx, asking, wires>>

\* wait_event_timeout runs out (6 s): the flag stays set behind it.
WaitTimesOut(t) ==
    /\ pc[t] = "waiting"
    /\ wait_for_tx_access[asking[t]]
    /\ Denied(t)
    /\ UNCHANGED <<tx_intention, wait_for_tx_access, access, rx, asking, wires>>

RecheckAccess(t) ==
    /\ pc[t] = "woken"
    /\ IF common_hal_tx_access THEN Granted(t) ELSE Denied(t)
    /\ UNCHANGED <<tx_intention, wait_for_tx_access, access, rx, asking, wires>>

-----------------------------------------------------------------------------
(* rsi_send_pkt                                                            *)

SendPkt(t) ==
    /\ \/ t \in Owners /\ pc[t] = "run"
       \/ t \in Direct /\ pc[t] = "idle"
    /\ Goto(t, "read_int")
    /\ UNCHANGED <<tx_intention, wait_for_tx_access, access, rx, asking, wires>>

TakeCommon(t) ==
    /\ asking' = [asking EXCEPT ![t] = COMMON_ID]
    /\ Goto(t, "ask")

\* techs[WLAN_ID].tx_intention || techs[BT_ZB_ID].tx_intention, unlocked
ReadIntentions(t) ==
    /\ pc[t] = "read_int"
    /\ IF \E o \in Owners : tx_intention[o]
       THEN Goto(t, "read_access") /\ UNCHANGED asking
       ELSE TakeCommon(t)
    /\ UNCHANGED <<tx_intention, wait_for_tx_access, access, rx, wires>>

\* then common_hal_tx_access, unlocked
ReadAccess(t) ==
    /\ pc[t] = "read_access"
    /\ IF common_hal_tx_access
       THEN Goto(t, "write") /\ UNCHANGED asking
       ELSE TakeCommon(t)
    /\ UNCHANGED <<tx_intention, wait_for_tx_access, access, rx, wires>>

\* write_pkt under tx_bus_lock.  It changes nothing the handshake reads; the
\* state before it is where the properties look at the LMAC.
WritePkt(t) ==
    /\ \/ pc[t] = "write" /\ Goto(t, Caller(t))
       \/ pc[t] = "write_common" /\ Goto(t, "clear_common")
    /\ UNCHANGED <<tx_intention, wait_for_tx_access, access, rx, asking, wires>>

-----------------------------------------------------------------------------
(* set_clr_tx_intention(id, 0)                                             *)

protocol_tx_access(intention) == \E id \in Ids : intention[id]

\* (mutant: the flag is not set, so the entry is acknowledged again)
SendAck_Unrecorded(token, outcome) ==
    /\ acks' = IF outcome = "sent" THEN Append(acks, token) ELSE acks
    /\ UNCHANGED ulp_sleep_ack_sent

\* rsi_send_ack_for_ulp_entry: -ENOMEM leaves before the flag is set, a bus
\* error after it.
SendAck(token, outcome) ==
    /\ ulp_sleep_ack_sent' = IF outcome = "nomem" THEN ulp_sleep_ack_sent ELSE TRUE
    /\ acks' = IF outcome = "sent" THEN Append(acks, token) ELSE acks

\* (mutant: the other threads' intentions are not looked at)
ClearIntention_Unchecked(id, outcome) ==
    /\ tx_intention' = [tx_intention EXCEPT ![id] = FALSE]
    /\ IF sleep_entry_received /\ ~ulp_sleep_ack_sent
       THEN common_hal_tx_access' = FALSE /\ SendAck(ulp_token, outcome)
       ELSE UNCHANGED <<common_hal_tx_access, ulp_sleep_ack_sent, acks>>
    /\ UNCHANGED <<sleep_entry_received, ulp_token>>

ClearIntention(id, outcome) ==
    /\ tx_intention' = [tx_intention EXCEPT ![id] = FALSE]
    /\ IF /\ sleep_entry_received
          /\ ~ulp_sleep_ack_sent
          /\ ~protocol_tx_access([tx_intention EXCEPT ![id] = FALSE])
       THEN common_hal_tx_access' = FALSE /\ SendAck(ulp_token, outcome)
       ELSE UNCHANGED <<common_hal_tx_access, ulp_sleep_ack_sent, acks>>
    /\ UNCHANGED <<sleep_entry_received, ulp_token>>

\* The scheduler threads, when the queues are served or access was denied.
ThreadDone(t) ==
    /\ t \in Owners
    /\ pc[t] \in {"run", "clear"}
    /\ \E o \in AckOutcomes : ClearIntention(t, o)
    /\ Goto(t, "idle")
    /\ UNCHANGED <<wait_for_tx_access, rx, asking, lmac, notes>>

\* rsi_send_pkt, when it took the COMMON_ID intention itself.
SendPktDone(t) ==
    /\ pc[t] = "clear_common"
    /\ \E o \in AckOutcomes : ClearIntention(COMMON_ID, o)
    /\ Goto(t, Caller(t))
    /\ UNCHANGED <<wait_for_tx_access, rx, asking, lmac, notes>>

-----------------------------------------------------------------------------
(* rsi_process_ulp_sleep_notify, in the rx thread                          *)

WakeAllWaiters == wait_for_tx_access' = [id \in Ids |-> FALSE]

NextNote(n) == /\ rx = "idle"
               /\ notes # <<>>
               /\ Head(notes) = n
               /\ notes' = Tail(notes)

\* (mutant: the answer still owed is not remembered)
RefuseEntry_Forgotten ==
    /\ common_hal_tx_access' = TRUE
    /\ WakeAllWaiters
    /\ UNCHANGED <<ulp_sleep_ack_sent, acks>>

\* Somebody intends to write: the LMAC is awake, so the waiters may go on,
\* and the acknowledgement is owed to it.
RefuseEntry ==
    /\ common_hal_tx_access' = TRUE
    /\ ulp_sleep_ack_sent' = FALSE
    /\ WakeAllWaiters
    /\ UNCHANGED acks

AllowEntry ==
    /\ common_hal_tx_access' = FALSE
    /\ \E o \in AckOutcomes : SendAck(ULP_TOKEN, o)
    /\ UNCHANGED wait_for_tx_access

SleepEntry ==
    /\ NextNote("ENTRY")
    /\ sleep_entry_received' = TRUE
    /\ ulp_token' = ULP_TOKEN
    /\ IF protocol_tx_access(tx_intention) THEN RefuseEntry ELSE AllowEntry
    /\ UNCHANGED <<tx_intention, rx, pc, asking, lmac>>

\* (mutant: the waiters are woken before access is granted)
GrantAccess_Late == /\ WakeAllWaiters
                    /\ UNCHANGED common_hal_tx_access

GrantAccess == /\ common_hal_tx_access' = TRUE
               /\ UNCHANGED wait_for_tx_access

\* sleep_exit_recvd: access is granted under the lock ...
SleepExit ==
    /\ NextNote("EXIT")
    /\ ulp_token' = EXIT_TOKEN
    /\ GrantAccess
    /\ rx' = "scan"
    /\ UNCHANGED <<tx_intention, sleep_entry_received, ulp_sleep_ack_sent, pc,
                   asking, lmac, acks>>

\* ... and the waiters are looked for after it is released.
SleepExitScan ==
    /\ rx = "scan"
    /\ WakeAllWaiters
    /\ rx' = "idle"
    /\ UNCHANGED <<tx_intention, access, pc, asking, wires>>

-----------------------------------------------------------------------------
(* The firmware, from the messages the driver exchanges with it            *)

LmacAsksToSleep ==
    /\ lmac = "awake"
    /\ lmac' = "entry"
    /\ notes' = Append(notes, "ENTRY")
    /\ UNCHANGED <<tx_intention, wait_for_tx_access, access, rx, pc, asking, acks>>

LmacGetsAck ==
    /\ acks # <<>>
    /\ acks' = Tail(acks)
    /\ lmac' = IF lmac = "entry" /\ Head(acks) = ULP_TOKEN THEN "asleep" ELSE lmac
    /\ UNCHANGED <<tx_intention, wait_for_tx_access, access, rx, pc, asking, notes>>

LmacWakes ==
    /\ lmac = "asleep"
    /\ lmac' = "awake"
    /\ notes' = Append(notes, "EXIT")
    /\ UNCHANGED <<tx_intention, wait_for_tx_access, access, rx, pc, asking, acks>>

\* "ULP sleep entry without sleep exit": it woke up with nothing to tell.
LmacAsksAgain ==
    /\ lmac = "asleep"
    /\ lmac' = "entry"
    /\ notes' = Append(notes, "ENTRY")
    /\ UNCHANGED <<tx_intention, wait_for_tx_access, access, rx, pc, asking, acks>>

-----------------------------------------------------------------------------
AskStep(t)  == SetIntention(t) \/ CheckAccess(t) \/ StartWait(t) \/ WaitEnds(t)
                  \/ WaitTimesOut(t) \/ RecheckAccess(t)
SendStep(t) == ReadIntentions(t) \/ ReadAccess(t) \/ WritePkt(t) \/ SendPktDone(t)
Thread(t)   == WakeThread(t) \/ AskStep(t) \/ SendPkt(t) \/ SendStep(t) \/ ThreadDone(t)
Rx          == SleepEntry \/ SleepExit \/ SleepExitScan
Lmac        == LmacAsksToSleep \/ LmacGetsAck \/ LmacWakes \/ LmacAsksAgain

Next == (\E t \in Threads : Thread(t)) \/ Rx \/ Lmac

Spec == Init /\ [][Next]_vars

(***************************************************************************)
(* The rx thread serves its queue, the LMAC reads its acks, and a kernel   *)
(* thread that can run does run.  Nothing obliges a thread to start a      *)
(* round, to stop sending, or the LMAC to change its state.                *)
(***************************************************************************)
Fairness ==
    /\ \A t \in Threads : WF_vars(AskStep(t)) /\ WF_vars(SendStep(t))
    /\ WF_vars(Rx)
    /\ WF_vars(LmacGetsAck)

FairSpec == Spec /\ Fairness

-----------------------------------------------------------------------------
(* Properties                                                              *)

\* The host has told the LMAC that it may sleep, and has not heard since.
SleepAllowed == acks # <<>> \/ lmac = "asleep"

\* Scheduler thread t is between a successful set_clr_tx_intention(t, 1) and
\* the clear.
Holds(t) == pc[t] \in {"run", "read_int", "read_access", "write"}

\* A scheduler thread that was granted access never has it withdrawn: from
\* the grant until it clears its intention the LMAC is not asleep and has no
\* acknowledgement on its way, whatever the other threads, the PER callers
\* and the LMAC do (rsi_tx_scheduler_thread, rsi_coex_scheduler_thread).
OwnersWriteAwake == \A t \in Owners : Holds(t) => common_hal_tx_access /\ ~SleepAllowed

\* A scheduler thread woken from its wait always finds access granted: the
\* -EPERM return of set_clr_tx_intention never reaches it.
WokenIsGranted ==
    \A t \in Owners : pc[t] = "woken" /\ asking[t] = t => common_hal_tx_access

\* The LMAC never gets an acknowledgement it does not wait for, or two for
\* one entry, or one with the token a sleep exit left behind.
AckMatchesEntry ==
    acks # <<>> => lmac = "entry" /\ acks = <<ULP_TOKEN>>

\* A refused sleep entry is not forgotten: with no intention left and the
\* notification processed, the acknowledgement is on its way (this needs the
\* ack to be sent whenever it is tried).
RefusedEntryAnswered ==
    lmac = "entry" /\ notes = <<>> /\ ~protocol_tx_access(tx_intention) => acks # <<>>

\* Any write_pkt, by whichever thread, meets an LMAC that may not sleep.
EveryWriteAwake ==
    \A t \in Threads : pc[t] \in {"write", "write_common"} => ~SleepAllowed

\* If every intention is dropped again and again, a pending sleep entry,
\* refused or not, ends in an acknowledgement and the LMAC sleeps.  (Nothing
\* in the code makes two busy threads leave a gap between their intentions.)
EntryLeadsToSleep ==
    []<>~protocol_tx_access(tx_intention) => (lmac = "entry" ~> lmac = "asleep")

\* What makes the properties above inductive.  AnswerOwed is the one state in
\* which clearing an intention may take access away; it cannot coexist with a
\* sleep exit being processed, with an ack on its way, or with a sleeping LMAC.
AnswerOwed == sleep_entry_received /\ ~ulp_sleep_ack_sent

OwnersInv ==
    \A t \in Owners :
        /\ asking[t] = t
        /\ pc[t] \notin {"write_common", "clear_common"}
        /\ pc[t] \in {"check", "wait_set", "waiting", "woken"} \/ Holds(t)
              => tx_intention[t]
        /\ Holds(t) \/ pc[t] = "woken" => common_hal_tx_access
        /\ pc[t] = "waiting" /\ ~wait_for_tx_access[t] => common_hal_tx_access

LinkInv ==
    /\ rx = "scan" => common_hal_tx_access
    /\ AnswerOwed => /\ lmac = "entry" /\ notes = <<>> /\ acks = <<>>
                     /\ rx = "idle" /\ ulp_token = ULP_TOKEN
    /\ acks # <<>> => /\ lmac = "entry" /\ notes = <<>> /\ acks = <<ULP_TOKEN>>
                      /\ rx = "idle" /\ ~common_hal_tx_access
    /\ lmac = "asleep" => /\ notes = <<>> /\ acks = <<>>
                          /\ rx = "idle" /\ ~common_hal_tx_access
    /\ lmac = "awake" => notes \in {<<>>, <<"EXIT">>}
    /\ lmac = "entry" => notes \in {<<>>, <<"ENTRY">>, <<"EXIT", "ENTRY">>}

Inv == TypeOK /\ OwnersInv /\ LinkInv

\* With acks that never fail: an entry that was processed and not answered is
\* owed its answer by somebody who still intends to write.
AnswerInv ==
    lmac = "entry" /\ notes = <<>> /\ acks = <<>>
        => AnswerOwed /\ protocol_tx_access(tx_intention)

Inside == {t \in Owners : Holds(t)}

Gate == INSTANCE TxGate WITH Users <- Owners, inside <- Inside, closed <- SleepAllowed

\* The handshake implements the gate for the scheduler threads.
GateSpec == Gate!Spec
=============================================================================
