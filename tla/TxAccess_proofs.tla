-------------------------- MODULE TxAccess_proofs --------------------------
(***************************************************************************)
(* Proofs about TxAccess, for any set of scheduler threads, any set of PER *)
(* callers and any outcome of sending an acknowledgement.                  *)
(***************************************************************************)
EXTENDS TxAccess, SequenceTheorems, TLAPS

AskLabels == {"ask", "check", "wait_set", "waiting", "woken"}

USE IdsDistinct, OutcomesKnown DEF Threads, Ids, ULP_TOKEN, EXIT_TOKEN, access, wires

(***************************************************************************)
(* The channels: what Append, Head and Tail do to the few contents that    *)
(* the notification and the acknowledgement channel ever have.             *)
(***************************************************************************)

\* What the notification channel of the firmware holds before and after the
\* LMAC adds to it or the rx thread takes from it (rsi_process_ulp_sleep_notify).
LEMMA NoteQueues ==
    /\ Append(<<>>, "ENTRY") = <<"ENTRY">>
    /\ Append(<<>>, "EXIT") = <<"EXIT">>
    /\ Append(<<"EXIT">>, "ENTRY") = <<"EXIT", "ENTRY">>
    /\ Head(<<"ENTRY">>) = "ENTRY" /\ Tail(<<"ENTRY">>) = <<>>
    /\ Head(<<"EXIT">>) = "EXIT" /\ Tail(<<"EXIT">>) = <<>>
    /\ Head(<<"EXIT", "ENTRY">>) = "EXIT" /\ Tail(<<"EXIT", "ENTRY">>) = <<"ENTRY">>
    /\ <<"ENTRY">> # <<>> /\ <<"EXIT">> # <<>> /\ <<"EXIT", "ENTRY">> # <<>>
<1>1. Append(<<"EXIT">>, "ENTRY") = <<"EXIT", "ENTRY">>
  <2> DEFINE S == {"ENTRY", "EXIT"}
  <2>1. <<"EXIT">> \in Seq(S) /\ "ENTRY" \in S /\ <<"EXIT", "ENTRY">> \in Seq(S)
    OBVIOUS
  <2>2. /\ Append(<<"EXIT">>, "ENTRY") \in Seq(S)
        /\ Len(Append(<<"EXIT">>, "ENTRY")) = 2
        /\ Append(<<"EXIT">>, "ENTRY")[1] = "EXIT"
        /\ Append(<<"EXIT">>, "ENTRY")[2] = "ENTRY"
    BY <2>1
  <2>3. \A i \in 1..2 : Append(<<"EXIT">>, "ENTRY")[i] = <<"EXIT", "ENTRY">>[i]
    BY <2>2
  <2>4. QED
    BY <2>1, <2>2, <2>3, SeqEqual
<1>2. QED
  BY <1>1

\* The same for the acknowledgements (rsi_send_ack_for_ulp_entry).
LEMMA AckQueues ==
    /\ Append(<<>>, ULP_TOKEN) = <<ULP_TOKEN>>
    /\ Head(<<ULP_TOKEN>>) = ULP_TOKEN
    /\ Tail(<<ULP_TOKEN>>) = <<>>
    /\ <<ULP_TOKEN>> # <<>>
  OBVIOUS

\* An append to, and a read from, a typed queue stay typed.
LEMMA QueueTypes ==
    ASSUME NEW S, NEW q \in Seq(S), NEW e \in S
    PROVE  /\ Append(q, e) \in Seq(S)
           /\ q # <<>> => Tail(q) \in Seq(S) /\ Head(q) \in S
  OBVIOUS

-----------------------------------------------------------------------------
\* Every field of the handshake stays in its type, through every step of the
\* threads, the rx thread and the firmware.
LEMMA TypeInductive == TypeOK /\ [Next]_vars => TypeOK'
<1> SUFFICES ASSUME TypeOK, [Next]_vars PROVE TypeOK'
  OBVIOUS
<1> USE DEF TypeOK
<1>0. ULP_TOKEN \in Tokens /\ EXIT_TOKEN \in Tokens /\ "ENTRY" \in Notes /\ "EXIT" \in Notes
  BY DEF Tokens, Notes
<1>a. ASSUME NEW token \in Tokens, NEW o, SendAck(token, o)
      PROVE  acks' \in Seq(Tokens) /\ ulp_sleep_ack_sent' \in BOOLEAN
  <2>1. Append(acks, token) \in Seq(Tokens)
    BY QueueTypes
  <2>2. QED
    BY <1>a, <2>1 DEF SendAck
<1>1. ASSUME NEW t \in Threads, WakeThread(t) PROVE TypeOK'
  BY <1>1 DEF WakeThread, Goto
<1>2. ASSUME NEW t \in Threads, AskStep(t) PROVE TypeOK'
  BY <1>2, ZenonT(60) DEF AskStep, SetIntention, CheckAccess, StartWait, WaitEnds, WaitTimesOut,
              RecheckAccess, Granted, Denied, Caller, Goto
<1>3. ASSUME NEW t \in Threads, SendPkt(t) PROVE TypeOK'
  BY <1>3 DEF SendPkt, Goto
<1>4. ASSUME NEW t \in Threads, ReadIntentions(t) \/ ReadAccess(t) \/ WritePkt(t)
      PROVE  TypeOK'
  BY <1>4, ZenonT(60) DEF ReadIntentions, ReadAccess, WritePkt, TakeCommon, Caller, Goto
<1>5. ASSUME NEW id \in Ids, NEW o \in AckOutcomes, ClearIntention(id, o)
      PROVE  /\ tx_intention' \in [Ids -> BOOLEAN]
             /\ common_hal_tx_access' \in BOOLEAN
             /\ sleep_entry_received' \in BOOLEAN
             /\ ulp_sleep_ack_sent' \in BOOLEAN
             /\ ulp_token' \in Tokens
             /\ acks' \in Seq(Tokens)
  <2>1. tx_intention' \in [Ids -> BOOLEAN]
    BY <1>5 DEF ClearIntention
  <2>2. /\ sleep_entry_received' \in BOOLEAN
        /\ ulp_token' \in Tokens
    BY <1>5 DEF ClearIntention
  <2>3. /\ common_hal_tx_access' \in BOOLEAN
        /\ ulp_sleep_ack_sent' \in BOOLEAN
        /\ acks' \in Seq(Tokens)
    BY <1>5, <1>a DEF ClearIntention
  <2>5. QED
    BY <2>1, <2>2, <2>3
<1>6. ASSUME NEW t \in Threads, ThreadDone(t) \/ SendPktDone(t) PROVE TypeOK'
  BY <1>6, <1>5 DEF ThreadDone, SendPktDone, Caller, Goto
<1>7. CASE SleepEntry
  <2>1. notes' \in Seq(Notes)
    BY <1>7 DEF SleepEntry, NextNote
  <2>2. CASE RefuseEntry
    BY <1>0, <1>7, <2>1, <2>2 DEF SleepEntry, NextNote, RefuseEntry, WakeAllWaiters
  <2>3. CASE AllowEntry
    BY <1>0, <1>7, <1>a, <2>1, <2>3 DEF SleepEntry, NextNote, AllowEntry
  <2>4. QED
    BY <1>7, <2>2, <2>3 DEF SleepEntry
<1>8. CASE SleepExit
  BY <1>0, <1>8 DEF SleepExit, NextNote, GrantAccess
<1>9. CASE SleepExitScan
  BY <1>9 DEF SleepExitScan, WakeAllWaiters
<1>10. CASE Lmac
  <2>1. Append(notes, "ENTRY") \in Seq(Notes) /\ Append(notes, "EXIT") \in Seq(Notes)
    BY <1>0, QueueTypes
  <2>2. CASE LmacGetsAck
    BY <2>2 DEF LmacGetsAck
  <2>3. CASE LmacAsksToSleep \/ LmacWakes \/ LmacAsksAgain
    BY <2>1, <2>3 DEF LmacAsksToSleep, LmacWakes, LmacAsksAgain
  <2>4. QED
    BY <1>10, <2>2, <2>3 DEF Lmac
<1>11. CASE UNCHANGED vars
  BY <1>11 DEF vars
<1>12. QED
  BY <1>1, <1>2, <1>3, <1>4, <1>6, <1>7, <1>8, <1>9, <1>10, <1>11
  DEF Next, Thread, SendStep, Rx

\* The state probe leaves behind is well typed.
LEMMA InitTyped == Init => TypeOK
<1> SUFFICES ASSUME Init PROVE TypeOK
  OBVIOUS
<1>1. tx_intention \in [Ids -> BOOLEAN] /\ wait_for_tx_access \in [Ids -> BOOLEAN]
  BY DEF Init
<1>2. asking \in [Threads -> Ids]
  BY DEF Init
<1>3. notes \in Seq(Notes) /\ acks \in Seq(Tokens)
  BY DEF Init
<1>4. ulp_token \in Tokens
  BY DEF Init, Tokens
<1>5. QED
  BY <1>1, <1>2, <1>3, <1>4 DEF Init, TypeOK

\* TypeOK is an invariant of the handshake (rsi_91x_ps.c, rsi_91x_mgmt.c).
THEOREM TypeCorrect == Spec => []TypeOK
<1>1. QED
  BY InitTyped, TypeInductive, PTL DEF Spec

-----------------------------------------------------------------------------
(***************************************************************************)
(* Clearing an intention.  Only here and in AllowEntry does access go away *)
(* and is an ack sent; both need every intention to be clear, so no owner  *)
(* that announced its intention is affected.                               *)
(***************************************************************************)

\* set_clr_tx_intention(id, 0) takes access away only if no owner but id
\* intends to write, and touches no other id's intention.
LEMMA ClearKeepsOwners ==
    ASSUME TypeOK, NEW id \in Ids, NEW o \in AckOutcomes, ClearIntention(id, o)
    PROVE  \A u \in Owners : u # id /\ tx_intention[u] =>
               /\ tx_intention'[u]
               /\ common_hal_tx_access' = common_hal_tx_access
<1> SUFFICES ASSUME NEW u \in Owners, u # id, tx_intention[u]
             PROVE  tx_intention'[u] /\ common_hal_tx_access' = common_hal_tx_access
  OBVIOUS
<1>1. [tx_intention EXCEPT ![id] = FALSE][u]
  BY DEF TypeOK
<1>2. protocol_tx_access([tx_intention EXCEPT ![id] = FALSE])
  BY <1>1 DEF protocol_tx_access
<1>3. QED
  BY <1>1, <1>2 DEF ClearIntention

\* set_clr_tx_intention(id, 0) keeps the two sides of the link in step: it
\* acknowledges only an entry that is waiting for its answer.
LEMMA ClearKeepsLink ==
    ASSUME TypeOK, LinkInv, NEW id \in Ids, NEW o \in AckOutcomes,
           ClearIntention(id, o), UNCHANGED <<rx, lmac, notes>>
    PROVE  LinkInv'
<1>1. CASE AnswerOwed /\ ~protocol_tx_access([tx_intention EXCEPT ![id] = FALSE])
  <2>1. /\ lmac = "entry" /\ notes = <<>> /\ acks = <<>>
        /\ rx = "idle" /\ ulp_token = ULP_TOKEN
    BY <1>1 DEF LinkInv
  <2>2. common_hal_tx_access' = FALSE /\ SendAck(ulp_token, o)
    BY <1>1 DEF ClearIntention, AnswerOwed
  <2>3. CASE o = "sent"
    BY <2>1, <2>2, <2>3, AckQueues DEF SendAck, LinkInv, AnswerOwed, ClearIntention
  <2>4. CASE o # "sent"
    BY <2>1, <2>2, <2>4 DEF SendAck, LinkInv, AnswerOwed, ClearIntention
  <2>5. QED
    BY <2>3, <2>4
<1>2. CASE ~(AnswerOwed /\ ~protocol_tx_access([tx_intention EXCEPT ![id] = FALSE]))
  <2>1. UNCHANGED <<access, rx, wires>>
    BY <1>2 DEF ClearIntention, AnswerOwed
  <2>2. QED
    BY <2>1 DEF LinkInv, AnswerOwed
<1>3. QED
  BY <1>1, <1>2

-----------------------------------------------------------------------------
\* The link part of the invariant is kept by every step.
LEMMA LinkInductive == TypeOK /\ LinkInv /\ [Next]_vars => LinkInv'
<1> SUFFICES ASSUME TypeOK, LinkInv, [Next]_vars PROVE LinkInv'
  OBVIOUS
<1>1. CASE UNCHANGED <<access, rx, wires>>
  BY <1>1 DEF LinkInv, AnswerOwed
<1>2. ASSUME NEW t \in Threads,
             WakeThread(t) \/ AskStep(t) \/ SendPkt(t) \/ ReadIntentions(t)
                \/ ReadAccess(t) \/ WritePkt(t)
      PROVE  UNCHANGED <<access, rx, wires>>
  BY <1>2 DEF WakeThread, AskStep, SetIntention, CheckAccess, StartWait, WaitEnds,
              WaitTimesOut, RecheckAccess, SendPkt, ReadIntentions, ReadAccess, WritePkt
<1>3. ASSUME NEW t \in Threads, ThreadDone(t) \/ SendPktDone(t) PROVE LinkInv'
  <2>1. PICK id \in Ids, o \in AckOutcomes : ClearIntention(id, o)
    BY <1>3 DEF ThreadDone, SendPktDone
  <2>2. UNCHANGED <<rx, lmac, notes>>
    BY <1>3 DEF ThreadDone, SendPktDone
  <2>3. QED
    BY <2>1, <2>2, ClearKeepsLink
<1>4. CASE SleepEntry
  <2>1. /\ rx = "idle" /\ rx' = "idle" /\ lmac = "entry" /\ lmac' = "entry"
        /\ notes' = <<>> /\ acks = <<>>
    BY <1>4, NoteQueues DEF SleepEntry, NextNote, LinkInv, TypeOK
  <2>2. sleep_entry_received' = TRUE /\ ulp_token' = ULP_TOKEN
    BY <1>4 DEF SleepEntry
  <2>3. CASE RefuseEntry
    BY <2>1, <2>2, <2>3 DEF RefuseEntry, LinkInv, AnswerOwed
  <2>4. CASE AllowEntry
    <3>1. PICK o \in AckOutcomes : SendAck(ULP_TOKEN, o)
      BY <2>4 DEF AllowEntry
    <3>2. CASE o = "sent"
      BY <2>1, <2>2, <2>4, <3>1, <3>2, AckQueues DEF AllowEntry, SendAck, LinkInv, AnswerOwed
    <3>3. CASE o # "sent"
      BY <2>1, <2>2, <2>4, <3>1, <3>3 DEF AllowEntry, SendAck, LinkInv, AnswerOwed
    <3>4. QED
      BY <3>2, <3>3
  <2>5. QED
    BY <1>4, <2>3, <2>4 DEF SleepEntry
<1>5. CASE SleepExit
  <2>1. /\ notes # <<>> /\ notes' = Tail(notes) /\ Head(notes) = "EXIT"
        /\ UNCHANGED <<sleep_entry_received, ulp_sleep_ack_sent, lmac, acks>>
        /\ common_hal_tx_access' = TRUE /\ rx' = "scan"
    BY <1>5 DEF SleepExit, NextNote, GrantAccess
  <2>2. acks = <<>> /\ ~AnswerOwed /\ lmac # "asleep"
    BY <2>1 DEF LinkInv
  <2>3. CASE lmac = "awake"
    BY <2>1, <2>2, <2>3, NoteQueues DEF LinkInv, AnswerOwed
  <2>4. CASE lmac = "entry"
    BY <2>1, <2>2, <2>4, NoteQueues DEF LinkInv, AnswerOwed
  <2>5. QED
    BY <2>2, <2>3, <2>4 DEF TypeOK
<1>6. CASE SleepExitScan
  BY <1>6 DEF SleepExitScan, LinkInv, AnswerOwed
<1>7. CASE LmacAsksToSleep
  BY <1>7, NoteQueues DEF LmacAsksToSleep, LinkInv, AnswerOwed
<1>8. CASE LmacGetsAck
  BY <1>8, AckQueues DEF LmacGetsAck, LinkInv, AnswerOwed
<1>9. CASE LmacWakes
  BY <1>9, NoteQueues DEF LmacWakes, LinkInv, AnswerOwed
<1>10. CASE LmacAsksAgain
  BY <1>10, NoteQueues DEF LmacAsksAgain, LinkInv, AnswerOwed
<1>11. CASE UNCHANGED vars
  BY <1>1, <1>11 DEF vars
<1>12. QED
  BY <1>1, <1>2, <1>3, <1>4, <1>5, <1>6, <1>7, <1>8, <1>9, <1>10, <1>11
  DEF Next, Thread, SendStep, Rx, Lmac

-----------------------------------------------------------------------------
\* A scheduler thread keeps the access it was granted, because its own
\* intention stands in the way of every step that takes access away.
LEMMA OwnersInductive == Inv /\ [Next]_vars => OwnersInv'
<1> SUFFICES ASSUME Inv, [Next]_vars, NEW u \in Owners
             PROVE  OwnersInv!(u)'
  BY DEF OwnersInv
<1> USE DEF Inv
<1>0. OwnersInv!(u) /\ u \in Threads /\ u \in Ids /\ u # COMMON_ID
  BY DEF OwnersInv
<1>1. ASSUME NEW t \in Threads, WakeThread(t) PROVE OwnersInv!(u)'
  BY <1>0, <1>1 DEF WakeThread, Goto, TypeOK, Holds
<1>2. ASSUME NEW t \in Threads, SetIntention(t) PROVE OwnersInv!(u)'
  BY <1>0, <1>2 DEF SetIntention, Goto, TypeOK, Holds
<1>3. ASSUME NEW t \in Threads, CheckAccess(t) PROVE OwnersInv!(u)'
  BY <1>0, <1>3 DEF CheckAccess, Granted, Goto, TypeOK, Holds
<1>4. ASSUME NEW t \in Threads, StartWait(t) PROVE OwnersInv!(u)'
  BY <1>0, <1>4 DEF StartWait, Goto, TypeOK, Holds
<1>5. ASSUME NEW t \in Threads, WaitEnds(t) PROVE OwnersInv!(u)'
  BY <1>0, <1>5 DEF WaitEnds, Goto, TypeOK, Holds
<1>6. ASSUME NEW t \in Threads, WaitTimesOut(t) PROVE OwnersInv!(u)'
  BY <1>0, <1>6 DEF WaitTimesOut, Denied, Caller, Goto, TypeOK, Holds
<1>7. ASSUME NEW t \in Threads, RecheckAccess(t) PROVE OwnersInv!(u)'
  BY <1>0, <1>7 DEF RecheckAccess, Granted, Denied, Caller, Goto, TypeOK, Holds
<1>8. ASSUME NEW t \in Threads, SendPkt(t) PROVE OwnersInv!(u)'
  BY <1>0, <1>8 DEF SendPkt, Goto, TypeOK, Holds
<1>9. ASSUME NEW t \in Threads, ReadIntentions(t) PROVE OwnersInv!(u)'
  <2>1. CASE t = u
    <3>1. tx_intention[u]
      BY <1>0, <1>9, <2>1 DEF ReadIntentions, Holds
    <3>2. QED
      BY <1>0, <1>9, <2>1, <3>1 DEF ReadIntentions, Goto, TypeOK, Holds
  <2>2. CASE t # u
    BY <1>0, <1>9, <2>2 DEF ReadIntentions, TakeCommon, Goto, TypeOK, Holds
  <2>3. QED
    BY <2>1, <2>2
<1>10. ASSUME NEW t \in Threads, ReadAccess(t) PROVE OwnersInv!(u)'
  <2>1. CASE t = u
    <3>1. common_hal_tx_access = TRUE
      BY <1>0, <1>10, <2>1 DEF ReadAccess, Holds, TypeOK
    <3>2. QED
      BY <1>0, <1>10, <2>1, <3>1 DEF ReadAccess, Goto, TypeOK, Holds
  <2>2. CASE t # u
    BY <1>0, <1>10, <2>2 DEF ReadAccess, TakeCommon, Goto, TypeOK, Holds
  <2>3. QED
    BY <2>1, <2>2
<1>11. ASSUME NEW t \in Threads, WritePkt(t) PROVE OwnersInv!(u)'
  BY <1>0, <1>11 DEF WritePkt, Caller, Goto, TypeOK, Holds
<1>12. ASSUME NEW t \in Threads, ThreadDone(t) PROVE OwnersInv!(u)'
  <2>1. PICK o \in AckOutcomes : ClearIntention(t, o)
    BY <1>12 DEF ThreadDone
  <2>2. t \in Ids
    BY <1>12 DEF ThreadDone
  <2>3. CASE t = u
    BY <1>0, <1>12, <2>3 DEF ThreadDone, Goto, TypeOK, Holds
  <2>4. CASE t # u
    <3>1. tx_intention[u] => tx_intention'[u] /\ common_hal_tx_access' = common_hal_tx_access
      BY <2>1, <2>2, <2>4, ClearKeepsOwners
    <3>2. /\ pc'[u] = pc[u] /\ asking' = asking
          /\ wait_for_tx_access' = wait_for_tx_access
      BY <1>0, <1>12, <2>4 DEF ThreadDone, Goto, TypeOK
    <3>3. QED
      BY <1>0, <3>1, <3>2 DEF Holds
  <2>5. QED
    BY <2>3, <2>4
<1>13. ASSUME NEW t \in Threads, SendPktDone(t) PROVE OwnersInv!(u)'
  <2>1. PICK o \in AckOutcomes : ClearIntention(COMMON_ID, o)
    BY <1>13 DEF SendPktDone
  <2>2. tx_intention[u] => tx_intention'[u] /\ common_hal_tx_access' = common_hal_tx_access
    BY <1>0, <2>1, ClearKeepsOwners
  <2>3. t # u
    BY <1>0, <1>13 DEF SendPktDone
  <2>4. /\ pc'[u] = pc[u] /\ asking' = asking
        /\ wait_for_tx_access' = wait_for_tx_access
    BY <1>0, <1>13, <2>3 DEF SendPktDone, Goto, TypeOK
  <2>5. QED
    BY <1>0, <2>2, <2>4 DEF Holds
<1>14. CASE SleepEntry
  <2>1. UNCHANGED <<tx_intention, pc, asking>>
    BY <1>14 DEF SleepEntry
  <2>2. CASE RefuseEntry
    BY <1>0, <2>1, <2>2 DEF RefuseEntry, Holds
  <2>3. CASE AllowEntry /\ ~protocol_tx_access(tx_intention)
    <3>1. ~tx_intention[u] /\ UNCHANGED wait_for_tx_access
      BY <1>0, <2>3 DEF AllowEntry, protocol_tx_access
    <3>2. QED
      BY <1>0, <2>1, <3>1 DEF Holds
  <2>4. QED
    BY <1>14, <2>2, <2>3 DEF SleepEntry
<1>15. CASE SleepExit
  BY <1>0, <1>15 DEF SleepExit, GrantAccess, Holds
<1>16. CASE SleepExitScan
  BY <1>0, <1>16 DEF SleepExitScan, LinkInv, Holds
<1>17. CASE Lmac
  BY <1>0, <1>17 DEF Lmac, LmacAsksToSleep, LmacGetsAck, LmacWakes, LmacAsksAgain, Holds
<1>18. CASE UNCHANGED vars
  BY <1>0, <1>18 DEF vars, Holds
<1>19. QED
  BY <1>1, <1>2, <1>3, <1>4, <1>5, <1>6, <1>7, <1>8, <1>9, <1>10, <1>11, <1>12, <1>13,
     <1>14, <1>15, <1>16, <1>17, <1>18
  DEF Next, Thread, AskStep, SendStep, Rx

\* Inv holds throughout every behaviour.
THEOREM Invariance == Spec => []Inv
<1>1. Init => Inv
  <2>1. Init => TypeOK
    BY InitTyped
  <2>2. Init => OwnersInv /\ LinkInv
    BY DEF Init, OwnersInv, LinkInv, AnswerOwed, Holds
  <2>3. QED
    BY <2>1, <2>2 DEF Inv
<1>2. Inv /\ [Next]_vars => Inv'
  BY TypeInductive, LinkInductive, OwnersInductive DEF Inv
<1>3. QED
  BY <1>1, <1>2, PTL DEF Spec

\* From the grant to the clear, the LMAC neither sleeps nor is allowed to:
\* rsi_tx_scheduler_thread and rsi_coex_scheduler_thread write to an awake
\* device, whatever the PER callers do.
THEOREM OwnersWriteSafely == Spec => []OwnersWriteAwake
<1>1. Inv => OwnersWriteAwake
  <2> SUFFICES ASSUME Inv, NEW t \in Owners, Holds(t)
               PROVE  common_hal_tx_access /\ ~SleepAllowed
    BY DEF OwnersWriteAwake
  <2>1. common_hal_tx_access = TRUE
    BY DEF Inv, OwnersInv, TypeOK
  <2>2. QED
    BY <2>1 DEF Inv, LinkInv, SleepAllowed
<1>2. QED
  BY <1>1, Invariance, PTL

\* The -EPERM return of set_clr_tx_intention never reaches a scheduler thread.
THEOREM NoEPERM == Spec => []WokenIsGranted
<1>1. Inv => WokenIsGranted
  <2> SUFFICES ASSUME Inv, NEW t \in Owners, pc[t] = "woken", asking[t] = t
               PROVE  common_hal_tx_access
    BY DEF WokenIsGranted
  <2>1. common_hal_tx_access = TRUE
    BY DEF Inv, OwnersInv, TypeOK
  <2>2. QED
    BY <2>1
<1>2. QED
  BY <1>1, Invariance, PTL

\* rsi_send_ack_for_ulp_entry answers an entry once, and with its token.
THEOREM AcksMatch == Spec => []AckMatchesEntry
<1>1. Inv => AckMatchesEntry
  BY DEF Inv, LinkInv, AckMatchesEntry
<1>2. QED
  BY <1>1, Invariance, PTL

-----------------------------------------------------------------------------
(***************************************************************************)
(* Acknowledgements that always go out: no refused entry is forgotten.     *)
(***************************************************************************)

\* The token of an entry is a token.
LEMMA TokenKnown == ULP_TOKEN \in Tokens
  BY DEF Tokens

\* An attempt to send an ack takes none back.
LEMMA SendAckKeeps ==
    ASSUME TypeOK, NEW token \in Tokens, NEW o, SendAck(token, o)
    PROVE  acks # <<>> => acks' # <<>>
<1>1. Append(acks, token) # <<>>
  BY AppendProperties DEF TypeOK
<1>2. QED
  BY <1>1 DEF SendAck

\* Clearing the last intention answers the entry that is owed an answer.
LEMMA ClearAnswers ==
    ASSUME TypeOK, AnswerInv, NEW id \in Ids, ClearIntention(id, "sent"),
           UNCHANGED <<lmac, notes>>
    PROVE  AnswerInv'
<1>1. tx_intention' = [tx_intention EXCEPT ![id] = FALSE]
  BY DEF ClearIntention
<1>2. CASE AnswerOwed /\ ~protocol_tx_access(tx_intention')
  <2>1. acks' = Append(acks, ulp_token)
    BY <1>1, <1>2 DEF ClearIntention, AnswerOwed, SendAck
  <2>2. acks' # <<>>
    BY <2>1, AppendProperties DEF TypeOK
  <2>3. QED
    BY <2>2 DEF AnswerInv
<1>3. CASE ~(AnswerOwed /\ ~protocol_tx_access(tx_intention'))
  <2>1. UNCHANGED <<access, acks>>
    BY <1>1, <1>3 DEF ClearIntention, AnswerOwed
  <2>2. AnswerOwed' = AnswerOwed
    BY <2>1 DEF AnswerOwed
  <2>3. QED
    BY <1>3, <2>1, <2>2 DEF AnswerInv, protocol_tx_access
<1>4. QED
  BY <1>2, <1>3

\* AnswerInv is kept by every step, if acks are sent whenever they are tried.
LEMMA AnswerInductive ==
    ASSUME AckOutcomes = {"sent"}
    PROVE  Inv /\ AnswerInv /\ [Next]_vars => AnswerInv'
<1> SUFFICES ASSUME Inv, AnswerInv, [Next]_vars PROVE AnswerInv'
  OBVIOUS
<1>1. CASE UNCHANGED <<tx_intention, access, wires>>
  BY <1>1 DEF AnswerInv, AnswerOwed, protocol_tx_access
<1>2. ASSUME NEW t \in Threads,
             WakeThread(t) \/ CheckAccess(t) \/ StartWait(t) \/ WaitEnds(t)
                \/ WaitTimesOut(t) \/ RecheckAccess(t) \/ SendPkt(t)
                \/ ReadIntentions(t) \/ ReadAccess(t) \/ WritePkt(t)
      PROVE  UNCHANGED <<tx_intention, access, wires>>
  BY <1>2 DEF WakeThread, CheckAccess, StartWait, WaitEnds, WaitTimesOut, RecheckAccess,
              SendPkt, ReadIntentions, ReadAccess, WritePkt
<1>3. ASSUME NEW t \in Threads, SetIntention(t) PROVE AnswerInv'
  <2>1. \A id \in Ids : tx_intention[id] => tx_intention'[id]
    BY <1>3 DEF SetIntention, Inv, TypeOK
  <2>2. UNCHANGED <<access, wires>>
    BY <1>3 DEF SetIntention
  <2>3. QED
    BY <2>1, <2>2 DEF AnswerInv, AnswerOwed, protocol_tx_access
<1>4. ASSUME NEW t \in Threads, ThreadDone(t) \/ SendPktDone(t) PROVE AnswerInv'
  <2>1. PICK id \in Ids : ClearIntention(id, "sent")
    BY <1>4 DEF ThreadDone, SendPktDone
  <2>2. UNCHANGED <<lmac, notes>>
    BY <1>4 DEF ThreadDone, SendPktDone
  <2>3. QED
    BY <2>1, <2>2, ClearAnswers DEF Inv
<1>5. CASE SleepEntry
  <2>1. CASE protocol_tx_access(tx_intention) /\ RefuseEntry
    BY <1>5, <2>1 DEF SleepEntry, RefuseEntry, AnswerInv, AnswerOwed, protocol_tx_access
  <2>2. CASE AllowEntry
    <3>1. acks' = Append(acks, ULP_TOKEN)
      BY <2>2 DEF AllowEntry, SendAck
    <3>2. acks' # <<>>
      BY <3>1, TokenKnown, AppendProperties DEF Inv, TypeOK
    <3>3. QED
      BY <3>2 DEF AnswerInv
  <2>3. QED
    BY <1>5, <2>1, <2>2 DEF SleepEntry
<1>6. CASE SleepExit
  <2>1. CASE lmac = "awake"
    BY <1>6, <2>1 DEF SleepExit, AnswerInv
  <2>2. CASE lmac = "entry"
    BY <1>6, <2>2, NoteQueues DEF SleepExit, NextNote, AnswerInv, Inv, LinkInv
  <2>3. CASE lmac = "asleep"
    BY <1>6, <2>3 DEF SleepExit, AnswerInv
  <2>4. QED
    BY <2>1, <2>2, <2>3 DEF Inv, TypeOK
<1>7. CASE SleepExitScan
  BY <1>1, <1>7 DEF SleepExitScan
<1>8. CASE LmacAsksToSleep \/ LmacAsksAgain
  <2>1. notes' # <<>>
    BY <1>8, AppendProperties DEF LmacAsksToSleep, LmacAsksAgain, Inv, TypeOK, Notes
  <2>2. QED
    BY <2>1 DEF AnswerInv
<1>9. CASE LmacGetsAck
  BY <1>9, AckQueues DEF LmacGetsAck, AnswerInv, Inv, LinkInv
<1>10. CASE LmacWakes
  BY <1>10 DEF LmacWakes, AnswerInv
<1>11. CASE UNCHANGED vars
  BY <1>1, <1>11 DEF vars
<1>12. QED
  BY <1>1, <1>2, <1>3, <1>4, <1>5, <1>6, <1>7, <1>8, <1>9, <1>10, <1>11
  DEF Next, Thread, AskStep, SendStep, Rx, Lmac

\* A refused sleep entry is answered by whoever clears the last intention
\* (set_clr_tx_intention): none is ever left without an ack on its way.
THEOREM RefusalsAnswered ==
    ASSUME AckOutcomes = {"sent"}
    PROVE  Spec => []RefusedEntryAnswered
<1>1. Init => AnswerInv
  BY DEF Init, AnswerInv
<1>2. Inv /\ AnswerInv /\ [Next]_vars => AnswerInv'
  BY AnswerInductive
<1>3. AnswerInv => RefusedEntryAnswered
  BY DEF AnswerInv, RefusedEntryAnswered
<1>4. QED
  BY <1>1, <1>2, <1>3, Invariance, PTL DEF Spec

-----------------------------------------------------------------------------
(***************************************************************************)
(* Refinement: every step of the handshake is a step of the gate, or none. *)
(***************************************************************************)

\* While an owner holds access, its intention is set and the gate is open.
LEMMA HoldersKeepOpen ==
    ASSUME Inv
    PROVE  /\ common_hal_tx_access => ~SleepAllowed
           /\ \A u \in Inside : tx_intention[u] /\ u \in Ids
           /\ Inside # {} => ~SleepAllowed
<1>1. common_hal_tx_access => ~SleepAllowed
  BY DEF Inv, LinkInv, SleepAllowed
<1>2. \A u \in Inside : tx_intention[u] /\ u \in Ids /\ common_hal_tx_access
  BY DEF Inv, OwnersInv, Inside
<1>3. QED
  BY <1>1, <1>2

\* Clearing an intention closes the gate only when nobody is left inside.
LEMMA ClearAndGate ==
    ASSUME Inv, NEW id \in Ids, NEW o \in AckOutcomes, ClearIntention(id, o), lmac' = lmac
    PROVE  \/ SleepAllowed' = SleepAllowed
           \/ SleepAllowed' = TRUE /\ Inside \subseteq {id}
<1>1. CASE protocol_tx_access([tx_intention EXCEPT ![id] = FALSE])
  BY <1>1 DEF ClearIntention, SleepAllowed
<1>2. CASE ~protocol_tx_access([tx_intention EXCEPT ![id] = FALSE])
  <2>1. ASSUME NEW u \in Inside, u # id PROVE FALSE
    <3>1. [tx_intention EXCEPT ![id] = FALSE][u] /\ u \in Ids
      BY <2>1, HoldersKeepOpen DEF Inv, TypeOK
    <3>2. QED
      BY <1>2, <3>1 DEF protocol_tx_access
  <2>2. SleepAllowed' = SleepAllowed \/ SleepAllowed' = TRUE
    <3>1. acks # <<>> => acks' # <<>>
      BY SendAckKeeps DEF ClearIntention, Inv, TypeOK
    <3>2. QED
      BY <3>1 DEF SleepAllowed
  <2>3. QED
    BY <2>1, <2>2
<1>3. QED
  BY <1>1, <1>2

\* A step that leaves every scheduler thread's place and the link alone is a
\* stuttering step of the gate.
LEMMA SameHolders ==
    ASSUME \A u \in Owners : Holds(u)' = Holds(u)
    PROVE  Inside' = Inside
  BY DEF Inside

\* Each step of the handshake maps to a step of the gate or to a stutter.
LEMMA GateStep == Inv /\ [Next]_vars => [Gate!Next]_(Gate!vars)
<1> SUFFICES ASSUME Inv, [Next]_vars PROVE [Gate!Next]_(Gate!vars)
  OBVIOUS
<1> USE DEF Gate!vars
<1>1. ASSUME NEW t \in Threads,
             WakeThread(t) \/ SetIntention(t) \/ StartWait(t) \/ WaitEnds(t)
                \/ WaitTimesOut(t) \/ SendPkt(t) \/ ReadIntentions(t) \/ ReadAccess(t)
                \/ WritePkt(t)
      PROVE  UNCHANGED Gate!vars
  <2>1. UNCHANGED SleepAllowed
    BY <1>1 DEF WakeThread, SetIntention, StartWait, WaitEnds, WaitTimesOut, SendPkt,
                ReadIntentions, ReadAccess, WritePkt, SleepAllowed
  <2>2. ASSUME NEW u \in Owners PROVE Holds(u)' = Holds(u)
    <3> USE DEF Inv, TypeOK, OwnersInv, Holds, Goto
    <3>1. CASE WakeThread(t) \/ SetIntention(t) \/ StartWait(t) \/ WaitEnds(t) \/ SendPkt(t)
      BY <3>1 DEF WakeThread, SetIntention, StartWait, WaitEnds, SendPkt
    <3>2. CASE WaitTimesOut(t)
      BY <3>2 DEF WaitTimesOut, Denied, Caller
    <3>3. CASE ReadIntentions(t)
      <4>1. t = u => tx_intention[u]
        BY <3>3 DEF ReadIntentions
      <4>2. QED
        BY <3>3, <4>1 DEF ReadIntentions, TakeCommon
    <3>4. CASE ReadAccess(t)
      <4>1. t = u => common_hal_tx_access
        BY <3>4 DEF ReadAccess
      <4>2. QED
        BY <3>4, <4>1 DEF ReadAccess, TakeCommon
    <3>5. CASE WritePkt(t)
      BY <3>5 DEF WritePkt, Caller
    <3>6. QED
      BY <1>1, <3>1, <3>2, <3>3, <3>4, <3>5
  <2>3. QED
    BY <2>1, <2>2, SameHolders
<1>2. ASSUME NEW t \in Threads, CheckAccess(t) \/ RecheckAccess(t)
      PROVE  Gate!Next \/ UNCHANGED Gate!vars
  <2>1. UNCHANGED SleepAllowed
    BY <1>2 DEF CheckAccess, RecheckAccess, SleepAllowed
  <2>2. CASE t \in Owners /\ common_hal_tx_access
    <3>1. pc' = [pc EXCEPT ![t] = "run"] /\ ~Holds(t)
      BY <1>2, <2>2, ZenonT(60) DEF CheckAccess, RecheckAccess, Granted, Goto, Holds, Inv, OwnersInv
    <3>2. Inside' = Inside \cup {t} /\ t \notin Inside
      BY <2>2, <3>1 DEF Inside, Holds, Inv, TypeOK
    <3>3. ~SleepAllowed
      BY <2>2, HoldersKeepOpen
    <3>4. QED
      BY <2>1, <2>2, <3>2, <3>3 DEF Gate!Next, Gate!Enter
  <2>3. CASE ~(t \in Owners /\ common_hal_tx_access)
    <3>1. ASSUME NEW u \in Owners PROVE Holds(u)' = Holds(u)
      BY <1>2, <2>3 DEF CheckAccess, RecheckAccess, Granted, Denied, Caller, Goto, Holds,
                        Inv, TypeOK, OwnersInv
    <3>2. QED
      BY <2>1, <3>1, SameHolders
  <2>4. QED
    BY <2>2, <2>3
<1>3. ASSUME NEW t \in Threads, ThreadDone(t)
      PROVE  Gate!Next \/ UNCHANGED Gate!vars
  <2>1. /\ t \in Owners /\ t \in Ids /\ lmac' = lmac
        /\ \E o \in AckOutcomes : ClearIntention(t, o)
    BY <1>3 DEF ThreadDone
  <2>2. \/ SleepAllowed' = SleepAllowed
        \/ SleepAllowed' = TRUE /\ Inside \subseteq {t}
    BY <2>1, ClearAndGate
  <2>3. Inside' = Inside \ {t}
    BY <1>3 DEF ThreadDone, Goto, Inside, Holds, Inv, TypeOK
  <2>4. QED
    BY <2>1, <2>2, <2>3 DEF Gate!Next, Gate!Leave, Gate!LeaveAndClose, Gate!Close
<1>4. ASSUME NEW t \in Threads, SendPktDone(t)
      PROVE  Gate!Next \/ UNCHANGED Gate!vars
  <2>1. /\ COMMON_ID \in Ids /\ lmac' = lmac
        /\ \E o \in AckOutcomes : ClearIntention(COMMON_ID, o)
    BY <1>4 DEF SendPktDone
  <2>2. \/ SleepAllowed' = SleepAllowed
        \/ SleepAllowed' = TRUE /\ Inside \subseteq {COMMON_ID}
    BY <2>1, ClearAndGate
  <2>3. COMMON_ID \notin Inside
    BY DEF Inside
  <2>4. ASSUME NEW u \in Owners PROVE Holds(u)' = Holds(u)
    BY <1>4 DEF SendPktDone, Caller, Goto, Holds, Inv, TypeOK, OwnersInv
  <2>5. QED
    BY <2>2, <2>3, <2>4, SameHolders DEF Gate!Next, Gate!Close
<1>5. CASE SleepEntry
  <2>1. UNCHANGED <<pc, lmac>>
    BY <1>5 DEF SleepEntry
  <2>2. Inside' = Inside
    BY <2>1 DEF Inside, Holds
  <2>3. CASE RefuseEntry
    BY <2>1, <2>2, <2>3 DEF RefuseEntry, SleepAllowed
  <2>4. CASE AllowEntry /\ ~protocol_tx_access(tx_intention)
    <3>1. Inside = {}
      BY <2>4, HoldersKeepOpen DEF protocol_tx_access
    <3>2. SleepAllowed' = SleepAllowed \/ SleepAllowed' = TRUE
      <4>1. acks # <<>> => acks' # <<>>
        BY <2>4, TokenKnown, SendAckKeeps DEF AllowEntry, Inv
      <4>2. QED
        BY <2>1, <4>1 DEF SleepAllowed
    <3>3. QED
      BY <2>2, <3>1, <3>2 DEF Gate!Next, Gate!Close
  <2>5. QED
    BY <1>5, <2>3, <2>4 DEF SleepEntry
<1>6. CASE SleepExit \/ SleepExitScan \/ LmacAsksToSleep
  <2>1. Inside' = Inside
    BY <1>6 DEF SleepExit, SleepExitScan, LmacAsksToSleep, Inside, Holds
  <2>2. SleepAllowed' = SleepAllowed
    BY <1>6 DEF SleepExit, SleepExitScan, LmacAsksToSleep, SleepAllowed
  <2>3. QED
    BY <2>1, <2>2
<1>7. CASE LmacGetsAck
  <2>1. Inside' = Inside
    BY <1>7 DEF LmacGetsAck, Inside, Holds
  <2>2. SleepAllowed' = SleepAllowed
    BY <1>7, AckQueues DEF LmacGetsAck, SleepAllowed, Inv, LinkInv
  <2>3. QED
    BY <2>1, <2>2
<1>8. CASE LmacWakes \/ LmacAsksAgain
  <2>1. Inside' = Inside
    BY <1>8 DEF LmacWakes, LmacAsksAgain, Inside, Holds
  <2>2. SleepAllowed' = FALSE
    BY <1>8 DEF LmacWakes, LmacAsksAgain, SleepAllowed, Inv, LinkInv
  <2>3. QED
    BY <2>1, <2>2 DEF Gate!Next, Gate!Open
<1>9. CASE UNCHANGED vars
  BY <1>9 DEF vars, Inside, Holds, SleepAllowed
<1>10. QED
  BY <1>1, <1>2, <1>3, <1>4, <1>5, <1>6, <1>7, <1>8, <1>9
  DEF Next, Thread, AskStep, SendStep, Rx, Lmac

\* set_clr_tx_intention and the ULP notifications implement the gate.
THEOREM ImplementsGate == Spec => GateSpec
<1>1. Init => Gate!Init
  BY DEF Init, Gate!Init, Inside, Holds, SleepAllowed
<1>2. QED
  BY <1>1, GateStep, Invariance, PTL DEF Spec, GateSpec, Gate!Spec
=============================================================================
