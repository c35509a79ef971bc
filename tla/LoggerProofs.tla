---------------------------- MODULE LoggerProofs ----------------------------
(* Theorems about Logger, for every number of callers and slots, every      *)
(* capacity, either policy and every choice of sinks that fail or panic.    *)
EXTENDS Logger, TLAPS

------------------------------------------------------------------------------
(* The slots.                                                               *)

(* Extend appends a message position to the logs of some slots and leaves   *)
(* the others alone.                                                        *)
LEMMA ExtendType ==
    ASSUME NEW log \in [Slots -> Seq(Nat)], NEW S, NEW i \in Nat
    PROVE  /\ Extend(log, S, i) \in [Slots -> Seq(Nat)]
           /\ \A s \in Slots : Extend(log, S, i)[s] =
                 IF s \in S THEN Append(log[s], i) ELSE log[s]
BY DEF Extend

(* Writing one record to the slots keeps their types.                       *)
LEMMA WriteRecordType ==
    ASSUME SlotsTypeOK, NEW i \in Nat, NEW l \in Level, WriteRecord(i, l)
    PROVE  SlotsTypeOK'
<1> PICK failing \in SUBSET (Direct(l) \cap FaultySinks) : WriteRecord(i, l)!(failing)
    BY DEF WriteRecord
<1>1. slots' \in [Slots -> SinkSlot]
    <2>1. ASSUME NEW slot \in SinkSlot
          PROVE  AfterFailure(slot) \in SinkSlot /\ AfterSuccess(slot) \in SinkSlot
        BY DEF SinkSlot, AfterFailure, AfterSuccess
    <2> QED BY <2>1 DEF SlotsTypeOK
<1>2. /\ written' \in [Slots -> Seq(Nat)]
      /\ failed' \in [Slots -> Seq(Nat)]
      /\ diverted' \in [Slots -> Seq(Nat)]
    <2>1. \A log \in [Slots -> Seq(Nat)], S \in SUBSET Slots :
              Extend(log, S, i) \in [Slots -> Seq(Nat)]
        BY ExtendType
    <2>2. Direct(l) \subseteq Slots /\ Eligible(l) \subseteq Slots
        BY DEF Direct, Eligible
    <2> QED BY <2>1, <2>2 DEF SlotsTypeOK
<1>3. flushed' \in [Slots -> Nat]
    BY DEF SlotsTypeOK
<1> QED BY <1>1, <1>2, <1>3 DEF SlotsTypeOK

(* A sink is handed the record at most once, after all it had before.       *)
LEMMA WriteRecordEffect ==
    ASSUME SlotsTypeOK, NEW i \in Nat, NEW l \in Level, WriteRecord(i, l)
    PROVE  /\ \A s \in Slots : written'[s] = written[s] \/ written'[s] = Append(written[s], i)
           /\ flushed' = flushed
<1> PICK failing \in SUBSET (Direct(l) \cap FaultySinks) : WriteRecord(i, l)!(failing)
    BY DEF WriteRecord
<1> QED BY ExtendType DEF SlotsTypeOK, Extend

(* A flush of some of the slots sets flushed to the number of records the   *)
(* sink has, for the working sinks among them, or leaves it.                *)
LEMMA FlushSomeEffect ==
    ASSUME SlotsTypeOK, NEW S, FlushSome(S)
    PROVE  /\ flushed' \in [Slots -> Nat]
           /\ \A s \in Slots : flushed'[s] = flushed[s] \/ flushed'[s] = Len(written[s])
           /\ \A s \in Slots \ FaultySinks : s \in S => flushed'[s] = Len(written[s])
<1> PICK failing \in SUBSET (S \cap FaultySinks) :
        flushed' = [s \in Slots |-> IF s \in S \ failing
                                       THEN Len(written[s]) ELSE flushed[s]]
    BY DEF FlushSome
<1>1. \A s \in Slots : Len(written[s]) \in Nat
    BY DEF SlotsTypeOK
<1> QED BY <1>1 DEF SlotsTypeOK

(* A flush of all the slots keeps their types.                              *)
LEMMA FlushAllType == ASSUME SlotsTypeOK, FlushAll PROVE SlotsTypeOK'
BY FlushSomeEffect DEF FlushAll, SlotsTypeOK

(* So does a flush that panics part of the way, and degrades every slot.    *)
LEMMA FlushPanicType == ASSUME SlotsTypeOK, FlushPanic PROVE SlotsTypeOK'
<1> PICK p \in PanickySinks : FlushUpTo(p) /\ DegradeAll
    BY DEF FlushPanic
<1>1. flushed' \in [Slots -> Nat]
    BY FlushSomeEffect DEF FlushUpTo
<1>2. slots' \in [Slots -> SinkSlot]
    BY DEF DegradeAll, SlotsTypeOK, SinkSlot
<1> QED BY <1>1, <1>2 DEF FlushPanic, SlotsTypeOK

(* So does the writer's last flush, whole or cut short.                     *)
LEMMA FinalFlushType == ASSUME SlotsTypeOK, FinalFlush PROVE SlotsTypeOK'
<1>1. flushed' \in [Slots -> Nat]
    BY FlushSomeEffect DEF FinalFlush, FlushUpTo
<1> QED BY <1>1 DEF FinalFlush, SlotsTypeOK

------------------------------------------------------------------------------
(* Type correctness.                                                        *)

(* Sending appends the message to the channel's history.                    *)
LEMMA SendEffect ==
    ASSUME TypeOK, NEW m \in Message, sent' = Append(sent, m)
    PROVE  /\ sent' \in Seq(Message)
           /\ Len(sent') = Len(sent) + 1
           /\ \A i \in 1..Len(sent) : sent'[i] = sent[i]
           /\ sent'[Len(sent) + 1] = m
BY DEF TypeOK

(* What the writer does next is handle the last message it took.            *)
LEMMA HandlingFacts ==
    ASSUME TypeOK, ExitInv, writer = "handle"
    PROVE  /\ taken \in 1..Len(sent)
           /\ sent[taken] \in Message
           /\ Handled = taken - 1
BY DEF TypeOK, ExitInv, Handled

(* ExitInv says that a writer that handles has taken a message, which the   *)
(* type of the record it writes rests on.                                   *)
LEMMA TypeInductive ==
    ASSUME TypeOK, ExitInv, [Next]_vars
    PROVE  TypeOK'
<1>1. ASSUME NEW c \in Callers, AcquireTx(c) PROVE TypeOK'
    BY <1>1 DEF TypeOK, AcquireTx, slotVars, channelVars, history, SlotsTypeOK, PC,
       Locking, Sending
<1>2. ASSUME NEW c \in Callers, LogSend(c) PROVE TypeOK'
    <2>1. sent' \in Seq(Message) /\ Len(sent') = Len(sent) + 1
        <3>1. [kind |-> "log", from |-> c, level |-> level[c]] \in Message
            BY DEF TypeOK, Message
        <3> QED BY <1>2, <3>1, SendEffect DEF LogSend, Send
    <2>2. tx' \in Callers \cup {None} /\ pc' \in [Callers -> PC]
        BY <1>2 DEF TypeOK, LogSend, Release, PC
    <2>3. UNCHANGED <<closed, dropped, handle, joining, taken, writer, level, ack,
                      calls, emergency, history, slotVars>>
        BY <1>2 DEF LogSend
    <2> QED BY <2>1, <2>2, <2>3 DEF TypeOK, slotVars, history, SlotsTypeOK
<1>3. ASSUME NEW c \in Callers, LogDropNewest(c) PROVE TypeOK'
    BY <1>3 DEF TypeOK, LogDropNewest, Release, Counted, slotVars, channelVars,
       history, SlotsTypeOK, PC
<1>4. ASSUME NEW c \in Callers, LogEmergency(c) PROVE TypeOK'
    BY <1>4 DEF TypeOK, LogEmergency, Release, slotVars, channelVars, history,
       SlotsTypeOK, PC
<1>5. ASSUME NEW c \in Callers, CtrlSend(c) PROVE TypeOK'
    <2>1. sent' \in Seq(Message) /\ Len(sent') = Len(sent) + 1
        <3>1. \A kind \in {"flush", "shutdown"} :
                  [kind |-> kind, from |-> c, level |-> Off] \in Message
            BY DEF Message, Level, Off
        <3> QED BY <1>5, <3>1, SendEffect DEF CtrlSend, Send
    <2>2. tx' \in Callers \cup {None} /\ pc' \in [Callers -> PC]
        BY <1>5 DEF TypeOK, CtrlSend, Release, PC, Waiting
    <2>3. /\ ack' = [ack EXCEPT ![c] = "pending"]
          /\ UNCHANGED <<closed, dropped, handle, joining, taken, writer, level,
                         calls, emergency, history, slotVars>>
        BY <1>5 DEF CtrlSend
    <2> QED BY <2>1, <2>2, <2>3 DEF TypeOK, slotVars, history, SlotsTypeOK
<1>6. ASSUME NEW c \in Callers, CtrlSendFails(c) PROVE TypeOK'
    BY <1>6 DEF TypeOK, CtrlSendFails, Release, slotVars, channelVars, history,
       SlotsTypeOK, PC, Gone
<1>7. ASSUME NEW c \in Callers, FlushReturn(c) PROVE TypeOK'
    BY <1>7 DEF TypeOK, FlushReturn, slotVars, channelVars, history, SlotsTypeOK, PC
<1>8. ASSUME NEW c \in Callers, ShutdownAcked(c) PROVE TypeOK'
    BY <1>8 DEF TypeOK, ShutdownAcked, slotVars, channelVars, history, SlotsTypeOK, PC
<1>9. ASSUME NEW c \in Callers, TakeHandle(c) PROVE TypeOK'
    BY <1>9 DEF TypeOK, TakeHandle, slotVars, channelVars, history, SlotsTypeOK, PC, Gone
<1>10. ASSUME NEW c \in Callers, Join(c) PROVE TypeOK'
    BY <1>10 DEF TypeOK, Join, slotVars, channelVars, history, SlotsTypeOK, PC, Gone
<1>11. ASSUME NEW c \in Callers, NEW l \in RecordLevels, LogReject(c, l) PROVE TypeOK'
    BY <1>11, LoggerAssumption DEF TypeOK, LogReject, StartCall, slotVars, channelVars,
       history, SlotsTypeOK
<1>12. ASSUME NEW c \in Callers, NEW l \in RecordLevels, LogAdmit(c, l) PROVE TypeOK'
    BY <1>12, LoggerAssumption DEF TypeOK, LogAdmit, StartCall, slotVars, channelVars,
       SlotsTypeOK, PC, Locking
<1>13. ASSUME NEW c \in Callers, FlushCall(c) PROVE TypeOK'
    BY <1>13, LoggerAssumption DEF TypeOK, FlushCall, StartCall, slotVars, channelVars,
       SlotsTypeOK, PC, Locking
<1>14. ASSUME NEW c \in Callers, ShutdownCall(c) PROVE TypeOK'
    BY <1>14 DEF TypeOK, ShutdownCall, slotVars, channelVars, SlotsTypeOK, PC, Locking
<1>15. ASSUME NEW c \in Callers, DropHandle(c) PROVE TypeOK'
    BY <1>15 DEF TypeOK, DropHandle, slotVars, channelVars, history, SlotsTypeOK, PC, Gone
<1>16. CASE WRecv
    BY <1>16 DEF TypeOK, WRecv, Received, Queued, slotVars, callerVars, history, SlotsTypeOK
<1>17. CASE WDisconnected
    BY <1>17 DEF TypeOK, WDisconnected, slotVars, callerVars, history, SlotsTypeOK
<1>18. CASE WLog
    <2>1. taken \in Nat /\ sent[taken].level \in Level
        BY <1>18, HandlingFacts DEF WLog, Handling, Message
    <2>2. SlotsTypeOK'
        BY <1>18, <2>1, WriteRecordType DEF TypeOK, WLog
    <2> QED BY <1>18, <2>2 DEF TypeOK, WLog, callerVars, history
<1>19. CASE WFlush
    BY <1>19, FlushAllType DEF TypeOK, WFlush, Acknowledge, history
<1>20. CASE WShutdown
    BY <1>20, FlushAllType DEF TypeOK, WShutdown, Acknowledge, history
<1>21. CASE WFlushPanic
    BY <1>21, FlushPanicType DEF TypeOK, WFlushPanic, Acknowledge, history
<1>22. CASE WExit
    BY <1>22, FinalFlushType DEF TypeOK, WExit, AckAfterExit, history
<1>23. CASE UNCHANGED vars
    BY <1>23 DEF TypeOK, vars, slotVars, channelVars, callerVars, history, SlotsTypeOK
<1> QED
    BY <1>1, <1>2, <1>3, <1>4, <1>5, <1>6, <1>7, <1>8, <1>9, <1>10, <1>11, <1>12,
       <1>13, <1>14, <1>15, <1>16, <1>17, <1>18, <1>19, <1>20, <1>21, <1>22, <1>23
    DEF Next, Writer, Step, Begin, Terminated

------------------------------------------------------------------------------
(* What the writer leaves behind when it stops.                             *)

(* Each step keeps that the writer leaves its loop behind a Shutdown        *)
(* message or with nobody left to send.                                     *)
LEMMA ExitInductive ==
    ASSUME TypeOK, ExitInv, [Next]_vars
    PROVE  ExitInv'
<1>1. ASSUME NEW c \in Callers, AcquireTx(c) PROVE ExitInv'
    BY <1>1 DEF TypeOK, ExitInv, AcquireTx, channelVars, Gone, Locking
<1>2. ASSUME NEW c \in Callers, LogDropNewest(c) PROVE ExitInv'
    BY <1>2 DEF TypeOK, ExitInv, LogDropNewest, channelVars, Gone, Release
<1>3. ASSUME NEW c \in Callers, LogEmergency(c) PROVE ExitInv'
    BY <1>3 DEF TypeOK, ExitInv, LogEmergency, channelVars, Gone, Release, Disconnected
<1>4. ASSUME NEW c \in Callers, CtrlSendFails(c) PROVE ExitInv'
    BY <1>4 DEF TypeOK, ExitInv, CtrlSendFails, channelVars, Gone, Release
<1>5. ASSUME NEW c \in Callers, FlushReturn(c) PROVE ExitInv'
    BY <1>5 DEF TypeOK, ExitInv, FlushReturn, channelVars, Gone
<1>6. ASSUME NEW c \in Callers, ShutdownAcked(c) PROVE ExitInv'
    BY <1>6 DEF TypeOK, ExitInv, ShutdownAcked, channelVars, Gone
<1>7. ASSUME NEW c \in Callers, TakeHandle(c) PROVE ExitInv'
    BY <1>7 DEF TypeOK, ExitInv, TakeHandle, channelVars, Gone
<1>8. ASSUME NEW c \in Callers, Join(c) PROVE ExitInv'
    BY <1>8 DEF TypeOK, ExitInv, Join, channelVars, Gone
<1>9. ASSUME NEW c \in Callers, FlushCall(c) PROVE ExitInv'
    BY <1>9 DEF TypeOK, ExitInv, FlushCall, channelVars, Gone, StartCall
<1>10. ASSUME NEW c \in Callers, ShutdownCall(c) PROVE ExitInv'
    BY <1>10 DEF TypeOK, ExitInv, ShutdownCall, channelVars, Gone
<1>11. ASSUME NEW c \in Callers, DropHandle(c) PROVE ExitInv'
    BY <1>11 DEF TypeOK, ExitInv, DropHandle, channelVars, Gone
<1>12. ASSUME NEW c \in Callers, NEW l \in RecordLevels, LogReject(c, l) PROVE ExitInv'
    BY <1>12 DEF TypeOK, ExitInv, LogReject, channelVars, Gone, StartCall
<1>13. ASSUME NEW c \in Callers, NEW l \in RecordLevels, LogAdmit(c, l) PROVE ExitInv'
    BY <1>13 DEF TypeOK, ExitInv, LogAdmit, channelVars, Gone, StartCall
<1>14. ASSUME NEW c \in Callers, LogSend(c) PROVE ExitInv'
    <2>1. PICK m \in Message : sent' = Append(sent, m)
        BY <1>14 DEF TypeOK, LogSend, Send, Message, Level, Off
    <2>2. /\ Len(sent') = Len(sent) + 1
          /\ \A i \in 1..Len(sent) : sent'[i] = sent[i]
        BY <2>1, SendEffect
    <2>3. pc[c] \notin Gone
        BY <1>14 DEF LogSend, Gone
    <2>4. UNCHANGED <<taken, writer, emergency>>
        BY <1>14 DEF LogSend
    <2> QED BY <2>2, <2>3, <2>4 DEF TypeOK, ExitInv
<1>15. ASSUME NEW c \in Callers, CtrlSend(c) PROVE ExitInv'
    <2>1. PICK m \in Message : sent' = Append(sent, m)
        BY <1>15 DEF TypeOK, CtrlSend, Send, Message, Level, Off
    <2>2. /\ Len(sent') = Len(sent) + 1
          /\ \A i \in 1..Len(sent) : sent'[i] = sent[i]
        BY <2>1, SendEffect
    <2>3. pc[c] \notin Gone
        BY <1>15 DEF CtrlSend, Gone
    <2>4. UNCHANGED <<taken, writer, emergency>>
        BY <1>15 DEF CtrlSend
    <2> QED BY <2>2, <2>3, <2>4 DEF TypeOK, ExitInv
<1>16. CASE WRecv
    BY <1>16 DEF TypeOK, ExitInv, WRecv, Received, Queued, callerVars
<1>17. CASE WDisconnected
    BY <1>17 DEF TypeOK, ExitInv, WDisconnected, Queued, LastCloneGone, callerVars
<1>18. CASE WLog
    BY <1>18 DEF TypeOK, ExitInv, WLog, Handling, callerVars
<1>19. CASE WFlush
    BY <1>19 DEF TypeOK, ExitInv, WFlush, Handling
<1>20. CASE WShutdown
    BY <1>20 DEF TypeOK, ExitInv, WShutdown, Handling
<1>21. CASE WFlushPanic
    BY <1>21 DEF TypeOK, ExitInv, WFlushPanic, Handling
<1>22. CASE WExit
    BY <1>22 DEF TypeOK, ExitInv, WExit
<1>23. CASE UNCHANGED vars
    BY <1>23 DEF ExitInv, vars, channelVars, callerVars
<1> QED
    BY <1>1, <1>2, <1>3, <1>4, <1>5, <1>6, <1>7, <1>8, <1>9, <1>10, <1>11,
       <1>12, <1>13, <1>14, <1>15, <1>16, <1>17, <1>18, <1>19, <1>20, <1>21, <1>22, <1>23
    DEF Next, Writer, Step, Begin, Terminated

(* Type correctness, and what the writer leaves behind: a first invariant   *)
(* of the specification, the second part of which is what makes the type of *)
(* the message the writer handles known.                                    *)
LEMMA TypeAndExit == Spec => [](TypeOK /\ ExitInv)
<1>1. Init => TypeOK /\ ExitInv
    <2> SUFFICES ASSUME Init PROVE TypeOK /\ ExitInv
        OBVIOUS
    <2>1. SlotsTypeOK
        <3>1. slots \in [Slots -> SinkSlot] /\ flushed \in [Slots -> Nat]
            BY DEF Init, SlotsInit, SinkSlot
        <3>2. /\ written \in [Slots -> Seq(Nat)]
              /\ diverted \in [Slots -> Seq(Nat)]
              /\ failed \in [Slots -> Seq(Nat)]
            BY DEF Init, SlotsInit
        <3> QED BY <3>1, <3>2 DEF SlotsTypeOK
    <2>2. sent = <<>> /\ sent \in Seq(Message) /\ Len(sent) = 0
        BY DEF Init
    <2>3. calls \in [Callers -> 0..MaxCalls]
        BY LoggerAssumption DEF Init
    <2>4. pc \in [Callers -> PC] /\ level \in [Callers -> Level]
        BY DEF Init, PC, Level, Off
    <2>5. /\ ack \in [Callers -> {"none", "pending", "sent", "dropped"}]
          /\ mark \in [Callers -> Nat]
        BY DEF Init
    <2>6. /\ closed \in BOOLEAN /\ handle \in BOOLEAN
          /\ tx \in Callers \cup {None} /\ joining \in Callers \cup {None}
          /\ dropped = 0 /\ taken = 0 /\ emergency = 0 /\ admitted = 0
          /\ writer = "recv"
        BY DEF Init
    <2> QED BY <2>1, <2>2, <2>3, <2>4, <2>5, <2>6 DEF TypeOK, ExitInv
<1>2. TypeOK /\ ExitInv /\ [Next]_vars => (TypeOK /\ ExitInv)'
    BY TypeInductive, ExitInductive
<1> QED BY <1>1, <1>2, PTL DEF Spec

(* Every variable of the logger keeps its type, for every number of         *)
(* callers, calls and slots.                                                *)
THEOREM TypeCorrect == Spec => []TypeOK
BY TypeAndExit, PTL

(* Without a Shutdown message nothing is left in the channel when the       *)
(* writer stops; what is left came behind one.                              *)
THEOREM NothingLeftWithoutShutdown == Spec => []LossOnlyAfterShutdown
<1>1. TypeOK /\ ExitInv => LossOnlyAfterShutdown
    BY DEF TypeOK, ExitInv, LossOnlyAfterShutdown
<1> QED BY <1>1, TypeAndExit, PTL

------------------------------------------------------------------------------
(* Shutdown and the writer's handle.                                        *)

(* Each step keeps that the handle's mutex is held exactly across the join. *)
LEMMA HandleInductive ==
    ASSUME TypeOK, HandleInv, [Next]_vars
    PROVE  HandleInv'
<1>1. ASSUME NEW c \in Callers, AcquireTx(c) PROVE HandleInv'
    BY <1>1, LoggerAssumption DEF TypeOK, HandleInv, ShutdownStopsWriter, AcquireTx,
       channelVars, Locking
<1>2. ASSUME NEW c \in Callers, LogDropNewest(c) PROVE HandleInv'
    BY <1>2, LoggerAssumption DEF TypeOK, HandleInv, ShutdownStopsWriter,
       LogDropNewest, Release, channelVars, Locking
<1>3. ASSUME NEW c \in Callers, LogEmergency(c) PROVE HandleInv'
    BY <1>3, LoggerAssumption DEF TypeOK, HandleInv, ShutdownStopsWriter, LogEmergency,
       Release, Disconnected, channelVars, Locking
<1>4. ASSUME NEW c \in Callers, CtrlSendFails(c) PROVE HandleInv'
    BY <1>4, LoggerAssumption DEF TypeOK, HandleInv, ShutdownStopsWriter,
       CtrlSendFails, Release, Disconnected, channelVars, Locking
<1>5. ASSUME NEW c \in Callers, FlushReturn(c) PROVE HandleInv'
    BY <1>5, LoggerAssumption DEF TypeOK, HandleInv, ShutdownStopsWriter, FlushReturn,
       channelVars, Locking
<1>6. ASSUME NEW c \in Callers, ShutdownAcked(c) PROVE HandleInv'
    BY <1>6, LoggerAssumption DEF TypeOK, HandleInv, ShutdownStopsWriter,
       ShutdownAcked, channelVars, Locking
<1>7. ASSUME NEW c \in Callers, TakeHandle(c) PROVE HandleInv'
    BY <1>7, LoggerAssumption DEF TypeOK, HandleInv, ShutdownStopsWriter, TakeHandle,
       HandleFree, channelVars, Locking
<1>8. ASSUME NEW c \in Callers, Join(c) PROVE HandleInv'
    BY <1>8, LoggerAssumption DEF TypeOK, HandleInv, ShutdownStopsWriter, Join,
       channelVars, Locking
<1>9. ASSUME NEW c \in Callers, FlushCall(c) PROVE HandleInv'
    BY <1>9, LoggerAssumption DEF TypeOK, HandleInv, ShutdownStopsWriter, FlushCall,
       StartCall, channelVars, Locking
<1>10. ASSUME NEW c \in Callers, ShutdownCall(c) PROVE HandleInv'
    BY <1>10, LoggerAssumption DEF TypeOK, HandleInv, ShutdownStopsWriter,
       ShutdownCall, channelVars, Locking
<1>11. ASSUME NEW c \in Callers, DropHandle(c) PROVE HandleInv'
    BY <1>11, LoggerAssumption DEF TypeOK, HandleInv, ShutdownStopsWriter, DropHandle,
       channelVars, Locking
<1>12. ASSUME NEW c \in Callers, NEW l \in RecordLevels, LogReject(c, l) PROVE HandleInv'
    BY <1>12, LoggerAssumption DEF TypeOK, HandleInv, ShutdownStopsWriter, LogReject,
       StartCall, channelVars, Locking
<1>13. ASSUME NEW c \in Callers, NEW l \in RecordLevels, LogAdmit(c, l) PROVE HandleInv'
    BY <1>13, LoggerAssumption DEF TypeOK, HandleInv, ShutdownStopsWriter, LogAdmit,
       StartCall, channelVars, Locking
<1>14. ASSUME NEW c \in Callers, LogSend(c) PROVE HandleInv'
    BY <1>14, LoggerAssumption DEF TypeOK, HandleInv, ShutdownStopsWriter, LogSend,
       Release, channelVars, Locking
<1>15. ASSUME NEW c \in Callers, CtrlSend(c) PROVE HandleInv'
    BY <1>15, LoggerAssumption DEF TypeOK, HandleInv, ShutdownStopsWriter, CtrlSend,
       Release, Waiting, channelVars, Locking
<1>16. CASE WRecv
    BY <1>16, LoggerAssumption DEF TypeOK, HandleInv, ShutdownStopsWriter, WRecv, Received,
       callerVars
<1>17. CASE WDisconnected
    BY <1>17, LoggerAssumption DEF TypeOK, HandleInv, ShutdownStopsWriter,
       WDisconnected, callerVars
<1>18. CASE WLog
    BY <1>18, LoggerAssumption DEF TypeOK, HandleInv, ShutdownStopsWriter, WLog,
       Handling, callerVars
<1>19. CASE WFlush
    BY <1>19, LoggerAssumption DEF TypeOK, HandleInv, ShutdownStopsWriter, WFlush,
       Handling, callerVars
<1>20. CASE WShutdown
    BY <1>20, LoggerAssumption DEF TypeOK, HandleInv, ShutdownStopsWriter, WShutdown,
       Handling, callerVars
<1>21. CASE WFlushPanic
    BY <1>21, LoggerAssumption DEF TypeOK, HandleInv, ShutdownStopsWriter, WFlushPanic,
       Handling, callerVars
<1>22. CASE WExit
    BY <1>22, LoggerAssumption DEF TypeOK, HandleInv, ShutdownStopsWriter, WExit,
       callerVars
<1>23. CASE UNCHANGED vars
    BY <1>23 DEF TypeOK, HandleInv, ShutdownStopsWriter, vars, channelVars, callerVars,
       history, slotVars
<1> QED
    BY <1>1, <1>2, <1>3, <1>4, <1>5, <1>6, <1>7, <1>8, <1>9, <1>10, <1>11, <1>12,
       <1>13, <1>14, <1>15, <1>16, <1>17, <1>18, <1>19, <1>20, <1>21, <1>22, <1>23
    DEF Next, Writer, Step, Begin, Terminated

(* When shutdown has returned, on any clone, the writer thread has stopped: *)
(* the mutex of the handle is held across the join.                         *)
THEOREM ShutdownStops == Spec => []ShutdownStopsWriter
<1>1. Init => HandleInv
    BY LoggerAssumption DEF Init, HandleInv, ShutdownStopsWriter
<1>2. TypeOK /\ HandleInv /\ [Next]_vars => HandleInv'
    BY HandleInductive
<1>3. HandleInv => ShutdownStopsWriter
    BY DEF HandleInv
<1> QED BY <1>1, <1>2, <1>3, TypeCorrect, PTL DEF Spec

------------------------------------------------------------------------------
(* The order of the records in a sink.                                      *)

(* An increasing log below n stays increasing when n is appended.           *)
LEMMA AppendNewest ==
    ASSUME NEW log \in Seq(Nat), NEW n \in Nat \ {0}, NEW new,
           \A k \in 1..Len(log) : log[k] \in 1..n - 1,
           \A j, k \in 1..Len(log) : j < k => log[j] < log[k],
           new = log \/ new = Append(log, n)
    PROVE  /\ \A k \in 1..Len(new) : new[k] \in 1..n
           /\ \A j, k \in 1..Len(new) : j < k => new[j] < new[k]
<1>1. CASE new = log
    BY <1>1
<1>2. CASE new = Append(log, n)
    <2>1. /\ Len(new) = Len(log) + 1
          /\ new[Len(log) + 1] = n
          /\ \A k \in 1..Len(log) : new[k] = log[k]
        BY <1>2
    <2>2. \A k \in 1..Len(new) : k \in 1..Len(log) \/ k = Len(log) + 1
        BY <2>1
    <2>3. \A k \in 1..Len(new) : new[k] \in 1..n
        BY <2>1, <2>2
    <2>4. ASSUME NEW j \in 1..Len(new), NEW k \in 1..Len(new), j < k
          PROVE  new[j] < new[k]
        <3>1. j \in 1..Len(log) /\ new[j] = log[j] /\ log[j] \in 1..n - 1
            BY <2>1, <2>2, <2>4
        <3>2. CASE k \in 1..Len(log)
            BY <2>1, <2>4, <3>1, <3>2
        <3>3. CASE k = Len(log) + 1
            BY <2>1, <3>1, <3>3
        <3> QED BY <2>2, <3>2, <3>3
    <2> QED BY <2>3, <2>4
<1> QED BY <1>1, <1>2

(* Each step keeps that a sink was given, in order, only messages the       *)
(* writer is done with.                                                     *)
LEMMA OrderInductive ==
    ASSUME TypeOK, ExitInv, OrderInv, [Next]_vars
    PROVE  OrderInv'
<1>1. ASSUME NEW c \in Callers, AcquireTx(c) PROVE OrderInv'
    <2>1. UNCHANGED <<taken, writer, written>>
        BY <1>1 DEF AcquireTx, channelVars, slotVars
    <2> QED BY <2>1 DEF OrderInv, SinkOrder, Handled
<1>2. ASSUME NEW c \in Callers, LogDropNewest(c) PROVE OrderInv'
    <2>1. UNCHANGED <<taken, writer, written>>
        BY <1>2 DEF LogDropNewest, channelVars, slotVars
    <2> QED BY <2>1 DEF OrderInv, SinkOrder, Handled
<1>3. ASSUME NEW c \in Callers, LogEmergency(c) PROVE OrderInv'
    <2>1. UNCHANGED <<taken, writer, written>>
        BY <1>3 DEF LogEmergency, channelVars, slotVars
    <2> QED BY <2>1 DEF OrderInv, SinkOrder, Handled
<1>4. ASSUME NEW c \in Callers, CtrlSendFails(c) PROVE OrderInv'
    <2>1. UNCHANGED <<taken, writer, written>>
        BY <1>4 DEF CtrlSendFails, channelVars, slotVars
    <2> QED BY <2>1 DEF OrderInv, SinkOrder, Handled
<1>5. ASSUME NEW c \in Callers, FlushReturn(c) PROVE OrderInv'
    <2>1. UNCHANGED <<taken, writer, written>>
        BY <1>5 DEF FlushReturn, channelVars, slotVars
    <2> QED BY <2>1 DEF OrderInv, SinkOrder, Handled
<1>6. ASSUME NEW c \in Callers, ShutdownAcked(c) PROVE OrderInv'
    <2>1. UNCHANGED <<taken, writer, written>>
        BY <1>6 DEF ShutdownAcked, channelVars, slotVars
    <2> QED BY <2>1 DEF OrderInv, SinkOrder, Handled
<1>7. ASSUME NEW c \in Callers, TakeHandle(c) PROVE OrderInv'
    <2>1. UNCHANGED <<taken, writer, written>>
        BY <1>7 DEF TakeHandle, channelVars, slotVars
    <2> QED BY <2>1 DEF OrderInv, SinkOrder, Handled
<1>8. ASSUME NEW c \in Callers, Join(c) PROVE OrderInv'
    <2>1. UNCHANGED <<taken, writer, written>>
        BY <1>8 DEF Join, channelVars, slotVars
    <2> QED BY <2>1 DEF OrderInv, SinkOrder, Handled
<1>9. ASSUME NEW c \in Callers, FlushCall(c) PROVE OrderInv'
    <2>1. UNCHANGED <<taken, writer, written>>
        BY <1>9 DEF FlushCall, channelVars, slotVars
    <2> QED BY <2>1 DEF OrderInv, SinkOrder, Handled
<1>10. ASSUME NEW c \in Callers, ShutdownCall(c) PROVE OrderInv'
    <2>1. UNCHANGED <<taken, writer, written>>
        BY <1>10 DEF ShutdownCall, channelVars, slotVars
    <2> QED BY <2>1 DEF OrderInv, SinkOrder, Handled
<1>11. ASSUME NEW c \in Callers, DropHandle(c) PROVE OrderInv'
    <2>1. UNCHANGED <<taken, writer, written>>
        BY <1>11 DEF DropHandle, channelVars, slotVars
    <2> QED BY <2>1 DEF OrderInv, SinkOrder, Handled
<1>12. ASSUME NEW c \in Callers, NEW l \in RecordLevels, LogReject(c, l) PROVE OrderInv'
    <2>1. UNCHANGED <<taken, writer, written>>
        BY <1>12 DEF LogReject, channelVars, slotVars
    <2> QED BY <2>1 DEF OrderInv, SinkOrder, Handled
<1>13. ASSUME NEW c \in Callers, NEW l \in RecordLevels, LogAdmit(c, l) PROVE OrderInv'
    <2>1. UNCHANGED <<taken, writer, written>>
        BY <1>13 DEF LogAdmit, channelVars, slotVars
    <2> QED BY <2>1 DEF OrderInv, SinkOrder, Handled
<1>14. ASSUME NEW c \in Callers, LogSend(c) PROVE OrderInv'
    <2>1. UNCHANGED <<taken, writer, written>>
        BY <1>14 DEF LogSend, channelVars, slotVars
    <2> QED BY <2>1 DEF OrderInv, SinkOrder, Handled
<1>15. ASSUME NEW c \in Callers, CtrlSend(c) PROVE OrderInv'
    <2>1. UNCHANGED <<taken, writer, written>>
        BY <1>15 DEF CtrlSend, channelVars, slotVars
    <2> QED BY <2>1 DEF OrderInv, SinkOrder, Handled
<1>16. CASE WRecv
    <2>1. Handled' = Handled /\ written' = written
        BY <1>16 DEF WRecv, Received, TypeOK, Handled, slotVars
    <2> QED BY <2>1 DEF OrderInv, SinkOrder
<1>17. CASE WDisconnected
    <2>1. Handled' = Handled /\ written' = written
        BY <1>17 DEF WDisconnected, TypeOK, Handled, slotVars
    <2> QED BY <2>1 DEF OrderInv, SinkOrder
<1>18. CASE WLog
    <2>1. taken \in 1..Len(sent) /\ Handled = taken - 1 /\ Handled' = taken
        BY <1>18, HandlingFacts DEF WLog, Handling, Handled
    <2>2. ASSUME NEW s \in Slots
          PROVE  /\ \A k \in 1..Len(written'[s]) : written'[s][k] \in 1..taken
                 /\ \A j, k \in 1..Len(written'[s]) :
                        j < k => written'[s][j] < written'[s][k]
        <3>1. written[s] \in Seq(Nat)
            BY DEF TypeOK, SlotsTypeOK
        <3>2. written'[s] = written[s] \/ written'[s] = Append(written[s], taken)
            <4>1. taken \in Nat /\ sent[taken].level \in Level
                BY <1>18, HandlingFacts DEF WLog, Handling, Message
            <4> QED BY <1>18, <4>1, WriteRecordEffect DEF WLog, TypeOK
        <3>3. /\ \A k \in 1..Len(written[s]) : written[s][k] \in 1..taken - 1
              /\ \A j, k \in 1..Len(written[s]) : j < k => written[s][j] < written[s][k]
            BY <2>1 DEF OrderInv, SinkOrder
        <3> DEFINE old == written[s]
                   new == written'[s]
        <3>4. /\ old \in Seq(Nat) /\ taken \in Nat \ {0}
              /\ \A k \in 1..Len(old) : old[k] \in 1..taken - 1
              /\ \A j, k \in 1..Len(old) : j < k => old[j] < old[k]
              /\ new = old \/ new = Append(old, taken)
            BY <2>1, <3>1, <3>2, <3>3
        <3>5. /\ \A k \in 1..Len(new) : new[k] \in 1..taken
              /\ \A j, k \in 1..Len(new) : j < k => new[j] < new[k]
            <4> HIDE DEF old, new
            <4> QED BY <3>4, AppendNewest
        <3> QED BY <3>5
    <2> QED BY <2>1, <2>2 DEF OrderInv, SinkOrder
<1>19. CASE WFlush
    <2>1. Handled' \in Nat /\ Handled' >= Handled /\ Handled \in Nat
        BY <1>19, HandlingFacts DEF WFlush, Handling, TypeOK, Handled
    <2>2. written' = written
        BY <1>19 DEF WFlush, FlushAll
    <2> QED BY <2>1, <2>2 DEF OrderInv, SinkOrder
<1>20. CASE WShutdown
    <2>1. Handled' \in Nat /\ Handled' >= Handled /\ Handled \in Nat
        BY <1>20, HandlingFacts DEF WShutdown, Handling, TypeOK, Handled
    <2>2. written' = written
        BY <1>20 DEF WShutdown, FlushAll
    <2> QED BY <2>1, <2>2 DEF OrderInv, SinkOrder
<1>21. CASE WFlushPanic
    <2>1. Handled' \in Nat /\ Handled' >= Handled /\ Handled \in Nat
        BY <1>21, HandlingFacts DEF WFlushPanic, Handling, TypeOK, Handled
    <2>2. written' = written
        BY <1>21 DEF WFlushPanic, FlushPanic
    <2> QED BY <2>1, <2>2 DEF OrderInv, SinkOrder
<1>22. CASE WExit
    <2>1. Handled' \in Nat /\ Handled' >= Handled /\ Handled \in Nat
        BY <1>22, HandlingFacts DEF WExit, Handling, TypeOK, Handled
    <2>2. written' = written
        BY <1>22 DEF WExit, FinalFlush
    <2> QED BY <2>1, <2>2 DEF OrderInv, SinkOrder
<1>23. CASE UNCHANGED vars
    BY <1>23 DEF OrderInv, SinkOrder, Handled, vars, channelVars, slotVars
<1> QED
    BY <1>1, <1>2, <1>3, <1>4, <1>5, <1>6, <1>7, <1>8, <1>9, <1>10, <1>11, <1>12,
       <1>13, <1>14, <1>15, <1>16, <1>17, <1>18, <1>19, <1>20, <1>21, <1>22, <1>23
    DEF Next, Writer, Step, Begin, Terminated

(* Every sink gets the records in the order of the queue and none of them   *)
(* twice, whatever fails or panics, for every number of callers and slots.  *)
THEOREM SinksInOrder == Spec => []SinkOrder
<1>1. Init => OrderInv
    BY DEF Init, SlotsInit, OrderInv, SinkOrder
<1>2. TypeOK /\ ExitInv /\ OrderInv /\ [Next]_vars => OrderInv'
    BY OrderInductive
<1>3. OrderInv => SinkOrder
    BY DEF OrderInv
<1> QED BY <1>1, <1>2, <1>3, TypeAndExit, PTL DEF Spec

------------------------------------------------------------------------------
(* Acknowledgements.                                                        *)

(* What the writer is done with is a position of the history, one behind    *)
(* the cursor while it handles a message.                                   *)
LEMMA HandledType ==
    ASSUME TypeOK, ExitInv PROVE Handled \in Nat /\ Handled <= taken
BY DEF TypeOK, ExitInv, Handled

(* A control message the writer is not done with comes from a caller that   *)
(* waits for its ack.                                                       *)
LEMMA OutstandingFacts ==
    ASSUME TypeOK, ExitInv, AckInv, writer # "done",
           NEW i \in Handled + 1..Len(sent), Control(i)
    PROVE  /\ i \in 1..Len(sent)
           /\ sent[i].from \in Callers
           /\ pc[sent[i].from] \in Waiting
           /\ ack[sent[i].from] = "pending"
           /\ mark[sent[i].from] < i
<1>1. i \in 1..Len(sent)
    BY HandledType DEF TypeOK
<1>2. sent[i] \in Message
    BY <1>1 DEF TypeOK
<1> QED BY <1>1, <1>2 DEF AckInv, Message

(* A step of a caller that is not waiting for an ack, or whose ack has      *)
(* come, leaves the outstanding control messages as they are.               *)
LEMMA Undisturbed ==
    ASSUME TypeOK, ExitInv, AckInv, NEW c \in Callers,
           UNCHANGED <<sent, taken, writer>>,
           \A d \in Callers : d # c => UNCHANGED <<pc[d], ack[d], mark[d]>>,
           mark'[c] <= Len(sent),
           pc[c] \notin Waiting \/ ack[c] # "pending"
    PROVE  AckInv'
<1>1. Handled' = Handled
    BY DEF Handled
<1>2. \A d \in Callers : mark'[d] <= Len(sent')
    BY DEF AckInv
<1>3. ASSUME writer # "done", NEW i \in Handled + 1..Len(sent), Control(i)
      PROVE  /\ sent[i].from \in Callers \ {c}
             /\ pc'[sent[i].from] \in Waiting
             /\ ack'[sent[i].from] = "pending"
             /\ mark'[sent[i].from] < i
    BY <1>3, OutstandingFacts
<1> QED BY <1>1, <1>2, <1>3 DEF AckInv, Control

(* When the writer is done with one more message, only the caller of that   *)
(* message may see its ack change.                                          *)
LEMMA LaterOnly ==
    ASSUME TypeOK, ExitInv, AckInv, UNCHANGED <<sent, pc, mark>>, writer # "done",
           Handled' = Handled + 1,
           \/ UNCHANGED ack
           \/ /\ Control(Handled + 1) /\ Handled + 1 <= Len(sent)
              /\ \A d \in Callers : d # sent[Handled + 1].from => ack'[d] = ack[d]
    PROVE  AckInv'
<1>1. ASSUME NEW i \in Handled' + 1..Len(sent), Control(i)
      PROVE  /\ i \in Handled + 1..Len(sent)
             /\ sent[i].from \in Callers
             /\ ack'[sent[i].from] = ack[sent[i].from]
    <2>1. i \in Handled + 1..Len(sent) /\ i # Handled + 1
        BY HandledType DEF TypeOK
    <2>2. sent[i].from \in Callers
        BY <1>1, <2>1, OutstandingFacts
    <2>3. ASSUME Control(Handled + 1), Handled + 1 <= Len(sent)
          PROVE  sent[i].from # sent[Handled + 1].from
        <3>1. Handled + 1 \in Handled + 1..Len(sent)
            BY <2>3, HandledType DEF TypeOK
        <3> QED BY <1>1, <2>1, <2>3, <3>1 DEF AckInv
    <2> QED BY <2>1, <2>2, <2>3
<1> QED BY <1>1 DEF AckInv, Control

(* Each step keeps that an outstanding control message has one caller, who  *)
(* waits for it and sent it after its call began.                           *)
LEMMA AckInductive ==
    ASSUME TypeOK, ExitInv, AckInv, [Next]_vars
    PROVE  AckInv'
<1>1. ASSUME NEW c \in Callers, AcquireTx(c) PROVE AckInv'
    <2>1. /\ UNCHANGED <<sent, taken, writer>>
          /\ \A d \in Callers : d # c => UNCHANGED <<pc[d], ack[d], mark[d]>>
          /\ mark'[c] <= Len(sent)
          /\ pc[c] \notin Waiting \/ ack[c] # "pending"
        BY <1>1 DEF TypeOK, AckInv, AcquireTx, channelVars, history, Waiting, Locking
    <2> QED BY <2>1, Undisturbed
<1>2. ASSUME NEW c \in Callers, LogDropNewest(c) PROVE AckInv'
    <2>1. /\ UNCHANGED <<sent, taken, writer>>
          /\ \A d \in Callers : d # c => UNCHANGED <<pc[d], ack[d], mark[d]>>
          /\ mark'[c] <= Len(sent)
          /\ pc[c] \notin Waiting \/ ack[c] # "pending"
        BY <1>2 DEF TypeOK, AckInv, LogDropNewest, channelVars, history, Waiting, Release
    <2> QED BY <2>1, Undisturbed
<1>3. ASSUME NEW c \in Callers, LogEmergency(c) PROVE AckInv'
    <2>1. /\ UNCHANGED <<sent, taken, writer>>
          /\ \A d \in Callers : d # c => UNCHANGED <<pc[d], ack[d], mark[d]>>
          /\ mark'[c] <= Len(sent)
          /\ pc[c] \notin Waiting \/ ack[c] # "pending"
        BY <1>3 DEF TypeOK, AckInv, LogEmergency, channelVars, history, Waiting, Release
    <2> QED BY <2>1, Undisturbed
<1>4. ASSUME NEW c \in Callers, CtrlSendFails(c) PROVE AckInv'
    <2>1. /\ UNCHANGED <<sent, taken, writer>>
          /\ \A d \in Callers : d # c => UNCHANGED <<pc[d], ack[d], mark[d]>>
          /\ mark'[c] <= Len(sent)
          /\ pc[c] \notin Waiting \/ ack[c] # "pending"
        BY <1>4 DEF TypeOK, AckInv, CtrlSendFails, channelVars, history, Waiting, Release
    <2> QED BY <2>1, Undisturbed
<1>5. ASSUME NEW c \in Callers, FlushReturn(c) PROVE AckInv'
    <2>1. /\ UNCHANGED <<sent, taken, writer>>
          /\ \A d \in Callers : d # c => UNCHANGED <<pc[d], ack[d], mark[d]>>
          /\ mark'[c] <= Len(sent)
          /\ pc[c] \notin Waiting \/ ack[c] # "pending"
        BY <1>5 DEF TypeOK, AckInv, FlushReturn, channelVars, history, Waiting, AckArrived
    <2> QED BY <2>1, Undisturbed
<1>6. ASSUME NEW c \in Callers, ShutdownAcked(c) PROVE AckInv'
    <2>1. /\ UNCHANGED <<sent, taken, writer>>
          /\ \A d \in Callers : d # c => UNCHANGED <<pc[d], ack[d], mark[d]>>
          /\ mark'[c] <= Len(sent)
          /\ pc[c] \notin Waiting \/ ack[c] # "pending"
        BY <1>6 DEF TypeOK, AckInv, ShutdownAcked, channelVars, history, Waiting,
           AckArrived
    <2> QED BY <2>1, Undisturbed
<1>7. ASSUME NEW c \in Callers, TakeHandle(c) PROVE AckInv'
    <2>1. /\ UNCHANGED <<sent, taken, writer>>
          /\ \A d \in Callers : d # c => UNCHANGED <<pc[d], ack[d], mark[d]>>
          /\ mark'[c] <= Len(sent)
          /\ pc[c] \notin Waiting \/ ack[c] # "pending"
        BY <1>7 DEF TypeOK, AckInv, TakeHandle, channelVars, history, Waiting, PC
    <2> QED BY <2>1, Undisturbed
<1>8. ASSUME NEW c \in Callers, Join(c) PROVE AckInv'
    <2>1. /\ UNCHANGED <<sent, taken, writer>>
          /\ \A d \in Callers : d # c => UNCHANGED <<pc[d], ack[d], mark[d]>>
          /\ mark'[c] <= Len(sent)
          /\ pc[c] \notin Waiting \/ ack[c] # "pending"
        BY <1>8 DEF TypeOK, AckInv, Join, channelVars, history, Waiting, PC
    <2> QED BY <2>1, Undisturbed
<1>9. ASSUME NEW c \in Callers, FlushCall(c) PROVE AckInv'
    <2>1. /\ UNCHANGED <<sent, taken, writer>>
          /\ \A d \in Callers : d # c => UNCHANGED <<pc[d], ack[d], mark[d]>>
          /\ mark'[c] <= Len(sent)
          /\ pc[c] \notin Waiting \/ ack[c] # "pending"
        BY <1>9 DEF TypeOK, AckInv, FlushCall, channelVars, history, Waiting, StartCall
    <2> QED BY <2>1, Undisturbed
<1>10. ASSUME NEW c \in Callers, ShutdownCall(c) PROVE AckInv'
    <2>1. /\ UNCHANGED <<sent, taken, writer>>
          /\ \A d \in Callers : d # c => UNCHANGED <<pc[d], ack[d], mark[d]>>
          /\ mark'[c] <= Len(sent)
          /\ pc[c] \notin Waiting \/ ack[c] # "pending"
        BY <1>10 DEF TypeOK, AckInv, ShutdownCall, channelVars, history, Waiting, PC
    <2> QED BY <2>1, Undisturbed
<1>11. ASSUME NEW c \in Callers, DropHandle(c) PROVE AckInv'
    <2>1. /\ UNCHANGED <<sent, taken, writer>>
          /\ \A d \in Callers : d # c => UNCHANGED <<pc[d], ack[d], mark[d]>>
          /\ mark'[c] <= Len(sent)
          /\ pc[c] \notin Waiting \/ ack[c] # "pending"
        BY <1>11 DEF TypeOK, AckInv, DropHandle, channelVars, history, Waiting, PC
    <2> QED BY <2>1, Undisturbed
<1>12. ASSUME NEW c \in Callers, NEW l \in RecordLevels, LogReject(c, l) PROVE AckInv'
    <2>1. /\ UNCHANGED <<sent, taken, writer>>
          /\ \A d \in Callers : d # c => UNCHANGED <<pc[d], ack[d], mark[d]>>
          /\ mark'[c] <= Len(sent)
          /\ pc[c] \notin Waiting \/ ack[c] # "pending"
        BY <1>12 DEF TypeOK, AckInv, LogReject, channelVars, history, Waiting, StartCall
    <2> QED BY <2>1, Undisturbed
<1>13. ASSUME NEW c \in Callers, NEW l \in RecordLevels, LogAdmit(c, l) PROVE AckInv'
    <2>1. /\ UNCHANGED <<sent, taken, writer>>
          /\ \A d \in Callers : d # c => UNCHANGED <<pc[d], ack[d], mark[d]>>
          /\ mark'[c] <= Len(sent)
          /\ pc[c] \notin Waiting \/ ack[c] # "pending"
        BY <1>13 DEF TypeOK, AckInv, LogAdmit, channelVars, history, Waiting, StartCall
    <2> QED BY <2>1, Undisturbed
<1>14. ASSUME NEW c \in Callers, LogSend(c) PROVE AckInv'
    <2>1. PICK m \in Message :
             /\ sent' = Append(sent, m)
             /\ m.from = c
             /\ m.kind = "log"
        <3>1. [kind |-> "log", from |-> c, level |-> level[c]] \in Message
            BY DEF TypeOK, Message
        <3> QED BY <1>14, <3>1 DEF LogSend, Send
    <2>2. /\ Len(sent') = Len(sent) + 1
          /\ \A i \in 1..Len(sent) : sent'[i] = sent[i]
          /\ sent'[Len(sent) + 1] = m
        BY <2>1, SendEffect
    <2>3. /\ UNCHANGED <<taken, writer, mark>>
          /\ Handled' = Handled
          /\ \A d \in Callers : d # c => UNCHANGED <<pc[d], ack[d]>>
          /\ pc[c] \notin Waiting
        BY <1>14 DEF TypeOK, LogSend, Handled, Release, history, Waiting
    <2>4. ASSUME writer' # "done", NEW i \in Handled' + 1..Len(sent'), Control(i)'
          PROVE  \/ /\ i \in Handled + 1..Len(sent) /\ Control(i) /\ sent'[i] = sent[i]
                    /\ sent[i].from \in Callers \ {c}
                 \/ i = Len(sent) + 1 /\ sent'[i] = m /\ m.kind # "log"
        <3>1. Handled \in Nat /\ Len(sent) \in Nat
            BY HandledType DEF TypeOK
        <3>2. CASE i \in 1..Len(sent)
            BY <2>2, <2>3, <2>4, <3>1, <3>2, OutstandingFacts DEF Control
        <3>3. CASE i = Len(sent) + 1
            BY <2>2, <2>4, <3>3 DEF Control
        <3> QED BY <2>2, <2>3, <3>1, <3>2, <3>3
    <2>5. \A d \in Callers : mark'[d] <= Len(sent')
        BY <2>2, <2>3 DEF AckInv, TypeOK
    <2>6. ASSUME writer' # "done", NEW i \in Handled' + 1..Len(sent'), Control(i)'
          PROVE  /\ i \in Handled + 1..Len(sent) /\ Control(i) /\ sent'[i] = sent[i]
                 /\ sent[i].from \in Callers \ {c}
        BY <2>1, <2>4, <2>6
    <2>7. ASSUME writer' # "done", NEW i \in Handled' + 1..Len(sent'), Control(i)'
          PROVE  /\ pc'[sent'[i].from] \in Waiting
                 /\ ack'[sent'[i].from] = "pending"
                 /\ mark'[sent'[i].from] < i
                 /\ \A j \in Handled' + 1..Len(sent') :
                       Control(j)' /\ sent'[j].from = sent'[i].from => j = i
        BY <2>3, <2>6, <2>7 DEF AckInv
    <2> QED BY <2>5, <2>7 DEF AckInv
<1>15. ASSUME NEW c \in Callers, CtrlSend(c) PROVE AckInv'
    <2>1. PICK m \in Message :
             /\ sent' = Append(sent, m)
             /\ m.from = c
             /\ m.kind # "log"
        BY <1>15 DEF TypeOK, CtrlSend, Send, Message, Level, Off
    <2>2. /\ Len(sent') = Len(sent) + 1
          /\ \A i \in 1..Len(sent) : sent'[i] = sent[i]
          /\ sent'[Len(sent) + 1] = m
        BY <2>1, SendEffect
    <2>3. /\ UNCHANGED <<taken, writer, mark>>
          /\ Handled' = Handled
          /\ \A d \in Callers : d # c => UNCHANGED <<pc[d], ack[d]>>
          /\ pc[c] \notin Waiting
          /\ pc'[c] \in Waiting /\ ack'[c] = "pending"
        BY <1>15 DEF TypeOK, CtrlSend, Handled, Release, history, Waiting
    <2>4. ASSUME writer' # "done", NEW i \in Handled' + 1..Len(sent'), Control(i)'
          PROVE  \/ /\ i \in Handled + 1..Len(sent) /\ Control(i) /\ sent'[i] = sent[i]
                    /\ sent[i].from \in Callers \ {c}
                 \/ i = Len(sent) + 1 /\ sent'[i] = m /\ m.kind # "log"
        <3>1. Handled \in Nat /\ Len(sent) \in Nat
            BY HandledType DEF TypeOK
        <3>2. CASE i \in 1..Len(sent)
            BY <2>2, <2>3, <2>4, <3>1, <3>2, OutstandingFacts DEF Control
        <3>3. CASE i = Len(sent) + 1
            BY <2>2, <2>4, <3>3 DEF Control
        <3> QED BY <2>2, <2>3, <3>1, <3>2, <3>3
    <2>5. \A d \in Callers : mark'[d] < Len(sent) + 1
        BY <2>3 DEF AckInv, TypeOK
    <2>6. ASSUME writer' # "done", NEW i \in Handled' + 1..Len(sent'), Control(i)'
          PROVE  /\ pc'[sent'[i].from] \in Waiting
                 /\ ack'[sent'[i].from] = "pending"
                 /\ mark'[sent'[i].from] < i
                 /\ \A j \in Handled' + 1..Len(sent') :
                       Control(j)' /\ sent'[j].from = sent'[i].from => j = i
        <3>1. CASE i \in Handled + 1..Len(sent) /\ Control(i) /\ sent'[i] = sent[i]
                    /\ sent[i].from \in Callers \ {c}
            <4>1. /\ pc'[sent'[i].from] \in Waiting
                  /\ ack'[sent'[i].from] = "pending"
                  /\ mark'[sent'[i].from] < i
                BY <2>3, <2>6, <3>1 DEF AckInv
            <4>2. ASSUME NEW j \in Handled' + 1..Len(sent'), Control(j)',
                         sent'[j].from = sent'[i].from
                  PROVE  j = i
                BY <2>1, <2>3, <2>4, <2>6, <3>1, <4>2 DEF AckInv
            <4> QED BY <4>1, <4>2
        <3>2. CASE i = Len(sent) + 1 /\ sent'[i] = m /\ m.kind # "log"
            <4>1. /\ pc'[sent'[i].from] \in Waiting
                  /\ ack'[sent'[i].from] = "pending"
                  /\ mark'[sent'[i].from] < i
                BY <2>1, <2>3, <2>5, <3>2
            <4>2. ASSUME NEW j \in Handled' + 1..Len(sent'), Control(j)',
                         sent'[j].from = sent'[i].from
                  PROVE  j = i
                BY <2>1, <2>4, <2>6, <3>2, <4>2
            <4> QED BY <4>1, <4>2
        <3> QED BY <2>4, <2>6, <3>1, <3>2
    <2>7. \A d \in Callers : mark'[d] <= Len(sent')
        BY <2>2, <2>3 DEF AckInv, TypeOK
    <2> QED BY <2>6, <2>7 DEF AckInv
<1>16. CASE WRecv
    <2>1. Handled' = Handled
        BY <1>16 DEF WRecv, Received, TypeOK, Handled
    <2> QED BY <1>16, <2>1 DEF WRecv, Received, AckInv, Control, callerVars, history
<1>17. CASE WDisconnected
    <2>1. Handled' = Handled
        BY <1>17 DEF WDisconnected, TypeOK, Handled
    <2> QED BY <1>17, <2>1 DEF WDisconnected, AckInv, Control, callerVars, history
<1>18. CASE WLog
    <2>1. Handled' = Handled + 1 /\ Handled \in Nat
        BY <1>18, HandlingFacts DEF WLog, Handling, Handled
    <2> QED BY <1>18, <2>1, LaterOnly DEF WLog, Handling, callerVars, history
<1>19. CASE WFlush
    <2>1. Handled' = Handled + 1 /\ Handled + 1 = taken /\ taken \in 1..Len(sent)
        BY <1>19, HandlingFacts DEF WFlush, Handling, Handled
    <2>2. /\ UNCHANGED <<sent, pc, mark>>
          /\ writer # "done"
          /\ Control(Handled + 1) /\ Handled + 1 <= Len(sent)
          /\ \A d \in Callers : d # sent[Handled + 1].from => ack'[d] = ack[d]
        BY <1>19, <2>1 DEF WFlush, Handling, Control, Acknowledge, history, TypeOK
    <2> QED BY <2>1, <2>2, LaterOnly
<1>20. CASE WShutdown
    <2>1. Handled' = Handled + 1 /\ Handled + 1 = taken /\ taken \in 1..Len(sent)
        BY <1>20, HandlingFacts DEF WShutdown, Handling, Handled
    <2>2. /\ UNCHANGED <<sent, pc, mark>>
          /\ writer # "done"
          /\ Control(Handled + 1) /\ Handled + 1 <= Len(sent)
          /\ \A d \in Callers : d # sent[Handled + 1].from => ack'[d] = ack[d]
        BY <1>20, <2>1 DEF WShutdown, Handling, Control, Acknowledge, history, TypeOK
    <2> QED BY <2>1, <2>2, LaterOnly
<1>21. CASE WFlushPanic
    <2>1. Handled' = Handled + 1 /\ Handled + 1 = taken /\ taken \in 1..Len(sent)
        BY <1>21, HandlingFacts DEF WFlushPanic, Handling, Handled
    <2>2. /\ UNCHANGED <<sent, pc, mark>>
          /\ writer # "done"
          /\ Control(Handled + 1) /\ Handled + 1 <= Len(sent)
          /\ \A d \in Callers : d # sent[Handled + 1].from => ack'[d] = ack[d]
        BY <1>21, <2>1 DEF WFlushPanic, Handling, Control, Acknowledge, history, TypeOK
    <2> QED BY <2>1, <2>2, LaterOnly
<1>22. CASE WExit
    BY <1>22 DEF WExit, AckInv, history
<1>23. CASE UNCHANGED vars
    BY <1>23 DEF AckInv, Control, Handled, vars, channelVars, callerVars, history,
       slotVars
<1> QED
    BY <1>1, <1>2, <1>3, <1>4, <1>5, <1>6, <1>7, <1>8, <1>9, <1>10, <1>11, <1>12,
       <1>13, <1>14, <1>15, <1>16, <1>17, <1>18, <1>19, <1>20, <1>21, <1>22, <1>23
    DEF Next, Writer, Step, Begin, Terminated

------------------------------------------------------------------------------
(* What an acknowledged flush has done.                                     *)

(* An entry of a log with n appended is an old entry, or n.                 *)
LEMMA AppendedAt ==
    ASSUME NEW log \in Seq(Nat), NEW n \in Nat, NEW new, new = log \/ new = Append(log, n),
           NEW k \in 1..Len(new), new[k] < n
    PROVE  k \in 1..Len(log) /\ new[k] = log[k]
<1>1. CASE new = log
    BY <1>1
<1>2. CASE new = Append(log, n)
    BY <1>2
<1> QED BY <1>1, <1>2

(* A step that leaves the slots, the acks and the marks alone, and takes    *)
(* nobody into a wait, keeps FlushDrains.                                   *)
LEMMA DrainsUndisturbed ==
    ASSUME TypeOK, FlushDrains, NEW c \in Callers,
           UNCHANGED <<taken, writer, written, flushed>>,
           \A d \in Callers : d # c => UNCHANGED <<pc[d], ack[d], mark[d]>>,
           pc'[c] \notin Waiting \/ ack'[c] = "pending"
    PROVE  FlushDrains'
<1>1. Handled' = Handled
    BY DEF Handled
<1> QED BY <1>1 DEF FlushDrains

(* Each step keeps that an acknowledged flush was preceded by all that was  *)
(* queued when its call began.                                              *)
LEMMA DrainsInductive ==
    ASSUME TypeOK, ExitInv, AckInv, FlushDrains, [Next]_vars
    PROVE  FlushDrains'
<1>1. ASSUME NEW c \in Callers, AcquireTx(c) PROVE FlushDrains'
    <2>1. /\ UNCHANGED <<taken, writer, written, flushed>>
          /\ \A d \in Callers : d # c => UNCHANGED <<pc[d], ack[d], mark[d]>>
          /\ pc'[c] \notin Waiting \/ ack'[c] = "pending"
        BY <1>1 DEF TypeOK, AcquireTx, channelVars, history, slotVars, Waiting, Locking
    <2> QED BY <2>1, DrainsUndisturbed
<1>2. ASSUME NEW c \in Callers, LogDropNewest(c) PROVE FlushDrains'
    <2>1. /\ UNCHANGED <<taken, writer, written, flushed>>
          /\ \A d \in Callers : d # c => UNCHANGED <<pc[d], ack[d], mark[d]>>
          /\ pc'[c] \notin Waiting \/ ack'[c] = "pending"
        BY <1>2 DEF TypeOK, LogDropNewest, channelVars, history, slotVars, Waiting,
           Release
    <2> QED BY <2>1, DrainsUndisturbed
<1>3. ASSUME NEW c \in Callers, LogEmergency(c) PROVE FlushDrains'
    <2>1. /\ UNCHANGED <<taken, writer, written, flushed>>
          /\ \A d \in Callers : d # c => UNCHANGED <<pc[d], ack[d], mark[d]>>
          /\ pc'[c] \notin Waiting \/ ack'[c] = "pending"
        BY <1>3 DEF TypeOK, LogEmergency, channelVars, history, slotVars, Waiting, Release
    <2> QED BY <2>1, DrainsUndisturbed
<1>4. ASSUME NEW c \in Callers, CtrlSendFails(c) PROVE FlushDrains'
    <2>1. /\ UNCHANGED <<taken, writer, written, flushed>>
          /\ \A d \in Callers : d # c => UNCHANGED <<pc[d], ack[d], mark[d]>>
          /\ pc'[c] \notin Waiting \/ ack'[c] = "pending"
        BY <1>4 DEF TypeOK, CtrlSendFails, channelVars, history, slotVars, Waiting,
           Release
    <2> QED BY <2>1, DrainsUndisturbed
<1>5. ASSUME NEW c \in Callers, FlushReturn(c) PROVE FlushDrains'
    <2>1. /\ UNCHANGED <<taken, writer, written, flushed>>
          /\ \A d \in Callers : d # c => UNCHANGED <<pc[d], ack[d], mark[d]>>
          /\ pc'[c] \notin Waiting \/ ack'[c] = "pending"
        BY <1>5 DEF TypeOK, FlushReturn, channelVars, history, slotVars, Waiting
    <2> QED BY <2>1, DrainsUndisturbed
<1>6. ASSUME NEW c \in Callers, ShutdownAcked(c) PROVE FlushDrains'
    <2>1. /\ UNCHANGED <<taken, writer, written, flushed>>
          /\ \A d \in Callers : d # c => UNCHANGED <<pc[d], ack[d], mark[d]>>
          /\ pc'[c] \notin Waiting \/ ack'[c] = "pending"
        BY <1>6 DEF TypeOK, ShutdownAcked, channelVars, history, slotVars, Waiting
    <2> QED BY <2>1, DrainsUndisturbed
<1>7. ASSUME NEW c \in Callers, TakeHandle(c) PROVE FlushDrains'
    <2>1. /\ UNCHANGED <<taken, writer, written, flushed>>
          /\ \A d \in Callers : d # c => UNCHANGED <<pc[d], ack[d], mark[d]>>
          /\ pc'[c] \notin Waiting \/ ack'[c] = "pending"
        BY <1>7 DEF TypeOK, TakeHandle, channelVars, history, slotVars, Waiting
    <2> QED BY <2>1, DrainsUndisturbed
<1>8. ASSUME NEW c \in Callers, Join(c) PROVE FlushDrains'
    <2>1. /\ UNCHANGED <<taken, writer, written, flushed>>
          /\ \A d \in Callers : d # c => UNCHANGED <<pc[d], ack[d], mark[d]>>
          /\ pc'[c] \notin Waiting \/ ack'[c] = "pending"
        BY <1>8 DEF TypeOK, Join, channelVars, history, slotVars, Waiting
    <2> QED BY <2>1, DrainsUndisturbed
<1>9. ASSUME NEW c \in Callers, FlushCall(c) PROVE FlushDrains'
    <2>1. /\ UNCHANGED <<taken, writer, written, flushed>>
          /\ \A d \in Callers : d # c => UNCHANGED <<pc[d], ack[d], mark[d]>>
          /\ pc'[c] \notin Waiting \/ ack'[c] = "pending"
        BY <1>9 DEF TypeOK, FlushCall, channelVars, history, slotVars, Waiting, StartCall
    <2> QED BY <2>1, DrainsUndisturbed
<1>10. ASSUME NEW c \in Callers, ShutdownCall(c) PROVE FlushDrains'
    <2>1. /\ UNCHANGED <<taken, writer, written, flushed>>
          /\ \A d \in Callers : d # c => UNCHANGED <<pc[d], ack[d], mark[d]>>
          /\ pc'[c] \notin Waiting \/ ack'[c] = "pending"
        BY <1>10 DEF TypeOK, ShutdownCall, channelVars, history, slotVars, Waiting
    <2> QED BY <2>1, DrainsUndisturbed
<1>11. ASSUME NEW c \in Callers, DropHandle(c) PROVE FlushDrains'
    <2>1. /\ UNCHANGED <<taken, writer, written, flushed>>
          /\ \A d \in Callers : d # c => UNCHANGED <<pc[d], ack[d], mark[d]>>
          /\ pc'[c] \notin Waiting \/ ack'[c] = "pending"
        BY <1>11 DEF TypeOK, DropHandle, channelVars, history, slotVars, Waiting
    <2> QED BY <2>1, DrainsUndisturbed
<1>12. ASSUME NEW c \in Callers, NEW l \in RecordLevels, LogReject(c, l) PROVE FlushDrains'
    <2>1. /\ UNCHANGED <<taken, writer, written, flushed>>
          /\ \A d \in Callers : d # c => UNCHANGED <<pc[d], ack[d], mark[d]>>
          /\ pc'[c] \notin Waiting
        BY <1>12 DEF TypeOK, LogReject, channelVars, history, slotVars, Waiting, StartCall
    <2> QED BY <2>1, DrainsUndisturbed
<1>13. ASSUME NEW c \in Callers, NEW l \in RecordLevels, LogAdmit(c, l) PROVE FlushDrains'
    <2>1. /\ UNCHANGED <<taken, writer, written, flushed>>
          /\ \A d \in Callers : d # c => UNCHANGED <<pc[d], ack[d], mark[d]>>
          /\ pc'[c] \notin Waiting \/ ack'[c] = "pending"
        BY <1>13 DEF TypeOK, LogAdmit, channelVars, history, slotVars, Waiting, StartCall
    <2> QED BY <2>1, DrainsUndisturbed
<1>14. ASSUME NEW c \in Callers, LogSend(c) PROVE FlushDrains'
    <2>1. /\ UNCHANGED <<taken, writer, written, flushed>>
          /\ \A d \in Callers : d # c => UNCHANGED <<pc[d], ack[d], mark[d]>>
          /\ pc'[c] \notin Waiting \/ ack'[c] = "pending"
        BY <1>14 DEF TypeOK, LogSend, channelVars, history, slotVars, Waiting, Release
    <2> QED BY <2>1, DrainsUndisturbed
<1>15. ASSUME NEW c \in Callers, CtrlSend(c) PROVE FlushDrains'
    <2>1. /\ UNCHANGED <<taken, writer, written, flushed>>
          /\ \A d \in Callers : d # c => UNCHANGED <<pc[d], ack[d], mark[d]>>
          /\ pc'[c] \notin Waiting \/ ack'[c] = "pending"
        BY <1>15 DEF TypeOK, CtrlSend, channelVars, history, slotVars, Waiting, Release
    <2> QED BY <2>1, DrainsUndisturbed
<1>16. CASE WRecv
    <2>1. Handled' = Handled /\ UNCHANGED <<written, flushed, pc, ack, mark>>
        BY <1>16 DEF WRecv, Received, TypeOK, Handled, slotVars, callerVars, history
    <2> QED BY <2>1 DEF FlushDrains
<1>17. CASE WDisconnected
    <2>1. Handled' = Handled /\ UNCHANGED <<written, flushed, pc, ack, mark>>
        BY <1>17 DEF WDisconnected, TypeOK, Handled, slotVars, callerVars, history
    <2> QED BY <2>1 DEF FlushDrains
<1>18. CASE WLog
    <2>1. Handled' = Handled + 1 /\ Handled' = taken /\ Handled \in Nat
        BY <1>18, HandlingFacts DEF WLog, Handling, Handled
    <2>2. /\ \A s \in Slots : written'[s] = written[s] \/ written'[s] = Append(written[s], taken)
          /\ flushed' = flushed
        <3>1. taken \in Nat /\ sent[taken].level \in Level
            BY <1>18, HandlingFacts DEF WLog, Handling, Message
        <3> QED BY <1>18, <3>1, WriteRecordEffect DEF WLog, TypeOK
    <2>3. UNCHANGED <<pc, ack, mark>>
        BY <1>18 DEF WLog, callerVars, history
    <2>4. ASSUME NEW c \in Callers, pc[c] \in Waiting, ack[c] = "sent",
                 NEW s \in Slots \ FaultySinks, NEW k \in 1..Len(written'[s]),
                 written'[s][k] <= mark[c]
          PROVE  k <= flushed'[s]
        <3>1. mark[c] < taken /\ mark[c] \in Nat
            BY <2>1, <2>4 DEF FlushDrains, TypeOK
        <3>2. written[s] \in Seq(Nat)
            BY DEF TypeOK, SlotsTypeOK
        <3>3. k \in 1..Len(written[s]) /\ written'[s][k] = written[s][k]
            BY <2>1, <2>2, <2>4, <3>1, <3>2, AppendedAt
        <3> QED BY <2>2, <2>4, <3>3 DEF FlushDrains
    <2>5. ASSUME NEW c \in Callers, pc[c] \in Waiting, ack[c] = "sent"
          PROVE  mark[c] < Handled'
        BY <2>1, <2>5 DEF FlushDrains, TypeOK
    <2> QED BY <2>3, <2>4, <2>5 DEF FlushDrains
<1>19. CASE WFlush
    <2>1. Handled' = Handled + 1 /\ Handled + 1 = taken /\ taken \in 1..Len(sent)
        BY <1>19, HandlingFacts DEF WFlush, Handling, Handled
    <2>2. /\ UNCHANGED <<pc, mark, written>>
          /\ \A s \in Slots \ FaultySinks : flushed'[s] = Len(written[s])
        BY <1>19, FlushSomeEffect DEF WFlush, FlushAll, history, TypeOK
    <2>3. \A c \in Callers : c # sent[taken].from => ack'[c] = ack[c]
        BY <1>19 DEF WFlush, Acknowledge, TypeOK
    <2>4. mark[sent[taken].from] < taken
        <3>1. writer # "done" /\ taken \in Handled + 1..Len(sent) /\ Control(taken)
            BY <1>19, <2>1 DEF WFlush, Handling, Control
        <3> QED BY <3>1, OutstandingFacts
    <2>5. ASSUME NEW c \in Callers, pc[c] \in Waiting, ack'[c] = "sent"
          PROVE  mark[c] < Handled'
        <3>1. CASE c = sent[taken].from
            BY <2>1, <2>4, <3>1
        <3>2. CASE c # sent[taken].from
            BY <2>1, <2>3, <2>5, <3>2, HandledType DEF FlushDrains, TypeOK
        <3> QED BY <3>1, <3>2
    <2>6. \A s \in Slots \ FaultySinks : \A k \in 1..Len(written[s]) : k <= flushed'[s]
        BY <2>2 DEF TypeOK, SlotsTypeOK
    <2> QED BY <2>2, <2>5, <2>6 DEF FlushDrains
<1>20. CASE WShutdown
    <2>1. Handled' = Handled + 1 /\ Handled + 1 = taken /\ taken \in 1..Len(sent)
        BY <1>20, HandlingFacts DEF WShutdown, Handling, Handled
    <2>2. /\ UNCHANGED <<pc, mark, written>>
          /\ \A s \in Slots \ FaultySinks : flushed'[s] = Len(written[s])
        BY <1>20, FlushSomeEffect DEF WShutdown, FlushAll, history, TypeOK
    <2>3. \A c \in Callers : c # sent[taken].from => ack'[c] = ack[c]
        BY <1>20 DEF WShutdown, Acknowledge, TypeOK
    <2>4. mark[sent[taken].from] < taken
        <3>1. writer # "done" /\ taken \in Handled + 1..Len(sent) /\ Control(taken)
            BY <1>20, <2>1 DEF WShutdown, Handling, Control
        <3> QED BY <3>1, OutstandingFacts
    <2>5. ASSUME NEW c \in Callers, pc[c] \in Waiting, ack'[c] = "sent"
          PROVE  mark[c] < Handled'
        <3>1. CASE c = sent[taken].from
            BY <2>1, <2>4, <3>1
        <3>2. CASE c # sent[taken].from
            BY <2>1, <2>3, <2>5, <3>2, HandledType DEF FlushDrains, TypeOK
        <3> QED BY <3>1, <3>2
    <2>6. \A s \in Slots \ FaultySinks : \A k \in 1..Len(written[s]) : k <= flushed'[s]
        BY <2>2 DEF TypeOK, SlotsTypeOK
    <2> QED BY <2>2, <2>5, <2>6 DEF FlushDrains
<1>21. CASE WFlushPanic
    <2>1. Handled' >= Handled /\ Handled' \in Nat /\ Handled \in Nat
        BY <1>21, HandlingFacts, HandledType DEF WFlushPanic, Handling, Handled, TypeOK
    <2>2. /\ UNCHANGED <<pc, mark, written>>
          /\ \A s \in Slots : flushed'[s] = flushed[s] \/ flushed'[s] = Len(written[s])
        BY <1>21, FlushSomeEffect DEF WFlushPanic, FlushPanic, FlushUpTo, history, TypeOK
    <2>3. \A c \in Callers : ack'[c] = "sent" => ack[c] = "sent"
        BY <1>21 DEF WFlushPanic, Acknowledge, TypeOK
    <2>4. ASSUME NEW c \in Callers, pc[c] \in Waiting, ack'[c] = "sent"
          PROVE  mark[c] < Handled'
        BY <2>1, <2>3, <2>4 DEF FlushDrains, TypeOK
    <2>5. ASSUME NEW c \in Callers, pc[c] \in Waiting, ack'[c] = "sent",
                 NEW s \in Slots \ FaultySinks, NEW k \in 1..Len(written[s]),
                 written[s][k] <= mark[c]
          PROVE  k <= flushed'[s]
        <3>1. k <= flushed[s]
            BY <2>2, <2>3, <2>5 DEF FlushDrains
        <3>2. k <= Len(written[s])
            BY DEF TypeOK, SlotsTypeOK
        <3> QED BY <2>2, <3>1, <3>2
    <2> QED BY <2>2, <2>4, <2>5 DEF FlushDrains
<1>22. CASE WExit
    <2>1. Handled' >= Handled /\ Handled' \in Nat /\ Handled \in Nat
        BY <1>22, HandlingFacts, HandledType DEF WExit, Handling, Handled, TypeOK
    <2>2. /\ UNCHANGED <<pc, mark, written>>
          /\ \A s \in Slots : flushed'[s] = flushed[s] \/ flushed'[s] = Len(written[s])
        BY <1>22, FlushSomeEffect DEF WExit, FinalFlush, FlushUpTo, history, TypeOK
    <2>3. \A c \in Callers : ack'[c] = "sent" => ack[c] = "sent"
        BY <1>22 DEF WExit, AckAfterExit, TypeOK
    <2>4. ASSUME NEW c \in Callers, pc[c] \in Waiting, ack'[c] = "sent"
          PROVE  mark[c] < Handled'
        BY <2>1, <2>3, <2>4 DEF FlushDrains, TypeOK
    <2>5. ASSUME NEW c \in Callers, pc[c] \in Waiting, ack'[c] = "sent",
                 NEW s \in Slots \ FaultySinks, NEW k \in 1..Len(written[s]),
                 written[s][k] <= mark[c]
          PROVE  k <= flushed'[s]
        <3>1. k <= flushed[s]
            BY <2>2, <2>3, <2>5 DEF FlushDrains
        <3>2. k <= Len(written[s])
            BY DEF TypeOK, SlotsTypeOK
        <3> QED BY <2>2, <3>1, <3>2
    <2> QED BY <2>2, <2>4, <2>5 DEF FlushDrains
<1>23. CASE UNCHANGED vars
    BY <1>23 DEF FlushDrains, Handled, vars, channelVars, callerVars, history, slotVars
<1> QED
    BY <1>1, <1>2, <1>3, <1>4, <1>5, <1>6, <1>7, <1>8, <1>9, <1>10, <1>11, <1>12,
       <1>13, <1>14, <1>15, <1>16, <1>17, <1>18, <1>19, <1>20, <1>21, <1>22, <1>23
    DEF Next, Writer, Step, Begin, Terminated

(* The conjunction that TLC checks as IInv is an invariant.                 *)
THEOREM InductiveInvariant == Spec => []IInv
<1>1. Init => IInv
    BY LoggerAssumption DEF Init, SlotsInit, IInv, HandleInv, ExitInv, OrderInv, AckInv,
       FlushDrains, ShutdownStopsWriter, SinkOrder, Handled, Waiting
<1>2. TypeOK /\ IInv /\ [Next]_vars => IInv'
    BY HandleInductive, ExitInductive, OrderInductive, AckInductive,
       DrainsInductive DEF IInv
<1> QED BY <1>1, <1>2, TypeCorrect, PTL DEF Spec

(* A flush or a shutdown that was acknowledged has drained the channel of   *)
(* what was in it when the call began, and each sink that works has flushed *)
(* it: for every number of callers and slots, every capacity and policy,    *)
(* and whatever the other sinks do.                                         *)
THEOREM AcknowledgedFlushDrains == Spec => []FlushDrains
<1>1. IInv => FlushDrains
    BY DEF IInv
<1> QED BY <1>1, InductiveInvariant, PTL
==============================================================================
