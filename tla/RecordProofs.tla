---------------------------- MODULE RecordProofs ----------------------------
(* Theorems about what becomes of the records of Logger: the logger         *)
(* implements the bounded queue of RecordQueue; no record is lost from the  *)
(* account, and none reaches a sink below its level; where each record ends *)
(* for each slot, when a slot is degraded, and that it then is left alone.  *)
(* For every number of callers and slots, every capacity, policy and        *)
(* MaxErrors, and whatever the sinks do.                                    *)
EXTENDS LoggerProofs, LoggerQueue, FiniteSetTheorems

------------------------------------------------------------------------------
(* The queue.                                                               *)

(* Each step keeps that a Shutdown message, or a call on its way to send    *)
(* one, finds the logger closed.                                            *)
LEMMA CloseInductive ==
    ASSUME TypeOK, CloseInv, [Next]_vars
    PROVE  CloseInv'
<1>1. ASSUME NEW c \in Callers, AcquireTx(c) PROVE CloseInv'
    BY <1>1 DEF TypeOK, CloseInv, AcquireTx, channelVars, Locking
<1>2. ASSUME NEW c \in Callers, LogDropNewest(c) PROVE CloseInv'
    BY <1>2 DEF TypeOK, CloseInv, LogDropNewest, Release, channelVars
<1>3. ASSUME NEW c \in Callers, LogEmergency(c) PROVE CloseInv'
    BY <1>3 DEF TypeOK, CloseInv, LogEmergency, Release, channelVars
<1>4. ASSUME NEW c \in Callers, CtrlSendFails(c) PROVE CloseInv'
    BY <1>4 DEF TypeOK, CloseInv, CtrlSendFails, Release, channelVars
<1>5. ASSUME NEW c \in Callers, FlushReturn(c) PROVE CloseInv'
    BY <1>5 DEF TypeOK, CloseInv, FlushReturn, channelVars
<1>6. ASSUME NEW c \in Callers, ShutdownAcked(c) PROVE CloseInv'
    BY <1>6 DEF TypeOK, CloseInv, ShutdownAcked, channelVars
<1>7. ASSUME NEW c \in Callers, TakeHandle(c) PROVE CloseInv'
    BY <1>7 DEF TypeOK, CloseInv, TakeHandle, channelVars
<1>8. ASSUME NEW c \in Callers, Join(c) PROVE CloseInv'
    BY <1>8 DEF TypeOK, CloseInv, Join, channelVars
<1>9. ASSUME NEW c \in Callers, FlushCall(c) PROVE CloseInv'
    BY <1>9 DEF TypeOK, CloseInv, FlushCall, channelVars
<1>10. ASSUME NEW c \in Callers, DropHandle(c) PROVE CloseInv'
    BY <1>10 DEF TypeOK, CloseInv, DropHandle, channelVars
<1>11. ASSUME NEW c \in Callers, NEW l \in RecordLevels, LogReject(c, l) PROVE CloseInv'
    BY <1>11 DEF TypeOK, CloseInv, LogReject, channelVars
<1>12. ASSUME NEW c \in Callers, NEW l \in RecordLevels, LogAdmit(c, l) PROVE CloseInv'
    BY <1>12 DEF TypeOK, CloseInv, LogAdmit, channelVars
<1>13. ASSUME NEW c \in Callers, ShutdownCall(c) PROVE CloseInv'
    BY <1>13 DEF CloseInv, ShutdownCall
<1>14. ASSUME NEW c \in Callers, LogSend(c) PROVE CloseInv'
    <2>1. PICK m \in Message : sent' = Append(sent, m) /\ m.kind = "log"
        <3>1. [kind |-> "log", from |-> c, level |-> level[c]] \in Message
            BY DEF TypeOK, Message
        <3> QED BY <1>14, <3>1 DEF LogSend, Send
    <2>2. /\ Len(sent') = Len(sent) + 1
          /\ \A i \in 1..Len(sent) : sent'[i] = sent[i]
          /\ sent'[Len(sent) + 1] = m
        BY <2>1, SendEffect
    <2>3. \A i \in 1..Len(sent') : i \in 1..Len(sent) \/ i = Len(sent) + 1
        BY <2>2 DEF TypeOK
    <2>4. /\ closed' = closed
          /\ \A d \in Callers : pc'[d] \in {"shut_lock", "shut_send"} => pc[d] = pc'[d]
        BY <1>14 DEF TypeOK, LogSend, Release
    <2> QED BY <2>1, <2>2, <2>3, <2>4 DEF CloseInv
<1>15. ASSUME NEW c \in Callers, CtrlSend(c) PROVE CloseInv'
    <2>1. PICK m \in Message :
             /\ sent' = Append(sent, m)
             /\ m.kind = "shutdown" => pc[c] = "shut_send"
        BY <1>15 DEF TypeOK, CtrlSend, Send, Message, Level, Off
    <2>2. /\ Len(sent') = Len(sent) + 1
          /\ \A i \in 1..Len(sent) : sent'[i] = sent[i]
          /\ sent'[Len(sent) + 1] = m
        BY <2>1, SendEffect
    <2>3. \A i \in 1..Len(sent') : i \in 1..Len(sent) \/ i = Len(sent) + 1
        BY <2>2 DEF TypeOK
    <2>4. /\ closed' = closed
          /\ \A d \in Callers : pc'[d] \in {"shut_lock", "shut_send"} => pc[d] = pc'[d]
        BY <1>15 DEF TypeOK, CtrlSend, Release
    <2> QED BY <2>1, <2>2, <2>3, <2>4 DEF CloseInv
<1>16. CASE WRecv
    BY <1>16 DEF CloseInv, WRecv, callerVars
<1>17. CASE WDisconnected
    BY <1>17 DEF CloseInv, WDisconnected, callerVars
<1>18. CASE WLog
    BY <1>18 DEF CloseInv, WLog, callerVars
<1>19. CASE WFlush
    BY <1>19 DEF CloseInv, WFlush
<1>20. CASE WShutdown
    BY <1>20 DEF CloseInv, WShutdown
<1>21. CASE WFlushPanic
    BY <1>21 DEF CloseInv, WFlushPanic
<1>22. CASE WExit
    BY <1>22 DEF CloseInv, WExit
<1>23. CASE UNCHANGED vars
    BY <1>23 DEF CloseInv, vars, channelVars, callerVars
<1> QED
    BY <1>1, <1>2, <1>3, <1>4, <1>5, <1>6, <1>7, <1>8, <1>9, <1>10, <1>11,
       <1>12, <1>13, <1>14, <1>15, <1>16, <1>17, <1>18, <1>19, <1>20, <1>21,
       <1>22, <1>23
    DEF Next, Writer, Step, Begin, Terminated

------------------------------------------------------------------------------
(* The simulation.                                                          *)

(* A step that sends no record, finishes none, closes nothing and does not  *)
(* end the writer is none of the queue's.                                   *)
LEMMA QueueUntouched ==
    ASSUME UNCHANGED <<sent, closed>>, Handled' = Handled,
           writer' = "done" <=> writer = "done"
    PROVE  UNCHANGED Queue!vars
BY DEF Queue!vars, LogsOf, LogKind

(* A range begins, and ends, with one of its numbers.                       *)
LEMMA SplitRange ==
    ASSUME NEW n \in Nat \ {0}, NEW last \in Nat, n <= last
    PROVE  /\ n..last = {n} \cup (n + 1..last)
           /\ 1..n = {n} \cup (1..n - 1)
OBVIOUS

(* The writer done with one more message moves it, if it is a record, from  *)
(* the pending ones to the delivered ones.                                  *)
LEMMA OneMoreHandled ==
    ASSUME TypeOK, ExitInv, writer = "handle", sent' = sent, Handled' = Handled + 1
    PROVE  /\ Handled + 1 = taken /\ taken \in 1..Len(sent)
           /\ LogKind(taken) =>
                 /\ taken \in LogsOf(Handled + 1..Len(sent))
                 /\ LogsOf(Handled + 1..Len(sent))' =
                        LogsOf(Handled + 1..Len(sent)) \ {taken}
                 /\ LogsOf(1..Handled)' = LogsOf(1..Handled) \cup {taken}
           /\ ~LogKind(taken) =>
                 /\ LogsOf(Handled + 1..Len(sent))' = LogsOf(Handled + 1..Len(sent))
                 /\ LogsOf(1..Handled)' = LogsOf(1..Handled)
<1>1. Handled + 1 = taken /\ taken \in 1..Len(sent) /\ Len(sent) \in Nat
    BY HandlingFacts DEF TypeOK
<1>2. /\ Handled + 1..Len(sent) = {taken} \cup (taken + 1..Len(sent))
      /\ 1..taken = {taken} \cup (1..Handled)
    <2>1. /\ taken \in Nat \ {0} /\ taken <= Len(sent)
          /\ Handled = taken - 1
        BY <1>1, HandlingFacts
    <2> QED BY <1>1, <2>1, SplitRange
<1>3. \A i : /\ i \in LogsOf(Handled + 1..Len(sent))' <=>
                     i \in taken + 1..Len(sent) /\ LogKind(i)
             /\ i \in LogsOf(1..Handled)' <=> i \in 1..taken /\ LogKind(i)
    BY <1>1 DEF LogsOf, LogKind
<1>4. taken \notin taken + 1..Len(sent)
    BY <1>1
<1>5. CASE LogKind(taken)
    BY <1>1, <1>2, <1>3, <1>4, <1>5 DEF LogsOf
<1>6. CASE ~LogKind(taken)
    BY <1>1, <1>2, <1>3, <1>6 DEF LogsOf
<1> QED BY <1>1, <1>5, <1>6

(* One more message in the channel is one more pending record, or none.     *)
LEMMA OneMoreSent ==
    ASSUME TypeOK, ExitInv, NEW m \in Message, sent' = Append(sent, m),
           Handled' = Handled
    PROVE  /\ LogsOf(1..Handled)' = LogsOf(1..Handled)
           /\ LogsOf(Handled + 1..Len(sent))' =
                 LogsOf(Handled + 1..Len(sent))
                    \cup (IF m.kind = "log" THEN {Len(sent) + 1} ELSE {})
<1>1. /\ Len(sent') = Len(sent) + 1
      /\ \A i \in 1..Len(sent) : sent'[i] = sent[i]
      /\ sent'[Len(sent) + 1] = m
    BY SendEffect
<1>2. Handled \in Nat /\ Handled <= Len(sent) /\ Len(sent) \in Nat
    BY HandledType DEF TypeOK
<1>3. LogsOf(1..Handled)' = LogsOf(1..Handled)
    BY <1>1, <1>2 DEF LogsOf, LogKind
<1>4. LogsOf(Handled + 1..Len(sent))' =
          {i \in Handled + 1..Len(sent) + 1 : sent'[i].kind = "log"}
    BY <1>1 DEF LogsOf, LogKind
<1>5. \A i : i \in Handled + 1..Len(sent) + 1 <=>
                 i \in Handled + 1..Len(sent) \/ i = Len(sent) + 1
    BY <1>2
<1>6. \A i \in Handled + 1..Len(sent) : sent'[i] = sent[i]
    BY <1>1, <1>2
<1>7. \A i : i \in LogsOf(Handled + 1..Len(sent))' <=>
                 \/ i \in LogsOf(Handled + 1..Len(sent))
                 \/ i = Len(sent) + 1 /\ m.kind = "log"
    BY <1>1, <1>4, <1>5, <1>6 DEF LogsOf, LogKind
<1> QED BY <1>3, <1>7

(* While the channel has room, the queue does.                              *)
LEMMA RoomInQueue ==
    ASSUME TypeOK, ExitInv, HasRoom
    PROVE  Cardinality(LogsOf(Handled + 1..Len(sent))) < Capacity + 1
<1>1. /\ Handled \in Nat /\ Len(sent) \in Nat /\ Handled <= Len(sent)
      /\ Len(sent) - Handled < Capacity + 1
    BY LoggerAssumption DEF TypeOK, ExitInv, Handled, HasRoom, Queued
<1>2. /\ IsFiniteSet(Handled + 1..Len(sent))
      /\ Cardinality(Handled + 1..Len(sent)) <= Len(sent) - Handled
    <2> DEFINE first == Handled + 1
               last == Len(sent)
    <2>1. first \in Int /\ last \in Int
        BY <1>1
    <2>2. /\ IsFiniteSet(first..last)
          /\ Cardinality(first..last) = IF first > last THEN 0 ELSE last - first + 1
        <3> HIDE DEF first, last
        <3> QED BY <2>1, FS_Interval
    <2> QED BY <1>1, <2>2
<1>3. LogsOf(Handled + 1..Len(sent)) \in SUBSET (Handled + 1..Len(sent))
    BY DEF LogsOf
<1>4. /\ IsFiniteSet(LogsOf(Handled + 1..Len(sent)))
      /\ Cardinality(LogsOf(Handled + 1..Len(sent)))
            <= Cardinality(Handled + 1..Len(sent))
    BY <1>2, <1>3, FS_Subset
<1>5. /\ Cardinality(LogsOf(Handled + 1..Len(sent))) \in Nat
      /\ Cardinality(Handled + 1..Len(sent)) \in Nat
    BY <1>2, <1>4, FS_CardinalityType
<1> QED BY <1>1, <1>2, <1>4, <1>5, LoggerAssumption

(* Each step of the logger is a step of the queue, or none of its.          *)
LEMMA StepSimulates ==
    ASSUME TypeOK, ExitInv, CloseInv, [Next]_vars
    PROVE  [Queue!Next]_(Queue!vars)
<1>1. ASSUME NEW c \in Callers, AcquireTx(c) PROVE UNCHANGED Queue!vars
    BY <1>1, QueueUntouched DEF AcquireTx, Handled, channelVars
<1>2. ASSUME NEW c \in Callers, LogDropNewest(c) PROVE UNCHANGED Queue!vars
    BY <1>2, QueueUntouched DEF LogDropNewest, Handled, channelVars
<1>3. ASSUME NEW c \in Callers, LogEmergency(c) PROVE UNCHANGED Queue!vars
    BY <1>3, QueueUntouched DEF LogEmergency, Handled, channelVars
<1>4. ASSUME NEW c \in Callers, CtrlSendFails(c) PROVE UNCHANGED Queue!vars
    BY <1>4, QueueUntouched DEF CtrlSendFails, Handled, channelVars
<1>5. ASSUME NEW c \in Callers, FlushReturn(c) PROVE UNCHANGED Queue!vars
    BY <1>5, QueueUntouched DEF FlushReturn, Handled, channelVars
<1>6. ASSUME NEW c \in Callers, ShutdownAcked(c) PROVE UNCHANGED Queue!vars
    BY <1>6, QueueUntouched DEF ShutdownAcked, Handled, channelVars
<1>7. ASSUME NEW c \in Callers, TakeHandle(c) PROVE UNCHANGED Queue!vars
    BY <1>7, QueueUntouched DEF TakeHandle, Handled, channelVars
<1>8. ASSUME NEW c \in Callers, Join(c) PROVE UNCHANGED Queue!vars
    BY <1>8, QueueUntouched DEF Join, Handled, channelVars
<1>9. ASSUME NEW c \in Callers, FlushCall(c) PROVE UNCHANGED Queue!vars
    BY <1>9, QueueUntouched DEF FlushCall, Handled, channelVars
<1>10. ASSUME NEW c \in Callers, DropHandle(c) PROVE UNCHANGED Queue!vars
    BY <1>10, QueueUntouched DEF DropHandle, Handled, channelVars
<1>11. ASSUME NEW c \in Callers, NEW l \in RecordLevels, LogReject(c, l)
      PROVE  UNCHANGED Queue!vars
    BY <1>11, QueueUntouched DEF LogReject, Handled, channelVars
<1>12. ASSUME NEW c \in Callers, NEW l \in RecordLevels, LogAdmit(c, l)
      PROVE  UNCHANGED Queue!vars
    BY <1>12, QueueUntouched DEF LogAdmit, Handled, channelVars
<1>13. ASSUME NEW c \in Callers, ShutdownCall(c) PROVE Queue!Close
    BY <1>13 DEF ShutdownCall, Queue!Close, LogsOf, LogKind, Handled, channelVars
<1>14. ASSUME NEW c \in Callers, LogSend(c) PROVE Queue!Accept
    <2>1. PICK m \in Message : sent' = Append(sent, m) /\ m.kind = "log"
        <3>1. [kind |-> "log", from |-> c, level |-> level[c]] \in Message
            BY DEF TypeOK, Message
        <3> QED BY <1>14, <3>1 DEF LogSend, Send
    <2>2. /\ Handled' = Handled
          /\ UNCHANGED <<closed, writer>>
          /\ writer # "done" /\ HasRoom
        BY <1>14 DEF LogSend, Handled, CanSend, Disconnected
    <2>3. /\ LogsOf(1..Handled)' = LogsOf(1..Handled)
          /\ LogsOf(Handled + 1..Len(sent))' =
                LogsOf(Handled + 1..Len(sent)) \cup {Len(sent) + 1}
        BY <2>1, <2>2, OneMoreSent
    <2>4. Cardinality(LogsOf(Handled + 1..Len(sent))) < Capacity + 1
        BY <2>2, RoomInQueue
    <2>5. \A q \in LogsOf(Handled + 1..Len(sent)) \cup LogsOf(1..Handled) :
              q < Len(sent) + 1
        <3>1. Handled \in Nat /\ Len(sent) \in Nat /\ Handled <= Len(sent)
            BY HandledType DEF TypeOK
        <3> QED BY <3>1 DEF LogsOf
    <2> QED BY <2>2, <2>3, <2>4, <2>5 DEF Queue!Accept, Queue!Cardinality, Cardinality, Queue!IsFiniteSet, IsFiniteSet
<1>15. ASSUME NEW c \in Callers, CtrlSend(c) PROVE UNCHANGED Queue!vars
    <2>1. PICK m \in Message : sent' = Append(sent, m) /\ m.kind # "log"
        BY <1>15 DEF TypeOK, CtrlSend, Send, Message, Level, Off
    <2>2. Handled' = Handled /\ UNCHANGED <<closed, writer>>
        BY <1>15 DEF CtrlSend, Handled
    <2>3. /\ LogsOf(1..Handled)' = LogsOf(1..Handled)
          /\ LogsOf(Handled + 1..Len(sent))' = LogsOf(Handled + 1..Len(sent))
        BY <2>1, <2>2, OneMoreSent
    <2> QED BY <2>2, <2>3 DEF Queue!vars
<1>16. CASE WRecv
    <2>1. Handled' = Handled
        BY <1>16 DEF WRecv, Received, TypeOK, Handled
    <2>2. UNCHANGED Queue!vars
        BY <1>16, <2>1, QueueUntouched DEF WRecv
    <2> QED BY <2>2
<1>17. CASE WDisconnected
    <2>1. Handled' = Handled
        BY <1>17 DEF WDisconnected, Handled
    <2>2. UNCHANGED Queue!vars
        BY <1>17, <2>1, QueueUntouched DEF WDisconnected
    <2> QED BY <2>2
<1>18. CASE WLog
    <2>1. Handled' = Handled + 1 /\ writer = "handle" /\ writer' = "recv" /\ LogKind(taken)
        BY <1>18, HandlingFacts DEF WLog, Handling, Handled, LogKind
    <2>2. /\ taken \in LogsOf(Handled + 1..Len(sent))
          /\ LogsOf(Handled + 1..Len(sent))' = LogsOf(Handled + 1..Len(sent)) \ {taken}
          /\ LogsOf(1..Handled)' = LogsOf(1..Handled) \cup {taken}
        BY <1>18, <2>1, OneMoreHandled DEF WLog
    <2>3. \A q \in LogsOf(Handled + 1..Len(sent)) : taken <= q
        <3>1. Handled + 1 = taken /\ taken \in Nat /\ Len(sent) \in Nat
            BY <2>1, HandlingFacts DEF TypeOK
        <3> QED BY <3>1 DEF LogsOf
    <2>4. Queue!Deliver
        BY <1>18, <2>1, <2>2, <2>3 DEF WLog, Queue!Deliver
    <2> QED BY <2>4 DEF Queue!Next
<1>19. CASE WFlush
    <2>1. /\ Handled' = Handled + 1 /\ writer = "handle" /\ writer' # "done"
          /\ ~LogKind(taken)
          /\ UNCHANGED <<sent, closed>>
        BY <1>19, HandlingFacts DEF WFlush, Handling, Handled, LogKind
    <2>2. /\ LogsOf(Handled + 1..Len(sent))' = LogsOf(Handled + 1..Len(sent))
          /\ LogsOf(1..Handled)' = LogsOf(1..Handled)
        BY <2>1, OneMoreHandled
    <2>3. UNCHANGED Queue!vars
        BY <2>1, <2>2 DEF Queue!vars
    <2> QED BY <2>3
<1>20. CASE WShutdown
    <2>1. /\ Handled' = Handled + 1 /\ writer = "handle" /\ writer' # "done"
          /\ ~LogKind(taken)
          /\ UNCHANGED <<sent, closed>>
        BY <1>20, HandlingFacts DEF WShutdown, Handling, Handled, LogKind
    <2>2. /\ LogsOf(Handled + 1..Len(sent))' = LogsOf(Handled + 1..Len(sent))
          /\ LogsOf(1..Handled)' = LogsOf(1..Handled)
        BY <2>1, OneMoreHandled
    <2>3. UNCHANGED Queue!vars
        BY <2>1, <2>2 DEF Queue!vars
    <2> QED BY <2>3
<1>21. CASE WFlushPanic
    <2>1. /\ Handled' = Handled + 1 /\ writer = "handle" /\ writer' # "done"
          /\ ~LogKind(taken)
          /\ UNCHANGED <<sent, closed>>
        BY <1>21, HandlingFacts DEF WFlushPanic, Handling, Handled, LogKind
    <2>2. /\ LogsOf(Handled + 1..Len(sent))' = LogsOf(Handled + 1..Len(sent))
          /\ LogsOf(1..Handled)' = LogsOf(1..Handled)
        BY <2>1, OneMoreHandled
    <2>3. UNCHANGED Queue!vars
        BY <2>1, <2>2 DEF Queue!vars
    <2> QED BY <2>3
<1>22. CASE WExit
    <2>1. /\ Handled = taken /\ Handled' = Handled
          /\ UNCHANGED <<sent, closed>>
          /\ writer # "done" /\ writer' = "done"
        BY <1>22 DEF WExit, Handled
    <2>2. LogsOf(Handled + 1..Len(sent)) = {} \/ closed
        <3>1. CASE taken > 0 /\ sent[taken].kind = "shutdown"
            BY <3>1 DEF CloseInv, TypeOK
        <3>2. CASE taken = Len(sent)
            BY <2>1, <3>2 DEF LogsOf, TypeOK
        <3> QED BY <1>22, <3>1, <3>2 DEF WExit, ExitInv
    <2>3. /\ LogsOf(Handled + 1..Len(sent))' = LogsOf(Handled + 1..Len(sent))
          /\ LogsOf(1..Handled)' = LogsOf(1..Handled)
        BY <2>1 DEF LogsOf, LogKind
    <2>4. Queue!Stop
        BY <2>1, <2>2, <2>3 DEF Queue!Stop
    <2> QED BY <2>4 DEF Queue!Next
<1>23. CASE UNCHANGED vars
    <2>1. UNCHANGED Queue!vars
        BY <1>23, QueueUntouched DEF vars, Handled, channelVars
    <2> QED BY <2>1
<1> QED
    BY <1>1, <1>2, <1>3, <1>4, <1>5, <1>6, <1>7, <1>8, <1>9, <1>10, <1>11,
       <1>12, <1>13, <1>14, <1>15, <1>16, <1>17, <1>18, <1>19, <1>20, <1>21,
       <1>22, <1>23
    DEF Next, Writer, Step, Begin, Terminated, Queue!Next

(* The records leave the logger one at a time in the order the channel took *)
(* them, at most the capacity and one wait at any time, and the writer ends *)
(* on a record that waits only after a shutdown call.                       *)
THEOREM LoggerImplementsQueue == Spec => ImplementsQueue
<1>1. Init => CloseInv
    BY DEF Init, CloseInv
<1>2. TypeOK /\ CloseInv /\ [Next]_vars => CloseInv'
    BY CloseInductive
<1>3. Init => Queue!Init
    BY DEF Init, Queue!Init, LogsOf, Handled
<1>4. TypeOK /\ ExitInv /\ CloseInv /\ [Next]_vars => [Queue!Next]_(Queue!vars)
    BY StepSimulates
<1> QED BY <1>1, <1>2, <1>3, <1>4, TypeAndExit, PTL DEF Spec, ImplementsQueue, Queue!Spec

------------------------------------------------------------------------------
(* Degraded slots.                                                          *)

(* A record passes a degraded slot by, and changes neither its state nor    *)
(* what its sink was given.                                                 *)
LEMMA DegradedPassed ==
    ASSUME SlotsTypeOK, NEW i, NEW l, WriteRecord(i, l),
           NEW s \in Slots, slots[s].degraded
    PROVE  slots'[s] = slots[s] /\ written'[s] = written[s] /\ failed'[s] = failed[s]
<1> PICK failing \in SUBSET (Direct(l) \cap FaultySinks) : WriteRecord(i, l)!(failing)
    BY DEF WriteRecord
<1>1. s \notin Direct(l) /\ s \notin failing /\ s \notin Direct(l) \ failing
    BY DEF Direct
<1>2. slots'[s] = slots[s]
    BY <1>1
<1>3. written'[s] = written[s] /\ failed'[s] = failed[s]
    BY <1>1 DEF Extend
<1> QED BY <1>2, <1>3

(* A slot that was degraded, by failures in a row or by a panic in a flush, *)
(* stays so and its sink is not given, nor fails, another record.           *)
THEOREM DegradedStays == Spec => DegradedIsFinal
<1> DEFINE Left(s) == /\ slots'[s].degraded
                      /\ written'[s] = written[s] /\ failed'[s] = failed[s]
<1>1. ASSUME TypeOK, [Next]_vars, NEW s \in Slots, slots[s].degraded
      PROVE  Left(s)
    <2>1. CASE UNCHANGED slotVars
        BY <1>1, <2>1 DEF slotVars
    <2>2. CASE WLog
        BY <1>1, <2>2, DegradedPassed DEF WLog, TypeOK
    <2>3. CASE WFlush \/ WShutdown
        BY <1>1, <2>3 DEF WFlush, WShutdown, FlushAll
    <2>4. CASE WFlushPanic
        <3>1. slots' = [r \in Slots |-> [slots[r] EXCEPT !.degraded = TRUE]]
            BY <2>4 DEF WFlushPanic, FlushPanic, DegradeAll
        <3>2. slots[s] \in SinkSlot
            BY <1>1 DEF TypeOK, SlotsTypeOK
        <3>3. slots'[s].degraded
            BY <3>1, <3>2 DEF SinkSlot
        <3> QED BY <2>4, <3>3 DEF WFlushPanic, FlushPanic
    <2>5. CASE WExit
        BY <1>1, <2>5 DEF WExit, FinalFlush
    <2>6. ASSUME NEW c \in Callers, Step(c) PROVE UNCHANGED slotVars
        BY <2>6 DEF Step, AcquireTx, LogSend, LogDropNewest, LogEmergency, CtrlSend,
           CtrlSendFails, FlushReturn, ShutdownAcked, TakeHandle, Join
    <2>7. ASSUME NEW c \in Callers, Begin(c) PROVE UNCHANGED slotVars
        BY <2>7 DEF Begin, LogReject, LogAdmit, FlushCall, ShutdownCall, DropHandle
    <2>8. CASE WRecv \/ WDisconnected
        BY <2>1, <2>8 DEF WRecv, WDisconnected
    <2>9. CASE UNCHANGED vars
        BY <2>1, <2>9 DEF vars
    <2> QED
        BY <1>1, <2>1, <2>2, <2>3, <2>4, <2>5, <2>6, <2>7, <2>8, <2>9
        DEF Next, Writer, Terminated
<1>2. TypeOK /\ [Next]_vars =>
          [\A s \in Slots : slots[s].degraded =>
              slots'[s].degraded /\ written'[s] = written[s] /\ failed'[s] = failed[s]]_vars
    BY <1>1
<1> QED BY <1>2, TypeCorrect, PTL DEF Spec, DegradedIsFinal

------------------------------------------------------------------------------
(* Levels.                                                                  *)

(* A record that log has let through is enabled, on its way and in the      *)
(* channel; what a slot was given, diverted or failed to write is such a    *)
(* record of the channel, not below the slot's floor.                       *)
HandedTo(s) == Positions(written[s]) \cup Positions(diverted[s]) \cup Positions(failed[s])

OnTheirWay == \A c \in Callers : pc[c] \in {"log_lock", "log_send"} => Enabled(level[c])
InChannel == \A i \in 1..Len(sent) : LogKind(i) => Enabled(sent[i].level)
InSlots == \A s \in Slots : \A i \in HandedTo(s) :
              i \in 1..Len(sent) /\ LogKind(i) /\ Accepts(s, sent[i].level)

LevelInv == OnTheirWay /\ InChannel /\ InSlots

(* A log with one more position holds that position and what it held.       *)
LEMMA AppendPositions ==
    ASSUME NEW old \in Seq(Nat), NEW n \in Nat
    PROVE  Positions(Append(old, n)) = Positions(old) \cup {n}
<1> DEFINE new == Append(old, n)
<1>1. /\ \A k \in 1..Len(new) : new[k] = n \/ (k \in 1..Len(old) /\ new[k] = old[k])
      /\ \A k \in 1..Len(old) : k \in 1..Len(new) /\ new[k] = old[k]
      /\ Len(old) + 1 \in 1..Len(new) /\ new[Len(old) + 1] = n
    OBVIOUS
<1> QED BY <1>1 DEF Positions

(* A record written to the slots is handed to those that accept its level.  *)
LEMMA HandedPositions ==
    ASSUME SlotsTypeOK, NEW n \in Nat, NEW l \in Level, WriteRecord(n, l), NEW s \in Slots
    PROVE  /\ HandedTo(s)' \subseteq HandedTo(s) \cup {n}
           /\ ~Accepts(s, l) => HandedTo(s)' = HandedTo(s)
<1> PICK failing \in SUBSET (Direct(l) \cap FaultySinks) : WriteRecord(n, l)!(failing)
    BY DEF WriteRecord
<1> DEFINE ok == Direct(l) \ failing
           away == Eligible(l) \ Direct(l)
<1>1. /\ written' = Extend(written, ok, n)
      /\ failed' = Extend(failed, failing, n)
      /\ diverted' = Extend(diverted, away, n)
    OBVIOUS
<1>2. ok \in SUBSET Slots /\ failing \in SUBSET Slots /\ away \in SUBSET Slots
    BY DEF Direct, Eligible
<1>3. ~Accepts(s, l) => s \notin ok /\ s \notin failing /\ s \notin away
    BY DEF Direct, Eligible
<1> HIDE DEF ok, away
<1>4. /\ Positions(written'[s]) \subseteq Positions(written[s]) \cup {n}
      /\ ~Accepts(s, l) => Positions(written'[s]) = Positions(written[s])
    <2>1. written[s] \in Seq(Nat)
        BY DEF SlotsTypeOK
    <2>2. /\ s \in ok => written'[s] = Append(written[s], n)
          /\ s \notin ok => written'[s] = written[s]
        BY <1>1 DEF Extend
    <2>3. Positions(Append(written[s], n)) \subseteq Positions(written[s]) \cup {n}
        BY <2>1, AppendPositions
    <2> QED BY <1>3, <2>2, <2>3
<1>5. /\ Positions(failed'[s]) \subseteq Positions(failed[s]) \cup {n}
      /\ ~Accepts(s, l) => Positions(failed'[s]) = Positions(failed[s])
    <2>1. failed[s] \in Seq(Nat)
        BY DEF SlotsTypeOK
    <2>2. /\ s \in failing => failed'[s] = Append(failed[s], n)
          /\ s \notin failing => failed'[s] = failed[s]
        BY <1>1 DEF Extend
    <2>3. Positions(Append(failed[s], n)) \subseteq Positions(failed[s]) \cup {n}
        BY <2>1, AppendPositions
    <2> QED BY <1>3, <2>2, <2>3
<1>6. /\ Positions(diverted'[s]) \subseteq Positions(diverted[s]) \cup {n}
      /\ ~Accepts(s, l) => Positions(diverted'[s]) = Positions(diverted[s])
    <2>1. diverted[s] \in Seq(Nat)
        BY DEF SlotsTypeOK
    <2>2. /\ s \in away => diverted'[s] = Append(diverted[s], n)
          /\ s \notin away => diverted'[s] = diverted[s]
        BY <1>1 DEF Extend
    <2>3. Positions(Append(diverted[s], n)) \subseteq Positions(diverted[s]) \cup {n}
        BY <2>1, AppendPositions
    <2> QED BY <1>3, <2>2, <2>3
<1>7. HandedTo(s)' = Positions(written'[s]) \cup Positions(diverted'[s]) \cup Positions(failed'[s])
    BY DEF HandedTo, Positions
<1> QED BY <1>4, <1>5, <1>6, <1>7 DEF HandedTo

(* Nothing handed over, and the channel the same or longer: the slots still *)
(* hold records of the channel.                                             *)
LEMMA SlotsUntouched ==
    ASSUME TypeOK, InSlots, UNCHANGED <<written, diverted, failed>>,
           Len(sent') \in Nat, Len(sent') >= Len(sent),
           \A i \in 1..Len(sent) : sent'[i] = sent[i]
    PROVE  InSlots'
<1>1. \A s \in Slots : HandedTo(s)' = HandedTo(s)
    BY DEF HandedTo, Positions
<1>2. Len(sent) \in Nat
    BY DEF TypeOK
<1> QED BY <1>1, <1>2 DEF InSlots, LogKind, Accepts

(* Each step keeps the levels of what is on its way, queued and handed over.*)
LEMMA LevelInductive ==
    ASSUME TypeOK, ExitInv, LevelInv, [Next]_vars
    PROVE  LevelInv'
<1>1. ASSUME NEW c \in Callers, AcquireTx(c) PROVE LevelInv'
    <2>1. OnTheirWay'
        BY <1>1 DEF TypeOK, LevelInv, OnTheirWay, Enabled, AcquireTx, Locking
    <2>2. UNCHANGED <<sent, written, diverted, failed>>
        BY <1>1 DEF AcquireTx, channelVars, slotVars
    <2> QED BY <2>1, <2>2, SlotsUntouched DEF TypeOK, LevelInv, InChannel, LogKind
<1>2. ASSUME NEW c \in Callers, LogDropNewest(c) PROVE LevelInv'
    <2>1. OnTheirWay'
        BY <1>2 DEF TypeOK, LevelInv, OnTheirWay, Enabled, LogDropNewest, Release
    <2>2. UNCHANGED <<sent, written, diverted, failed>>
        BY <1>2 DEF LogDropNewest, channelVars, slotVars
    <2> QED BY <2>1, <2>2, SlotsUntouched DEF TypeOK, LevelInv, InChannel, LogKind
<1>3. ASSUME NEW c \in Callers, LogEmergency(c) PROVE LevelInv'
    <2>1. OnTheirWay'
        BY <1>3 DEF TypeOK, LevelInv, OnTheirWay, Enabled, LogEmergency, Release
    <2>2. UNCHANGED <<sent, written, diverted, failed>>
        BY <1>3 DEF LogEmergency, channelVars, slotVars
    <2> QED BY <2>1, <2>2, SlotsUntouched DEF TypeOK, LevelInv, InChannel, LogKind
<1>4. ASSUME NEW c \in Callers, CtrlSendFails(c) PROVE LevelInv'
    <2>1. OnTheirWay'
        BY <1>4 DEF TypeOK, LevelInv, OnTheirWay, Enabled, CtrlSendFails, Release
    <2>2. UNCHANGED <<sent, written, diverted, failed>>
        BY <1>4 DEF CtrlSendFails, channelVars, slotVars
    <2> QED BY <2>1, <2>2, SlotsUntouched DEF TypeOK, LevelInv, InChannel, LogKind
<1>5. ASSUME NEW c \in Callers, FlushReturn(c) PROVE LevelInv'
    <2>1. OnTheirWay'
        BY <1>5 DEF TypeOK, LevelInv, OnTheirWay, Enabled, FlushReturn, channelVars
    <2>2. UNCHANGED <<sent, written, diverted, failed>>
        BY <1>5 DEF FlushReturn, channelVars, slotVars
    <2> QED BY <2>1, <2>2, SlotsUntouched DEF TypeOK, LevelInv, InChannel, LogKind
<1>6. ASSUME NEW c \in Callers, ShutdownAcked(c) PROVE LevelInv'
    <2>1. OnTheirWay'
        BY <1>6 DEF TypeOK, LevelInv, OnTheirWay, Enabled, ShutdownAcked, channelVars
    <2>2. UNCHANGED <<sent, written, diverted, failed>>
        BY <1>6 DEF ShutdownAcked, channelVars, slotVars
    <2> QED BY <2>1, <2>2, SlotsUntouched DEF TypeOK, LevelInv, InChannel, LogKind
<1>7. ASSUME NEW c \in Callers, TakeHandle(c) PROVE LevelInv'
    <2>1. OnTheirWay'
        BY <1>7 DEF TypeOK, LevelInv, OnTheirWay, Enabled, TakeHandle, channelVars
    <2>2. UNCHANGED <<sent, written, diverted, failed>>
        BY <1>7 DEF TakeHandle, channelVars, slotVars
    <2> QED BY <2>1, <2>2, SlotsUntouched DEF TypeOK, LevelInv, InChannel, LogKind
<1>8. ASSUME NEW c \in Callers, Join(c) PROVE LevelInv'
    <2>1. OnTheirWay'
        BY <1>8 DEF TypeOK, LevelInv, OnTheirWay, Enabled, Join, channelVars
    <2>2. UNCHANGED <<sent, written, diverted, failed>>
        BY <1>8 DEF Join, channelVars, slotVars
    <2> QED BY <2>1, <2>2, SlotsUntouched DEF TypeOK, LevelInv, InChannel, LogKind
<1>9. ASSUME NEW c \in Callers, FlushCall(c) PROVE LevelInv'
    <2>1. OnTheirWay'
        BY <1>9 DEF TypeOK, LevelInv, OnTheirWay, Enabled, FlushCall, StartCall
    <2>2. UNCHANGED <<sent, written, diverted, failed>>
        BY <1>9 DEF FlushCall, channelVars, slotVars
    <2> QED BY <2>1, <2>2, SlotsUntouched DEF TypeOK, LevelInv, InChannel, LogKind
<1>10. ASSUME NEW c \in Callers, ShutdownCall(c) PROVE LevelInv'
    <2>1. OnTheirWay'
        BY <1>10 DEF TypeOK, LevelInv, OnTheirWay, Enabled, ShutdownCall, channelVars
    <2>2. UNCHANGED <<sent, written, diverted, failed>>
        BY <1>10 DEF ShutdownCall, channelVars, slotVars
    <2> QED BY <2>1, <2>2, SlotsUntouched DEF TypeOK, LevelInv, InChannel, LogKind
<1>11. ASSUME NEW c \in Callers, DropHandle(c) PROVE LevelInv'
    <2>1. OnTheirWay'
        BY <1>11 DEF TypeOK, LevelInv, OnTheirWay, Enabled, DropHandle, channelVars
    <2>2. UNCHANGED <<sent, written, diverted, failed>>
        BY <1>11 DEF DropHandle, channelVars, slotVars
    <2> QED BY <2>1, <2>2, SlotsUntouched DEF TypeOK, LevelInv, InChannel, LogKind
<1>12. ASSUME NEW c \in Callers, NEW l \in RecordLevels, LogReject(c, l) PROVE LevelInv'
    <2>1. OnTheirWay'
        BY <1>12 DEF TypeOK, LevelInv, OnTheirWay, Enabled, LogReject, StartCall
    <2>2. UNCHANGED <<sent, written, diverted, failed>>
        BY <1>12 DEF LogReject, channelVars, slotVars
    <2> QED BY <2>1, <2>2, SlotsUntouched DEF TypeOK, LevelInv, InChannel, LogKind
<1>13. ASSUME NEW c \in Callers, NEW l \in RecordLevels, LogAdmit(c, l) PROVE LevelInv'
    <2>1. OnTheirWay'
        BY <1>13 DEF TypeOK, LevelInv, OnTheirWay, Enabled, LogAdmit, Admits, StartCall
    <2>2. UNCHANGED <<sent, written, diverted, failed>>
        BY <1>13 DEF LogAdmit, channelVars, slotVars
    <2> QED BY <2>1, <2>2, SlotsUntouched DEF TypeOK, LevelInv, InChannel, LogKind
<1>14. ASSUME NEW c \in Callers, LogSend(c) PROVE LevelInv'
    <2>1. PICK m \in Message : sent' = Append(sent, m) /\ m.level = level[c]
        <3>1. [kind |-> "log", from |-> c, level |-> level[c]] \in Message
            BY DEF TypeOK, Message
        <3> QED BY <1>14, <3>1 DEF LogSend, Send
    <2>2. Enabled(m.level)
        BY <1>14, <2>1 DEF LogSend, LevelInv, OnTheirWay
    <2>3. /\ sent' \in Seq(Message) /\ Len(sent') = Len(sent) + 1
          /\ \A i \in 1..Len(sent) : sent'[i] = sent[i]
          /\ sent'[Len(sent) + 1] = m
        BY <2>1, SendEffect
    <2>4. OnTheirWay'
        BY <1>14 DEF TypeOK, LevelInv, OnTheirWay, Enabled, LogSend, Release
    <2>5. InChannel'
        <3>1. \A i \in 1..Len(sent') : i \in 1..Len(sent) \/ i = Len(sent) + 1
            BY <2>3 DEF TypeOK
        <3> QED BY <2>2, <2>3, <3>1 DEF LevelInv, InChannel, LogKind, Enabled
    <2>6. InSlots'
        <3>1. UNCHANGED <<written, diverted, failed>> /\ Len(sent) \in Nat
            BY <1>14 DEF LogSend, slotVars, TypeOK
        <3> QED BY <2>3, <3>1, SlotsUntouched DEF LevelInv
    <2> QED BY <2>4, <2>5, <2>6 DEF LevelInv
<1>15. ASSUME NEW c \in Callers, CtrlSend(c) PROVE LevelInv'
    <2>1. PICK m \in Message : sent' = Append(sent, m) /\ m.kind # "log"
        BY <1>15 DEF TypeOK, CtrlSend, Send, Message, Level, Off
    <2>2. m.kind = "log" => Enabled(m.level)
        BY <2>1
    <2>3. /\ sent' \in Seq(Message) /\ Len(sent') = Len(sent) + 1
          /\ \A i \in 1..Len(sent) : sent'[i] = sent[i]
          /\ sent'[Len(sent) + 1] = m
        BY <2>1, SendEffect
    <2>4. OnTheirWay'
        BY <1>15 DEF TypeOK, LevelInv, OnTheirWay, Enabled, CtrlSend, Release
    <2>5. InChannel'
        <3>1. \A i \in 1..Len(sent') : i \in 1..Len(sent) \/ i = Len(sent) + 1
            BY <2>3 DEF TypeOK
        <3> QED BY <2>2, <2>3, <3>1 DEF LevelInv, InChannel, LogKind, Enabled
    <2>6. InSlots'
        <3>1. UNCHANGED <<written, diverted, failed>> /\ Len(sent) \in Nat
            BY <1>15 DEF CtrlSend, slotVars, TypeOK
        <3> QED BY <2>3, <3>1, SlotsUntouched DEF LevelInv
    <2> QED BY <2>4, <2>5, <2>6 DEF LevelInv
<1>16. CASE WRecv
    <2>1. OnTheirWay'
        BY <1>16 DEF TypeOK, LevelInv, OnTheirWay, Enabled, WRecv, callerVars
    <2>2. UNCHANGED <<sent, written, diverted, failed>>
        BY <1>16 DEF WRecv, channelVars, slotVars
    <2> QED BY <2>1, <2>2, SlotsUntouched DEF TypeOK, LevelInv, InChannel, LogKind
<1>17. CASE WDisconnected
    <2>1. OnTheirWay'
        BY <1>17 DEF TypeOK, LevelInv, OnTheirWay, Enabled, WDisconnected, callerVars
    <2>2. UNCHANGED <<sent, written, diverted, failed>>
        BY <1>17 DEF WDisconnected, channelVars, slotVars
    <2> QED BY <2>1, <2>2, SlotsUntouched DEF TypeOK, LevelInv, InChannel, LogKind
<1>18. CASE WLog
    <2>1. /\ taken \in 1..Len(sent) /\ LogKind(taken)
          /\ sent[taken].level \in Level
          /\ UNCHANGED <<sent, pc, level>>
        BY <1>18, HandlingFacts DEF WLog, Handling, LogKind, Message, callerVars
    <2>2. OnTheirWay' /\ InChannel'
        BY <2>1 DEF LevelInv, OnTheirWay, InChannel, LogKind, Enabled
    <2>3. ASSUME NEW s \in Slots, NEW i \in HandedTo(s)'
          PROVE  i \in 1..Len(sent) /\ LogKind(i) /\ Accepts(s, sent[i].level)
        <3>1. WriteRecord(taken, sent[taken].level) /\ SlotsTypeOK /\ taken \in Nat
            BY <1>18, <2>1 DEF WLog, TypeOK
        <3>2. /\ HandedTo(s)' \subseteq HandedTo(s) \cup {taken}
              /\ ~Accepts(s, sent[taken].level) => HandedTo(s)' = HandedTo(s)
            BY <2>1, <3>1, HandedPositions
        <3>3. CASE i \in HandedTo(s)
            BY <3>3 DEF LevelInv, InSlots
        <3>4. CASE i = taken /\ Accepts(s, sent[taken].level)
            BY <2>1, <3>4
        <3> QED BY <2>3, <3>2, <3>3, <3>4
    <2>4. InSlots'
        BY <2>1, <2>3 DEF InSlots, LogKind, Accepts
    <2> QED BY <2>2, <2>4 DEF LevelInv
<1>19. CASE WFlush
    <2>1. OnTheirWay'
        BY <1>19 DEF TypeOK, LevelInv, OnTheirWay, Enabled, WFlush, callerVars
    <2>2. UNCHANGED <<sent, written, diverted, failed>>
        BY <1>19 DEF WFlush, channelVars, slotVars, FlushAll
    <2> QED BY <2>1, <2>2, SlotsUntouched DEF TypeOK, LevelInv, InChannel, LogKind
<1>20. CASE WShutdown
    <2>1. OnTheirWay'
        BY <1>20 DEF TypeOK, LevelInv, OnTheirWay, Enabled, WShutdown, callerVars
    <2>2. UNCHANGED <<sent, written, diverted, failed>>
        BY <1>20 DEF WShutdown, channelVars, slotVars, FlushAll
    <2> QED BY <2>1, <2>2, SlotsUntouched DEF TypeOK, LevelInv, InChannel, LogKind
<1>21. CASE WFlushPanic
    <2>1. OnTheirWay'
        BY <1>21 DEF TypeOK, LevelInv, OnTheirWay, Enabled, WFlushPanic, callerVars
    <2>2. UNCHANGED <<sent, written, diverted, failed>>
        BY <1>21 DEF WFlushPanic, channelVars, slotVars, FlushPanic
    <2> QED BY <2>1, <2>2, SlotsUntouched DEF TypeOK, LevelInv, InChannel, LogKind
<1>22. CASE WExit
    <2>1. OnTheirWay'
        BY <1>22 DEF TypeOK, LevelInv, OnTheirWay, Enabled, WExit, callerVars
    <2>2. UNCHANGED <<sent, written, diverted, failed>>
        BY <1>22 DEF WExit, channelVars, slotVars, FinalFlush
    <2> QED BY <2>1, <2>2, SlotsUntouched DEF TypeOK, LevelInv, InChannel, LogKind
<1>23. CASE UNCHANGED vars
    <2>1. UNCHANGED <<sent, pc, level, written, diverted, failed>>
        BY <1>23 DEF vars, channelVars, callerVars, slotVars
    <2>2. OnTheirWay' /\ InChannel'
        BY <2>1 DEF LevelInv, OnTheirWay, InChannel, LogKind, Enabled
    <2> QED BY <2>1, <2>2, SlotsUntouched DEF TypeOK, LevelInv
<1> QED
    BY <1>1, <1>2, <1>3, <1>4, <1>5, <1>6, <1>7, <1>8, <1>9, <1>10, <1>11,
       <1>12, <1>13, <1>14, <1>15, <1>16, <1>17, <1>18, <1>19, <1>20, <1>21,
       <1>22, <1>23
    DEF Next, Writer, Step, Begin, Terminated

(* No sink is given, nor is stderr in its place, a record below the sink's  *)
(* floor or below the logger's level, and Off silences either.              *)
THEOREM LevelsAreRespected == Spec => []LevelsRespected
<1>1. Init => LevelInv
    BY DEF Init, SlotsInit, LevelInv, OnTheirWay, InChannel, InSlots, HandedTo, Positions
<1>2. TypeOK /\ ExitInv /\ LevelInv /\ [Next]_vars => LevelInv'
    BY LevelInductive
<1>3. TypeOK /\ LevelInv => LevelsRespected
    <2> SUFFICES ASSUME TypeOK, LevelInv, NEW s \in Slots, NEW i \in HandedTo(s)
                 PROVE  /\ sent[i].kind = "log"
                        /\ sent[i].level >= MinLevel[s] /\ sent[i].level >= Threshold
                        /\ Off \notin {sent[i].level, MinLevel[s], Threshold}
        BY DEF LevelsRespected, HandedTo
    <2>1. i \in 1..Len(sent) /\ sent[i].kind = "log" /\ sent[i].level >= MinLevel[s]
        BY DEF LevelInv, InSlots, LogKind, Accepts
    <2>2. sent[i].level \in Level /\ MinLevel[s] \in Level
        <3>1. sent[i] \in Message
            BY <2>1 DEF TypeOK
        <3>2. MinLevel[s] \in Level
            BY SinkAssumption
        <3> QED BY <3>1, <3>2 DEF Message
    <2>3. Enabled(sent[i].level)
        BY <2>1 DEF LevelInv, InChannel, LogKind
    <2> QED BY <2>1, <2>2, <2>3 DEF Enabled, Level, Off
<1> QED BY <1>1, <1>2, <1>3, TypeAndExit, PTL DEF Spec

------------------------------------------------------------------------------
(* The account of the records.                                              *)

InLog == {c \in Callers : pc[c] \in {"log_lock", "log_send"}}
Records == LogsOf(1..Len(sent))

(* There may be infinitely many callers, but those inside log are finitely  *)
(* many at any time.                                                        *)
AccountInv == IsFiniteSet(InLog) /\ Accounting

(* The records of the channel are finitely many.                            *)
LEMMA RecordsFinite ==
    ASSUME TypeOK PROVE IsFiniteSet(Records) /\ Cardinality(Records) \in Nat
<1>1. Len(sent) \in Int /\ 1 \in Int
    BY DEF TypeOK
<1>2. IsFiniteSet(1..Len(sent))
    BY <1>1, FS_Interval
<1>3. Records \in SUBSET (1..Len(sent))
    BY DEF Records, LogsOf
<1>4. IsFiniteSet(Records)
    BY <1>2, <1>3, FS_Subset
<1> QED BY <1>4, FS_CardinalityType

(* One more message is one more record exactly when it is a log message.    *)
LEMMA RecordsSent ==
    ASSUME TypeOK, NEW m \in Message, sent' = Append(sent, m)
    PROVE  Cardinality(Records)' = Cardinality(Records) + IF m.kind = "log" THEN 1 ELSE 0
<1>1. /\ Len(sent') = Len(sent) + 1
      /\ \A i \in 1..Len(sent) : sent'[i] = sent[i]
      /\ sent'[Len(sent) + 1] = m
    BY SendEffect
<1>2. Len(sent) \in Nat
    BY DEF TypeOK
<1>3. Records' = {i \in 1..Len(sent) + 1 : sent'[i].kind = "log"}
    BY <1>1 DEF Records, LogsOf, LogKind
<1>4. Records = {i \in 1..Len(sent) : sent[i].kind = "log"}
    BY DEF Records, LogsOf, LogKind
<1>5. \A i : i \in 1..Len(sent) + 1 <=> i \in 1..Len(sent) \/ i = Len(sent) + 1
    BY <1>2
<1>6. Len(sent) + 1 \notin Records
    BY <1>2, <1>4
<1>7. CASE m.kind = "log"
    <2>1. \A i : i \in Records' <=> i \in Records \/ i = Len(sent) + 1
        BY <1>1, <1>3, <1>4, <1>5, <1>7
    <2>2. Records' = Records \cup {Len(sent) + 1}
        BY <2>1
    <2>3. Cardinality(Records \cup {Len(sent) + 1}) = Cardinality(Records) + 1
        BY <1>6, RecordsFinite, FS_AddElement
    <2> QED BY <1>7, <2>2, <2>3
<1>8. CASE m.kind # "log"
    <2>1. \A i : i \in Records' <=> i \in Records
        BY <1>1, <1>3, <1>4, <1>5, <1>8
    <2>2. Records' = Records
        BY <2>1
    <2> QED BY <1>8, <2>2, RecordsFinite
<1> QED BY <1>7, <1>8

(* A step that changes nothing the account is of keeps it.                  *)
LEMMA AccountUntouched ==
    ASSUME AccountInv, UNCHANGED <<sent, dropped, emergency, admitted>>, InLog' = InLog
    PROVE  AccountInv'
<1>1. Records' = Records
    BY DEF Records, LogsOf, LogKind
<1>2. Cardinality(Records)' = Cardinality(Records) /\ Cardinality(InLog)' = Cardinality(InLog)
    BY <1>1
<1>3. Accounting' <=> admitted' = Cardinality(Records)' + dropped' + emergency'
                                    + Cardinality(InLog)'
    BY DEF Accounting, Records, InLog
<1>4. Accounting <=> admitted = Cardinality(Records) + dropped + emergency
                                  + Cardinality(InLog)
    BY DEF Accounting, Records, InLog
<1> QED BY <1>2, <1>3, <1>4 DEF AccountInv

(* A caller that leaves log leaves its record in one more place.            *)
LEMMA OneLeavesLog ==
    ASSUME TypeOK, AccountInv, NEW c \in Callers, pc[c] = "log_send", Release(c, "idle"),
           admitted' = admitted,
           Cardinality(Records)' \in Nat, dropped' \in Nat, emergency' \in Nat,
           Cardinality(Records)' + dropped' + emergency'
              = Cardinality(Records) + dropped + emergency + 1
    PROVE  AccountInv'
<1>1. InLog' = InLog \ {c} /\ c \in InLog
    BY DEF TypeOK, InLog, Release
<1>2. /\ IsFiniteSet(InLog \ {c})
      /\ Cardinality(InLog \ {c}) = Cardinality(InLog) - 1
      /\ Cardinality(InLog) \in Nat
    BY <1>1, FS_RemoveElement, FS_CardinalityType DEF AccountInv
<1>3. Accounting' <=> admitted' = Cardinality(Records)' + dropped' + emergency'
                                    + Cardinality(InLog)'
    BY DEF Accounting, Records, InLog
<1>4. admitted = Cardinality(Records) + dropped + emergency + Cardinality(InLog)
    BY DEF AccountInv, Accounting, Records, InLog
<1>5. IsFiniteSet(InLog)' /\ Cardinality(InLog)' = Cardinality(InLog) - 1
    BY <1>1, <1>2
<1>6. Cardinality(Records) \in Nat /\ dropped \in Nat /\ emergency \in Nat
    BY RecordsFinite DEF TypeOK
<1>7. admitted' = Cardinality(Records)' + dropped' + emergency' + Cardinality(InLog)'
    BY <1>2, <1>4, <1>5, <1>6
<1> QED BY <1>3, <1>5, <1>7 DEF AccountInv

(* Each step keeps the account.                                             *)
LEMMA AccountInductive ==
    ASSUME TypeOK, AccountInv, [Next]_vars
    PROVE  AccountInv'
<1>1. ASSUME NEW c \in Callers, AcquireTx(c) PROVE AccountInv'
    <2>1. InLog' = InLog
        BY <1>1 DEF TypeOK, InLog, AcquireTx, Locking
    <2> QED BY <1>1, <2>1, AccountUntouched DEF AcquireTx, channelVars, history
<1>2. ASSUME NEW c \in Callers, CtrlSendFails(c) PROVE AccountInv'
    <2>1. InLog' = InLog
        BY <1>2 DEF TypeOK, InLog, CtrlSendFails, Release
    <2> QED BY <1>2, <2>1, AccountUntouched DEF CtrlSendFails, channelVars, history
<1>3. ASSUME NEW c \in Callers, FlushReturn(c) PROVE AccountInv'
    <2>1. InLog' = InLog
        BY <1>3 DEF TypeOK, InLog, FlushReturn
    <2> QED BY <1>3, <2>1, AccountUntouched DEF FlushReturn, channelVars, history
<1>4. ASSUME NEW c \in Callers, ShutdownAcked(c) PROVE AccountInv'
    <2>1. InLog' = InLog
        BY <1>4 DEF TypeOK, InLog, ShutdownAcked
    <2> QED BY <1>4, <2>1, AccountUntouched DEF ShutdownAcked, channelVars, history
<1>5. ASSUME NEW c \in Callers, TakeHandle(c) PROVE AccountInv'
    <2>1. InLog' = InLog
        BY <1>5 DEF TypeOK, InLog, TakeHandle
    <2> QED BY <1>5, <2>1, AccountUntouched DEF TakeHandle, channelVars, history
<1>6. ASSUME NEW c \in Callers, Join(c) PROVE AccountInv'
    <2>1. InLog' = InLog
        BY <1>6 DEF TypeOK, InLog, Join
    <2> QED BY <1>6, <2>1, AccountUntouched DEF Join, channelVars, history
<1>7. ASSUME NEW c \in Callers, FlushCall(c) PROVE AccountInv'
    <2>1. InLog' = InLog
        BY <1>7 DEF TypeOK, InLog, FlushCall, StartCall
    <2> QED BY <1>7, <2>1, AccountUntouched DEF FlushCall, channelVars, history
<1>8. ASSUME NEW c \in Callers, ShutdownCall(c) PROVE AccountInv'
    <2>1. InLog' = InLog
        BY <1>8 DEF TypeOK, InLog, ShutdownCall
    <2> QED BY <1>8, <2>1, AccountUntouched DEF ShutdownCall, channelVars, history
<1>9. ASSUME NEW c \in Callers, DropHandle(c) PROVE AccountInv'
    <2>1. InLog' = InLog
        BY <1>9 DEF TypeOK, InLog, DropHandle
    <2> QED BY <1>9, <2>1, AccountUntouched DEF DropHandle, channelVars, history
<1>10. ASSUME NEW c \in Callers, NEW l \in RecordLevels, LogReject(c, l) PROVE AccountInv'
    <2>1. InLog' = InLog
        BY <1>10 DEF TypeOK, InLog, LogReject
    <2> QED BY <1>10, <2>1, AccountUntouched DEF LogReject, channelVars, history
<1>11. ASSUME NEW c \in Callers, NEW l \in RecordLevels, LogAdmit(c, l) PROVE AccountInv'
    <2>1. InLog' = InLog \cup {c} /\ c \notin InLog
        BY <1>11 DEF TypeOK, InLog, LogAdmit, StartCall
    <2>2. /\ IsFiniteSet(InLog \cup {c})
          /\ Cardinality(InLog \cup {c}) = Cardinality(InLog) + 1
          /\ Cardinality(InLog) \in Nat
        BY <2>1, FS_AddElement, FS_CardinalityType DEF AccountInv
    <2>3. UNCHANGED <<sent, dropped, emergency>> /\ admitted' = admitted + 1
        BY <1>11 DEF LogAdmit, channelVars
    <2>4. Cardinality(Records)' = Cardinality(Records)
        BY <2>3 DEF Records, LogsOf, LogKind
    <2>5. admitted = Cardinality(Records) + dropped + emergency + Cardinality(InLog)
        BY DEF AccountInv, Accounting, Records, InLog
    <2>6. Cardinality(Records) \in Nat /\ dropped \in Nat /\ emergency \in Nat
        BY RecordsFinite DEF TypeOK
    <2>7. Cardinality(InLog)' = Cardinality(InLog) + 1 /\ IsFiniteSet(InLog)'
        BY <2>1, <2>2
    <2>8. admitted' = Cardinality(Records)' + dropped' + emergency' + Cardinality(InLog)'
        BY <2>2, <2>3, <2>4, <2>5, <2>6, <2>7
    <2> QED BY <2>7, <2>8 DEF AccountInv, Accounting, Records, InLog
<1>12. ASSUME NEW c \in Callers, LogSend(c) PROVE AccountInv'
    <2>1. PICK m \in Message : sent' = Append(sent, m) /\ m.kind = "log"
        <3>1. [kind |-> "log", from |-> c, level |-> level[c]] \in Message
            BY DEF TypeOK, Message
        <3> QED BY <1>12, <3>1 DEF LogSend, Send
    <2>2. Cardinality(Records)' = Cardinality(Records) + 1
        BY <2>1, RecordsSent
    <2>3. /\ pc[c] = "log_send" /\ Release(c, "idle")
          /\ UNCHANGED <<dropped, emergency, admitted>>
        BY <1>12 DEF LogSend, history
    <2>4. Cardinality(Records) \in Nat /\ dropped \in Nat /\ emergency \in Nat
        BY RecordsFinite DEF TypeOK
    <2> QED BY <2>2, <2>3, <2>4, OneLeavesLog
<1>13. ASSUME NEW c \in Callers, LogDropNewest(c) PROVE AccountInv'
    <2>1. /\ pc[c] = "log_send" /\ Release(c, "idle")
          /\ sent' = sent /\ admitted' = admitted
          /\ dropped' = dropped + 1 /\ emergency' = emergency
        BY <1>13 DEF LogDropNewest, Counted, channelVars, history
    <2>2. Cardinality(Records)' = Cardinality(Records)
        BY <2>1 DEF Records, LogsOf, LogKind
    <2>3. Cardinality(Records) \in Nat /\ dropped \in Nat /\ emergency \in Nat
        BY RecordsFinite DEF TypeOK
    <2> QED BY <2>1, <2>2, <2>3, OneLeavesLog
<1>14. ASSUME NEW c \in Callers, LogEmergency(c) PROVE AccountInv'
    <2>1. /\ pc[c] = "log_send" /\ Release(c, "idle")
          /\ sent' = sent /\ admitted' = admitted
          /\ dropped' = dropped /\ emergency' = emergency + 1
        BY <1>14 DEF LogEmergency, channelVars, history
    <2>2. Cardinality(Records)' = Cardinality(Records)
        BY <2>1 DEF Records, LogsOf, LogKind
    <2>3. Cardinality(Records) \in Nat /\ dropped \in Nat /\ emergency \in Nat
        BY RecordsFinite DEF TypeOK
    <2> QED BY <2>1, <2>2, <2>3, OneLeavesLog
<1>15. ASSUME NEW c \in Callers, CtrlSend(c) PROVE AccountInv'
    <2>1. PICK m \in Message : sent' = Append(sent, m) /\ m.kind # "log"
        BY <1>15 DEF TypeOK, CtrlSend, Send, Message, Level, Off
    <2>2. Cardinality(Records)' = Cardinality(Records)
        BY <2>1, RecordsSent, RecordsFinite
    <2>3. InLog' = InLog
        BY <1>15 DEF TypeOK, InLog, CtrlSend, Release
    <2>4. UNCHANGED <<dropped, emergency, admitted>>
        BY <1>15 DEF CtrlSend, history
    <2>5. Cardinality(InLog)' = Cardinality(InLog) /\ IsFiniteSet(InLog)'
        BY <2>3 DEF AccountInv
    <2>6. admitted = Cardinality(Records) + dropped + emergency + Cardinality(InLog)
        BY DEF AccountInv, Accounting, Records, InLog
    <2>7. admitted' = Cardinality(Records)' + dropped' + emergency' + Cardinality(InLog)'
        BY <2>2, <2>4, <2>5, <2>6
    <2> QED BY <2>5, <2>7 DEF AccountInv, Accounting, Records, InLog
<1>16. CASE WRecv
    <2>1. InLog' = InLog
        BY <1>16 DEF TypeOK, InLog, WRecv, callerVars
    <2> QED BY <1>16, <2>1, AccountUntouched DEF WRecv, channelVars, history
<1>17. CASE WDisconnected
    <2>1. InLog' = InLog
        BY <1>17 DEF TypeOK, InLog, WDisconnected, callerVars
    <2> QED BY <1>17, <2>1, AccountUntouched DEF WDisconnected, channelVars, history
<1>18. CASE WLog
    <2>1. InLog' = InLog
        BY <1>18 DEF TypeOK, InLog, WLog, callerVars
    <2> QED BY <1>18, <2>1, AccountUntouched DEF WLog, channelVars, history
<1>19. CASE WFlush
    <2>1. InLog' = InLog
        BY <1>19 DEF TypeOK, InLog, WFlush
    <2> QED BY <1>19, <2>1, AccountUntouched DEF WFlush, channelVars, history
<1>20. CASE WShutdown
    <2>1. InLog' = InLog
        BY <1>20 DEF TypeOK, InLog, WShutdown
    <2> QED BY <1>20, <2>1, AccountUntouched DEF WShutdown, channelVars, history
<1>21. CASE WFlushPanic
    <2>1. InLog' = InLog
        BY <1>21 DEF TypeOK, InLog, WFlushPanic
    <2> QED BY <1>21, <2>1, AccountUntouched DEF WFlushPanic, channelVars, history
<1>22. CASE WExit
    <2>1. InLog' = InLog
        BY <1>22 DEF TypeOK, InLog, WExit
    <2> QED BY <1>22, <2>1, AccountUntouched DEF WExit, channelVars, history
<1>23. CASE UNCHANGED vars
    <2>1. InLog' = InLog
        BY <1>23 DEF InLog, vars, callerVars
    <2> QED BY <1>23, <2>1, AccountUntouched DEF vars, channelVars, history
<1> QED
    BY <1>1, <1>2, <1>3, <1>4, <1>5, <1>6, <1>7, <1>8, <1>9, <1>10, <1>11,
       <1>12, <1>13, <1>14, <1>15, <1>16, <1>17, <1>18, <1>19, <1>20, <1>21,
       <1>22, <1>23
    DEF Next, Writer, Step, Begin, Terminated

(* Every record that passed log's checks is in exactly one place: in the    *)
(* channel's history, counted as dropped, on stderr by emergency_write, or  *)
(* in the hands of a caller inside log; however many callers there are.     *)
THEOREM EveryRecordAccounted == Spec => []Accounting
<1>1. Init => AccountInv
    <2> SUFFICES ASSUME Init PROVE AccountInv
        OBVIOUS
    <2>1. InLog = {} /\ Records = {}
        BY DEF Init, InLog, Records, LogsOf
    <2>2. admitted = 0 /\ dropped = 0 /\ emergency = 0
        BY DEF Init
    <2>3. IsFiniteSet(InLog) /\ Cardinality(InLog) = 0 /\ Cardinality(Records) = 0
        BY <2>1, FS_EmptySet
    <2>4. Accounting <=> admitted = Cardinality(Records) + dropped + emergency
                                      + Cardinality(InLog)
        BY DEF Accounting, Records, InLog
    <2> QED BY <2>2, <2>3, <2>4 DEF AccountInv
<1>2. TypeOK /\ AccountInv /\ [Next]_vars => AccountInv'
    BY AccountInductive
<1>3. AccountInv => Accounting
    BY DEF AccountInv
<1> QED BY <1>1, <1>2, <1>3, TypeCorrect, PTL DEF Spec

------------------------------------------------------------------------------
(* What a step does to the slots.                                           *)

(* To a slot that accepts its level a record goes in one of three ways; the *)
(* others do not notice it.                                                 *)
Took(s, n) ==
    /\ ~slots[s].degraded
    /\ slots'[s] = AfterSuccess(slots[s])
    /\ written'[s] = Append(written[s], n)
    /\ diverted'[s] = diverted[s] /\ failed'[s] = failed[s]
Failed(s, n) ==
    /\ ~slots[s].degraded /\ s \in FaultySinks
    /\ slots'[s] = AfterFailure(slots[s])
    /\ failed'[s] = Append(failed[s], n)
    /\ written'[s] = written[s] /\ diverted'[s] = diverted[s]
Diverted(s, n) ==
    /\ slots[s].degraded
    /\ slots'[s] = slots[s]
    /\ diverted'[s] = Append(diverted[s], n)
    /\ written'[s] = written[s] /\ failed'[s] = failed[s]
Passed(s) ==
    /\ slots'[s] = slots[s]
    /\ written'[s] = written[s] /\ diverted'[s] = diverted[s] /\ failed'[s] = failed[s]

LEMMA Outcomes ==
    ASSUME NEW n, NEW l, WriteRecord(n, l), NEW s \in Slots
    PROVE  /\ Accepts(s, l) => Took(s, n) \/ Failed(s, n) \/ Diverted(s, n)
           /\ ~Accepts(s, l) => Passed(s)
<1> PICK failing \in SUBSET (Direct(l) \cap FaultySinks) : WriteRecord(n, l)!(failing)
    BY DEF WriteRecord
<1>1. CASE s \in failing
    <2>1. s \in Direct(l) /\ s \in FaultySinks
        BY <1>1
    <2>2. Accepts(s, l) /\ ~slots[s].degraded
        BY <2>1 DEF Direct, Eligible
    <2>3. Failed(s, n)
        BY <1>1, <2>1, <2>2 DEF Failed, Extend
    <2> QED BY <2>2, <2>3
<1>2. CASE s \in Direct(l) \ failing
    <2>1. Accepts(s, l) /\ ~slots[s].degraded
        BY <1>2 DEF Direct, Eligible
    <2>2. Took(s, n)
        BY <1>2, <2>1 DEF Took, Extend
    <2> QED BY <2>1, <2>2
<1>3. CASE s \in Eligible(l) \ Direct(l)
    <2>1. Accepts(s, l) /\ slots[s].degraded /\ s \notin failing
        BY <1>3 DEF Direct, Eligible
    <2>2. Diverted(s, n)
        BY <1>3, <2>1 DEF Diverted, Extend
    <2> QED BY <2>1, <2>2
<1>4. CASE s \notin Eligible(l)
    <2>1. ~Accepts(s, l) /\ s \notin Direct(l) /\ s \notin failing
        BY <1>4 DEF Direct, Eligible
    <2>2. Passed(s)
        BY <1>4, <2>1 DEF Passed, Extend
    <2> QED BY <2>1, <2>2
<1> QED BY <1>1, <1>2, <1>3, <1>4

(* No record is handed over, and the writer is done with the same ones.     *)
Quiet ==
    /\ UNCHANGED <<written, diverted, failed>>
    /\ LogsOf(1..Handled)' = LogsOf(1..Handled)
    /\ \A i \in LogsOf(1..Handled) : sent'[i] = sent[i]
    /\ slots' = slots \/ (PanickySinks # {} /\ DegradeAll)

(* Such is a step that leaves the channel's cursor, or moves it past a      *)
(* control message.                                                         *)
LEMMA QuietCursor ==
    ASSUME UNCHANGED <<sent, taken, writer, slotVars>>
    PROVE  Quiet
BY DEF Quiet, LogsOf, LogKind, Handled, slotVars

LEMMA QuietSend ==
    ASSUME TypeOK, ExitInv, NEW m \in Message, sent' = Append(sent, m),
           UNCHANGED <<taken, writer, slotVars>>
    PROVE  Quiet
<1>1. Handled' = Handled
    BY DEF Handled
<1>2. LogsOf(1..Handled)' = LogsOf(1..Handled)
    BY <1>1, OneMoreSent
<1>3. Handled \in Nat /\ Handled <= Len(sent) /\ Len(sent) \in Nat
    BY HandledType DEF TypeOK
<1>4. \A i \in 1..Len(sent) : sent'[i] = sent[i]
    BY SendEffect
<1>5. \A i \in LogsOf(1..Handled) : sent'[i] = sent[i]
    BY <1>3, <1>4 DEF LogsOf
<1> QED BY <1>2, <1>5 DEF Quiet, slotVars

LEMMA QuietControl ==
    ASSUME TypeOK, ExitInv, writer = "handle", ~LogKind(taken), sent' = sent,
           Handled' = Handled + 1, UNCHANGED <<written, diverted, failed>>,
           slots' = slots \/ (PanickySinks # {} /\ DegradeAll)
    PROVE  Quiet
BY OneMoreHandled DEF Quiet

(* Each step is the writing of one record or leaves the slots' account.     *)
LEMMA WriteOrQuiet ==
    ASSUME TypeOK, ExitInv, [Next]_vars
    PROVE  WLog \/ Quiet
<1>1. ASSUME NEW c \in Callers, AcquireTx(c) PROVE Quiet
    BY <1>1, QuietCursor DEF AcquireTx, channelVars
<1>2. ASSUME NEW c \in Callers, LogDropNewest(c) PROVE Quiet
    BY <1>2, QuietCursor DEF LogDropNewest, channelVars
<1>3. ASSUME NEW c \in Callers, LogEmergency(c) PROVE Quiet
    BY <1>3, QuietCursor DEF LogEmergency, channelVars
<1>4. ASSUME NEW c \in Callers, CtrlSendFails(c) PROVE Quiet
    BY <1>4, QuietCursor DEF CtrlSendFails, channelVars
<1>5. ASSUME NEW c \in Callers, FlushReturn(c) PROVE Quiet
    BY <1>5, QuietCursor DEF FlushReturn, channelVars
<1>6. ASSUME NEW c \in Callers, ShutdownAcked(c) PROVE Quiet
    BY <1>6, QuietCursor DEF ShutdownAcked, channelVars
<1>7. ASSUME NEW c \in Callers, TakeHandle(c) PROVE Quiet
    BY <1>7, QuietCursor DEF TakeHandle, channelVars
<1>8. ASSUME NEW c \in Callers, Join(c) PROVE Quiet
    BY <1>8, QuietCursor DEF Join, channelVars
<1>9. ASSUME NEW c \in Callers, FlushCall(c) PROVE Quiet
    BY <1>9, QuietCursor DEF FlushCall, channelVars
<1>10. ASSUME NEW c \in Callers, ShutdownCall(c) PROVE Quiet
    BY <1>10, QuietCursor DEF ShutdownCall, channelVars
<1>11. ASSUME NEW c \in Callers, DropHandle(c) PROVE Quiet
    BY <1>11, QuietCursor DEF DropHandle, channelVars
<1>12. ASSUME NEW c \in Callers, NEW l \in RecordLevels, LogReject(c, l) PROVE Quiet
    BY <1>12, QuietCursor DEF LogReject, channelVars
<1>13. ASSUME NEW c \in Callers, NEW l \in RecordLevels, LogAdmit(c, l) PROVE Quiet
    BY <1>13, QuietCursor DEF LogAdmit, channelVars
<1>14. ASSUME NEW c \in Callers, LogSend(c) PROVE Quiet
    <2>1. PICK m \in Message : sent' = Append(sent, m)
        BY <1>14 DEF TypeOK, LogSend, Send, Message, Level, Off
    <2> QED BY <1>14, <2>1, QuietSend DEF LogSend
<1>15. ASSUME NEW c \in Callers, CtrlSend(c) PROVE Quiet
    <2>1. PICK m \in Message : sent' = Append(sent, m)
        BY <1>15 DEF TypeOK, CtrlSend, Send, Message, Level, Off
    <2> QED BY <1>15, <2>1, QuietSend DEF CtrlSend
<1>16. CASE WRecv
    <2>1. Handled' = Handled
        BY <1>16 DEF WRecv, Received, TypeOK, Handled
    <2> QED BY <1>16, <2>1 DEF Quiet, WRecv, LogsOf, LogKind, slotVars
<1>17. CASE WDisconnected
    <2>1. Handled' = Handled
        BY <1>17 DEF WDisconnected, Handled
    <2> QED BY <1>17, <2>1 DEF Quiet, WDisconnected, LogsOf, LogKind, slotVars
<1>18. CASE WFlush
    <2>1. /\ writer = "handle" /\ ~LogKind(taken)
          /\ sent' = sent /\ Handled' = Handled + 1
        BY <1>18, HandlingFacts DEF WFlush, Handling, LogKind, Handled
    <2>2. /\ UNCHANGED <<written, diverted, failed>>
          /\ slots' = slots \/ (PanickySinks # {} /\ DegradeAll)
        BY <1>18 DEF WFlush, FlushAll
    <2> QED BY <2>1, <2>2, QuietControl
<1>19. CASE WShutdown
    <2>1. /\ writer = "handle" /\ ~LogKind(taken)
          /\ sent' = sent /\ Handled' = Handled + 1
        BY <1>19, HandlingFacts DEF WShutdown, Handling, LogKind, Handled
    <2>2. /\ UNCHANGED <<written, diverted, failed>>
          /\ slots' = slots \/ (PanickySinks # {} /\ DegradeAll)
        BY <1>19 DEF WShutdown, FlushAll
    <2> QED BY <2>1, <2>2, QuietControl
<1>20. CASE WFlushPanic
    <2>1. /\ writer = "handle" /\ ~LogKind(taken)
          /\ sent' = sent /\ Handled' = Handled + 1
        BY <1>20, HandlingFacts DEF WFlushPanic, Handling, LogKind, Handled
    <2>2. /\ UNCHANGED <<written, diverted, failed>>
          /\ slots' = slots \/ (PanickySinks # {} /\ DegradeAll)
        BY <1>20 DEF WFlushPanic, FlushPanic
    <2> QED BY <2>1, <2>2, QuietControl
<1>21. CASE WExit
    <2>1. Handled' = Handled
        BY <1>21 DEF WExit, Handled
    <2> QED BY <1>21, <2>1 DEF Quiet, WExit, FinalFlush, LogsOf, LogKind
<1>22. CASE UNCHANGED vars
    BY <1>22, QuietCursor DEF vars, channelVars
<1> QED
    BY <1>1, <1>2, <1>3, <1>4, <1>5, <1>6, <1>7, <1>8, <1>9, <1>10, <1>11,
       <1>12, <1>13, <1>14, <1>15, <1>16, <1>17, <1>18, <1>19, <1>20, <1>21,
       <1>22
    DEF Next, Writer, Step, Begin, Terminated

------------------------------------------------------------------------------
(* Where each record ends.                                                  *)

(* FanOut for one slot; a sink that works stays in use, and nothing of its  *)
(* slot is diverted or lost.                                                *)
FanSlot(s) ==
    /\ EligibleLogs(s, Handled) = HandedTo(s)
    /\ Cardinality(EligibleLogs(s, Handled)) =
          Len(written[s]) + Len(diverted[s]) + Len(failed[s])
    /\ s \notin FaultySinks /\ PanickySinks = {} =>
          ~slots[s].degraded /\ Len(diverted[s]) = 0 /\ Len(failed[s]) = 0

FanInv == \A s \in Slots : FanSlot(s)

(* The records that a slot accepts are finitely many, and none is later     *)
(* than what the writer is done with.                                       *)
LEMMA EligibleFinite ==
    ASSUME TypeOK, ExitInv, NEW s \in Slots
    PROVE  /\ IsFiniteSet(EligibleLogs(s, Handled))
           /\ Cardinality(EligibleLogs(s, Handled)) \in Nat
           /\ \A i \in EligibleLogs(s, Handled) : i \in Nat /\ i <= Handled
<1>1. Handled \in Int /\ 1 \in Int /\ Handled \in Nat
    BY HandledType
<1>2. IsFiniteSet(1..Handled)
    BY <1>1, FS_Interval
<1>3. EligibleLogs(s, Handled) \in SUBSET (1..Handled)
    BY DEF EligibleLogs, LogsOf
<1>4. IsFiniteSet(EligibleLogs(s, Handled))
    BY <1>2, <1>3, FS_Subset
<1>5. \A i \in 1..Handled : i \in Nat /\ i <= Handled
    BY <1>1
<1> QED BY <1>3, <1>4, <1>5, FS_CardinalityType

(* The record written is eligible for the slots that accept its level.      *)
LEMMA EligibleGrows ==
    ASSUME TypeOK, ExitInv, WLog, NEW s \in Slots
    PROVE  /\ taken = Handled + 1 /\ taken \in Nat
           /\ WriteRecord(taken, sent[taken].level)
           /\ Accepts(s, sent[taken].level) =>
                 EligibleLogs(s, Handled)' = EligibleLogs(s, Handled) \cup {taken}
           /\ ~Accepts(s, sent[taken].level) =>
                 EligibleLogs(s, Handled)' = EligibleLogs(s, Handled)
<1>1. /\ writer = "handle" /\ LogKind(taken) /\ sent' = sent
      /\ Handled' = Handled + 1 /\ taken = Handled + 1 /\ taken \in Nat
      /\ WriteRecord(taken, sent[taken].level)
    BY HandlingFacts DEF WLog, Handling, LogKind, Handled, TypeOK
<1>2. LogsOf(1..Handled)' = LogsOf(1..Handled) \cup {taken}
    BY <1>1, OneMoreHandled
<1>3. EligibleLogs(s, Handled)' = {i \in LogsOf(1..Handled)' : Accepts(s, sent[i].level)}
    BY <1>1 DEF EligibleLogs, Accepts, LogsOf, LogKind
<1>4. EligibleLogs(s, Handled) = {i \in LogsOf(1..Handled) : Accepts(s, sent[i].level)}
    BY DEF EligibleLogs
<1> QED BY <1>1, <1>2, <1>3, <1>4

(* A quiet step leaves the records that a slot accepts.                     *)
LEMMA EligibleQuiet ==
    ASSUME Quiet, NEW s \in Slots
    PROVE  EligibleLogs(s, Handled)' = EligibleLogs(s, Handled)
<1>1. EligibleLogs(s, Handled)' = {i \in LogsOf(1..Handled)' : Accepts(s, sent'[i].level)}
    BY DEF EligibleLogs, Accepts, LogsOf, LogKind
<1> QED BY <1>1 DEF Quiet, EligibleLogs

(* Each step keeps what FanOut says of a slot.                              *)
LEMMA FanInductive ==
    ASSUME TypeOK, ExitInv, FanInv, [Next]_vars
    PROVE  FanInv'
<1> SUFFICES ASSUME NEW s \in Slots PROVE FanSlot(s)'
    BY DEF FanInv
<1>1. /\ written[s] \in Seq(Nat) /\ diverted[s] \in Seq(Nat) /\ failed[s] \in Seq(Nat)
      /\ slots[s] \in SinkSlot
    BY DEF TypeOK, SlotsTypeOK
<1>2. FanSlot(s)
    BY DEF FanInv
<1>3. HandedTo(s)' = Positions(written'[s]) \cup Positions(diverted'[s]) \cup Positions(failed'[s])
    BY DEF HandedTo, Positions
<1>4. CASE WLog
    <2> DEFINE n == taken
               l == sent[taken].level
               old == EligibleLogs(s, Handled)
    <2>1. /\ n = Handled + 1 /\ n \in Nat /\ WriteRecord(n, l)
          /\ Accepts(s, l) => EligibleLogs(s, Handled)' = old \cup {n}
          /\ ~Accepts(s, l) => EligibleLogs(s, Handled)' = old
        BY <1>4, EligibleGrows
    <2>2. /\ Accepts(s, l) => Took(s, n) \/ Failed(s, n) \/ Diverted(s, n)
          /\ ~Accepts(s, l) => Passed(s)
        BY <2>1, Outcomes
    <2>3. Cardinality(old \cup {n}) = Cardinality(old) + 1 /\ Cardinality(old) \in Nat
        <3>1. n \notin old /\ IsFiniteSet(old) /\ Cardinality(old) \in Nat
            BY <2>1, HandledType, EligibleFinite
        <3> QED BY <3>1, FS_AddElement
    <2> HIDE DEF n, l, old
    <2>4. /\ HandedTo(s) = old
          /\ HandedTo(s) = Positions(written[s]) \cup Positions(diverted[s]) \cup Positions(failed[s])
          /\ Cardinality(old) = Len(written[s]) + Len(diverted[s]) + Len(failed[s])
        BY <1>2 DEF FanSlot, HandedTo, old
    <2>9. /\ Len(written[s]) \in Nat /\ Len(diverted[s]) \in Nat /\ Len(failed[s]) \in Nat
        BY <1>1
    <2>10. /\ (Len(written[s]) + 1) + Len(diverted[s]) + Len(failed[s]) =
                  (Len(written[s]) + Len(diverted[s]) + Len(failed[s])) + 1
           /\ Len(written[s]) + (Len(diverted[s]) + 1) + Len(failed[s]) =
                  (Len(written[s]) + Len(diverted[s]) + Len(failed[s])) + 1
           /\ Len(written[s]) + Len(diverted[s]) + (Len(failed[s]) + 1) =
                  (Len(written[s]) + Len(diverted[s]) + Len(failed[s])) + 1
        <3> DEFINE a == Len(written[s])
                   b == Len(diverted[s])
                   c == Len(failed[s])
        <3>1. a \in Nat /\ b \in Nat /\ c \in Nat
            BY <2>9
        <3> HIDE DEF a, b, c
        <3>2. /\ (a + 1) + b + c = (a + b + c) + 1
              /\ a + (b + 1) + c = (a + b + c) + 1
              /\ a + b + (c + 1) = (a + b + c) + 1
            BY <3>1
        <3> QED BY <3>2, Zenon DEF a, b, c
    <2>5. CASE Took(s, n)
        <3>1. /\ Positions(Append(written[s], n)) = Positions(written[s]) \cup {n}
              /\ Len(Append(written[s], n)) = Len(written[s]) + 1
            BY <1>1, <2>1, AppendPositions
        <3>2. Accepts(s, l)
            BY <1>1, <2>2, <2>5 DEF Took, Passed
        <3>3. EligibleLogs(s, Handled)' = old \cup {n} /\ HandedTo(s)' = old \cup {n}
            BY <1>3, <2>1, <2>4, <2>5, <3>1, <3>2 DEF Took
        <3>4. Cardinality(EligibleLogs(s, Handled))' =
                  Len(written'[s]) + Len(diverted'[s]) + Len(failed'[s])
            <4>1. Cardinality(EligibleLogs(s, Handled))' = Cardinality(old) + 1
                BY <2>3, <3>3
            <4>2. /\ Len(written'[s]) = Len(written[s]) + 1
                  /\ Len(diverted'[s]) = Len(diverted[s])
                  /\ Len(failed'[s]) = Len(failed[s])
                BY <2>5, <3>1 DEF Took
            <4>3. (Len(written[s]) + 1) + Len(diverted[s]) + Len(failed[s]) =
                     (Len(written[s]) + Len(diverted[s]) + Len(failed[s])) + 1
                BY <2>10
            <4>4. Len(written'[s]) + Len(diverted'[s]) + Len(failed'[s]) =
                     (Len(written[s]) + 1) + Len(diverted[s]) + Len(failed[s])
                BY <4>2, Zenon
            <4> QED BY <2>4, <4>1, <4>3, <4>4, Zenon
        <3>5. ~slots'[s].degraded
            BY <1>1, <2>5 DEF Took, AfterSuccess, SinkSlot
        <3> QED BY <1>2, <2>5, <3>3, <3>4, <3>5 DEF FanSlot, Took
    <2>6. CASE Failed(s, n)
        <3>1. /\ Positions(Append(failed[s], n)) = Positions(failed[s]) \cup {n}
              /\ Len(Append(failed[s], n)) = Len(failed[s]) + 1
            BY <1>1, <2>1, AppendPositions
        <3>2. Accepts(s, l)
            BY <1>1, <2>2, <2>6 DEF Failed, Passed
        <3>3. EligibleLogs(s, Handled)' = old \cup {n} /\ HandedTo(s)' = old \cup {n}
            BY <1>3, <2>1, <2>4, <2>6, <3>1, <3>2 DEF Failed
        <3>4. Cardinality(EligibleLogs(s, Handled))' =
                  Len(written'[s]) + Len(diverted'[s]) + Len(failed'[s])
            <4>1. Cardinality(EligibleLogs(s, Handled))' = Cardinality(old) + 1
                BY <2>3, <3>3
            <4>2. /\ Len(failed'[s]) = Len(failed[s]) + 1
                  /\ Len(written'[s]) = Len(written[s])
                  /\ Len(diverted'[s]) = Len(diverted[s])
                BY <2>6, <3>1 DEF Failed
            <4>3. Len(written[s]) + Len(diverted[s]) + (Len(failed[s]) + 1) =
                     (Len(written[s]) + Len(diverted[s]) + Len(failed[s])) + 1
                BY <2>10
            <4>4. Len(written'[s]) + Len(diverted'[s]) + Len(failed'[s]) =
                     Len(written[s]) + Len(diverted[s]) + (Len(failed[s]) + 1)
                BY <4>2, Zenon
            <4> QED BY <2>4, <4>1, <4>3, <4>4, Zenon
        <3> QED BY <2>6, <3>3, <3>4 DEF FanSlot, Failed
    <2>7. CASE Diverted(s, n)
        <3>1. /\ Positions(Append(diverted[s], n)) = Positions(diverted[s]) \cup {n}
              /\ Len(Append(diverted[s], n)) = Len(diverted[s]) + 1
            BY <1>1, <2>1, AppendPositions
        <3>2. Accepts(s, l)
            BY <1>1, <2>2, <2>7 DEF Diverted, Passed
        <3>3. EligibleLogs(s, Handled)' = old \cup {n} /\ HandedTo(s)' = old \cup {n}
            BY <1>3, <2>1, <2>4, <2>7, <3>1, <3>2 DEF Diverted
        <3>4. Cardinality(EligibleLogs(s, Handled))' =
                  Len(written'[s]) + Len(diverted'[s]) + Len(failed'[s])
            <4>1. Cardinality(EligibleLogs(s, Handled))' = Cardinality(old) + 1
                BY <2>3, <3>3
            <4>2. /\ Len(diverted'[s]) = Len(diverted[s]) + 1
                  /\ Len(written'[s]) = Len(written[s])
                  /\ Len(failed'[s]) = Len(failed[s])
                BY <2>7, <3>1 DEF Diverted
            <4>3. Len(written[s]) + (Len(diverted[s]) + 1) + Len(failed[s]) =
                     (Len(written[s]) + Len(diverted[s]) + Len(failed[s])) + 1
                BY <2>10
            <4>4. Len(written'[s]) + Len(diverted'[s]) + Len(failed'[s]) =
                     Len(written[s]) + (Len(diverted[s]) + 1) + Len(failed[s])
                BY <4>2, Zenon
            <4> QED BY <2>4, <4>1, <4>3, <4>4, Zenon
        <3> QED BY <1>2, <2>7, <3>3, <3>4 DEF FanSlot, Diverted
    <2>8. CASE ~Accepts(s, l)
        <3>1. Passed(s) /\ EligibleLogs(s, Handled)' = old /\ HandedTo(s)' = old
            BY <1>3, <2>1, <2>2, <2>4, <2>8 DEF Passed
        <3> QED BY <1>2, <2>4, <3>1 DEF FanSlot, Passed
    <2> QED BY <2>2, <2>5, <2>6, <2>7, <2>8
<1>5. CASE Quiet
    <2>1. EligibleLogs(s, Handled)' = EligibleLogs(s, Handled) /\ HandedTo(s)' = HandedTo(s)
        BY <1>3, <1>5, EligibleQuiet DEF Quiet, HandedTo
    <2> QED BY <1>2, <1>5, <2>1 DEF Quiet, FanSlot
<1> QED BY <1>4, <1>5, WriteOrQuiet

(* Initially nothing has been written anywhere.                             *)
LEMMA FanInitially == ASSUME Init PROVE FanInv
<1> SUFFICES ASSUME NEW s \in Slots PROVE FanSlot(s)
    BY DEF FanInv
<1>1. written[s] = <<>> /\ diverted[s] = <<>> /\ failed[s] = <<>> /\ ~slots[s].degraded
    BY DEF Init, SlotsInit
<1>2. HandedTo(s) = {} /\ Len(written[s]) = 0 /\ Len(diverted[s]) = 0 /\ Len(failed[s]) = 0
    BY <1>1 DEF HandedTo, Positions
<1>3. EligibleLogs(s, Handled) = {}
    BY DEF Init, Handled, EligibleLogs, LogsOf
<1>4. Cardinality(EligibleLogs(s, Handled)) = 0
    BY <1>3, FS_EmptySet
<1> QED BY <1>1, <1>2, <1>3, <1>4 DEF FanSlot

(* Every record the writer is done with is, for each slot that accepts its  *)
(* level, once in one place, and a sink that works has taken every one, for *)
(* every number of slots and however the other sinks fail.                  *)
THEOREM EveryRecordFansOut == Spec => []FanOut
<1>1. Init => FanInv
    BY FanInitially
<1>2. TypeOK /\ ExitInv /\ FanInv /\ [Next]_vars => FanInv'
    BY FanInductive
<1>3. TypeOK /\ FanInv => FanOut
    <2> SUFFICES ASSUME TypeOK, FanInv, NEW s \in Slots
                 PROVE  FanOut!(s)
        BY DEF FanOut
    <2>1. Len(written[s]) \in Nat
        BY DEF TypeOK, SlotsTypeOK
    <2>2. FanSlot(s)
        BY DEF FanInv
    <2>3. Len(written[s]) + 0 + 0 = Len(written[s])
        BY <2>1
    <2>4. s \notin FaultySinks /\ PanickySinks = {} =>
              Len(written[s]) = Cardinality(EligibleLogs(s, Handled))
        BY <2>2, <2>3, Zenon DEF FanSlot
    <2> QED BY <2>2, <2>4 DEF FanSlot, HandedTo
<1> QED BY <1>1, <1>2, <1>3, TypeAndExit, PTL DEF Spec

------------------------------------------------------------------------------
(* When a slot is degraded.                                                 *)

(* The failures since the last record a sink has taken.                     *)
InARow(s) == {i \in Positions(failed[s]) : i > LastWritten(s)}

(* FailureCount for one slot; a slot in use has failures to go.             *)
CountSlot(s) ==
    /\ slots[s].consecutive_errors = Cardinality(InARow(s))
    /\ slots[s].consecutive_errors <= MaxErrors
    /\ ~slots[s].degraded => slots[s].consecutive_errors < MaxErrors
    /\ PanickySinks = {} => (slots[s].degraded <=> slots[s].consecutive_errors = MaxErrors)

CountInv == \A s \in Slots : CountSlot(s)

(* What a slot was given is finite in number and among what the writer is   *)
(* done with, and so is the last record its sink has taken.                 *)
LEMMA GivenSoFar ==
    ASSUME TypeOK, ExitInv, FanInv, NEW s \in Slots
    PROVE  /\ LastWritten(s) \in Nat /\ LastWritten(s) <= Handled
           /\ \A i \in Positions(failed[s]) : i \in Nat /\ i <= Handled
           /\ IsFiniteSet(InARow(s)) /\ Cardinality(InARow(s)) \in Nat
<1>1. \A i \in HandedTo(s) : i \in Nat /\ i <= Handled
    BY EligibleFinite DEF FanInv, FanSlot
<1>2. IsFiniteSet(HandedTo(s))
    BY EligibleFinite DEF FanInv, FanSlot
<1>3. InARow(s) \in SUBSET HandedTo(s)
    BY DEF InARow, HandedTo
<1>4. IsFiniteSet(InARow(s)) /\ Cardinality(InARow(s)) \in Nat
    BY <1>2, <1>3, FS_Subset, FS_CardinalityType
<1>5. LastWritten(s) \in Nat /\ LastWritten(s) <= Handled
    <2>1. written[s] \in Seq(Nat)
        BY DEF TypeOK, SlotsTypeOK
    <2>2. CASE written[s] = <<>>
        BY <2>2, HandledType DEF LastWritten
    <2>3. CASE written[s] # <<>>
        <3>1. Len(written[s]) \in 1..Len(written[s])
            BY <2>1, <2>3
        <3>2. LastWritten(s) \in Positions(written[s])
            BY <2>3, <3>1 DEF LastWritten, Positions
        <3> QED BY <1>1, <3>2 DEF HandedTo
    <2> QED BY <2>2, <2>3
<1> QED BY <1>1, <1>4, <1>5 DEF HandedTo

(* Each step keeps what FailureCount says of a slot.                        *)
LEMMA CountInductive ==
    ASSUME TypeOK, ExitInv, FanInv, CountInv, [Next]_vars
    PROVE  CountInv'
<1> SUFFICES ASSUME NEW s \in Slots PROVE CountSlot(s)'
    BY DEF CountInv
<1>1. /\ written[s] \in Seq(Nat) /\ failed[s] \in Seq(Nat)
      /\ slots[s] \in SinkSlot /\ MaxErrors \in Nat \ {0}
    BY SinkAssumption DEF TypeOK, SlotsTypeOK
<1>2. CountSlot(s)
    BY DEF CountInv
<1>3. /\ LastWritten(s) \in Nat /\ LastWritten(s) <= Handled
      /\ \A i \in Positions(failed[s]) : i \in Nat /\ i <= Handled
      /\ IsFiniteSet(InARow(s)) /\ Cardinality(InARow(s)) \in Nat
    BY GivenSoFar
<1>4. CASE WLog
    <2>1. taken = Handled + 1 /\ taken \in Nat /\ Handled \in Nat
          /\ WriteRecord(taken, sent[taken].level)
        BY <1>4, EligibleGrows, HandledType
    <2>2. Took(s, taken) \/ Failed(s, taken) \/ Diverted(s, taken) \/ Passed(s)
        BY <2>1, Outcomes
    <2>3. CASE Took(s, taken)
        <3>1. LastWritten(s)' = taken
            <4>1. written'[s] = Append(written[s], taken)
                BY <2>3 DEF Took
            <4>2. written'[s] # <<>> /\ written'[s][Len(written'[s])] = taken
                <5> DEFINE old == written[s]
                           n == taken
                <5>1. old \in Seq(Nat) /\ n \in Nat /\ written'[s] = Append(old, n)
                    BY <1>1, <2>1, <4>1
                <5> HIDE DEF old, n
                <5>2. Append(old, n) # <<>> /\ Append(old, n)[Len(Append(old, n))] = n
                    BY <5>1
                <5> QED BY <5>1, <5>2 DEF n
            <4> QED BY <4>2 DEF LastWritten
        <3>2. InARow(s)' = {}
            <4>1. InARow(s)' = {i \in Positions(failed[s]) : i > taken}
                BY <2>3, <3>1 DEF InARow, Positions, Took
            <4> QED BY <1>3, <2>1, <4>1
        <3>3. Cardinality(InARow(s))' = 0
            BY <3>2, FS_EmptySet
        <3>4. slots'[s].consecutive_errors = 0 /\ ~slots'[s].degraded
            BY <1>1, <2>3 DEF Took, AfterSuccess, SinkSlot
        <3> QED BY <1>1, <3>3, <3>4 DEF CountSlot
    <2>4. CASE Failed(s, taken)
        <3>1. Positions(failed'[s]) = Positions(failed[s]) \cup {taken}
            BY <1>1, <2>1, <2>4, AppendPositions DEF Failed
        <3>2. LastWritten(s)' = LastWritten(s)
            BY <2>4 DEF Failed, LastWritten
        <3>3. InARow(s)' = InARow(s) \cup {taken} /\ taken \notin InARow(s)
            <4>1. InARow(s)' = {i \in Positions(failed'[s]) : i > LastWritten(s)}
                BY <3>2 DEF InARow, Positions
            <4>2. taken > LastWritten(s) /\ taken \notin Positions(failed[s])
                BY <1>3, <2>1
            <4> QED BY <3>1, <4>1, <4>2 DEF InARow
        <3>4. Cardinality(InARow(s))' = Cardinality(InARow(s)) + 1
            <4>1. Cardinality(InARow(s) \cup {taken}) = Cardinality(InARow(s)) + 1
                BY <1>3, <3>3, FS_AddElement
            <4> QED BY <3>3, <4>1
        <3>5. /\ slots'[s].consecutive_errors = slots[s].consecutive_errors + 1
              /\ slots'[s].degraded <=> slots[s].consecutive_errors + 1 >= MaxErrors
              /\ slots[s].consecutive_errors < MaxErrors
              /\ slots[s].consecutive_errors \in Nat
            <4>1. /\ ~slots[s].degraded
                  /\ slots'[s] = AfterFailure(slots[s])
                BY <2>4 DEF Failed
            <4>2. /\ slots[s].consecutive_errors < MaxErrors
                  /\ slots[s].consecutive_errors \in Nat
                BY <1>1, <1>2, <4>1 DEF CountSlot, SinkSlot
            <4>3. /\ slots'[s].consecutive_errors = slots[s].consecutive_errors + 1
                  /\ slots'[s].degraded = (slots[s].consecutive_errors + 1 >= MaxErrors)
                BY <1>1, <4>1 DEF AfterFailure, SinkSlot
            <4> QED BY <4>2, <4>3
        <3>6. slots[s].consecutive_errors = Cardinality(InARow(s))
            BY <1>2 DEF CountSlot
        <3> QED BY <1>1, <3>4, <3>5, <3>6 DEF CountSlot
    <2>5. CASE Diverted(s, taken) \/ Passed(s)
        <3>1. slots'[s] = slots[s] /\ written'[s] = written[s] /\ failed'[s] = failed[s]
            BY <2>5 DEF Diverted, Passed
        <3>2. InARow(s)' = InARow(s)
            BY <3>1 DEF InARow, Positions, LastWritten
        <3> QED BY <1>2, <3>1, <3>2 DEF CountSlot
    <2> QED BY <2>2, <2>3, <2>4, <2>5
<1>5. CASE Quiet
    <2>1. InARow(s)' = InARow(s)
        BY <1>5 DEF Quiet, InARow, Positions, LastWritten
    <2>2. CASE slots' = slots
        BY <1>2, <2>1, <2>2 DEF CountSlot
    <2>3. CASE PanickySinks # {} /\ DegradeAll
        <3>1. slots'[s] = [slots[s] EXCEPT !.degraded = TRUE]
            BY <2>3 DEF DegradeAll
        <3>2. slots'[s].consecutive_errors = slots[s].consecutive_errors /\ slots'[s].degraded
            BY <1>1, <3>1 DEF SinkSlot
        <3> QED BY <1>2, <2>1, <2>3, <3>2 DEF CountSlot
    <2> QED BY <1>5, <2>2, <2>3 DEF Quiet
<1> QED BY <1>4, <1>5, WriteOrQuiet

(* The counter of a slot is the number of its sink's failures since its     *)
(* last success; while no flush panics, the slot is degraded exactly from   *)
(* the MaxErrors-th failure in a row on, for every MaxErrors.               *)
THEOREM FailuresCounted == Spec => []FailureCount
<1>1. Init => CountInv
    <2> SUFFICES ASSUME Init, NEW s \in Slots PROVE CountSlot(s)
        BY DEF CountInv
    <2>1. failed[s] = <<>> /\ slots[s].consecutive_errors = 0 /\ slots[s].degraded = FALSE
        BY DEF Init, SlotsInit
    <2>2. Cardinality(InARow(s)) = 0
        <3>1. InARow(s) = {}
            BY <2>1 DEF InARow, Positions
        <3> QED BY <3>1, FS_EmptySet
    <2> QED BY <2>1, <2>2, SinkAssumption DEF CountSlot
<1>2. TypeOK /\ ExitInv /\ FanInv /\ CountInv /\ [Next]_vars => CountInv'
    BY CountInductive
<1>3. CountInv => FailureCount
    BY DEF CountInv, CountSlot, InARow, FailureCount
<1>4. Init => FanInv
    BY FanInitially
<1>5. TypeOK /\ ExitInv /\ FanInv /\ [Next]_vars => FanInv'
    BY FanInductive
<1> QED BY <1>1, <1>2, <1>3, <1>4, <1>5, TypeAndExit, PTL DEF Spec
=============================================================================
