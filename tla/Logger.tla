------------------------------- MODULE Logger -------------------------------
(***************************************************************************)
(* XOSLog's asynchronous core (logger.rs): callers that hold clones of one *)
(* Logger, the Mutex<SyncSender>, the bounded channel and the writer       *)
(* thread that drains it into the sink slots.                              *)
(*                                                                         *)
(* The channel is the whole history of what was sent, with a cursor: the   *)
(* messages after the cursor are the ones still queued.                    *)
(***************************************************************************)
EXTENDS SinkSlots

CONSTANTS
    Callers,        (* the threads, each with a clone of the Logger           *)
    Capacity,       (* capacity of the sync_channel; 0 is a rendezvous        *)
    Policy,         (* the Backpressure: "Block" or "DropNewest"              *)
    Threshold,      (* effective level of the records' target                 *)
    RecordLevels,   (* the levels callers log at                              *)
    MaxCalls,       (* bound: log and flush calls of one caller               *)
    None            (* no owner of a lock                                     *)

ASSUME LoggerAssumption ==
    /\ Capacity \in Nat
    /\ Policy \in {"Block", "DropNewest"}
    /\ Threshold \in Level
    /\ RecordLevels \subseteq Level
    /\ MaxCalls \in Nat
    /\ None \notin Callers

VARIABLES
    closed,      (* Inner.closed                                             *)
    dropped,     (* Inner.dropped                                            *)
    tx,          (* owner of the Mutex around the SyncSender                 *)
    handle,      (* Inner.handle holds the writer's JoinHandle               *)
    joining,     (* owner of the Mutex around handle                         *)
    sent,        (* every message ever put in the channel, in order          *)
    taken,       (* how many of them the writer has received                 *)
    writer,      (* the writer thread: waiting in "recv", about to "handle"  *)
                 (* sent[taken], out of its loop ("exit"), or "done"         *)
    pc,          (* where each caller is                                     *)
    level,       (* the level of the record a caller is logging              *)
    ack,         (* the ack channel of a caller's control message            *)
    calls,       (* calls each caller has started, for MaxCalls              *)
    emergency,   (* records written by emergency_write                       *)
    admitted,    (* history: records that passed the closed check and filter *)
    mark         (* history: Len(sent) when a caller's flush or shutdown call began *)

channelVars == <<sent, taken, writer>>
callerVars == <<pc, level, ack, calls>>
history == <<admitted, mark>>
vars == <<closed, dropped, tx, handle, joining, channelVars, callerVars,
          emergency, history, slotVars>>

Message == [kind : {"log", "flush", "shutdown"}, from : Callers, level : Level]

Locking == {"log_lock", "flush_lock", "shut_lock"}
Sending == {"log_send", "flush_send", "shut_send"}
Waiting == {"flush_wait", "shut_wait"}
Gone == {"returned", "dropped"}      \* returned from shutdown; clone dropped
PC == {"idle", "shut_handle", "shut_join"} \cup Locking \cup Sending
        \cup Waiting \cup Gone

TypeOK ==
    /\ closed \in BOOLEAN
    /\ dropped \in Nat
    /\ tx \in Callers \cup {None}
    /\ handle \in BOOLEAN
    /\ joining \in Callers \cup {None}
    /\ sent \in Seq(Message)
    /\ taken \in 0..Len(sent)
    /\ writer \in {"recv", "handle", "exit", "done"}
    /\ pc \in [Callers -> PC]
    /\ level \in [Callers -> Level]
    /\ ack \in [Callers -> {"none", "pending", "sent", "dropped"}]
    /\ calls \in [Callers -> 0..MaxCalls]
    /\ emergency \in Nat
    /\ admitted \in Nat
    /\ mark \in [Callers -> Nat]
    /\ SlotsTypeOK

Init ==
    /\ closed = FALSE
    /\ dropped = 0
    /\ tx = None
    /\ handle = TRUE
    /\ joining = None
    /\ sent = <<>>
    /\ taken = 0
    /\ writer = "recv"
    /\ pc = [c \in Callers |-> "idle"]
    /\ level = [c \in Callers |-> Off]
    /\ ack = [c \in Callers |-> "none"]
    /\ calls = [c \in Callers |-> 0]
    /\ emergency = 0
    /\ admitted = 0
    /\ mark = [c \in Callers |-> 0]
    /\ SlotsInit

------------------------------------------------------------------------------
(* The channel.                                                             *)

Queued == Len(sent) - taken
Disconnected == writer = "done"          \* the Receiver is dropped

(* A bounded channel takes a message while a place is free; a rendezvous    *)
(* channel only while the receiver is waiting.                              *)
HasRoom ==
    \/ Queued < Capacity
    \/ Capacity = 0 /\ Queued = 0 /\ writer = "recv"

CanSend == ~Disconnected /\ HasRoom

(* try_send finds a rendezvous channel full also while the writer, on its   *)
(* way to recv, is not inside it yet.                                       *)
MayBeFull == ~HasRoom \/ Capacity = 0

Send(c, kind, l) == sent' = Append(sent, [kind |-> kind, from |-> c, level |-> l])

LogKind(i) == sent[i].kind = "log"
LogsOf(S) == {i \in S : LogKind(i)}

(* The messages the writer is done with.                                    *)
Handled == IF writer = "handle" THEN taken - 1 ELSE taken

------------------------------------------------------------------------------
(* The tx mutex: held from tx_guard() to the end of the call's send.        *)

TxFree(c) == tx = None

AcquireTx(c) ==
    /\ pc[c] \in Locking
    /\ TxFree(c)
    /\ tx' = c
    /\ pc' = [pc EXCEPT ![c] = CASE @ = "log_lock" -> "log_send"
                                 [] @ = "flush_lock" -> "flush_send"
                                 [] @ = "shut_lock" -> "shut_send"]
    /\ UNCHANGED <<closed, dropped, handle, joining, channelVars, level, ack,
                   calls, emergency, history, slotVars>>

(* The call's send is over: the guard is released.                          *)
Release(c, to) ==
    /\ tx' = None
    /\ pc' = [pc EXCEPT ![c] = to]

------------------------------------------------------------------------------
(* Logger::log                                                              *)

EnabledWithOff(l) == l >= Threshold
Enabled(l) == l # Off /\ Threshold # Off /\ l >= Threshold

StartCall(c) ==
    /\ pc[c] = "idle"
    /\ calls[c] < MaxCalls
    /\ calls' = [calls EXCEPT ![c] = @ + 1]

Admits(l) == ~closed /\ Enabled(l)

LogReject(c, l) ==
    /\ StartCall(c)
    /\ ~Admits(l)
    /\ UNCHANGED <<closed, dropped, tx, handle, joining, channelVars, pc, level,
                   ack, emergency, history, slotVars>>

LogAdmit(c, l) ==
    /\ StartCall(c)
    /\ Admits(l)
    /\ pc' = [pc EXCEPT ![c] = "log_lock"]
    /\ level' = [level EXCEPT ![c] = l]
    /\ admitted' = admitted + 1
    /\ UNCHANGED <<closed, dropped, tx, handle, joining, channelVars, ack,
                   emergency, mark, slotVars>>

LogSend(c) ==
    /\ pc[c] = "log_send"
    /\ CanSend
    /\ Send(c, "log", level[c])
    /\ Release(c, "idle")
    /\ UNCHANGED <<closed, dropped, handle, joining, taken, writer, level, ack,
                   calls, emergency, history, slotVars>>

CountNone(n) == n
Counted(n) == n + 1

LogDropNewest(c) ==
    /\ pc[c] = "log_send"
    /\ Policy = "DropNewest"
    /\ ~Disconnected /\ MayBeFull
    /\ dropped' = Counted(dropped)
    /\ Release(c, "idle")
    /\ UNCHANGED <<closed, handle, joining, channelVars, level, ack, calls,
                   emergency, history, slotVars>>

LogEmergency(c) ==
    /\ pc[c] = "log_send"
    /\ Disconnected
    /\ emergency' = emergency + 1
    /\ Release(c, "idle")
    /\ UNCHANGED <<closed, dropped, handle, joining, channelVars, level, ack,
                   calls, history, slotVars>>

------------------------------------------------------------------------------
(* Logger::flush                                                            *)

FlushCall(c) ==
    /\ StartCall(c)
    /\ pc' = [pc EXCEPT ![c] = "flush_lock"]
    /\ ack' = [ack EXCEPT ![c] = "none"]
    /\ mark' = [mark EXCEPT ![c] = Len(sent)]
    /\ UNCHANGED <<closed, dropped, tx, handle, joining, channelVars, level,
                   emergency, admitted, slotVars>>

(* send_ctrl blocks on a full queue under either policy.                    *)
CtrlSend(c) ==
    /\ pc[c] \in {"flush_send", "shut_send"}
    /\ CanSend
    /\ IF pc[c] = "flush_send"
          THEN Send(c, "flush", Off) /\ Release(c, "flush_wait")
          ELSE Send(c, "shutdown", Off) /\ Release(c, "shut_wait")
    /\ ack' = [ack EXCEPT ![c] = "pending"]
    /\ UNCHANGED <<closed, dropped, handle, joining, taken, writer, level,
                   calls, emergency, history, slotVars>>

(* The writer is gone: flush returns at once, and so does shutdown, without *)
(* joining the writer.                                                      *)
CtrlSendFails(c) ==
    /\ pc[c] \in {"flush_send", "shut_send"}
    /\ Disconnected
    /\ Release(c, IF pc[c] = "flush_send" THEN "idle" ELSE "returned")
    /\ UNCHANGED <<closed, dropped, handle, joining, channelVars, level, ack,
                   calls, emergency, history, slotVars>>

(* rx.recv() ends with the ack, or when the ack's Sender is dropped.        *)
AckArrived(c) == ack[c] \in {"sent", "dropped"}

FlushReturn(c) ==
    /\ pc[c] = "flush_wait"
    /\ AckArrived(c)
    /\ pc' = [pc EXCEPT ![c] = "idle"]
    /\ UNCHANGED <<closed, dropped, tx, handle, joining, channelVars, level,
                   ack, calls, emergency, history, slotVars>>

------------------------------------------------------------------------------
(* Logger::shutdown, and the drop of a clone                                *)

ShutdownCall(c) ==
    /\ pc[c] = "idle"
    /\ closed' = TRUE
    /\ pc' = [pc EXCEPT ![c] = "shut_lock"]
    /\ ack' = [ack EXCEPT ![c] = "none"]
    /\ mark' = [mark EXCEPT ![c] = Len(sent)]
    /\ UNCHANGED <<dropped, tx, handle, joining, channelVars, level, calls,
                   emergency, admitted, slotVars>>

ShutdownAcked(c) ==
    /\ pc[c] = "shut_wait"
    /\ AckArrived(c)
    /\ pc' = [pc EXCEPT ![c] = "shut_handle"]
    /\ UNCHANGED <<closed, dropped, tx, handle, joining, channelVars, level,
                   ack, calls, emergency, history, slotVars>>

HandleFreeAlways(c) == TRUE
HandleFree(c) == joining = None

(* The handle's guard lives until the join has returned, so that a second   *)
(* shutdown finds None only after the writer has stopped.                   *)
TakeHandle(c) ==
    /\ pc[c] = "shut_handle"
    /\ HandleFree(c)
    /\ IF handle
          THEN /\ handle' = FALSE
               /\ joining' = c
               /\ pc' = [pc EXCEPT ![c] = "shut_join"]
          ELSE /\ pc' = [pc EXCEPT ![c] = "returned"]
               /\ UNCHANGED <<handle, joining>>
    /\ UNCHANGED <<closed, dropped, tx, channelVars, level, ack, calls,
                   emergency, history, slotVars>>

Join(c) ==
    /\ pc[c] = "shut_join"
    /\ writer = "done"
    /\ joining' = None
    /\ pc' = [pc EXCEPT ![c] = "returned"]
    /\ UNCHANGED <<closed, dropped, tx, handle, channelVars, level, ack, calls,
                   emergency, history, slotVars>>

DropHandle(c) ==
    /\ pc[c] = "idle"
    /\ pc' = [pc EXCEPT ![c] = "dropped"]
    /\ UNCHANGED <<closed, dropped, tx, handle, joining, channelVars, level,
                   ack, calls, emergency, history, slotVars>>

------------------------------------------------------------------------------
(* writer_loop and handle_message                                           *)

ReceivesAnyway == TRUE
Received == Queued > 0

WRecv ==
    /\ writer = "recv"
    /\ Received
    /\ taken' = taken + 1
    /\ writer' = "handle"
    /\ UNCHANGED <<closed, dropped, tx, handle, joining, sent, callerVars,
                   emergency, history, slotVars>>

(* recv() fails once the queue is empty and the last clone, with the        *)
(* SyncSender in it, is gone.                                               *)
SomeoneGone == \E c \in Callers : pc[c] \in Gone
WriterKeepsAClone == FALSE
LastCloneGone == \A c \in Callers : pc[c] \in Gone

WDisconnected ==
    /\ writer = "recv"
    /\ Queued = 0
    /\ LastCloneGone
    /\ writer' = "exit"
    /\ UNCHANGED <<closed, dropped, tx, handle, joining, sent, taken,
                   callerVars, emergency, history, slotVars>>

Handling(kind) == writer = "handle" /\ sent[taken].kind = kind

WLog ==
    /\ Handling("log")
    /\ WriteRecord(taken, sent[taken].level)
    /\ writer' = "recv"
    /\ UNCHANGED <<closed, dropped, tx, handle, joining, sent, taken,
                   callerVars, emergency, history>>

AckOutlivesPanic(how) ==
    ack' = IF how = "sent" THEN [ack EXCEPT ![sent[taken].from] = how] ELSE ack
Acknowledge(how) == ack' = [ack EXCEPT ![sent[taken].from] = how]

WFlush ==
    /\ Handling("flush")
    /\ FlushAll
    /\ Acknowledge("sent")
    /\ writer' = "recv"
    /\ UNCHANGED <<closed, dropped, tx, handle, joining, sent, taken, pc,
                   level, calls, emergency, history>>

WShutdownGoesOn ==
    /\ Handling("shutdown")
    /\ FlushAll
    /\ Acknowledge("sent")
    /\ writer' = "recv"
    /\ UNCHANGED <<closed, dropped, tx, handle, joining, sent, taken, pc,
                   level, calls, emergency, history>>
WShutdown ==
    /\ Handling("shutdown")
    /\ FlushAll
    /\ Acknowledge("sent")
    /\ writer' = "exit"
    /\ UNCHANGED <<closed, dropped, tx, handle, joining, sent, taken, pc,
                   level, calls, emergency, history>>

(* A sink's flush panics: the panic escapes handle_message with the ack,    *)
(* and the loop goes on, after a Shutdown too.                              *)
WFlushPanic ==
    /\ Handling("flush") \/ Handling("shutdown")
    /\ FlushPanic
    /\ Acknowledge("dropped")
    /\ writer' = "recv"
    /\ UNCHANGED <<closed, dropped, tx, handle, joining, sent, taken, pc,
                   level, calls, emergency, history>>

(* The last flush, then the Receiver is dropped with the messages still     *)
(* queued, the acks of the control messages among them.                     *)
AckAfterExit(a) == IF a = "pending" THEN "dropped" ELSE a

WExit ==
    /\ writer = "exit"
    /\ FinalFlush
    /\ ack' = [c \in Callers |-> AckAfterExit(ack[c])]
    /\ writer' = "done"
    /\ UNCHANGED <<closed, dropped, tx, handle, joining, sent, taken, pc,
                   level, calls, emergency, history>>

------------------------------------------------------------------------------
Writer == WRecv \/ WDisconnected \/ WLog \/ WFlush \/ WShutdown \/ WFlushPanic
            \/ WExit

(* The steps of a call that has begun; a call begins, or a clone is         *)
(* dropped, when the program wants to.                                      *)
Step(c) ==
    \/ AcquireTx(c)
    \/ LogSend(c) \/ LogDropNewest(c) \/ LogEmergency(c)
    \/ CtrlSend(c) \/ CtrlSendFails(c)
    \/ FlushReturn(c)
    \/ ShutdownAcked(c) \/ TakeHandle(c) \/ Join(c)

Begin(c) ==
    \/ \E l \in RecordLevels : LogReject(c, l) \/ LogAdmit(c, l)
    \/ FlushCall(c)
    \/ ShutdownCall(c)
    \/ DropHandle(c)

(* All clones are gone and the writer has stopped.                          *)
Terminated ==
    /\ writer = "done"
    /\ \A c \in Callers : pc[c] \in Gone
    /\ UNCHANGED vars

Next ==
    \/ Writer
    \/ \E c \in Callers : Step(c) \/ Begin(c)
    \/ Terminated

Spec == Init /\ [][Next]_vars

(* The scheduler runs every thread that can run, and the mutexes are fair   *)
(* enough that a bounded number of calls cannot starve a waiter.            *)
FairSpec ==
    /\ Spec
    /\ WF_vars(Writer)
    /\ \A c \in Callers : WF_vars(Step(c))

------------------------------------------------------------------------------
(* Safety.                                                                  *)

(* Every record that passed log's checks is in exactly one place: in the    *)
(* channel's history, in the dropped counter, on stderr by emergency_write, *)
(* or in the hands of a caller still inside log (tests/threading.rs:92-96,  *)
(* lib.rs:21-23).                                                           *)
Accounting ==
    admitted = Cardinality(LogsOf(1..Len(sent))) + dropped + emergency
                 + Cardinality({c \in Callers : pc[c] \in {"log_lock", "log_send"}})

(* The records a sink was sent come out in the order of the queue, each at  *)
(* most once, whatever the failures of this sink and the others.            *)
SinkOrder ==
    \A s \in Slots : \A j, k \in 1..Len(written[s]) :
        j < k => written[s][j] < written[s][k]

EligibleLogs(s, n) == {i \in LogsOf(1..n) : Accepts(s, sent[i].level)}
Positions(log) == {log[k] : k \in 1..Len(log)}

(* Every record the writer is done with is, for each slot that accepts its  *)
(* level, once in one place: taken by the sink, diverted to stderr or lost  *)
(* in a failed write; and a sink that works has taken every one of them,    *)
(* however the other sinks fail (README.md:175-177).                        *)
FanOut ==
    \A s \in Slots :
        /\ EligibleLogs(s, Handled) =
              Positions(written[s]) \cup Positions(diverted[s]) \cup Positions(failed[s])
        /\ Cardinality(EligibleLogs(s, Handled)) =
              Len(written[s]) + Len(diverted[s]) + Len(failed[s])
        /\ (s \notin FaultySinks /\ PanickySinks = {}) =>
              Len(written[s]) = Cardinality(EligibleLogs(s, Handled))

(* No sink is given a record below its own floor or below the logger's      *)
(* level, or one logged at Off; a sink whose floor is Off is given nothing  *)
(* (README.md:171-172).                                                     *)
LevelsRespected ==
    \A s \in Slots :
        \A i \in Positions(written[s]) \cup Positions(diverted[s]) \cup Positions(failed[s]) :
            /\ sent[i].kind = "log"
            /\ sent[i].level >= MinLevel[s] /\ sent[i].level >= Threshold
            /\ Off \notin {sent[i].level, MinLevel[s], Threshold}

LastWritten(s) == IF written[s] = <<>> THEN 0 ELSE written[s][Len(written[s])]

(* consecutive_errors is the number of failures since the sink's last       *)
(* success, and while no flush panics the slot is degraded exactly from the *)
(* MaxErrors-th of them on (tests/multi_sink.rs: at most 8 attempts).       *)
FailureCount ==
    \A s \in Slots :
        /\ slots[s].consecutive_errors =
              Cardinality({i \in Positions(failed[s]) : i > LastWritten(s)})
        /\ slots[s].consecutive_errors <= MaxErrors
        /\ PanickySinks = {} =>
              (slots[s].degraded <=> slots[s].consecutive_errors = MaxErrors)

(* A flush, or a shutdown, that was acknowledged has been preceded by every *)
(* record that was in the channel when the call began: the writer is done   *)
(* with all of them, and each sink that works has flushed what it was given *)
(* of them (the doc of Logger::flush).                                      *)
FlushDrains ==
    \A c \in Callers : pc[c] \in Waiting /\ ack[c] = "sent" =>
        /\ mark[c] < Handled
        /\ \A s \in Slots \ FaultySinks : \A k \in 1..Len(written[s]) :
              written[s][k] <= mark[c] => k <= flushed[s]

(* What the writer leaves in the channel when it stops came behind a        *)
(* Shutdown message: without a shutdown call nothing is left, and no record *)
(* takes the emergency path before the writer has stopped.                  *)
LossOnlyAfterShutdown ==
    /\ (writer \in {"exit", "done"} /\ taken < Len(sent)) =>
          taken > 0 /\ sent[taken].kind = "shutdown"
    /\ emergency > 0 => writer = "done"

(* A shutdown that has returned, of any clone, leaves no writer thread      *)
(* behind, also when it found the handle already taken: the program may     *)
(* close what the sinks write to.                                           *)
ShutdownStopsWriter ==
    \A c \in Callers : pc[c] = "returned" => writer = "done"

(* A degraded slot is never tried again: its sink receives nothing more.    *)
DegradedIsFinal ==
    [][\A s \in Slots : slots[s].degraded =>
         slots'[s].degraded /\ written'[s] = written[s] /\ failed'[s] = failed[s]]_vars

------------------------------------------------------------------------------
(* The inductive invariant behind the properties above.                     *)

(* The handle's mutex is held exactly by the caller inside join, and a      *)
(* handle that is neither there nor being joined was joined.                *)
HandleInv ==
    /\ \A c \in Callers : joining = c <=> pc[c] = "shut_join"
    /\ ~handle /\ joining = None => writer = "done"
    /\ ShutdownStopsWriter

(* The writer leaves its loop after a Shutdown message, or when nobody is   *)
(* left to send.                                                            *)
ExitInv ==
    /\ writer \in {"exit", "done"} =>
          \/ taken > 0 /\ sent[taken].kind = "shutdown"
          \/ taken = Len(sent) /\ \A c \in Callers : pc[c] \in Gone
    /\ writer = "handle" => taken > 0
    /\ emergency > 0 => writer = "done"

(* A sink has only been given messages the writer is done with.             *)
OrderInv ==
    /\ \A s \in Slots : \A k \in 1..Len(written[s]) : written[s][k] \in 1..Handled
    /\ SinkOrder

(* A control message the writer is not done with is the only one of its     *)
(* caller, who waits for its ack and sent it after its call began.          *)
Control(i) == sent[i].kind \in {"flush", "shutdown"}

AckInv ==
    /\ \A c \in Callers : mark[c] <= Len(sent)
    /\ writer # "done" => \A i \in Handled + 1..Len(sent) : Control(i) =>
          /\ pc[sent[i].from] \in Waiting
          /\ ack[sent[i].from] = "pending"
          /\ mark[sent[i].from] < i
          /\ \A j \in Handled + 1..Len(sent) :
                Control(j) /\ sent[j].from = sent[i].from => j = i

IInv == HandleInv /\ ExitInv /\ OrderInv /\ AckInv /\ FlushDrains

------------------------------------------------------------------------------
(* Liveness.                                                                *)

InCall(c) == pc[c] \notin {"idle"} \cup Gone

(* The ack of a shutdown was lost in a sink's panic, and the writer that    *)
(* the shutdown joins goes on: see ShutdownReturns.                         *)
HangsInShutdown(c) ==
    /\ pc[c] \in {"shut_handle", "shut_join"}
    /\ writer \in {"recv", "handle"}
    /\ \E d \in Callers : pc[d] \in {"shut_handle", "shut_join"} /\ ack[d] = "dropped"

(* Every call returns, also one that finds the queue full or without any    *)
(* capacity, meets the writer's end, has its control message discarded with *)
(* the queue or its ack lost in a sink's panic, or is made while another    *)
(* caller's shutdown hangs; only that shutdown itself does not              *)
(* (logger.rs:190-196, 203-214, 225-226, 621-633).                          *)
CallsReturn ==
    \A c \in Callers : InCall(c) ~> (~InCall(c) \/ HangsInShutdown(c))

(* When every clone has gone, by a drop or a shutdown, the writer drains    *)
(* what is queued and stops.                                                *)
WriterStops == (\A c \in Callers : pc[c] \in Gone) ~> writer = "done"

------------------------------------------------------------------------------
(* What the documentation says and the code does not do.                    *)

(* "No records are ever dropped" under Block (logger.rs:29-30): a record    *)
(* that log passed to the channel is received.                              *)
BlockLosesNothing ==
    Policy = "Block" /\ writer = "done" => \A i \in taken+1..Len(sent) : ~LogKind(i)

(* "clean teardown" (lib.rs:26-27): shutdown stops the writer and returns.  *)
ShutdownReturns == \A c \in Callers : pc[c] = "shut_lock" ~> pc[c] = "returned"
==============================================================================
