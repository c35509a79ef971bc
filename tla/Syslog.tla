------------------------------- MODULE Syslog -------------------------------
(***************************************************************************)
(* The syslog sinks (syslog.rs) in a slot of the writer thread.  The local *)
(* one has a lazily connected Unix datagram socket, one reconnect-and-retry *)
(* for each record, and daemons that come, go and fall behind between any  *)
(* two of its system calls.  The remote one has a UDP socket, which never  *)
(* waits and learns of a lost datagram from a later send, if at all.       *)
(*                                                                         *)
(* The daemons and the kernel are external, modelled from the calls the    *)
(* sink makes.  A connected socket belongs to one run of one daemon: after *)
(* a restart on the same path it is dead.  The socket is blocking and has  *)
(* no timeout, so that send waits while the receive queue is full.         *)
(***************************************************************************)
EXTENDS Integers, Sequences, FiniteSets, FiniteSetsExt, SequencesExt

CONSTANTS
    Transports,     (* "unix", the SyslogSink, and "udp", the RemoteSyslogSink *)
    NumPaths,       (* length of SyslogSink.paths, at least 1: an empty list *)
                    (* is one path that never has a daemon                   *)
    Facility,       (* Facility::code of the sink                            *)
    HeaderLens,     (* by sink, the bytes of its                             *)
                    (* `<PRI>TIMESTAMP HOSTNAME TAG[PID]: `: the priorities  *)
                    (* of one facility have as many digits                   *)
    MaxPacket,      (* MAX_SYSLOG_PACKET                                     *)
    MaxErrors,      (* MAX_CONSECUTIVE_WRITE_ERRORS                          *)
    Records,        (* the records written: [level, text]                    *)
    QueueLen,       (* datagrams the kernel queues for a daemon              *)
    MaxRecords,     (* bound: records written                                *)
    MaxRuns         (* bound: daemon starts                                  *)

Paths == 1..NumPaths

(* Facility: Kernel to Ftp, Local0 to Local7.                               *)
Facilities == 0..11 \cup 16..23

(* A formatted record, as characters that differ in what the packet does    *)
(* with them, and the number of UTF-8 bytes of each.                        *)
Char == {"ascii", "wide", "newline", "replacement"}
Bytes(c) == CASE c = "wide" -> 2 [] c = "replacement" -> 3 [] OTHER -> 1

ASSUME SyslogAssumption ==
    /\ Transports \subseteq {"unix", "udp"}
    /\ NumPaths \in Nat \ {0}
    /\ Facility \in Facilities
    /\ HeaderLens \in [{"unix", "udp"} -> Nat]
    /\ {MaxPacket, MaxRecords, MaxRuns} \subseteq Nat
    /\ {MaxErrors, QueueLen} \subseteq Nat \ {0}
    /\ \A r \in Records :
          r.level \in 0..4 /\ r.text \in Seq(Char \ {"replacement"})

NoRun == 0      (* the socket of no daemon; the daemon of no path           *)

VARIABLES
    transport,  (* which of the two sinks it is                              *)
    icmp,       (* the UDP socket's error: "none", "underway" or "pending"   *)
    listening,  (* listening[p]: the run of the daemon bound to path p; the  *)
                (* remote host of a UDP socket is path 1                     *)
    unread,     (* unread[p]: datagrams in its receive queue                 *)
    runs,       (* daemons started so far                                    *)
    socket,     (* SyslogSink.socket: the run it is connected to             *)
    step,       (* where deliver is: "idle", "connect" or "send"             *)
    path,       (* the path reconnect tries next                             *)
    retried,    (* deliver has used its one reconnect-and-retry              *)
    slot,       (* the SinkSlot of the sink                                  *)
    log,        (* every record the slot was handed, oldest first            *)
    accepted, failed, diverted,
                (* their positions in log, by the outcome of the write       *)
    sent,       (* the datagrams the kernel queued, with their record        *)
    calm        (* some path had a daemon when the write began, and since    *)
                (* then none stopped and the kernel refused no call; for UDP, *)
                (* no datagram had bounced                                   *)

daemons == <<listening, unread, runs>>
call == <<step, path, retried>>
outcome == <<slot, accepted, failed, diverted>>
remote == <<transport, icmp>>
vars == <<remote, daemons, socket, call, outcome, log, sent, calm>>

(* The slot as the fan-out of the writer thread sees it.  The daemons       *)
(* decide alone which writes fail; flush() answers Ok and does nothing.     *)
Slot == INSTANCE SinkSlots WITH
            NumSlots <- 1, MinLevel <- <<0>>, MaxErrors <- MaxErrors,
            FaultySinks <- {1}, PanickySinks <- {},
            slots <- <<slot>>, written <- <<accepted>>,
            diverted <- <<diverted>>, failed <- <<failed>>, flushed <- <<0>>

Init ==
    /\ transport \in Transports
    /\ icmp = "none"
    /\ listening = [p \in Paths |-> NoRun]
    /\ unread = [p \in Paths |-> 0]
    /\ runs = 0
    /\ socket = NoRun
    /\ step = "idle" /\ path = 1 /\ retried = FALSE
    /\ slot = [consecutive_errors |-> 0, degraded |-> FALSE]
    /\ log = <<>>
    /\ accepted = <<>> /\ failed = <<>> /\ diverted = <<>>
    /\ sent = <<>>
    /\ calm = FALSE

------------------------------------------------------------------------------
(* The datagram of a record.                                                *)

Size(text) == FoldLeft(LAMBDA n, c : n + Bytes(c), 0, text)

(* Trace and Debug are 7, Info 6, Warn 4, Error 3.                          *)
Severity(level) == <<7, 7, 6, 4, 3>>[level + 1]

StripNewline(text) ==
    IF text # <<>> /\ Last(text) = "newline" THEN Front(text) ELSE text

(* The first n bytes of the text, decoded: the bytes of a character cut in  *)
(* two become one replacement character.                                    *)
FromUtf8Lossy(text, n) ==
    LET fits == {k \in 0..Len(text) : Size(SubSeq(text, 1, k)) <= n}
        whole == SubSeq(text, 1, Max(fits))
    IN IF whole # text /\ Size(whole) < n
          THEN Append(whole, "replacement") ELSE whole

BudgetWithoutHeader(header) == MaxPacket
Budget(header) == IF header > MaxPacket THEN 0 ELSE MaxPacket - header

BuildPacket(header, r) ==
    [pri |-> Facility * 8 + Severity(r.level),
     body |-> FromUtf8Lossy(StripNewline(r.text), Budget(header))]

HeaderLen == HeaderLens[transport]
PacketSize(packet) == HeaderLen + Size(packet.body)

------------------------------------------------------------------------------
(* The writer thread.                                                       *)

Record == Len(log)      (* the record in hand                               *)

Succeed ==
    /\ step' = "idle"
    /\ slot' = Slot!AfterSuccess(slot)
    /\ accepted' = Append(accepted, Record)
    /\ UNCHANGED <<path, retried, failed, diverted>>

FailPerSend ==
    /\ step' = "idle"
    /\ slot' = IF retried THEN Slot!AfterFailure(Slot!AfterFailure(slot))
                          ELSE Slot!AfterFailure(slot)
    /\ failed' = Append(failed, Record)
    /\ UNCHANGED <<path, retried, accepted, diverted>>
FailIgnored == Succeed
Fail ==
    /\ step' = "idle"
    /\ slot' = Slot!AfterFailure(slot)
    /\ failed' = Append(failed, Record)
    /\ UNCHANGED <<path, retried, accepted, diverted>>

BeginReconnect == step' = "connect" /\ path' = 1

(* write_entry: deliver finds a socket or connects first.                   *)
WriteEntry(r) ==
    /\ step = "idle" /\ ~slot.degraded
    /\ Len(log) < MaxRecords
    /\ log' = Append(log, r)
    /\ retried' = FALSE
    /\ calm' = IF transport = "udp" THEN icmp # "pending"
                                     ELSE \E p \in Paths : listening[p] # NoRun
    /\ \/ /\ transport = "unix" /\ socket = NoRun
          /\ BeginReconnect
       \/ /\ transport = "udp" \/ socket # NoRun
          /\ step' = "send"
          /\ UNCHANGED path
    /\ UNCHANGED <<remote, daemons, socket, outcome, sent>>

(* The slot is degraded: the record goes to stderr and deliver is not       *)
(* called.                                                                  *)
Divert(r) ==
    /\ step = "idle" /\ slot.degraded
    /\ Len(log) < MaxRecords
    /\ log' = Append(log, r)
    /\ diverted' = Append(diverted, Len(log'))
    /\ UNCHANGED <<remote, daemons, socket, call, slot, accepted, failed, sent, calm>>

(* reconnect: the socket of the first path that can be reached.             *)
Connect ==
    /\ step = "connect"
    /\ listening[path] # NoRun
    /\ socket' = listening[path]
    /\ step' = "send"
    /\ UNCHANGED <<remote, daemons, path, retried, outcome, log, sent, calm>>

(* A path without a daemon, or a call the kernel refuses (no descriptor):   *)
(* reconnect goes on to the next path, and after the last one it drops the  *)
(* old socket and fails.                                                    *)
NextPath ==
    \/ /\ path < NumPaths
       /\ path' = path + 1
       /\ UNCHANGED <<socket, step, retried, outcome>>
    \/ /\ path = NumPaths
       /\ socket' = NoRun
       /\ Fail

Unreachable ==
    /\ step = "connect"
    /\ \/ listening[path] = NoRun /\ UNCHANGED calm
       \/ listening[path] # NoRun /\ calm' = FALSE
    /\ NextPath
    /\ UNCHANGED <<remote, daemons, log, sent>>

(* send: one datagram in the queue of the daemon the socket is connected    *)
(* to, once there is room.                                                  *)
Send ==
    /\ step = "send" /\ transport = "unix"
    /\ \E p \in Paths :
          /\ listening[p] = socket /\ unread[p] < QueueLen
          /\ unread' = [unread EXCEPT ![p] = @ + 1]
    /\ sent' = Append(sent, [record |-> Record,
                             packet |-> BuildPacket(HeaderLen, log[Record])])
    /\ Succeed
    /\ UNCHANGED <<remote, listening, runs, socket, log, calm>>

(* The first failed send reconnects, the second is the result.  After it    *)
(* the socket stays.                                                        *)
AfterSendErrorForever ==
    /\ BeginReconnect
    /\ UNCHANGED <<retried, outcome>>
AfterSendErrorGivesUp == Fail
AfterSendError ==
    \/ /\ ~retried
       /\ retried' = TRUE
       /\ BeginReconnect
       /\ UNCHANGED outcome
    \/ /\ retried
       /\ Fail

(* send answers an error because its daemon is gone.                        *)
SendError ==
    /\ step = "send" /\ transport = "unix"
    /\ \A p \in Paths : listening[p] # socket
    /\ AfterSendError
    /\ UNCHANGED <<remote, daemons, socket, log, sent, calm>>

(* The kernel refuses the datagram although the daemon is there.            *)
SendRefused ==
    /\ step = "send" /\ transport = "unix"
    /\ \E p \in Paths : listening[p] = socket
    /\ calm' = FALSE
    /\ AfterSendError
    /\ UNCHANGED <<remote, daemons, socket, log, sent>>

(* RemoteSyslogSink::deliver is one send.  It answers Ok when the kernel    *)
(* took the datagram, which an unreachable host may answer with an ICMP     *)
(* message; one that has arrived since is the error of the next send, whose *)
(* own datagram stays.                                                      *)
RemoteSend ==
    /\ step = "send" /\ transport = "udp" /\ icmp # "pending"
    /\ sent' = Append(sent, [record |-> Record,
                             packet |-> BuildPacket(HeaderLen, log[Record])])
    /\ icmp' \in IF listening[1] = NoRun THEN {icmp, "underway"} ELSE {icmp}
    /\ Succeed
    /\ UNCHANGED <<transport, daemons, socket, log, calm>>

RemoteSendError ==
    /\ step = "send" /\ transport = "udp" /\ icmp = "pending"
    /\ icmp' = "none"
    /\ Fail
    /\ UNCHANGED <<transport, daemons, socket, log, sent, calm>>

------------------------------------------------------------------------------
(* The daemons.                                                             *)

IcmpArrives ==
    /\ icmp = "underway"
    /\ icmp' = "pending"
    /\ calm' = FALSE
    /\ UNCHANGED <<transport, daemons, socket, call, outcome, log, sent>>

StartDaemon(p) ==
    /\ listening[p] = NoRun
    /\ runs < MaxRuns
    /\ runs' = runs + 1
    /\ listening' = [listening EXCEPT ![p] = runs']
    /\ UNCHANGED <<remote, unread, socket, call, outcome, log, sent, calm>>

(* What it had not read is gone.                                            *)
StopDaemon(p) ==
    /\ listening[p] # NoRun
    /\ listening' = [listening EXCEPT ![p] = NoRun]
    /\ unread' = [unread EXCEPT ![p] = 0]
    /\ calm' = FALSE
    /\ UNCHANGED <<remote, runs, socket, call, outcome, log, sent>>

ReadDatagram(p) ==
    /\ unread[p] > 0
    /\ unread' = [unread EXCEPT ![p] = @ - 1]
    /\ UNCHANGED <<remote, listening, runs, socket, call, outcome, log, sent, calm>>

------------------------------------------------------------------------------
(* The bound is reached between two records.                                *)
Exhausted ==
    /\ step = "idle" /\ Len(log) = MaxRecords
    /\ UNCHANGED vars

Deliver == Connect \/ Unreachable \/ Send \/ SendError \/ RemoteSend \/ RemoteSendError

Next ==
    \/ \E r \in Records : WriteEntry(r) \/ Divert(r)
    \/ Deliver \/ SendRefused \/ IcmpArrives
    \/ \E p \in Paths : StartDaemon(p) \/ StopDaemon(p) \/ ReadDatagram(p)
    \/ Exhausted

Spec == Init /\ [][Next]_vars

(* The writer thread is scheduled, and a daemon that runs reads its queue:  *)
(* without the second, a daemon that hangs holds the writer in send.  The   *)
(* kernel need not refuse anything.                                         *)
FairSpec ==
    /\ Spec
    /\ WF_vars(Deliver)
    /\ \A p \in Paths : WF_vars(ReadDatagram(p))

------------------------------------------------------------------------------
(* Properties.                                                              *)

(* A write answers Ok exactly when the kernel has taken the record's        *)
(* datagram, once, and datagrams leave in the order of the records: the     *)
(* retry of syslog.rs duplicates nothing, and an error means that nothing   *)
(* was sent.                                                                *)
OkMeansSentOnce == [i \in DOMAIN sent |-> sent[i].record] = accepted

(* "Reconnects automatically if the daemon restarts": a write fails only    *)
(* when no path had a daemon as it began, or a daemon stopped, or the       *)
(* kernel refused a call, while it ran.  A restart between two writes loses *)
(* nothing, whatever path the daemon came back on.  A remote write fails    *)
(* only in place of an earlier one, whose datagram bounced.                 *)
RestartLosesNothing == [][failed' # failed => ~calm']_vars

(* What a datagram says of its record: the priority decodes to the facility *)
(* and to the severity of the level; the body is the message without its    *)
(* newline when that fits, and otherwise its longest prefix of whole        *)
(* characters that fits, which is none behind a header that leaves no room, *)
(* and one replacement only when a byte was left for it.                    *)
DatagramCarriesRecord ==
    \A i \in DOMAIN sent :
        LET packet == sent[i].packet
            message == StripNewline(log[sent[i].record].text)
        IN /\ packet.pri \div 8 = Facility
           /\ packet.pri % 8 = Severity(log[sent[i].record].level)
           /\ HeaderLen + Size(message) <= MaxPacket => packet.body = message
           /\ \E n \in 0..Len(message) :
                 LET kept == SubSeq(message, 1, n)
                     size == HeaderLen + Size(kept)
                 IN  /\ size <= Max({HeaderLen, MaxPacket})
                     /\ n < Len(message) => size + Bytes(message[n + 1]) > MaxPacket
                     /\ \/ packet.body = kept
                        \/ /\ packet.body = Append(kept, "replacement")
                           /\ n < Len(message) /\ size < MaxPacket

(* A sink whose writes take many steps, fail twice and try several paths is *)
(* to the writer a slot of SinkSlots: each record has one outcome, and one  *)
(* failed write counts once.                                                *)
ImplementsSlot ==
    /\ Slot!SlotsInit
    /\ [][\E i \in 1..MaxRecords : Slot!WriteRecord(i, 0)]_Slot!slotVars

(* deliver returns: one retry, however often daemons come and go.  Stopping *)
(* a daemon wakes a send that waits for room in its queue.  The remote sink *)
(* returns though the host is down or hangs: nothing is asked of it.        *)
DeliverReturns == step # "idle" ~> step = "idle"

------------------------------------------------------------------------------
(* What the documentation says and the code does not do.                    *)

(* "truncated to fit a legacy 1024-byte datagram" (syslog.rs:106-107, and   *)
(* the test at 495): no datagram is longer than MAX_SYSLOG_PACKET.          *)
DatagramsFit == \A i \in DOMAIN sent : PacketSize(sent[i].packet) <= MaxPacket
==============================================================================
