---------------------------- MODULE SyslogProofs ----------------------------
(* Theorems about the syslog sinks, for every number of paths, of daemon    *)
(* runs and of records, every length of the daemons' queues, and whatever   *)
(* stops, restarts or is refused between two system calls.                  *)
EXTENDS Syslog, FoldTheorems

------------------------------------------------------------------------------
(* The inductive invariant.                                                 *)

Packets == {BuildPacket(HeaderLens[t], r) : t \in {"unix", "udp"}, r \in Records}
Datagram == [record : Nat, packet : Packets]
OneSlot == [consecutive_errors : Nat, degraded : BOOLEAN]

SinkTypeOK ==
    /\ transport \in {"unix", "udp"}
    /\ listening \in [Paths -> Nat]
    /\ runs \in Nat
    /\ socket \in Nat
    /\ step \in {"idle", "connect", "send"}
    /\ path \in Paths
    /\ slot \in OneSlot
    /\ log \in Seq(Records) /\ Len(log) <= MaxRecords
    /\ accepted \in Seq(Nat) /\ failed \in Seq(Nat) /\ diverted \in Seq(Nat)
    /\ sent \in Seq(Datagram)

(* A write is of a record, in a slot that is in use; the remote sink does   *)
(* not connect.                                                             *)
WriteInv ==
    /\ step # "idle" => Len(log) > 0 /\ ~slot.degraded
    /\ step = "connect" => transport = "unix"

(* While nothing has stopped and nothing was refused since the write began, *)
(* a daemon is there; it is not behind the path that reconnect is at; and   *)
(* the socket of the retry is that of a daemon that runs.                   *)
CalmInv ==
    calm /\ step # "idle" =>
        /\ transport = "unix" => \E p \in Paths : listening[p] # NoRun
        /\ step = "connect" => \E p \in Paths : p >= path /\ listening[p] # NoRun
        /\ transport = "unix" /\ step = "send" /\ retried =>
              \E p \in Paths : listening[p] = socket /\ socket # NoRun
        /\ transport = "udp" => icmp # "pending"

SinkInv == SinkTypeOK /\ WriteInv

------------------------------------------------------------------------------
LEMMA SinkInitially == ASSUME Init PROVE SinkInv
<1>1. transport \in {"unix", "udp"} /\ NumPaths \in Nat \ {0} /\ MaxRecords \in Nat
    BY SyslogAssumption DEF Init
<1>2. 1 \in Paths /\ NoRun = 0
    BY <1>1 DEF Paths, NoRun
<1> QED BY <1>1, <1>2 DEF Init, SinkInv, SinkTypeOK, WriteInv, OneSlot

(* What a call of deliver may leave behind when it returns.                 *)
LEMMA Outcome ==
    ASSUME SinkInv
    PROVE  /\ Record \in Nat
           /\ Slot!AfterSuccess(slot) \in OneSlot /\ Slot!AfterFailure(slot) \in OneSlot
           /\ step # "idle" => Record \in 1..MaxRecords /\ log[Record] \in Records
<1>1. Len(log) \in Nat /\ log \in Seq(Records) /\ Len(log) <= MaxRecords /\ MaxRecords \in Nat
    BY SyslogAssumption DEF SinkInv, SinkTypeOK
<1>2. slot \in OneSlot /\ MaxErrors \in Nat
    BY SyslogAssumption DEF SinkInv, SinkTypeOK
<1>3. Slot!AfterSuccess(slot) \in OneSlot /\ Slot!AfterFailure(slot) \in OneSlot
    BY <1>2 DEF OneSlot, Slot!AfterSuccess, Slot!AfterFailure
<1>4. step # "idle" => Len(log) \in 1..MaxRecords
    BY <1>1 DEF SinkInv, WriteInv
<1> QED BY <1>1, <1>3, <1>4 DEF Record

LEMMA SinkInductive ==
    ASSUME SinkInv, [Next]_vars
    PROVE  SinkInv'
<1>0. SinkTypeOK /\ WriteInv
    BY DEF SinkInv
<1>1. /\ 1 \in Paths /\ \A p \in Paths : p < NumPaths => p + 1 \in Paths
    BY SyslogAssumption DEF Paths
<1> USE <1>0 DEF SinkTypeOK, WriteInv, NoRun, remote, daemons, call, outcome
<1>2. ASSUME Succeed, step # "idle", UNCHANGED <<remote, listening, runs, socket, log>>,
             sent' = Append(sent, [record |-> Record, packet |-> BuildPacket(HeaderLen, log[Record])])
      PROVE  SinkInv'
    <2>1. accepted' = Append(accepted, Record) /\ Record \in Nat
        BY <1>2, Outcome DEF Succeed
    <2>2. accepted' \in Seq(Nat)
        BY <2>1
    <2>3. sent' \in Seq(Datagram)
        <3> DEFINE d == [record |-> Record, packet |-> BuildPacket(HeaderLen, log[Record])]
        <3>1. d \in Datagram
            BY <1>2, Outcome DEF Datagram, Packets, HeaderLen, SinkInv, SinkTypeOK
        <3> HIDE DEF d
        <3>2. sent' = Append(sent, d)
            BY <1>2 DEF d
        <3> QED BY <3>1, <3>2
    <2> QED BY <1>2, <2>2, <2>3, Outcome DEF Succeed, SinkInv
<1>3. ASSUME Fail, UNCHANGED <<remote, listening, runs, log, sent>>, socket' \in Nat
      PROVE  SinkInv'
    <2>1. failed' = Append(failed, Record) /\ Record \in Nat
        BY <1>3, Outcome DEF Fail
    <2>2. failed' \in Seq(Nat)
        BY <2>1
    <2> QED BY <1>3, <2>2, Outcome DEF Fail, SinkInv
<1>4. ASSUME AfterSendError, step = "send", transport = "unix",
             UNCHANGED <<remote, daemons, socket, log, sent>>
      PROVE  SinkInv'
    <2>1. CASE Fail
        BY <1>3, <1>4, <2>1
    <2>2. CASE ~Fail
        BY <1>1, <1>4, <2>2 DEF AfterSendError, BeginReconnect, SinkInv
    <2> QED BY <2>1, <2>2
<1>5. ASSUME NEW r \in Records, WriteEntry(r) PROVE SinkInv'
    <2>1. log' = Append(log, r) /\ Len(log) < MaxRecords /\ MaxRecords \in Nat
        BY <1>5, SyslogAssumption DEF WriteEntry
    <2>2. log' \in Seq(Records) /\ Len(log') > 0 /\ Len(log') <= MaxRecords
        BY <2>1
    <2> QED BY <1>1, <1>5, <2>2 DEF WriteEntry, BeginReconnect, SinkInv
<1>6. ASSUME NEW r \in Records, Divert(r) PROVE SinkInv'
    <2>1. /\ log' = Append(log, r) /\ Len(log) < MaxRecords /\ MaxRecords \in Nat
          /\ diverted' = Append(diverted, Len(log'))
        BY <1>6, SyslogAssumption DEF Divert
    <2>2. log' \in Seq(Records) /\ Len(log') \in Nat /\ Len(log') <= MaxRecords
        BY <2>1
    <2>3. diverted' \in Seq(Nat)
        BY <2>1, <2>2
    <2> QED BY <1>6, <2>2, <2>3 DEF Divert, SinkInv
<1>7. CASE Connect
    BY <1>7 DEF Connect, SinkInv
<1>8. CASE Unreachable
    <2>1. CASE Fail
        BY <1>3, <1>8, <2>1 DEF Unreachable, NextPath
    <2>2. CASE ~Fail
        BY <1>1, <1>8, <2>2 DEF Unreachable, NextPath, SinkInv
    <2> QED BY <2>1, <2>2
<1>9. CASE Send
    BY <1>2, <1>9 DEF Send
<1>10. CASE SendError \/ SendRefused
    BY <1>4, <1>10 DEF SendError, SendRefused
<1>11. CASE RemoteSend
    <2>1. transport' = transport
        BY <1>11 DEF RemoteSend
    <2>2. accepted' = Append(accepted, Record) /\ Record \in Nat
        BY <1>11, Outcome DEF RemoteSend, Succeed
    <2>3. accepted' \in Seq(Nat)
        BY <2>2
    <2>4. sent' \in Seq(Datagram)
        <3> DEFINE d == [record |-> Record, packet |-> BuildPacket(HeaderLen, log[Record])]
        <3>1. d \in Datagram
            BY <1>11, Outcome DEF Datagram, Packets, HeaderLen, SinkInv, SinkTypeOK, RemoteSend
        <3> HIDE DEF d
        <3>2. sent' = Append(sent, d)
            BY <1>11 DEF d, RemoteSend
        <3> QED BY <3>1, <3>2
    <2> QED BY <1>11, <2>1, <2>3, <2>4, Outcome DEF RemoteSend, Succeed, SinkInv
<1>12. CASE RemoteSendError
    <2>1. failed' = Append(failed, Record) /\ Record \in Nat
        BY <1>12, Outcome DEF RemoteSendError, Fail
    <2>2. failed' \in Seq(Nat)
        BY <2>1
    <2> QED BY <1>12, <2>2, Outcome DEF RemoteSendError, Fail, SinkInv
<1>13. CASE IcmpArrives
    BY <1>13 DEF IcmpArrives, SinkInv
<1>14. ASSUME NEW p \in Paths, StartDaemon(p) \/ StopDaemon(p) \/ ReadDatagram(p) PROVE SinkInv'
    <2>1. CASE StartDaemon(p)
        <3>1. runs' \in Nat /\ listening' = [listening EXCEPT ![p] = runs']
            BY <2>1 DEF StartDaemon
        <3>2. listening' \in [Paths -> Nat]
            BY <3>1
        <3> QED BY <2>1, <3>1, <3>2 DEF StartDaemon, SinkInv
    <2>2. CASE StopDaemon(p)
        <3>1. listening' \in [Paths -> Nat]
            BY <2>2 DEF StopDaemon
        <3> QED BY <2>2, <3>1 DEF StopDaemon, SinkInv
    <2>3. CASE ReadDatagram(p)
        BY <2>3 DEF ReadDatagram, SinkInv
    <2> QED BY <1>14, <2>1, <2>2, <2>3
<1>15. CASE UNCHANGED vars
    BY <1>15 DEF vars, SinkInv
<1>16. CASE Exhausted
    BY <1>15, <1>16 DEF Exhausted
<1> QED
    BY <1>5, <1>6, <1>7, <1>8, <1>9, <1>10, <1>11, <1>12, <1>13, <1>14, <1>15, <1>16
    DEF Next, Deliver

LEMMA SinkInvariant == Spec => []SinkInv
<1>1. Init => SinkInv
    BY SinkInitially
<1>2. SinkInv /\ [Next]_vars => SinkInv'
    BY SinkInductive
<1> QED BY <1>1, <1>2, PTL DEF Spec

------------------------------------------------------------------------------
(* Datagrams and answers.                                                   *)

SentFor(d, a) == [i \in DOMAIN d |-> d[i].record] = a

LEMMA SequenceIsFunction ==
    ASSUME NEW s \in Seq(Nat) PROVE s = [i \in DOMAIN s |-> s[i]]
OBVIOUS

(* A datagram and an answer for the same record keep the two in step.       *)
LEMMA SentTogether ==
    ASSUME NEW d \in Seq(Datagram), NEW a \in Seq(Nat), SentFor(d, a),
           NEW packet \in Packets, NEW n \in Nat
    PROVE  SentFor(Append(d, [record |-> n, packet |-> packet]), Append(a, n))
<1> DEFINE next == [record |-> n, packet |-> packet]
           more == Append(d, next)
<1>1. next \in Datagram /\ next.record = n
    BY DEF Datagram
<1> HIDE DEF next
<1>2. DOMAIN a = DOMAIN d /\ \A i \in DOMAIN d : a[i] = d[i].record
    BY DEF SentFor
<1>3. Len(a) = Len(d) /\ DOMAIN d = 1..Len(d) /\ Len(d) \in Nat
    BY <1>2
<1>4. /\ more \in Seq(Datagram) /\ DOMAIN more = 1..Len(d) + 1
      /\ Append(a, n) \in Seq(Nat) /\ DOMAIN Append(a, n) = 1..Len(d) + 1
    BY <1>1, <1>3
<1>5. ASSUME NEW i \in 1..Len(d) + 1 PROVE more[i].record = Append(a, n)[i]
    <2>1. CASE i = Len(d) + 1
        BY <1>1, <1>3, <2>1
    <2>2. CASE i # Len(d) + 1
        BY <1>1, <1>2, <1>3, <2>2
    <2> QED BY <2>1, <2>2
<1>6. Append(a, n) = [i \in 1..Len(d) + 1 |-> Append(a, n)[i]]
    BY <1>4, SequenceIsFunction
<1>7. [i \in DOMAIN more |-> more[i].record] = Append(a, n)
    BY <1>4, <1>5, <1>6
<1> QED BY <1>7 DEF SentFor, next

(* A write answers Ok exactly when the kernel has taken its datagram, once  *)
(* and in the order of the records, whatever the daemons do in between.     *)
THEOREM OkMeansSent == Spec => []OkMeansSentOnce
<1>1. OkMeansSentOnce <=> SentFor(sent, accepted)
    BY DEF OkMeansSentOnce, SentFor
<1>2. ASSUME Init PROVE SentFor(sent, accepted)
    <2>1. sent = <<>> /\ accepted = <<>>
        BY <1>2 DEF Init
    <2>2. DOMAIN sent = {} /\ DOMAIN accepted = {}
        BY <2>1
    <2>3. accepted = [i \in DOMAIN sent |-> sent[i].record]
        BY <2>1, <2>2
    <2> QED BY <2>3 DEF SentFor
<1>3. ASSUME SinkInv, SentFor(sent, accepted), [Next]_vars
      PROVE  SentFor(sent, accepted)'
    <2>1. ASSUME Succeed, step # "idle",
                 sent' = Append(sent, [record |-> Record, packet |-> BuildPacket(HeaderLen, log[Record])])
          PROVE  SentFor(sent, accepted)'
        <3>1. /\ accepted' = Append(accepted, Record)
              /\ Record \in Nat /\ BuildPacket(HeaderLen, log[Record]) \in Packets
            BY <1>3, <2>1, Outcome DEF Succeed, Packets, HeaderLen, SinkInv, SinkTypeOK
        <3>2. SentFor(sent', accepted')
            BY <1>3, <2>1, <3>1, SentTogether DEF SinkInv, SinkTypeOK
        <3> QED BY <3>2 DEF SentFor
    <2>2. ASSUME UNCHANGED <<accepted, sent>> PROVE SentFor(sent, accepted)'
        BY <1>3, <2>2 DEF SentFor
    <2>3. CASE Send \/ RemoteSend
        BY <2>1, <2>3 DEF Send, RemoteSend
    <2>4. CASE Unreachable
        BY <2>2, <2>4 DEF Unreachable, NextPath, Fail, outcome
    <2>5. CASE SendError \/ SendRefused
        BY <2>2, <2>5 DEF SendError, SendRefused, AfterSendError, Fail, outcome
    <2>6. CASE RemoteSendError
        BY <2>2, <2>6 DEF RemoteSendError, Fail
    <2>7. CASE Connect
        BY <2>2, <2>7 DEF Connect, outcome
    <2>8. CASE IcmpArrives
        BY <2>2, <2>8 DEF IcmpArrives, outcome
    <2>9. ASSUME NEW r \in Records, WriteEntry(r) \/ Divert(r)
          PROVE  SentFor(sent, accepted)'
        BY <2>2, <2>9 DEF WriteEntry, Divert, outcome
    <2>10. ASSUME NEW p \in Paths, StartDaemon(p) \/ StopDaemon(p) \/ ReadDatagram(p)
           PROVE  SentFor(sent, accepted)'
        BY <2>2, <2>10 DEF StartDaemon, StopDaemon, ReadDatagram, outcome
    <2>11. CASE Exhausted \/ UNCHANGED vars
        BY <2>2, <2>11 DEF Exhausted, vars, outcome
    <2> QED
        BY <1>3, <2>3, <2>4, <2>5, <2>6, <2>7, <2>8, <2>9, <2>10, <2>11 DEF Next, Deliver
<1> QED BY <1>1, <1>2, <1>3, SinkInvariant, PTL DEF Spec

------------------------------------------------------------------------------
(* Reconnecting.                                                            *)

(* The connection of a write that is still calm belongs to a daemon that    *)
(* runs, or one is ahead of reconnect.                                      *)
LEMMA CalmInductive ==
    ASSUME SinkInv, CalmInv, [Next]_vars
    PROVE  CalmInv'
<1>0. SinkTypeOK /\ WriteInv
    BY DEF SinkInv
<1>1. Paths = 1..NumPaths /\ NumPaths \in Nat
    BY SyslogAssumption DEF Paths
<1> USE <1>0 DEF SinkTypeOK, WriteInv, CalmInv, NoRun, remote, daemons, call, outcome
<1>2. ASSUME NEW r \in Records, WriteEntry(r) \/ Divert(r) PROVE CalmInv'
    <2>1. CASE Divert(r)
        BY <2>1 DEF Divert
    <2>2. CASE WriteEntry(r) /\ transport = "udp"
        BY <2>2 DEF WriteEntry, BeginReconnect
    <2>3. CASE WriteEntry(r) /\ transport = "unix" /\ ~calm'
        BY <2>3
    <2>4. CASE WriteEntry(r) /\ transport = "unix" /\ calm'
        <3>1. PICK p \in Paths : listening[p] # 0
            BY <2>4 DEF WriteEntry
        <3>2. listening' = listening /\ transport' = transport
            BY <2>4 DEF WriteEntry
        <3>3. step' = "connect" => path' = 1
            BY <2>4 DEF WriteEntry, BeginReconnect
        <3>4. step' = "send" => retried' = FALSE
            BY <2>4 DEF WriteEntry
        <3>5. p >= 1 /\ listening'[p] # 0
            BY <1>1, <3>1, <3>2
        <3> QED BY <2>4, <3>2, <3>3, <3>4, <3>5
    <2> QED BY <1>2, <2>1, <2>2, <2>3, <2>4
<1>3. CASE Connect
    BY <1>3 DEF Connect
<1>4. CASE Unreachable
    <2>1. CASE Fail
        BY <2>1 DEF Fail
    <2>2. CASE path < NumPaths /\ path' = path + 1 /\ listening[path] = 0 /\ calm' /\ calm
        <3>1. PICK p \in Paths : p >= path /\ listening[p] # 0
            BY <1>4, <2>2 DEF Unreachable
        <3>2. p >= path'
            BY <1>1, <2>2, <3>1
        <3>3. listening' = listening /\ transport' = transport /\ step' = "connect"
            BY <1>1, <1>4, <2>2 DEF Unreachable, NextPath
        <3> QED BY <1>4, <3>1, <3>2, <3>3 DEF Unreachable
    <2>3. CASE ~calm'
        BY <2>3
    <2> QED BY <1>4, <2>1, <2>2, <2>3 DEF Unreachable, NextPath
<1>5. CASE Send \/ RemoteSend
    BY <1>5 DEF Send, RemoteSend, Succeed
<1>6. CASE SendError \/ SendRefused
    <2>1. CASE ~calm' \/ Fail
        BY <2>1 DEF Fail
    <2>2. CASE SendError /\ ~Fail /\ calm'
        <3>1. /\ step = "send" /\ transport = "unix" /\ calm
              /\ listening' = listening /\ transport' = transport
              /\ step' = "connect" /\ path' = 1
            BY <2>2 DEF SendError, AfterSendError, BeginReconnect
        <3>2. PICK p \in Paths : listening[p] # 0
            BY <3>1
        <3>3. p >= path'
            BY <1>1, <3>1
        <3> QED BY <3>1, <3>2, <3>3
    <2> QED BY <1>6, <2>1, <2>2 DEF SendRefused
<1>7. CASE RemoteSendError \/ IcmpArrives
    BY <1>7 DEF RemoteSendError, IcmpArrives, Fail
<1>8. ASSUME NEW p \in Paths, StartDaemon(p) PROVE CalmInv'
    <2>1. runs' \in Nat \ {0} /\ \A q \in Paths : listening[q] # NoRun => listening'[q] = listening[q]
        BY <1>8 DEF StartDaemon
    <2> QED BY <1>8, <2>1 DEF StartDaemon
<1>9. ASSUME NEW p \in Paths, StopDaemon(p) \/ ReadDatagram(p) PROVE CalmInv'
    BY <1>9 DEF StopDaemon, ReadDatagram
<1>10. CASE Exhausted \/ UNCHANGED vars
    BY <1>10 DEF Exhausted, vars
<1> QED
    BY <1>2, <1>3, <1>4, <1>5, <1>6, <1>7, <1>8, <1>9, <1>10 DEF Next, Deliver

(* A write fails only when no path had a daemon as it began, or one stopped *)
(* or the kernel refused a call while it ran: a restart between two writes  *)
(* costs the reconnect, and no record.                                      *)
THEOREM RestartIsHarmless == Spec => RestartLosesNothing
<1>1. Init => CalmInv
    BY DEF Init, CalmInv
<1>2. SinkInv /\ CalmInv /\ [Next]_vars => CalmInv'
    BY CalmInductive
<1>3. ASSUME SinkInv, CalmInv, [Next]_vars PROVE failed' # failed => ~calm'
    <2>0. SinkTypeOK /\ WriteInv /\ Paths = 1..NumPaths /\ NumPaths \in Nat
        BY <1>3, SyslogAssumption DEF SinkInv, Paths
    <2> USE <1>3, <2>0 DEF SinkTypeOK, WriteInv, CalmInv, NoRun, outcome
    <2>1. CASE Unreachable
        BY <2>1 DEF Unreachable, NextPath
    <2>2. CASE SendError \/ SendRefused
        BY <2>2 DEF SendError, SendRefused, AfterSendError
    <2>3. CASE RemoteSendError
        BY <2>3 DEF RemoteSendError
    <2>4. CASE Connect \/ Send \/ RemoteSend \/ IcmpArrives
        BY <2>4 DEF Connect, Send, RemoteSend, IcmpArrives, Succeed
    <2>5. ASSUME NEW r \in Records, WriteEntry(r) \/ Divert(r)
          PROVE  failed' # failed => ~calm'
        BY <2>5 DEF WriteEntry, Divert
    <2>6. ASSUME NEW p \in Paths, StartDaemon(p) \/ StopDaemon(p) \/ ReadDatagram(p)
          PROVE  failed' # failed => ~calm'
        BY <2>6 DEF StartDaemon, StopDaemon, ReadDatagram
    <2>7. CASE Exhausted \/ UNCHANGED vars
        BY <2>7 DEF Exhausted, vars
    <2> QED BY <2>1, <2>2, <2>3, <2>4, <2>5, <2>6, <2>7 DEF Next, Deliver
<1>4. SinkInv /\ CalmInv /\ [Next]_vars => [failed' # failed => ~calm']_vars
    BY <1>3
<1> QED BY <1>1, <1>2, <1>4, SinkInvariant, PTL DEF Spec, RestartLosesNothing

------------------------------------------------------------------------------
(* The slot.                                                                *)

LEMMA OneSlotOnly ==
    /\ Slot!Slots = {1}
    /\ Slot!Eligible(0) = {1}
    /\ Slot!Direct(0) = IF slot.degraded THEN {} ELSE {1}
    /\ \A x, T, i : Slot!Extend(<<x>>, T, i) = <<IF 1 \in T THEN Append(x, i) ELSE x>>
<1>1. Slot!Slots = {1}
    BY DEF Slot!Slots
<1>2. Slot!Accepts(1, 0)
    BY DEF Slot!Accepts
<1>3. Slot!Eligible(0) = {1}
    BY <1>1, <1>2 DEF Slot!Eligible
<1>4. Slot!Direct(0) = IF slot.degraded THEN {} ELSE {1}
    BY <1>3 DEF Slot!Direct
<1>5. ASSUME NEW x, NEW T, NEW i
      PROVE  Slot!Extend(<<x>>, T, i) = <<IF 1 \in T THEN Append(x, i) ELSE x>>
    BY <1>1 DEF Slot!Extend
<1> QED BY <1>1, <1>3, <1>4, <1>5

(* One record on which deliver returned, or that found the slot degraded.   *)
LEMMA OneWrite ==
    ASSUME NEW i \in Nat,
           \/ /\ ~slot.degraded /\ slot' = Slot!AfterSuccess(slot)
              /\ accepted' = Append(accepted, i) /\ UNCHANGED <<failed, diverted>>
           \/ /\ ~slot.degraded /\ slot' = Slot!AfterFailure(slot)
              /\ failed' = Append(failed, i) /\ UNCHANGED <<accepted, diverted>>
           \/ /\ slot.degraded /\ UNCHANGED <<slot, accepted, failed>>
              /\ diverted' = Append(diverted, i)
    PROVE  Slot!WriteRecord(i, 0)
<1>1. /\ Slot!Slots = {1} /\ Slot!Eligible(0) = {1}
      /\ Slot!Direct(0) = IF slot.degraded THEN {} ELSE {1}
      /\ \A x, T, j : Slot!Extend(<<x>>, T, j) = <<IF 1 \in T THEN Append(x, j) ELSE x>>
    BY OneSlotOnly
<1>2. ASSUME NEW failing \in SUBSET (Slot!Direct(0) \cap {1}),
             NEW ok, ok = Slot!Direct(0) \ failing,
             slot' = (IF 1 \in failing THEN Slot!AfterFailure(slot)
                      ELSE IF 1 \in ok THEN Slot!AfterSuccess(slot) ELSE slot),
             accepted' = (IF 1 \in ok THEN Append(accepted, i) ELSE accepted),
             failed' = (IF 1 \in failing THEN Append(failed, i) ELSE failed),
             diverted' = (IF slot.degraded THEN Append(diverted, i) ELSE diverted)
      PROVE  Slot!WriteRecord(i, 0)
    <2>1. <<slot'>> = [s \in {1} |-> IF s \in failing THEN Slot!AfterFailure(<<slot>>[s])
                                    ELSE IF s \in ok THEN Slot!AfterSuccess(<<slot>>[s])
                                    ELSE <<slot>>[s]]
        <3> DEFINE F(x) == Slot!AfterFailure(x)
                   A(x) == Slot!AfterSuccess(x)
        <3> HIDE DEF F, A
        <3>1. <<slot'>> = [s \in {1} |-> IF s \in failing THEN F(<<slot>>[s])
                                        ELSE IF s \in ok THEN A(<<slot>>[s])
                                        ELSE <<slot>>[s]]
            <4>1. slot' = IF 1 \in failing THEN F(slot) ELSE IF 1 \in ok THEN A(slot) ELSE slot
                BY <1>2 DEF F, A
            <4> QED BY <4>1
        <3> QED BY <3>1 DEF F, A
    <2>2. <<accepted'>> = Slot!Extend(<<accepted>>, ok, i)
        BY <1>1, <1>2
    <2>3. <<failed'>> = Slot!Extend(<<failed>>, failing, i)
        BY <1>1, <1>2
    <2>4. <<diverted'>> = Slot!Extend(<<diverted>>, Slot!Eligible(0) \ Slot!Direct(0), i)
        BY <1>1, <1>2
    <2>5. <<slot'>> = [s \in Slot!Slots |->
                          IF s \in failing THEN Slot!AfterFailure(<<slot>>[s])
                          ELSE IF s \in Slot!Direct(0) \ failing
                               THEN Slot!AfterSuccess(<<slot>>[s])
                          ELSE <<slot>>[s]]
        BY Zenon, <1>1, <1>2, <2>1
    <2>6. <<accepted'>> = Slot!Extend(<<accepted>>, Slot!Direct(0) \ failing, i)
        BY <1>2, <2>2
    <2> QED BY Zenon, <1>2, <2>3, <2>4, <2>5, <2>6 DEF Slot!WriteRecord
<1>3. CASE ~slot.degraded /\ slot' = Slot!AfterSuccess(slot)
           /\ accepted' = Append(accepted, i) /\ UNCHANGED <<failed, diverted>>
    <2>1. {} \in SUBSET (Slot!Direct(0) \cap {1}) /\ Slot!Direct(0) \ {} = {1}
        BY <1>1, <1>3
    <2> QED BY <1>2, <1>3, <2>1
<1>4. CASE ~slot.degraded /\ slot' = Slot!AfterFailure(slot)
           /\ failed' = Append(failed, i) /\ UNCHANGED <<accepted, diverted>>
    <2>1. {1} \in SUBSET (Slot!Direct(0) \cap {1}) /\ Slot!Direct(0) \ {1} = {}
        BY <1>1, <1>4
    <2> QED BY <1>2, <1>4, <2>1
<1>5. CASE slot.degraded /\ UNCHANGED <<slot, accepted, failed>>
           /\ diverted' = Append(diverted, i)
    <2>1. {} \in SUBSET (Slot!Direct(0) \cap {1}) /\ Slot!Direct(0) \ {} = {}
        BY <1>1, <1>5
    <2> QED BY <1>2, <1>5, <2>1
<1> QED BY <1>3, <1>4, <1>5

(* To the writer thread the sink is a slot of the fan-out: however many     *)
(* system calls a write takes, each record has one outcome, and a failed    *)
(* write counts once.                                                       *)
THEOREM SinkImplementsSlot == Spec => ImplementsSlot
<1>1. ASSUME Init PROVE Slot!SlotsInit
    <2>1. \A x : <<x>> = [s \in {1} |-> x]
        OBVIOUS
    <2>2. Slot!Slots = {1}
        BY OneSlotOnly
    <2> QED BY <1>1, <2>1, <2>2 DEF Init, Slot!SlotsInit
<1>2. ASSUME SinkInv, [Next]_vars
      PROVE  \/ \E i \in 1..MaxRecords : Slot!WriteRecord(i, 0)
             \/ UNCHANGED Slot!slotVars
    <2>0. SinkTypeOK /\ WriteInv
        BY <1>2 DEF SinkInv
    <2>1. ASSUME UNCHANGED outcome PROVE UNCHANGED Slot!slotVars
        BY <2>1 DEF outcome, Slot!slotVars
    <2>2. ASSUME Succeed \/ Fail, step # "idle"
          PROVE  \E i \in 1..MaxRecords : Slot!WriteRecord(i, 0)
        <3>1. Record \in 1..MaxRecords /\ Record \in Nat /\ ~slot.degraded
            BY <1>2, <2>0, <2>2, Outcome DEF WriteInv
        <3>2. Slot!WriteRecord(Record, 0)
            BY <2>2, <3>1, OneWrite DEF Succeed, Fail
        <3> QED BY <3>1, <3>2
    <2>3. ASSUME NEW r \in Records, Divert(r)
          PROVE  \E i \in 1..MaxRecords : Slot!WriteRecord(i, 0)
        <3>1. /\ log' = Append(log, r) /\ log \in Seq(Records)
              /\ Len(log) < MaxRecords /\ MaxRecords \in Nat
            BY <2>0, <2>3, SyslogAssumption DEF Divert, SinkTypeOK
        <3>2. Len(log') \in 1..MaxRecords /\ Len(log') \in Nat
            BY <3>1
        <3>3. Slot!WriteRecord(Len(log'), 0)
            BY <2>3, <3>2, OneWrite DEF Divert
        <3> QED BY <3>2, <3>3
    <2>4. CASE Send \/ RemoteSend \/ RemoteSendError
        BY <2>2, <2>4 DEF Send, RemoteSend, RemoteSendError
    <2>5. CASE Unreachable
        BY <2>1, <2>2, <2>5 DEF Unreachable, NextPath
    <2>6. CASE SendError \/ SendRefused
        BY <2>1, <2>2, <2>6 DEF SendError, SendRefused, AfterSendError
    <2>7. CASE Connect \/ IcmpArrives
        BY <2>1, <2>7 DEF Connect, IcmpArrives
    <2>8. ASSUME NEW r \in Records, WriteEntry(r) PROVE UNCHANGED Slot!slotVars
        BY <2>1, <2>8 DEF WriteEntry
    <2>9. ASSUME NEW p \in Paths, StartDaemon(p) \/ StopDaemon(p) \/ ReadDatagram(p)
          PROVE  UNCHANGED Slot!slotVars
        BY <2>1, <2>9 DEF StartDaemon, StopDaemon, ReadDatagram
    <2>10. CASE Exhausted \/ UNCHANGED vars
        BY <2>1, <2>10 DEF Exhausted, vars
    <2> QED
        BY <1>2, <2>3, <2>4, <2>5, <2>6, <2>7, <2>8, <2>9, <2>10 DEF Next, Deliver
<1>3. SinkInv /\ [Next]_vars =>
          [\E i \in 1..MaxRecords : Slot!WriteRecord(i, 0)]_Slot!slotVars
    BY <1>2
<1> QED BY <1>1, <1>3, SinkInvariant, PTL DEF Spec, ImplementsSlot

------------------------------------------------------------------------------
(* What a datagram says.                                                    *)

Strings == Seq(Char)

LEMMA BytesIs == \A c \in Char : Bytes(c) \in 1..3
BY DEF Char, Bytes

(* The fold of Size.                                                        *)
SizeAll(it, text) ==
    it = [s \in SUBSET (1..Len(text)) |->
             IF s = {} THEN 0 ELSE it[s \ {Max(s)}] + Bytes(text[Max(s)])]

LEMMA SizeSteps ==
    ASSUME NEW text \in Strings
    PROVE  \E m : /\ m[0] = 0
                  /\ \A k \in 1..Len(text) : m[k] = m[k - 1] + Bytes(text[k])
                  /\ \A k \in 0..Len(text) : m[k] \in Nat
                  /\ Size(text) = m[Len(text)]
<1> DEFINE n == Len(text)
           chosen == CHOOSE it : SizeAll(it, text)
           op == [x \in Nat \X Char |-> x[1] + Bytes(x[2])]
<1>1. n \in Nat /\ DOMAIN text = 1..n /\ \A i \in 1..n : text[i] \in Char
    BY DEF Strings
<1>2. Size(text) = chosen[1..n]
    BY <1>1 DEF Size, FoldLeft, MapThenFoldSet, SizeAll
<1>3. op \in [Nat \X Char -> Nat]
    BY BytesIs
<1>4. \A v \in Nat, e \in Char : op[<<v, e>>] = v + Bytes(e)
    OBVIOUS
<1> HIDE DEF op
<1>5. PICK it \in [SUBSET (1..n) -> Nat] : FoldOf(it, op, 0, text, n)
    BY <1>3, FoldExists DEF Strings
<1>6. SizeAll(it, text)
    <2>1. ASSUME NEW s \in SUBSET (1..n), s # {}
          PROVE  op[<<it[s \ {Max(s)}], text[Max(s)]>>]
                   = it[s \ {Max(s)}] + Bytes(text[Max(s)])
        <3>1. Max(s) \in 1..n
            <4>1. s \subseteq 0..n
                BY <1>1
            <4> QED BY <1>1, <2>1, <4>1, MaxOfBounded
        <3>2. it[s \ {Max(s)}] \in Nat /\ text[Max(s)] \in Char
            BY <1>1, <1>5, <3>1
        <3> QED BY <1>4, <3>2
    <2> QED BY <1>1, <1>5, <2>1 DEF FoldOf, SizeAll
<1>7. SizeAll(chosen, text)
    BY <1>6
<1> HIDE DEF chosen
<1>8. \A s \in SUBSET (1..n) : chosen[s] =
          IF s = {} THEN 0 ELSE chosen[s \ {Max(s)}] + Bytes(text[Max(s)])
    BY <1>1, <1>7 DEF SizeAll
<1> DEFINE m == [k \in 0..n |-> chosen[1..k]]
<1>9. m[0] = 0
    <2>1. 0 \in 0..n /\ 1..0 = {} /\ {} \in SUBSET (1..n)
        BY <1>1
    <2>2. m[0] = chosen[{}]
        BY <2>1
    <2> QED BY <1>8, <2>1, <2>2
<1>10. \A k \in 1..n : m[k] = m[k - 1] + Bytes(text[k])
    <2> SUFFICES ASSUME NEW k \in 1..n PROVE m[k] = m[k - 1] + Bytes(text[k])
        OBVIOUS
    <2>1. 1..k # {} /\ Max(1..k) = k /\ 1..k \ {k} = 1..k - 1 /\ 1..k \in SUBSET (1..n)
        BY <1>1, UpTo
    <2>2. chosen[1..k] = chosen[1..k - 1] + Bytes(text[k])
        BY <1>8, <2>1
    <2> QED BY <1>1, <2>2
<1>11. m[n] = chosen[1..n]
    BY <1>1
<1> HIDE DEF m
<1> DEFINE P == {k \in Nat : m[k] \in Nat}
<1>12. 0 \in P
    BY <1>9
<1>13. ASSUME NEW k \in 1..n, k - 1 \in P PROVE k \in P
    BY <1>1, <1>10, <1>13, BytesIs
<1> HIDE DEF P
<1>14. \A k \in 0..n : k \in P
    BY <1>1, <1>12, <1>13, UpToInduction
<1>15. \A k \in 0..n : m[k] \in Nat
    BY <1>14 DEF P
<1> QED BY <1>2, <1>9, <1>10, <1>11, <1>15

(* A character more adds its bytes.                                         *)
LEMMA SizeAppend ==
    ASSUME NEW text \in Strings, NEW c \in Char
    PROVE  /\ Size(<<>>) = 0
           /\ Size(text) \in Nat
           /\ Size(Append(text, c)) = Size(text) + Bytes(c)
<1> DEFINE n == Len(text)
           more == Append(text, c)
<1>1. /\ n \in Nat /\ more \in Strings /\ Len(more) = n + 1 /\ more[n + 1] = c
      /\ \A i \in 1..n : more[i] = text[i]
    BY DEF Strings
<1> HIDE DEF more
<1>2. PICK m : /\ m[0] = 0
               /\ \A k \in 1..n : m[k] = m[k - 1] + Bytes(text[k])
               /\ \A k \in 0..n : m[k] \in Nat
               /\ Size(text) = m[n]
    BY SizeSteps
<1>3. PICK u : /\ u[0] = 0
               /\ \A k \in 1..n + 1 : u[k] = u[k - 1] + Bytes(more[k])
               /\ Size(more) = u[n + 1]
    BY <1>1, SizeSteps
<1> DEFINE P == {k \in Nat : u[k] = m[k]}
<1>4. 0 \in P
    BY <1>2, <1>3
<1>5. ASSUME NEW k \in 1..n, k - 1 \in P PROVE k \in P
    <2>1. k \in 1..n + 1 /\ k - 1 \in Nat /\ k \in Nat
        BY <1>1
    <2>2. u[k] = u[k - 1] + Bytes(more[k]) /\ m[k] = m[k - 1] + Bytes(text[k])
        BY <1>2, <1>3, <2>1
    <2> QED BY <1>1, <1>5, <2>1, <2>2
<1> HIDE DEF P
<1>6. \A k \in 0..n : k \in P
    BY <1>1, <1>4, <1>5, UpToInduction
<1>7. u[n] = m[n]
    BY <1>1, <1>6 DEF P
<1>8. Size(more) = u[n] + Bytes(c)
    <2>1. n + 1 \in 1..n + 1 /\ (n + 1) - 1 = n
        BY <1>1
    <2> QED BY <1>1, <1>3, <2>1
<1>9. Size(<<>>) = 0
    <2>1. <<>> \in Strings
        BY EmptySeq DEF Strings
    <2>2. Len(<<>>) = 0
        BY EmptySeq
    <2> QED BY <2>1, <2>2, SizeSteps
<1> QED BY <1>1, <1>2, <1>7, <1>8, <1>9 DEF more

LEMMA PrefixTyped ==
    ASSUME NEW text \in Strings, NEW k \in 0..Len(text)
    PROVE  /\ Len(text) \in Nat
           /\ SubSeq(text, 1, k) \in Strings
           /\ SubSeq(text, 1, 0) = <<>>
           /\ SubSeq(text, 1, Len(text)) = text
           /\ k # Len(text) => SubSeq(text, 1, k) # text
           /\ k < Len(text) =>
                 /\ text[k + 1] \in Char
                 /\ SubSeq(text, 1, k + 1) = Append(SubSeq(text, 1, k), text[k + 1])
<1>1. Len(text) \in Nat /\ SubSeq(text, 1, k) \in Strings /\ Len(SubSeq(text, 1, k)) = k
    BY DEF Strings
<1>2. SubSeq(text, 1, 0) = <<>> /\ SubSeq(text, 1, Len(text)) = text
    BY DEF Strings
<1>3. ASSUME k < Len(text)
      PROVE  /\ text[k + 1] \in Char
             /\ SubSeq(text, 1, k + 1) = Append(SubSeq(text, 1, k), text[k + 1])
    BY <1>1, <1>3 DEF Strings
<1> QED BY <1>1, <1>2, <1>3, Zenon

(* The sizes of the two-element sets of DatagramCarriesRecord.              *)
LEMMA LargerOfTwo ==
    ASSUME NEW a \in Nat, NEW b \in Nat
    PROVE  Max({a, b}) \in Nat /\ a <= Max({a, b}) /\ b <= Max({a, b})
<1> DEFINE S == {a, b}
           m == Max(S)
<1>1. S \subseteq Int /\ a \in S /\ b \in S
    OBVIOUS
<1>2. a <= b => \A y \in S : y <= b
    OBVIOUS
<1>3. b < a => \A y \in S : y <= a
    OBVIOUS
<1> HIDE DEF S
<1>4. a <= b => m = b
    BY <1>1, <1>2, MaxIs
<1>5. b < a => m = a
    BY <1>1, <1>3, MaxIs
<1> HIDE DEF m
<1>6. m \in Nat /\ a <= m /\ b <= m
    BY <1>4, <1>5
<1> QED BY <1>6 DEF m, S

(* The lossy decoding of the first n bytes: the longest prefix of whole     *)
(* characters, and a replacement where a character was cut.                 *)
LEMMA LossyPrefix ==
    ASSUME NEW text \in Strings, NEW n \in Nat
    PROVE  \E k \in 0..Len(text) :
              LET kept == SubSeq(text, 1, k)
              IN  /\ Size(kept) \in Nat /\ Size(kept) <= n
                  /\ k < Len(text) => Size(kept) + Bytes(text[k + 1]) > n
                  /\ Size(text) <= n => k = Len(text)
                  /\ FromUtf8Lossy(text, n)
                        = IF k < Len(text) /\ Size(kept) < n
                             THEN Append(kept, "replacement") ELSE kept
<1> DEFINE fits == {k \in 0..Len(text) : Size(SubSeq(text, 1, k)) <= n}
           most == Max(fits)
           kept == SubSeq(text, 1, most)
<1>1. Len(text) \in Nat /\ <<>> \in Strings
    BY DEF Strings
<1>2. 0 \in fits
    <2>1. 0 \in 0..Len(text) /\ SubSeq(text, 1, 0) = <<>>
        BY <1>1, PrefixTyped
    <2>2. Size(<<>>) = 0
        BY <1>1, SizeAppend DEF Char
    <2> DEFINE first == SubSeq(text, 1, 0)
    <2>3. Size(first) = 0
        BY <2>1, <2>2
    <2> HIDE DEF first
    <2>4. Size(first) <= n
        BY <2>3
    <2> QED BY <2>1, <2>4 DEF first
<1>3. fits \subseteq 0..Len(text)
    OBVIOUS
<1>4. \A k \in 0..Len(text) : k \in fits <=> Size(SubSeq(text, 1, k)) <= n
    OBVIOUS
<1>5. FromUtf8Lossy(text, n) = IF kept # text /\ Size(kept) < n
                                  THEN Append(kept, "replacement") ELSE kept
    BY DEF FromUtf8Lossy
<1> HIDE DEF fits
<1>6. most \in fits /\ \A y \in fits : y <= most
    BY <1>1, <1>2, <1>3, MaxOfBounded
<1> HIDE DEF most
<1>7. most \in 0..Len(text) /\ Size(kept) <= n
    BY <1>3, <1>4, <1>6
<1>8. /\ kept \in Strings
      /\ kept # text <=> most < Len(text)
      /\ most < Len(text) =>
            /\ text[most + 1] \in Char
            /\ SubSeq(text, 1, most + 1) = Append(kept, text[most + 1])
    BY <1>1, <1>7, PrefixTyped
<1>9. Size(kept) \in Nat
    BY <1>8, SizeAppend DEF Char
<1>10. ASSUME most < Len(text) PROVE Size(kept) + Bytes(text[most + 1]) > n
    <2>1. most + 1 \in 0..Len(text) /\ ~(most + 1 <= most)
        BY <1>1, <1>7, <1>10
    <2>2. ~(Size(SubSeq(text, 1, most + 1)) <= n)
        BY <1>4, <1>6, <2>1
    <2>3. Size(Append(kept, text[most + 1])) = Size(kept) + Bytes(text[most + 1])
        BY <1>8, <1>10, SizeAppend
    <2>4. Size(SubSeq(text, 1, most + 1)) = Size(kept) + Bytes(text[most + 1])
        BY <1>8, <1>10, <2>3
    <2>5. Bytes(text[most + 1]) \in Nat
        <3>1. text[most + 1] \in Char
            BY <1>8, <1>10
        <3>2. Bytes(text[most + 1]) \in 1..3
            BY <3>1, BytesIs
        <3> QED BY <3>2
    <2> QED BY <1>9, <2>2, <2>4, <2>5
<1>11. ASSUME Size(text) <= n PROVE most = Len(text)
    <2>1. Len(text) \in 0..Len(text) /\ SubSeq(text, 1, Len(text)) = text
        BY <1>1, PrefixTyped
    <2>2. Len(text) \in fits
        BY <1>4, <1>11, <2>1
    <2> QED BY <1>1, <1>6, <1>7, <2>2
<1>12. FromUtf8Lossy(text, n) = IF most < Len(text) /\ Size(kept) < n
                                   THEN Append(kept, "replacement") ELSE kept
    BY <1>5, <1>8
<1> HIDE DEF kept
<1>13. /\ Size(kept) \in Nat /\ Size(kept) <= n
       /\ most < Len(text) => Size(kept) + Bytes(text[most + 1]) > n
       /\ Size(text) <= n => most = Len(text)
       /\ FromUtf8Lossy(text, n) = IF most < Len(text) /\ Size(kept) < n
                                      THEN Append(kept, "replacement") ELSE kept
    BY <1>7, <1>9, <1>10, <1>11, <1>12
<1> QED BY <1>7, <1>13 DEF kept

LEMMA MessageTyped ==
    ASSUME NEW r \in Records
    PROVE  StripNewline(r.text) \in Strings
<1>1. r.text \in Seq(Char \ {"replacement"})
    BY SyslogAssumption
<1>2. r.text \in Strings
    BY <1>1 DEF Strings
<1> HIDE DEF Strings
<1>3. CASE r.text # <<>>
    <2> DEFINE text == r.text
    <2>1. Len(text) \in Nat /\ Len(text) - 1 \in 0..Len(text)
        BY <1>2, <1>3 DEF Strings
    <2>2. SubSeq(text, 1, Len(text) - 1) \in Strings
        BY <1>2, <2>1, PrefixTyped
    <2> QED BY <1>2, <2>2 DEF StripNewline, Front
<1> QED BY <1>2, <1>3 DEF StripNewline

LEMMA PriorityDecodes ==
    ASSUME NEW r \in Records
    PROVE  /\ (Facility * 8 + Severity(r.level)) \div 8 = Facility
           /\ (Facility * 8 + Severity(r.level)) % 8 = Severity(r.level)
<1>1. Facility \in Nat /\ r.level \in 0..4
    BY SyslogAssumption DEF Facilities
<1>2. Severity(r.level) \in 0..7
    BY <1>1 DEF Severity
<1> QED BY <1>1, <1>2

(* DatagramCarriesRecord of one record and its datagram.                    *)
Carries(packet, r) ==
    LET message == StripNewline(r.text)
    IN /\ packet.pri \div 8 = Facility
       /\ packet.pri % 8 = Severity(r.level)
       /\ HeaderLen + Size(message) <= MaxPacket => packet.body = message
       /\ \E n \in 0..Len(message) :
             LET kept == SubSeq(message, 1, n)
                 size == HeaderLen + Size(kept)
             IN  /\ size <= Max({HeaderLen, MaxPacket})
                 /\ n < Len(message) => size + Bytes(message[n + 1]) > MaxPacket
                 /\ \/ packet.body = kept
                    \/ /\ packet.body = Append(kept, "replacement")
                       /\ n < Len(message) /\ size < MaxPacket

LEMMA PacketCarries ==
    ASSUME transport \in {"unix", "udp"}, NEW r \in Records
    PROVE  Carries(BuildPacket(HeaderLen, r), r)
<1> DEFINE message == StripNewline(r.text)
           packet == BuildPacket(HeaderLen, r)
<1>1. HeaderLen \in Nat /\ MaxPacket \in Nat
    BY SyslogAssumption DEF HeaderLen
<1> DEFINE budget == Budget(HeaderLen)
<1>2. /\ budget \in Nat
      /\ \/ HeaderLen + budget = MaxPacket
         \/ budget = 0 /\ HeaderLen > MaxPacket
    BY <1>1 DEF Budget
<1>3. message \in Strings
    BY MessageTyped
<1>4. /\ packet.pri = Facility * 8 + Severity(r.level)
      /\ packet.body = FromUtf8Lossy(message, budget)
    BY DEF BuildPacket
<1>5. packet.pri \div 8 = Facility /\ packet.pri % 8 = Severity(r.level)
    BY <1>4, PriorityDecodes
<1> HIDE DEF message, packet, budget
<1>6. Len(message) \in Nat
    BY <1>3 DEF Strings
<1>7. PICK k \in 0..Len(message) :
         /\ Size(SubSeq(message, 1, k)) \in Nat
         /\ Size(SubSeq(message, 1, k)) <= budget
         /\ k < Len(message) => Size(SubSeq(message, 1, k)) + Bytes(message[k + 1]) > budget
         /\ Size(message) <= budget => k = Len(message)
         /\ FromUtf8Lossy(message, budget)
               = IF k < Len(message) /\ Size(SubSeq(message, 1, k)) < budget
                    THEN Append(SubSeq(message, 1, k), "replacement")
                    ELSE SubSeq(message, 1, k)
    BY <1>2, <1>3, LossyPrefix
<1> DEFINE kept == SubSeq(message, 1, k)
           cut == k < Len(message) /\ Size(kept) < budget
<1>8. kept \in Strings /\ (k = Len(message) => kept = message)
    BY <1>3, <1>7, PrefixTyped
<1>9. k < Len(message) => Bytes(message[k + 1]) \in 1..3
    <2>1. k < Len(message) => message[k + 1] \in Char
        BY <1>3, <1>7, PrefixTyped
    <2> QED BY <2>1, BytesIs
<1>10. packet.body = IF cut THEN Append(kept, "replacement") ELSE kept
    BY <1>4, <1>7
<1>13. ASSUME HeaderLen + Size(message) <= MaxPacket PROVE packet.body = message
    <2>1. Size(message) \in Nat
        BY <1>3, SizeAppend DEF Char
    <2>2. Size(message) <= budget
        BY <1>1, <1>2, <1>13, <2>1
    <2>3. k = Len(message) /\ ~(k < Len(message))
        BY <1>6, <1>7, <2>2
    <2> QED BY <1>8, <1>10, <2>3
<1> HIDE DEF kept
<1>14. Size(kept) \in Nat /\ Size(kept) <= budget
    BY <1>7 DEF kept
<1>15. k < Len(message) => Size(kept) + Bytes(message[k + 1]) > budget
    BY <1>7 DEF kept
<1> DEFINE size == HeaderLen + Size(kept)
<1>16. size <= Max({HeaderLen, MaxPacket})
    <2>1. size <= HeaderLen \/ size <= MaxPacket
        BY <1>1, <1>2, <1>14
    <2>2. size \in Nat
        BY <1>1, <1>14
    <2> QED BY <1>1, <2>1, <2>2, LargerOfTwo
<1>17. k < Len(message) => size + Bytes(message[k + 1]) > MaxPacket
    BY <1>1, <1>2, <1>9, <1>14, <1>15
<1>18. cut => size < MaxPacket
    BY <1>1, <1>2, <1>14
<1>19. \/ packet.body = kept
       \/ packet.body = Append(kept, "replacement") /\ k < Len(message) /\ size < MaxPacket
    BY <1>10, <1>18
<1> QED BY <1>5, <1>7, <1>13, <1>16, <1>17, <1>19 DEF Carries, message, packet, kept

(* The datagrams sent are those of the records they name.                   *)
SentInv ==
    \A i \in DOMAIN sent :
        /\ sent[i].record \in 1..Len(log)
        /\ sent[i].packet = BuildPacket(HeaderLen, log[sent[i].record])

LEMMA SentInductive ==
    ASSUME SinkInv, SentInv, [Next]_vars
    PROVE  SentInv'
<1>1. log \in Seq(Records) /\ Len(log) \in Nat /\ sent \in Seq(Datagram)
    BY DEF SinkInv, SinkTypeOK
<1>0. HeaderLen' = HeaderLen
    <2>1. transport' = transport
        BY DEF Next, Deliver, vars, remote, WriteEntry, Divert, Connect, Unreachable, Send,
               SendError, SendRefused, RemoteSend, RemoteSendError, IcmpArrives, StartDaemon,
               StopDaemon, ReadDatagram, Exhausted
    <2> QED BY <2>1 DEF HeaderLen
<1>2. ASSUME UNCHANGED <<log, sent>> PROVE SentInv'
    BY <1>0, <1>2 DEF SentInv
<1>3. ASSUME NEW r \in Records, log' = Append(log, r), UNCHANGED sent PROVE SentInv'
    <2>1. /\ Len(log') = Len(log) + 1
          /\ \A n \in 1..Len(log) : log'[n] = log[n]
        BY <1>1, <1>3
    <2>2. ASSUME NEW i \in DOMAIN sent
          PROVE  /\ sent[i].record \in 1..Len(log')
                 /\ sent[i].packet = BuildPacket(HeaderLen, log'[sent[i].record])
        <3>1. /\ sent[i].record \in 1..Len(log)
              /\ sent[i].packet = BuildPacket(HeaderLen, log[sent[i].record])
            BY DEF SentInv
        <3>2. log'[sent[i].record] = log[sent[i].record]
            BY <2>1, <3>1
        <3> QED BY <1>1, <2>1, <3>1, <3>2
    <2> QED BY <1>0, <1>3, <2>2 DEF SentInv
<1>4. ASSUME step # "idle", UNCHANGED log,
             sent' = Append(sent, [record |-> Record, packet |-> BuildPacket(HeaderLen, log[Record])])
      PROVE  SentInv'
    <2> DEFINE next == [record |-> Record, packet |-> BuildPacket(HeaderLen, log[Record])]
    <2>1. next.record = Record /\ next.packet = BuildPacket(HeaderLen, log[Record])
        OBVIOUS
    <2>2. Record = Len(log) /\ Record \in 1..Len(log)
        BY <1>1, <1>4 DEF Record, SinkInv, WriteInv
    <2>3. next \in Datagram
        BY <1>4, Outcome DEF Datagram, Packets, HeaderLen, SinkInv, SinkTypeOK
    <2>4. sent' = Append(sent, next)
        BY <1>4
    <2> HIDE DEF next
    <2>5. /\ DOMAIN sent' = 1..Len(sent) + 1 /\ DOMAIN sent = 1..Len(sent)
          /\ \A i \in DOMAIN sent : sent'[i] = sent[i]
          /\ sent'[Len(sent) + 1] = next
          /\ Len(sent) \in Nat
        BY <1>1, <2>3, <2>4
    <2>6. ASSUME NEW i \in DOMAIN sent'
          PROVE  /\ sent'[i].record \in 1..Len(log)
                 /\ sent'[i].packet = BuildPacket(HeaderLen, log[sent'[i].record])
        <3>1. CASE i = Len(sent) + 1
            BY <2>1, <2>2, <2>5, <3>1
        <3>2. CASE i # Len(sent) + 1
            <4>1. i \in DOMAIN sent /\ sent'[i] = sent[i]
                BY <2>5, <2>6, <3>2
            <4> QED BY <4>1 DEF SentInv
        <3> QED BY <3>1, <3>2
    <2> QED BY <1>0, <1>4, <2>6 DEF SentInv
<1>5. CASE Send \/ RemoteSend
    BY <1>4, <1>5 DEF Send, RemoteSend
<1>6. CASE Unreachable
    BY <1>2, <1>6 DEF Unreachable
<1>7. CASE SendError \/ SendRefused \/ RemoteSendError
    BY <1>2, <1>7 DEF SendError, SendRefused, RemoteSendError
<1>8. CASE Connect \/ IcmpArrives
    BY <1>2, <1>8 DEF Connect, IcmpArrives
<1>9. ASSUME NEW r \in Records, WriteEntry(r) \/ Divert(r) PROVE SentInv'
    BY <1>3, <1>9 DEF WriteEntry, Divert
<1>10. ASSUME NEW p \in Paths, StartDaemon(p) \/ StopDaemon(p) \/ ReadDatagram(p)
       PROVE  SentInv'
    BY <1>2, <1>10 DEF StartDaemon, StopDaemon, ReadDatagram
<1>11. CASE Exhausted \/ UNCHANGED vars
    BY <1>2, <1>11 DEF Exhausted, vars
<1> QED
    BY <1>5, <1>6, <1>7, <1>8, <1>9, <1>10, <1>11 DEF Next, Deliver

(* Every datagram says what its record said: the facility and the severity, *)
(* the message when it fits, else its longest prefix of whole characters    *)
(* that fits and at most one replacement where a byte was left for it,      *)
(* however long the header, the limit and the message (build_packet).       *)
THEOREM DatagramsAreFaithful == Spec => []DatagramCarriesRecord
<1>1. ASSUME Init PROVE SentInv
    <2>1. DOMAIN sent = {}
        BY <1>1 DEF Init
    <2> QED BY <2>1 DEF SentInv
<1>2. SinkInv /\ SentInv /\ [Next]_vars => SentInv'
    BY SentInductive
<1>3. ASSUME SinkInv, SentInv PROVE DatagramCarriesRecord
    <2>1. ASSUME NEW i \in DOMAIN sent
          PROVE  Carries(sent[i].packet, log[sent[i].record])
        <3>1. /\ sent[i].record \in 1..Len(log)
              /\ sent[i].packet = BuildPacket(HeaderLen, log[sent[i].record])
            BY <1>3 DEF SentInv
        <3>2. log[sent[i].record] \in Records
            BY <1>3, <3>1 DEF SinkInv, SinkTypeOK
        <3> QED BY <1>3, <3>1, <3>2, PacketCarries DEF SinkInv, SinkTypeOK
    <2> QED BY <2>1 DEF Carries, DatagramCarriesRecord
<1> QED BY <1>1, <1>2, <1>3, SinkInvariant, PTL DEF Spec
=============================================================================
