# A TLA+ model of XOSLog

XOSLog is an asynchronous logging library: callers put records on a bounded
queue and one writer thread formats them and hands them to a set of sinks.
The modules here model it, TLC checks them on small instances and TLAPS
proves every invariant and action property that the passing runs check, and both refinements,
for every value of the constants.

Line references such as `logger.rs:203` are to `src/src/`.

## The system

| Component | State it keeps | Operations | Meets the others through |
| --- | --- | --- | --- |
| `Logger` clones (logger.rs) | `closed`, `dropped`, `Mutex<SyncSender>`, `Mutex<Option<JoinHandle>>` | `log`, `flush`, `shutdown`, drop | the channel; one ack channel per `flush` or `shutdown` |
| Queue (`mpsc::sync_channel`) | the messages not yet received | `send`, `try_send`, `recv` | Mutex on the sending side, writer on the other |
| Writer thread | its loop, the slot vector | `Log`, `Flush`, `Shutdown`, final flush | `catch_unwind` around a message and around each sink write |
| Sink slots | `consecutive_errors`, `degraded`, level floor | fan-out, stderr fallback | calls `write_entry` and `flush` of each sink |
| `FileSink` (sink.rs) | open file, `size`, `interval_start`; the files `path`, `path.1`, ... | open, write, rotate | the file system and its failures, the clock |
| Context scopes (context.rs, entry.rs) | one stack of frames per thread, a process-wide counter | push, guard drop, capture, enter, merge | `Logger::log` merges it into a record on the caller's thread |
| `TargetFilter` (filter.rs, level.rs) | the list of directives | parse, query | `Logger::log` asks it before a record is queued |
| Records and fields (entry.rs) | a record and its fields | `LogEntry::new`, `field`, conversions, `fields!`, `merge_context` | made by the caller, completed by `Logger::log`, formatted by the writer |
| Timestamps (time.rs) | none | `now`, `civil_from_days`, `Display` | the clock, the logger's offset |
| Layouts (json.rs, `format_record`) | none | one line of text or JSON for a record | the writer formats each record once for all sinks |
| `LoggerBuilder` (logger.rs) | level, filter, `read_env`, sinks | setters, `build` | the environment variable, the default sink |
| Global logger and macros | `GLOBAL`, a `OnceLock` | `set_global`, `init_default`, `log!` | installed by any thread, read by all |
| `SyslogSink` (syslog.rs) | a Unix datagram socket that connects lazily | deliver, reconnect | called by its slot; daemons that start, stop and fall behind |
| `RemoteSyslogSink` (syslog.rs) | a UDP socket | deliver | called by its slot; ICMP errors of earlier datagrams |
| stdout and stderr sinks | a std stream | write, flush | called by their slot |

What is hard here, and what the properties are about:

* the race of `log`, `flush`, `shutdown` and drop of several clones around the
  moment the writer stops, where a message can be left in the queue and a
  caller left waiting for its ack;
* blocking sends made while holding the sender's mutex;
* sinks that fail or panic, one among several, and the count of failures in a row;
* a rotation, which is a series of renames and an open, each of which may fail
  and between any two of which the process may stop;
* a size and an interval start that the file sink keeps beside the file itself;
* a syslog daemon that is gone, replaced or not reading at any of the system calls of
  a delivery and its retry;
* guards of context scopes dropped in any order;
* repeated and overlapping directives of a filter;
* text that a layout must escape, numbers at the edge of their type, dates before
  1970, offsets on either side of UTC, weeks that began before the epoch;
* builder methods in any order, and two threads that install a global logger.

What makes each part correct: the queue keeps its order, and each
record is accounted for; every call returns; a flush that was acknowledged drained what was queued
when it was called; a shutdown that returned left no writer behind; each sink
gets each record it should, once, in order; rotated files read in order with
no gap; a write to syslog answers Ok exactly when one datagram left, and fails only
when the daemons did; a record carries the innermost value of each context key; a target has
the level that the last word on its longest configured path gives it; a line of the log
reads back as what the caller gave and names the instant of the call; a logger is the
one its builder's calls describe, and the macros speak to one logger for good.

## The modules

`SinkSlots` is the writer's fan-out: `handle_message`'s loop over the slots and
the flushes. Writing one record to all the slots is one step, since only the
writer touches them; which of the sinks that may fail do fail is a choice of
the step. `written`, `diverted` and `failed` record where each record went.

`Logger` extends it with the callers, the mutex of the sender, the channel, the
mutex of the join handle and the writer's loop. The channel is the history of
all that was sent with a cursor, so that a record has an identity and a position.
A caller's `pc` says where it is: `log_lock`, `log_send`; `flush_lock`,
`flush_send`, `flush_wait`; `shut_lock`, `shut_send`, `shut_wait`,
`shut_handle`, `shut_join`. Every point of the code at which a thread can block
or another can get in between is a value of its own:

| Code | Action |
| --- | --- |
| `log` up to `tx_guard()` (134-144) | `LogReject`, `LogAdmit` |
| `tx_guard()` (229) | `AcquireTx` |
| `send`, `try_send` (147-158) | `LogSend`, `LogDropNewest`, `LogEmergency` |
| `flush`, `send_ctrl`, `rx.recv()` (191-196, 224-226) | `FlushCall`, `CtrlSend`, `CtrlSendFails`, `FlushReturn` |
| `shutdown` (203-214) | `ShutdownCall`, `ShutdownAcked`, `TakeHandle`, `Join` |
| a clone goes out of scope | `DropHandle` |
| `rx.recv()` of the writer (616-619) | `WRecv`, `WDisconnected` |
| `handle_message` (646-700) | `WLog`, `WFlush`, `WShutdown` |
| `catch_unwind` of the writer (621-633) | `WFlushPanic` |
| the end of `writer_loop` (638-641) | `WExit` |

`RecordQueue` is what a logger promises the program, in four actions and without threads,
locks, control messages or sinks: a bounded queue that records enter and leave in their
order, one at a time, and that stops on a record that waits only after it was asked to
close. `LoggerQueue` maps `Logger` to it: a record is its position in the history of
the channel, it is pending until the writer is done with it, and the bound is the
capacity and the one in the writer's hands. `ImplementsQueue` states that `Logger`
implements it.

`FileSink`, `Context`, `Calendar`, `RecordFormat`, `TargetFilter`, `Setup` and `Syslog` model the
other components, each by itself; the modules of proofs are listed with the proofs below.

`FileSink` models `open`, `write_bytes`, `rotate` and `shift_backups`, one
action per file operation. Directory entries name inodes, so that the open
file keeps its identity when it is renamed and its bytes are still appended to
it when the open of the next file failed. `Crash` stops the process at any point
and `Reopen` is a program that starts again on the files it finds. `world` says what goes on around
the sink in one behaviour and does not change: which operations may fail, whether the clock may move inside
`write_bytes` and be set back, and by which constructor a sink is opened after a restart. An interval is none, a period, or the ISO week, whose
first one began before the epoch and is clamped to it (`iso_week_start`); the clock of the
week's instance counts days and starts before 1970.

`Context` models the stacks, the shared frame counter, guards, snapshots and
the merge into a record. A guard that is leaked is one that is never dropped. `Fields`
has the merge, which `RecordFormat` uses too.

`Calendar` has the arithmetic of time.rs, from a clock's distance from the epoch to the
numbers that a line shows, with the division of Rust where the code divides (`Quotient`) and the
floored one where it calls `div_euclid`; beside it a reference, written
from the rules of the calendar and not from the code, says which instant such numbers name.

`RecordFormat` follows one record from `LogEntry::new` through `field`, the stamp and the
context that `Logger::log` adds, to the line that the writer or `emergency_write` makes of
it. Text is a sequence of chunks: one for each character that JSON escapes, one for any run of
others. `Read` is a reader of JSON on such chunks, which is no part of the
program: `JsonReadsBack` compares what it finds with what the caller gave.

`TargetFilter` models `parse` one directive at a time and the queries. A target
is the sequence of its path segments, so that "`a` covers `a::b` but not `a_b`"
is the prefix relation; of two directives that cover the same target the longer
string is the longer path. Splitting the text at `,`, `=` and `/` and trimming it
is left out; the forms a part can have are enumerated.

`Setup` extends it with the way to a logger: a main thread parses a filter, chains calls of a
builder, builds, and calls `set_global`, while another thread runs `init_default` and any
thread uses the macros. The history of the builder's calls is kept beside the builder, so that
`ConfiguredFilter` and `ConfiguredSinks` can say what the calls asked for. Opening a file,
resolving a host and spawning the writer may fail, which ends a builder.

`Syslog` models `SyslogSink`, or `RemoteSyslogSink`, in one slot (`Transports`). `deliver` is split at each system call:
`WriteEntry` enters it, `Connect` and `Unreachable` try one path of `reconnect`, `Send`,
`SendError` and `SendRefused` are the outcomes of `send`. Between them `StartDaemon`,
`StopDaemon` and `ReadDatagram` move the daemons, which are external. Each start of a
daemon is a new run, and a connected socket belongs to one run. A record is a sequence
of characters that differ in their number of bytes, so that the cut at the limit and
the lossy decoding behind it are modelled in bytes. `ImplementsSlot` is a refinement:
the many steps of a delivery are one step `WriteRecord` of `SinkSlots` with one slot, which
is how `Logger` sees any sink. The remote sink's send waits for nobody; the datagram may
bounce, and then the ICMP error, which comes at any later time, fails a later send in place of
its own.

`MCLogger`, `MCFileSink`, `MCContext`, `MCRecordFormat`, `MCSetup` and `MCSyslog` give the
instances for TLC.

`Logger` abstracts the filter to one `Threshold` and leaves out the context and the text of a
record; `Setup`, `Context` and `RecordFormat` check those.

## The runs

Runs that must pass:

| Run | Instance | Shows |
| --- | --- | --- |
| `LoggerFanOut` | one caller, capacity 0, DropNewest, fair; four slots with floors Trace, Warn, Off and Trace, the first two faulty; the logger's level is Info and records come at Debug, Info, Warn and Off | `FanOut`, `LevelsRespected`, `FailureCount`, `SinkOrder`, `Accounting`, `CallsReturn`, `DegradedIsFinal`, and that nobody deadlocks |
| `LoggerCalls` | two callers, capacity 1, Block, fair; a sink that panics in flush beside one that works | `TypeOK`, `IInv`, `ShutdownStopsWriter`, `FlushDrains`, `LossOnlyAfterShutdown`, `ImplementsQueue`, `CallsReturn`, `WriterStops` |
| `Files` | no backups or two, rotation by size and by interval, in the three worlds below | `OrderAcrossFiles`, `NoHoles`, `SizeTracksFile`, `SizeBound`, `OneIntervalPerFile`, `OnlyTheLastStraddles`, `OnlyOldestLeaves`, `NoNeedlessRotation` |
| `Context` | two threads, three frames, one snapshot at a time | `StackIsLiveGuards`, `InnermostWins`, `SnapshotTransfers`, `RecordFields` |
| `Formats` | both layouts with and without location, a list of fields for every type of value, names and texts with every escape, and for one plain record some 340 days, three times of day and six offsets | `LineNamesInstant`, `JsonReadsBack`, `KeysOnce` |
| `Setup` | every filter spec of three directives; two of them, three environments and chains of three builder calls; `init_default` and two macro calls beside shorter ones | `MostSpecificLastWord`, `OnlyItsOwnTargets`, `ConfiguredFilter`, `ConfiguredSinks`, `OneLoggerForMacros` |
| `Syslog` | the local sink with two paths and three daemon runs with queues of one datagram, and the remote one; three records; the limit is 6 bytes, the header 3 and for the remote sink 7 | `OkMeansSentOnce`, `DatagramCarriesRecord`, `RestartLosesNothing`, `ImplementsSlot`, `DeliverReturns` |

The worlds of `Files` (`MCFileSink`), of which a behaviour lives in one:

| World | Clock | May fail, once | Checked there |
| --- | --- | --- | --- |
| `Interrupted` | two instants, set back and forth at any point | the removal of the oldest, the rename of the active file, the open of the next | order, holes, size and bound, what leaves |
| `Regular` | from before 1970 to the second Monday, standing still inside `write_bytes`; a period of two or weeks | the rename of a backup, a write, the reading of the metadata at a restart | order, one interval for each file, no needless rotation |
| `Straddling` | only forward, at any point; the same intervals | the open of the next file | all but one interval for each file and no needless rotation; `OnlyTheLastStraddles` |

What a property asks of its world (`BackupsMove`, `SizeIsSeen`, `ClockTold`) is in the property, so
that the theorems below say the same of every world.

Runs in which what the documentation says is refuted by what the code does:

| Run | What it shows |
| --- | --- |
| `ShutdownHangs` | A sink panics in `flush` while `Shutdown` is handled. The writer goes on, waiting for messages, and `shutdown` waits in `join` with its own clone alive (logger.rs:621-633, against :198 and lib.rs:26-27). |
| `BlockLoses` | `log` has passed the `closed` check when another clone's `Shutdown` gets ahead of it: its record is discarded with the queue (against logger.rs:29-30, README.md:12-13). |
| `BackupsEaten` | After a failed `open`, each further write shifts the backups again and loses one, with nothing in `path.1` to show for it (sink.rs:339-343, against :209-211). |
| `StrayEquals` | The part `=debug` sets the global default (filter.rs:95, against :36-38, where a stray `=` is skipped). |
| `PacketTooLong` | A character cut in two at the end of a datagram comes out as the three bytes of U+FFFD, so that the datagram can be two bytes above the limit (syslog.rs:370-374, against :106-107 and the test at :495, whose message has single-byte characters only). |

Smaller differences of the same kind, visible in the modules and without a run:

* `send_ctrl` holds the sender's mutex while it waits for room (`CtrlSend`), so that another
  caller's `log` under DropNewest waits behind a flush or shutdown (logger.rs:225, against "Callers
  never block", :32-33). It does return (`CallsReturn`).
* A panic in one sink's `flush` degrades all the slots (`DegradeAll`), as the comment at
  logger.rs:626-627 intends; README.md:175-177 says "Sinks are independent".
* The bytes of a write that failed part of the way are not in `size` (`WriteAll`), so
  that a file can grow past `max_size` (against tests/rotation.rs:47-49); the
  restart after a crash in a write reads the true length again. A length that cannot be read
  when the file is opened counts as 0 (sink.rs:306, `Opened`), with the same effect. `SizeIsSeen`
  leaves out both.
* A backup whose rename fails is replaced by the next newer file while older
  backups are kept (`ShiftBackup`), so that `NoHoles` is stated without that failure (`BackupsMove`).
* A slot degrades after `MaxErrors` writes that failed in a row, and a degraded syslog
  sink is not tried again though its daemon is back (`Divert`; against "re-established
  automatically if the daemon restarts", README.md:259-260).
* A `usize` above `i64::MAX` is logged as a negative number (`AsI64`), where a `u64` becomes text.
* A field called `msg`, `ts`, `level` or, with the location, `file`, `line` or `target` makes a
  JSON object with two members of that name, and so does a field given twice: `KeysOnce` states
  that this is exactly when it happens.
* The seconds of an offset that is no whole number of minutes are not in the text
  (`LineNamesInstant` allows for them).

### Bounds

`MaxCalls` bounds the log and flush calls of one caller (shutdown and drop, which
end it, are not counted). Two callers with two calls each make every pair of calls
meet; what more callers could add, one that holds the mutex, one that waits for it and one that is
past `closed` at a time, the theorems cover. Capacities 0 (`LoggerFanOut`), 1 (`LoggerCalls`) and
2 (`BlockLoses`) are the hand-over, the queue that is empty or full
and the one with a state between.
`MaxErrors` is 2 in place of 8: one failure that is reset, and a second that
degrades. Five records let a slot fail, recover and fail for good; the fourth slot works throughout and
must get all of them. In `Files`
five records of length 1 and 4 with `MaxSize` 3 fill a file exactly, do not fit and
are longer than a file; they rotate past the second backup. One failure and one
restart suffice to interrupt a rotation, to repeat it and to rotate once more after
that, and for a file to be written to before, in and after a call that straddles. The days of `Regular`
are one before the epoch and both sides of the ends of a period and of the first two weeks;
`Straddling` does without the last. In `Context` three
frames over two threads give nested scopes beside a foreign one, and the field lists
have keys that collide across frames and within one. Three directives (`MaxParts`) over three
nested targets and a sibling give each repetition and overlap.

In `Setup` the specs that a program goes on with are a plain one and one with a default level and
a bad part (`SetupSpecs`); `MaxBuilderCalls` of 3 puts each method before, between and after two
others. The race for `GLOBAL` does not depend on what the builder was told, so that it is explored
beside builders of at most `RaceCalls` calls; `MaxRecords` of 2 lets one macro call precede an
installation and another follow it.

In `Formats` an i64 is scaled to -8..7 (`I64_MAX`), with values on both sides of each edge. The
dates are swept over one plain record (`OneStamp` holds the others at one instant), because a line's
timestamp and its fields do not meet; the days are around the epoch, leap days of 1900, 2000, 2024 and
2100, turns of the year and an era's turn before the year 0.

In `Syslog` two paths are the one that is preferred and the one to fall back to; three
daemon runs are a daemon that is replaced under the first send and again under the
second. The three records fit to the byte with a newline behind, are cut inside a character
and are cut between two; the header of the remote sink leaves none of them room.

`CHECK_DEADLOCK FALSE` is set where a sink panics in flush (`LoggerCalls`,
`ShutdownHangs`): a shutdown may really wait for ever there. Elsewhere
`Terminated`, `Exhausted`, `Parsed`, `Done` and `Running` mark the ends that are meant.

### Fairness

`FairSpec` assumes that the operating system runs the writer thread and each
caller that is inside a call. A caller is never obliged to start a call, to shut
down or to drop its clone. Weak fairness of `Step(c)` is enough because calls are
bounded: `std::sync::Mutex` does not promise that a waiter gets the lock while
others take it again and again, and a run with unbounded calls could starve one.
`CallsReturn` excepts one call, the `shutdown` that the violation run `ShutdownHangs` shows to wait in
`join` for ever (`HangsInShutdown`); every other call returns, one whose ack was lost in a
panic included.

`FairSpec` of `Syslog` assumes that the writer thread runs, and that a daemon that runs
goes on reading. The second is not the library's to give: the socket is blocking and has
no timeout, and without this assumption TLC shows a writer that waits in `send` for
ever. That the kernel refuses a call is never assumed to happen.

## The proofs

| Module | Theorems about |
| --- | --- |
| `LoggerProofs` | the callers, the channel and the writer of `Logger` |
| `RecordProofs` | where a record goes: the refinement of `RecordQueue`, the account, the slots |
| `FileProofs` | `FileSink` |
| `SyslogProofs` | `Syslog` |
| `ContextProofs` | `Context` |
| `SetupProofs` | `TargetFilter` and `Setup` |
| `FormatProofs` | `Calendar` and `RecordFormat` |
| `FoldTheorems` | nothing of the code: induction, and what `FoldLeft`, `FlattenSeq` and `merge_context` compute, one element at a time |

Each proves its theorems for every value of the constants, and from the named assumption of the
modules it is about only. The conditions named here are part of the property:

| Theorem | Property |
| --- | --- |
| `TypeCorrect` | `TypeOK` |
| `NothingLeftWithoutShutdown` | `LossOnlyAfterShutdown` |
| `ShutdownStops` | `ShutdownStopsWriter` |
| `SinksInOrder` | `SinkOrder` |
| `AcknowledgedFlushDrains` | `FlushDrains` |
| `InductiveInvariant` | `IInv`, on which the four above it rest |
| `LoggerImplementsQueue` | `ImplementsQueue` |
| `DegradedStays` | `DegradedIsFinal` |
| `LevelsAreRespected` | `LevelsRespected` |
| `EveryRecordAccounted` | `Accounting` |
| `EveryRecordFansOut` | `FanOut` |
| `FailuresCounted` | `FailureCount` |
| `FilesInOrder` | `OrderAcrossFiles` |
| `SizeIsTracked`, while no write fails halfway and metadata can be read | `SizeTracksFile` |
| `FilesAreBounded`, under the same condition | `SizeBound` |
| `OldestLeaves`, while no shift of a backup fails | `OnlyOldestLeaves` |
| `NoRecordIsSkipped`, under the same condition | `NoHoles` |
| `OneIntervalInFile`, under a clock that only advances and stands still in a call, sinks opened by `open_with_interval` | `OneIntervalPerFile` |
| `LastStraddles`, under a clock that only advances and until the program is restarted | `OnlyTheLastStraddles` |
| `RotationsAreNeeded`, under a clock that stands still in a call, and only advances where `rotate_every` is used | `NoNeedlessRotation` |
| `OkMeansSent` | `OkMeansSentOnce` |
| `DatagramsAreFaithful` | `DatagramCarriesRecord` |
| `RestartIsHarmless` | `RestartLosesNothing` |
| `SinkImplementsSlot` | `ImplementsSlot` |
| `ScopesAreGuards` | `StackIsLiveGuards` |
| `InnermostValueWins` | `InnermostWins` |
| `SnapshotsTransfer` | `SnapshotTransfers` |
| `RecordsMerged` | `RecordFields` |
| `LastWordWins`, for targets that no stray `=` has a word on | `MostSpecificLastWord` |
| `DirectivesAreLocal` | `OnlyItsOwnTargets` |
| `FilterAsConfigured` | `ConfiguredFilter` |
| `SinksAsConfigured` | `ConfiguredSinks` |
| `MacrosReachOneLogger` | `OneLoggerForMacros` |
| `LinesNameInstants` | `LineNamesInstant` |
| `JsonLinesReadBack` | `JsonReadsBack` |
| `NamesComeOnce` | `KeysOnce` |

### What is assumed

* `SinkAssumption`, `LoggerAssumption`: any set of callers, capacity, policy, slot vector, and sets
  of failing and of panicking sinks.
* `FileAssumption`: any size, set of backup limits, set of intervals and of worlds, clock, and numbers
  of crashes and failures.
* `SyslogAssumption`: any number of paths, records and daemon runs, any length of a queue, of the
  header and of the limit. No message has the replacement character in it, so that one that is
  seen was put there by the decoding.
* `ContextAssumption`: the field lists are sequences. The sets of threads, keys and values may be any.
* `FilterAssumption`, `SetupAssumption`: levels are 0 to `Off`, a path is a sequence of segments
  that is not empty, and a text of the environment is a sequence of parts.
* `FormatAssumption`: the values are of the types of entry.rs and in their range; a clock reading is a
  direction and a distance from the epoch. What the model leaves to `ToString` is given its two facts
  there: the text of a number, float or timestamp has no character that JSON escapes, and
  is no colon. And a context has no key twice, which is what `Context` proves of
  `current_context` (`InnermostWins`).

Integers are unbounded in the modules, and the `i128` in which time.rs computes is as good for any
clock. The year is cast to an `i32` at the end (time.rs:111), so that `LinesNameInstants` speaks of
the code for the years that an `i32` holds.

### Logger

The invariants are not inductive by themselves. For `Logger`, `IInv` adds, in the order the
proofs use them:

* `ExitInv`: the writer leaves its loop behind a `Shutdown` message or when
  nobody is left to send; with it, `TypeOK` is inductive (the message it
  handles is one it took).
* `HandleInv`: the handle's mutex is held exactly by the caller inside `join`, so
  that a caller who finds neither a handle nor a holder finds a stopped writer.
* `OrderInv`: what a sink was given is among what the writer is done with, so
  that the next record it is given is a later one.
* `AckInv`: a control message that the writer is not done with is its caller's
  only one, its ack is pending and it stands behind everything that was in the
  channel when the call began. It is what makes the ack of a flush belong to
  this flush and not to an earlier one.

`LoggerImplementsQueue` shows that the initial states of `Logger` are those of `RecordQueue` and that each
step is one of the queue's or leaves it alone. Sending a record is `Accept`, which needs room:
the records among the `Len(sent) - Handled` messages are fewer than the bound while `HasRoom`
holds. Handling one is `Deliver`, of the oldest. The writer's end is `Stop`, which needs
an empty queue or a closed one: `ExitInv` says that the writer ends behind a `Shutdown` message or
with nothing left, and `CloseInv` that `closed` is set before such a message is sent.

The five other theorems of `RecordProofs` rest on invariants of their own, beside `TypeOK` and `ExitInv`:

* `LevelInv`: a record in the channel, or on its way there in a caller's hands, has a level that
  `log` admits, so that the writer never meets another; and what a slot was given are records of a
  level the slot accepts.
* `AccountInv`: `Accounting`, and that the callers inside `log` are finitely many: the set of
  callers need not be finite, but each step lets at most one of them in. The records of the channel
  are finitely many because the channel is a sequence.
* `FanInv`: for each slot, the records it accepts among those the writer is done with are the ones
  it was given, and as many; a slot of a sink that works has diverted and lost none.
* `CountInv`: `FailureCount`, and that a slot in use is below `MaxErrors`, so that the failure that
  degrades it is the `MaxErrors`-th exactly.

`WriteOrQuiet` reduces each step to one of two for them: the writer writes one record, and `Outcomes` says
that each slot then takes it, fails on it, diverts it or passes it; or nothing of the slots but `degraded`
changes.

### Files

The theorems about files rest on `FileInv`: a file has one name, none beyond
`max_backups`, and the open file is the newest of those with a name, or nothing has one any more
(`PlaceInv`); what a file holds is in order, below the number of the next record and above what the files
behind it hold (`RecordInv`); and where a rotation stands says which names it has freed (`ControlInv`).
A step does one of seven things to the disk (`DiskStep`: it keeps it, reopens, creates, truncates or
removes a file, moves one to the next name, or appends), and each is shown once to
preserve the order. `RoomInv` says that a rename replaces nothing but the oldest backup; it needs
that no shift of a younger one failed: the next shift would replace it. `FitInv` says
that the record about to be written fits or will be alone in its file; with `SizeTracksFile` it needs
that no write fails halfway and that the length of a file can be read. A behaviour stays in its world
(`WorldKept`), so that a property's condition holds always or never.

The two about intervals reduce `Passed`, the end of an interval between two instants, to
`slot_start`, which sends an instant to the start of its interval: it never falls as time advances
(`SlotsRise`), and the end of an interval is passed exactly when it differs (`PassedIs`).
`TimeSteps` sorts the steps into six by what they do to `mtime`, `interval_start` and the clock.
`StartInv` says that `interval_start` is not before the interval of the open file's last write,
nor, once a write has been let through, before the present one; `NoLaterInv` that it is not
after the former. So a record goes to a file of its own interval or to a new one (`OneSlotInv`), and
a rotation finds that its interval did pass. `StartInv` needs a call that does not straddle the end
of an interval. `rotate_every` takes the clock's time and not the file's: a sink made with it goes on in a
file of an earlier interval, so that `OneSlotInv` is about the other constructor, and
`StartInv` then needs a clock that only advances.

`LastStraddles` lets the clock advance inside a call. `StraddleInv` says that all the
records of the open file but the last are of the interval that `interval_start` says, the last of
none earlier, and once a write has been let through all of them are of it: a last record of a later
interval makes the next decision rotate, since the clock has passed that interval's start. A restart
takes `interval_start` from the mtime of the straddling record and goes on behind it, which is why
the property is about a program that has not been restarted (`RunsInv`).

### Syslog

The theorems about syslog rest on `SinkInv` (types; a write is in a slot that is in use) and
`CalmInv`: while nothing has stopped or been refused since a write began, there is a daemon,
not behind the path that `reconnect` is at, and the socket of the retry is that of a daemon that runs. So
neither the last path nor the second `send` can fail in such a write. `SentInv` says that each
datagram is `BuildPacket` of its record, and the rest of `DatagramsAreFaithful` is about that operator: sizes
are sums over a sequence, and the bytes that are kept are those of the longest prefix of whole
characters that fits, with one replacement when a character was cut.

### Context

What a thread's context holds is a fold over the frames of a fold over the fields of each.
`FoldTheorems` states such a computation as the recursive function that it is, one element after
another, and induction over a bounded number of elements with a set in place of a predicate
(`UpToInduction`), so that no theorem with an operator as its parameter is needed.

`StackInv` says that a stack holds frames with rising numbers, those of the guards that its thread
holds; `WithoutFrame` that the drop of a guard takes its frame out wherever it stands, and no
other. From it `PutAllIs` and `MergeIs` say what one frame adds and what all of them
make: the visible fields (`Visible`), each the last with its key of the innermost frame that has the
key. `ContextInv` adds that snapshots have no key twice and that a record's fields are the
caller's and then new keys of the context (`Merged`).

### Filter, builder and global logger

`ParsesTo` relates the list that `parse` makes to its text: one directive for each target the text
has a word on, with the last of them. `AfterPartParses` shows it for one more part, `ParsedAs` for all.
`EffectiveIs` says that the loop of `effective_level` settles on the longest directive that covers
the target; prefixes of one target of the same length are equal, so that it is the only one.

`MadeBy` relates a builder to the history of its calls, one call after another (`FilterAskedAfter`,
`SinksAskedAfter`); `BuildInv` says that every logger built came of such a builder. `GlobalInv`
says that `GLOBAL` is set once and by whom, and that all the records that found a logger found that one.

### Formats

For a date, years are counted from March, so that the leap day comes last and
every era of 400 years has 146097 days (`ErasRepeat`, `EraOf`). `YearInEra` shows that the
corrected quotient of civil_from_days is the year of a day of an era, by its century, group of four
years and place in it; the months are compared with the calendar's in a table of their first
days. `CivilDates` joins them to the reference for every day, before 1970 too.

For a line, `RecordInv` says what the record holds at each stage, and that the line is its
text in the logger's layout (`Begun`, `Unlogged`, `Logged`, `Laid`). The timestamp is then the seventh
chunk of a JSON line and the first of a text one. `Says` relates a piece of a JSON line to the
tokens that the reader adds for it, whatever it read before; pieces that say something say
one thing after the other when they are joined (`SaysConcat`), an escape is undone in two steps
of the reader (`SaysEscaped`), and each part of write_record has a lemma, up to the object.
`Carried` compares the loop of merge_context, which sees only what it has pushed, with what
the reader should find, which is stated of what the caller gave: they agree because a context has no
key twice. For `KeysOnce`, members are four tokens each of which only the third is a colon
(`ObjectTokens`), so that the names that a reader finds are the members' (`NamesFound`).

### How they are put together

Each part has one lemma, with one step per action of `Next`; the temporal theorems
combine them with `Init` by PTL. TLC checks `IInv` and `ImplementsQueue` in `LoggerCalls`.

Model-checked only: liveness (`CallsReturn`, `WriterStops`, `DeliverReturns`),
whose fairness is stated with ENABLED, that nobody deadlocks, and the five properties that the code refutes.

The modules were written with the proofs in view in a few places: `slot_start(rule, t)` and the queries of
`TargetFilter` take what they look at as parameters, `DatagramCarriesRecord` speaks of a longest
prefix, and in `RecordFormat` the pieces of a line have names of their own (`Also`, `FieldMember`).

## What is not modelled

* Parsing and formatting character by character: splitting a filter's text, parsing the name of a
  level, the digits of numbers and the padding of a timestamp. Runs of plain characters are one chunk.
* The text of the syslog header: its length and priority are modelled. What the network does with
  a datagram after the send.
* The standard streams (`StdoutSink` and `StderrSink` are sinks that may fail). Writing to stderr
  is assumed to return.
* A custom sink that logs to the logger it serves, which blocks on a full Block
  queue that only its own thread drains.
* The end of the process. A `Logger` in the global `OnceLock` is never dropped and the
  drop of the last clone does not wait for the writer: what is queued when
  `main` returns is lost unless the program flushed. `WriterStops` speaks of a
  process that lives on.
* Timestamps are taken before the mutex, so that records of two threads may be
  written in the other order of their timestamps; only the order of the queue is kept.
* `push_context` runs the caller's iterator of fields after it has taken a frame's number and
  before it pushes the frame; here that is one step. The difference would be seen only by an iterator
  that itself pushes a context on the same thread.
* Files changed by others, and the loss of synced data in a power failure.
* Wrapping of the failure counter, of the frame counter and of `size`, which
  would need 2^64 operations.

## Plan

Done, in this order: `SinkSlots`, `Logger`, `LoggerProofs`, `FileSink`, `Context`,
`TargetFilter`, `Syslog`; `RecordQueue` with `LoggerQueue`; `Calendar`,
`Fields`, `RecordFormat`, `Setup`, the remote sink and the ISO weeks; `RecordProofs`,
`FileProofs`, `SyslogProofs`; `FoldTheorems`, `ContextProofs`, `SetupProofs`, `FormatProofs`, the three
theorems about intervals and the one about datagrams; a zero capacity with a panic, calls that
straddle an interval, a header without room and the runs of what the documentation says. Left:

1. `DailyFiles`, an abstract specification of rotated files (a sequence of records of which a
   suffix is kept), implemented by `FileSink` without failures, and a proof that it is.
2. That the context of a record in `RecordFormat` is one that `Context` makes, as a theorem in place of
   the assumption.
