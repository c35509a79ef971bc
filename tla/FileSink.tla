------------------------------ MODULE FileSink ------------------------------
(***************************************************************************)
(* The rotating file sink (sink.rs): the active log at path, its backups   *)
(* path.1 .. path.max_backups, rotation by size and by interval, with file  *)
(* operations that fail, a clock that advances (or is stepped back) and a  *)
(* process that stops between any two steps and starts again.              *)
(*                                                                         *)
(* Directory entries name inodes, so that the open file keeps its identity *)
(* when it is renamed under the sink's feet.                               *)
(***************************************************************************)
EXTENDS Integers, Sequences

CONSTANTS
    MaxSize,        (* max_size; 0 disables size rotation                     *)
    BackupLimits,   (* the max_backups a sink may be opened with; 0 truncates *)
                    (* the active file in place                               *)
    Intervals,      (* the RotationIntervals a sink may have                  *)
    Times,          (* bound: the readings of the clock, see unix_secs        *)
    Sizes,          (* the lengths of formatted records                       *)
    Worlds,         (* the surroundings a program may run in, among AllWorlds *)
    MaxFaults,      (* bound: failures in a behaviour                         *)
    MaxRecords,     (* bound: records written                                 *)
    MaxCrashes      (* bound: restarts                                        *)

FaultKinds == {"remove", "shift", "rename", "open", "write", "stat"}

(* "mtime": open_with; "clock": followed by rotate_every.                   *)
OpenModes == {"mtime", "clock"}

(* What may go on around the sink in one behaviour: the operations that may *)
(* fail, the intervals and times there are, whether the clock may move      *)
(* while write_bytes runs and only "forward" or to "any" time, and how      *)
(* sinks are opened after a restart.                                        *)
AllWorlds ==
    [faults : SUBSET FaultKinds, intervals : SUBSET Intervals, times : SUBSET Times,
     moves_in_call : BOOLEAN, clock : {"forward", "any"}, modes : SUBSET OpenModes]

(* RotationInterval: Every has a period, 0 for less than a second; Hourly   *)
(* and Daily are Every with a period of theirs.                             *)
Never == [kind |-> "Never", period |-> 0]
Every(period) == [kind |-> "Every", period |-> period]
Weekly == [kind |-> "Weekly", period |-> 7]

ASSUME FileAssumption ==
    /\ MaxSize \in Nat
    /\ \A i \in Intervals : i \in {Never, Weekly} \/ (i.period \in Nat /\ i = Every(i.period))
    /\ Times \subseteq Int
    /\ BackupLimits \subseteq Nat /\ BackupLimits # {}
    /\ Sizes \subseteq Nat \ {0}
    /\ {MaxFaults, MaxRecords, MaxCrashes} \subseteq Nat
    /\ \A w \in Worlds : w \in AllWorlds

VARIABLES
    world,          (* the surroundings of this behaviour                     *)
    inodes,         (* every file ever created: its entries, a record's number   *)
                    (* and when it was written, its length and its mtime         *)
    dir,            (* dir[n]: inode at path (n = 0) or path.n; 0 when absent *)
    file,           (* the inode of the sink's open File                     *)
    size,           (* FileSink.size: bytes the sink believes are in it       *)
    max_backups,    (* FileSink.max_backups, the same after a restart         *)
    interval,       (* FileSink.interval, the same after a restart            *)
    interval_start, (* FileSink.interval_start (0 when there is no period)    *)
    now,            (* the system clock                                       *)
    step,           (* where write_bytes is; "idle" between calls, "down"     *)
                    (* when the process does not run                          *)
    slot,           (* the backup shift_backups moves next                    *)
    bytes,          (* length of the record being written                     *)
    next,           (* number of the record being written or written next     *)
    accepted,       (* records for which write_bytes returned Ok              *)
    faults, crashes (* spent of MaxFaults, MaxCrashes                         *)

disk == <<inodes, dir>>
sink == <<file, size, interval, interval_start, max_backups>>
call == <<step, slot, bytes, next>>
vars == <<world, disk, sink, now, call, accepted, faults, crashes>>

NewFile == [entries |-> <<>>, length |-> 0, mtime |-> now]
Paths == UNION {0..m : m \in BackupLimits}

------------------------------------------------------------------------------
(* RotationInterval::slot_start: the start of the interval that holds t.    *)
(* The unit of time is a day where Weekly is concerned, and a second where  *)
(* it is not.                                                               *)
unix_secs(t) == IF t < 0 THEN 0 ELSE t      \* before 1970 is 1970

EPOCH_MONDAY_OFFSET == 3                    \* 1970-01-01 was a Thursday
iso_week_start_of_sundays(t) ==
    LET start == ((t + 4) \div 7) * 7 - 4 IN IF start < 0 THEN 0 ELSE start
iso_week_start(t) ==
    LET start == ((t + EPOCH_MONDAY_OFFSET) \div 7) * 7 - EPOCH_MONDAY_OFFSET
    IN  IF start < 0 THEN 0 ELSE start

slot_start(rule, t) ==
    CASE rule.period = 0 -> 0
      [] rule.kind = "Every" /\ rule.period > 0 ->
            (unix_secs(t) \div rule.period) * rule.period
      [] rule.kind = "Weekly" -> iso_week_start(unix_secs(t))

interval_elapsed_late ==
    interval.period > 0 /\ slot_start(interval, now) > interval_start + interval.period
interval_elapsed == interval.period > 0 /\ slot_start(interval, now) > interval_start

size_hit_after(n) == MaxSize > 0 /\ size > MaxSize
size_hit(n) == MaxSize > 0 /\ size + n > MaxSize

Fails(kind) ==
    /\ kind \in world.faults
    /\ faults < MaxFaults
    /\ faults' = faults + 1

Works == UNCHANGED faults

------------------------------------------------------------------------------
(* The interval a file belongs to: that of its mtime, or the present one,   *)
(* when rotate_every sets it or the mtime cannot be read.                   *)
interval_start_for(inode, mode) ==
    slot_start(interval, IF mode = "mtime" THEN inode.mtime ELSE now)

(* open_with: keep the file at path, or create it; a file whose metadata    *)
(* cannot be read is taken for empty.                                       *)
Opened(mode) ==
    /\ IF dir[0] = 0
          THEN /\ inodes' = Append(inodes, NewFile)
               /\ dir' = [dir EXCEPT ![0] = Len(inodes) + 1]
          ELSE UNCHANGED disk
    /\ file' = dir'[0]
    /\ \/ Works /\ size' = inodes'[file'].length
       \/ Fails("stat") /\ size' = 0
    /\ interval_start' = interval_start_for(inodes'[file'], mode)
    /\ step' = "idle"

Init ==
    /\ world \in Worlds
    /\ now \in {t \in world.times : t <= 0}
    /\ inodes = <<NewFile>>
    /\ dir = [p \in Paths |-> IF p = 0 THEN 1 ELSE 0]
    /\ file = 1
    /\ size = 0
    /\ interval \in world.intervals
    /\ max_backups \in BackupLimits
    /\ interval_start = 0
    /\ step = "idle"
    /\ slot = 0
    /\ bytes = 0
    /\ next = 1
    /\ accepted = {}
    /\ faults = 0
    /\ crashes = 0

Reopen(mode) ==
    /\ step = "down"
    /\ mode \in world.modes
    /\ Opened(mode)
    /\ UNCHANGED <<world, max_backups, interval, now, slot, bytes, next, accepted, crashes>>

------------------------------------------------------------------------------
(* write_bytes: decide, rotate when needed, write.                          *)

(* The loop of shift_backups, (1..max_backups).rev().                       *)
FirstShift == max_backups - 1
LastShift == 1

write_bytes(n) ==
    /\ step = "idle"
    /\ next <= MaxRecords
    /\ bytes' = n
    /\ step' = IF size_hit(n) \/ interval_elapsed
                  THEN IF max_backups > 0 THEN "remove" ELSE "open"
                  ELSE "write"
    /\ slot' = IF step' = "remove" THEN FirstShift ELSE 0
    /\ UNCHANGED <<world, disk, sink, now, next, accepted, faults, crashes>>

(* write_bytes returns an error: nothing of the sink is changed.            *)
ReturnError ==
    /\ step' = "idle"
    /\ next' = next + 1
    /\ UNCHANGED <<slot, bytes, accepted>>

(* fs::rename(from, to): replaces what was at to.                           *)
Link(from, to) == dir' = [dir EXCEPT ![to] = dir[from]]
Rename(from, to) == dir' = [dir EXCEPT ![to] = dir[from], ![from] = 0]

NewestBackup == 1
OldestBackup == max_backups

(* rotate() first flushes, which is a no-op on a File, and syncs, whose     *)
(* result is ignored, as is that of removing the oldest backup.             *)
RemoveOldest ==
    /\ step = "remove"
    /\ \/ Works /\ dir' = [dir EXCEPT ![OldestBackup] = 0]
       \/ Fails("remove") /\ UNCHANGED dir
    /\ step' = IF slot >= LastShift THEN "shift" ELSE "rename"
    /\ UNCHANGED <<world, inodes, sink, now, slot, bytes, next, accepted, crashes>>

(* One turn of the loop over (1..max_backups).rev(); a rename that fails,   *)
(* as it does when there is no such backup, is passed over.                 *)
ShiftBackup ==
    /\ step = "shift"
    /\ \/ Works /\ IF dir[slot] # 0 THEN Rename(slot, slot + 1) ELSE UNCHANGED dir
       \/ Fails("shift") /\ dir[slot] # 0 /\ UNCHANGED dir
    /\ slot' = slot - 1
    /\ step' = IF slot > LastShift THEN "shift" ELSE "rename"
    /\ UNCHANGED <<world, inodes, sink, now, bytes, next, accepted, crashes>>

RenameActive ==
    /\ step = "rename"
    /\ \/ /\ Works
          /\ dir[0] # 0
          /\ Rename(0, 1)
          /\ step' = "open"
          /\ UNCHANGED <<slot, bytes, next, accepted>>
       \/ /\ \/ Works /\ dir[0] = 0
             \/ Fails("rename") /\ dir[0] # 0
          /\ ReturnError
          /\ UNCHANGED dir
    /\ UNCHANGED <<world, inodes, sink, now, crashes>>

StaleStart == interval_start
FreshStart == slot_start(interval, now)

StaleSize == size
FreshSize == 0

(* The active file is created anew, or truncated when there are no backups. *)
OpenFresh ==
    /\ step = "open"
    /\ \/ /\ Works
          /\ IF max_backups > 0
                THEN /\ inodes' = Append(inodes, NewFile)
                     /\ dir' = [dir EXCEPT ![0] = Len(inodes) + 1]
                ELSE /\ inodes' = [inodes EXCEPT ![dir[0]] = NewFile]
                     /\ UNCHANGED dir
          /\ file' = dir'[0]
          /\ size' = FreshSize
          /\ interval_start' = FreshStart
          /\ step' = "write"
          /\ UNCHANGED <<max_backups, interval, slot, bytes, next, accepted>>
       \/ /\ Fails("open")
          /\ ReturnError
          /\ UNCHANGED <<disk, sink>>
    /\ UNCHANGED <<world, now, crashes>>

(* n bytes of the record are in the open file.                              *)
AppendToFile(n) ==
    inodes' = [inodes EXCEPT
        ![file] = [entries |-> Append(@.entries, [id |-> next, at |-> now]),
                   length |-> @.length + n,
                   mtime |-> now]]

(* write_all: all the bytes, or a part of them and an error; only the       *)
(* former count in size.                                                    *)
WriteAll ==
    /\ step = "write"
    /\ \/ /\ Works
          /\ AppendToFile(bytes)
          /\ size' = size + bytes
          /\ accepted' = accepted \cup {next}
          /\ step' = "idle"
          /\ next' = next + 1
          /\ UNCHANGED <<slot, bytes>>
       \/ /\ Fails("write")
          /\ \/ UNCHANGED inodes
             \/ \E n \in 1..bytes - 1 : AppendToFile(n)
          /\ ReturnError
          /\ UNCHANGED size
    /\ UNCHANGED <<world, dir, file, interval, interval_start, max_backups, now, crashes>>

------------------------------------------------------------------------------
(* The process stops.  The record in hand may have reached the file in part *)
(* or as a whole, but its write has not returned.                           *)
Crash ==
    /\ step # "down"
    /\ crashes < MaxCrashes
    /\ crashes' = crashes + 1
    /\ step' = "down"
    /\ next' = IF step = "idle" THEN next ELSE next + 1
    /\ \/ UNCHANGED inodes
       \/ step = "write" /\ \E n \in 1..bytes : AppendToFile(n)
    /\ UNCHANGED <<world, dir, sink, now, slot, bytes, accepted, faults>>

Tick ==
    /\ world.moves_in_call \/ step \in {"idle", "down"}
    /\ now' \in world.times
    /\ world.clock = "forward" => now' > now
    /\ UNCHANGED <<world, disk, sink, call, accepted, faults, crashes>>

(* The bound on records is reached.                                         *)
Exhausted ==
    /\ step = "idle"
    /\ next > MaxRecords
    /\ UNCHANGED vars

Next ==
    \/ \E n \in Sizes : write_bytes(n)
    \/ RemoveOldest \/ ShiftBackup \/ RenameActive \/ OpenFresh \/ WriteAll
    \/ Crash
    \/ \E mode \in OpenModes : Reopen(mode)
    \/ Tick
    \/ Exhausted

Spec == Init /\ [][Next]_vars

------------------------------------------------------------------------------
(* Properties.                                                              *)

Present == {p \in Paths : dir[p] # 0}
EntriesAt(p) == inodes[dir[p]].entries
IdsAt(p) == {EntriesAt(p)[k].id : k \in 1..Len(EntriesAt(p))}
OnDisk == UNION {IdsAt(p) : p \in Present}

(* Reading the backups from the oldest to path.1 and then path gives the    *)
(* records in the order they were written, each once, whatever failed and   *)
(* wherever the process was stopped.                                        *)
OrderAcrossFiles ==
    /\ \A p \in Present : \A j, k \in 1..Len(EntriesAt(p)) :
          j < k => EntriesAt(p)[j].id < EntriesAt(p)[k].id
    /\ \A p, q \in Present : p < q =>
          \A i \in IdsAt(p), j \in IdsAt(q) : j < i

(* Of the records write_bytes accepted, those no longer on disk are older   *)
(* than every one that is: rotation gives up the oldest file only           *)
(* (sink.rs:209-211).  A backup whose rename fails may be replaced.         *)
BackupsMove == "shift" \notin world.faults
NoHoles ==
    BackupsMove => \A i \in accepted \ OnDisk : \A j \in OnDisk : i < j

(* What leaves the disk in one step was in the oldest backup or, without    *)
(* backups, in the active file (sink.rs:209-211).                           *)
OnlyOldestLeaves ==
    [][BackupsMove =>
          OnDisk \ OnDisk' \subseteq IF dir[max_backups] # 0 THEN IdsAt(max_backups) ELSE {}]_vars

(* FileSink.size is the length of the open file, after a restart and a      *)
(* rotation that failed too, while no write fails halfway and the metadata  *)
(* of the file can be read.                                                 *)
SizeIsSeen == {"write", "stat"} \cap world.faults = {}
SizeTracksFile == SizeIsSeen /\ step # "down" => size = inodes[file].length

(* Under the same condition, no file grows past max_size but by a single    *)
(* record longer than that (tests/rotation.rs:47-49).                       *)
SizeBound ==
    SizeIsSeen /\ MaxSize > 0 =>
        \A i \in 1..Len(inodes) :
            inodes[i].length <= MaxSize \/ Len(inodes[i].entries) <= 1

(* The ends of intervals: a multiple of the period, or a Monday, after the  *)
(* epoch; what lies before belongs to the first interval.                   *)
Boundary(t) ==
    /\ t > 0
    /\ \/ interval.kind = "Every" /\ interval.period > 0 /\ t % interval.period = 0
       \/ interval.kind = "Weekly" /\ (t - 4) % 7 = 0      \* 1970-01-05 was a Monday
Passed(s, t) == \E b \in s + 1..t : Boundary(b)

(* With a clock that only advances, while no call straddles the end of an   *)
(* interval and sinks are opened by the mtime of their file, the records of *)
(* one file were written in one interval, also across restarts (sink.rs,    *)
(* leftover_file_from_earlier_slot_rotates_on_first_write).                 *)
OneIntervalPerFile ==
    world.clock = "forward" /\ ~world.moves_in_call /\ world.modes = {"mtime"} =>
        \A i \in 1..Len(inodes) : \A j, k \in 1..Len(inodes[i].entries) :
            ~Passed(inodes[i].entries[j].at, inodes[i].entries[k].at)

(* When the end of an interval falls between the decision of write_bytes    *)
(* and its write, the record goes to a file of the interval before or, when *)
(* the file was made in the same call, of either; it is the last one there: *)
(* all the records of a file but the last were written in one interval      *)
(* (sink.rs:320-329, 352-353, 373-378).  A restart goes on behind the one   *)
(* that straddles, and a clock set back can repeat it.                      *)
OnlyTheLastStraddles ==
    world.clock = "forward" /\ crashes = 0 =>
        \A i \in 1..Len(inodes) :
            LET entries == inodes[i].entries IN
            \A j, k \in 1..Len(entries) - 1 : ~Passed(entries[j].at, entries[k].at)

(* A rotation begins only when the record does not fit, or in a later       *)
(* interval than the one in which the open file was created or last written *)
(* (sink.rs:320-329, 371-376): while the clock stands still in a call, and  *)
(* only advances where rotate_every may take an interval from it.           *)
ClockTold == ~world.moves_in_call /\ ("clock" \in world.modes => world.clock = "forward")
NoNeedlessRotation ==
    [][ClockTold /\ step = "idle" /\ step' \in {"remove", "open"} =>
          \/ MaxSize > 0 /\ inodes[file].length + bytes' > MaxSize
          \/ Passed(inodes[file].mtime, now)]_vars

(* Backups are removed only to keep their number at max_backups: once a    *)
(* record is gone, all the backups are there (sink.rs:209-211).             *)
Backups == {p \in 1..max_backups : dir[p] # 0}
FullBeforeLoss ==
    step = "idle" /\ accepted \ OnDisk # {} => Backups = 1..max_backups
==============================================================================
