----------------------------- MODULE FileProofs -----------------------------
(* Theorems about FileSink, for every limit of size and of backups, every   *)
(* interval, every world and restarts at any point; what a property asks of *)
(* the world is a condition in the property itself.                         *)
EXTENDS FileSink, SequenceTheorems, TLAPS

------------------------------------------------------------------------------
(* The inductive invariant.                                                 *)

Entry == [id : Nat, at : Times]
Inode == [entries : Seq(Entry), length : Nat, mtime : Times]
Rotating == {"remove", "shift", "rename"}

DiskTypeOK ==
    /\ inodes \in Seq(Inode)
    /\ dir \in [Paths -> 0..Len(inodes)]
    /\ file \in 1..Len(inodes)

CallTypeOK ==
    /\ world \in Worlds
    /\ size \in Nat
    /\ max_backups \in BackupLimits
    /\ now \in Times
    /\ step \in Rotating \cup {"idle", "open", "write", "down"}
    /\ slot \in Int
    /\ bytes \in Nat
    /\ next \in Nat
    /\ accepted \subseteq Nat

FileTypeOK == DiskTypeOK /\ CallTypeOK

(* Where write_bytes is, and what it has left in the directory by then.     *)
ControlInv ==
    /\ step \in Rotating => max_backups > 0
    /\ step = "remove" => slot = max_backups - 1
    /\ step = "shift" => slot \in 1..max_backups - 1
    /\ step = "open" /\ max_backups > 0 => dir[0] = 0
    /\ max_backups = 0 => dir[0] # 0

(* A file has one name, none beyond max_backups, and the open file is the   *)
(* newest of those that have a name.                                        *)
Newest(p) == p \in Present /\ \A q \in Present : p <= q

PlaceInv ==
    /\ \A p, q \in Present : dir[p] = dir[q] => p = q
    /\ \A p \in Present : p <= max_backups
    /\ Present # {} => \E p \in Present : Newest(p) /\ dir[p] = file

(* What a file holds has a number below that of the next record, in order.  *)
IdsOf(inode) == {inode.entries[k].id : k \in 1..Len(inode.entries)}
Sorted(inode) ==
    \A j, k \in 1..Len(inode.entries) : j < k => inode.entries[j].id < inode.entries[k].id

RecordInv ==
    /\ \A i \in 1..Len(inodes) : Sorted(inodes[i]) /\ \A x \in IdsOf(inodes[i]) : x < next
    /\ \A p, q \in Present : p < q =>
          \A x \in IdsOf(inodes[dir[p]]), y \in IdsOf(inodes[dir[q]]) : y < x

FileInv == FileTypeOK /\ ControlInv /\ PlaceInv /\ RecordInv

(* While no backup's rename fails, a file that is renamed replaces none, or *)
(* the oldest backup that could not be removed.                             *)
RoomInv ==
    /\ step = "shift" => dir[slot + 1] = 0 \/ slot + 1 = max_backups
    /\ step = "rename" => dir[1] = 0 \/ max_backups = 1

(* The record to be written fits, or it will be the first of its file.      *)
FitInv ==
    step = "write" /\ MaxSize > 0 =>
        size + bytes <= MaxSize \/ inodes[file].entries = <<>>

------------------------------------------------------------------------------
(* The world.                                                               *)

(* What a world allows is among the constants.                              *)
LEMMA WorldTyped ==
    ASSUME world \in Worlds
    PROVE  world.intervals \subseteq Intervals /\ world.times \subseteq Times
BY FileAssumption DEF AllWorlds

(* A behaviour stays in its world.                                          *)
LEMMA WorldKept == [Next]_vars => world' = world
BY DEF Next, vars, write_bytes, RemoveOldest, ShiftBackup, RenameActive, OpenFresh, WriteAll,
       Crash, Reopen, Tick, Exhausted

------------------------------------------------------------------------------
(* Names and files.                                                         *)

(* The names that files can have, and the files behind them.                *)
LEMMA Names ==
    ASSUME FileTypeOK
    PROVE  /\ Paths \subseteq Nat /\ 0 \in Paths /\ max_backups \in Nat
           /\ \A p \in Nat : p <= max_backups => p \in Paths
           /\ \A p \in Paths : dir[p] \in Nat /\ (dir[p] # 0 => dir[p] \in 1..Len(inodes))
           /\ Len(inodes) \in Nat
<1>1. BackupLimits \subseteq Nat /\ max_backups \in BackupLimits
    BY FileAssumption DEF FileTypeOK, CallTypeOK
<1>2. \A p : p \in Paths <=> \E m \in BackupLimits : p \in 0..m
    BY DEF Paths
<1>3. 0 \in Paths
    BY <1>1, <1>2
<1>4. \A p \in Paths : p \in Nat
    BY <1>1, <1>2
<1>5. \A p \in Nat : p <= max_backups => p \in Paths
    BY <1>1, <1>2
<1>6. \A p \in Paths : dir[p] \in 0..Len(inodes)
    BY DEF FileTypeOK, DiskTypeOK
<1>7. Len(inodes) \in Nat
    BY DEF FileTypeOK, DiskTypeOK
<1> QED BY <1>1, <1>3, <1>4, <1>5, <1>6, <1>7

(* A new file has nothing in it.                                            *)
LEMMA NewFileEmpty ==
    ASSUME FileTypeOK
    PROVE  /\ NewFile \in Inode /\ NewFile.entries = <<>> /\ NewFile.length = 0
           /\ IdsOf(NewFile) = {} /\ Sorted(NewFile)
BY DEF FileTypeOK, CallTypeOK, NewFile, Inode, IdsOf, Sorted

(* What a file holds is a sequence, and its length a number.                *)
LEMMA InodeAt ==
    ASSUME FileTypeOK, NEW i \in 1..Len(inodes)
    PROVE  inodes[i].entries \in Seq(Entry) /\ inodes[i].length \in Nat
<1>1. inodes[i] \in Inode
    BY DEF FileTypeOK, DiskTypeOK
<1> QED BY <1>1 DEF Inode

(* A record put into the open file stands at its end.                       *)
LEMMA Appended ==
    ASSUME FileTypeOK, NEW n \in Nat, AppendToFile(n)
    PROVE  /\ inodes' \in Seq(Inode) /\ Len(inodes') = Len(inodes)
           /\ \A i \in 1..Len(inodes) : i # file => inodes'[i] = inodes[i]
           /\ inodes'[file].entries = Append(inodes[file].entries, [id |-> next, at |-> now])
           /\ inodes'[file].length = inodes[file].length + n
<1>1. /\ inodes \in Seq(Inode) /\ file \in 1..Len(inodes) /\ now \in Times /\ next \in Nat
    BY DEF FileTypeOK, DiskTypeOK, CallTypeOK
<1>2. /\ inodes[file].entries \in Seq(Entry) /\ inodes[file].length \in Nat
    BY <1>1, InodeAt
<1> DEFINE e == [id |-> next, at |-> now]
           new == [entries |-> Append(inodes[file].entries, e),
                   length |-> inodes[file].length + n, mtime |-> now]
<1>3. Append(inodes[file].entries, e) \in Seq(Entry)
    <2>1. e \in Entry
        BY <1>1 DEF Entry
    <2> HIDE DEF e
    <2> QED BY <1>2, <2>1
<1>4. new \in Inode
    BY <1>1, <1>2, <1>3 DEF Inode
<1>5. inodes' = [inodes EXCEPT ![file] = new]
    BY DEF AppendToFile
<1> HIDE DEF new
<1>6. inodes' \in Seq(Inode) /\ Len(inodes') = Len(inodes)
    BY <1>1, <1>4, <1>5
<1>7. /\ \A i \in 1..Len(inodes) : i # file => inodes'[i] = inodes[i]
      /\ inodes'[file] = new
    BY <1>1, <1>5
<1> QED BY <1>6, <1>7 DEF new

(* An append adds the record being written behind the others of the file.   *)
LEMMA AppendedIds ==
    ASSUME FileTypeOK, NEW n \in Nat, AppendToFile(n),
           Sorted(inodes[file]), \A x \in IdsOf(inodes[file]) : x < next
    PROVE  /\ IdsOf(inodes'[file]) = IdsOf(inodes[file]) \cup {next}
           /\ Sorted(inodes'[file])
<1> DEFINE old == inodes[file].entries
           new == inodes'[file].entries
           e == [id |-> next, at |-> now]
<1>1. old \in Seq(Entry) /\ e \in Entry /\ new = Append(old, e)
    <2>1. file \in 1..Len(inodes) /\ next \in Nat /\ now \in Times
        BY DEF FileTypeOK, DiskTypeOK, CallTypeOK
    <2>2. old \in Seq(Entry) /\ new = Append(old, e)
        BY <2>1, InodeAt, Appended
    <2> QED BY <2>1, <2>2 DEF Entry
<1>2. e.id = next /\ next \in Nat
    BY DEF FileTypeOK, CallTypeOK
<1>3. \A k \in 1..Len(old) : old[k].id < next
    BY DEF IdsOf
<1>4. \A j, k \in 1..Len(old) : j < k => old[j].id < old[k].id
    BY DEF Sorted
<1> HIDE DEF old, new, e
<1>5. /\ Len(new) = Len(old) + 1 /\ Len(old) \in Nat
      /\ \A k \in 1..Len(old) : new[k] = old[k]
      /\ new[Len(old) + 1] = e
    BY <1>1
<1>6. \A k : k \in 1..Len(new) <=> k \in 1..Len(old) \/ k = Len(old) + 1
    BY <1>5
<1>7. IdsOf(inodes'[file]) = IdsOf(inodes[file]) \cup {next}
    <2>1. IdsOf(inodes'[file]) = {new[k].id : k \in 1..Len(new)}
        BY DEF IdsOf, new
    <2>2. IdsOf(inodes[file]) = {old[k].id : k \in 1..Len(old)}
        BY DEF IdsOf, old
    <2> QED BY <1>2, <1>5, <1>6, <2>1, <2>2
<1>8. \A j, k \in 1..Len(new) : j < k => new[j].id < new[k].id
    BY <1>2, <1>3, <1>4, <1>5, <1>6
<1> QED BY <1>7, <1>8 DEF Sorted, new

------------------------------------------------------------------------------
(* What a step does to the disk and the open file.                          *)

Keeps == UNCHANGED <<inodes, dir, file, accepted>> /\ next' \in {next, next + 1}
Reopens ==
    /\ dir[0] # 0 /\ file' = dir[0]
    /\ UNCHANGED <<inodes, dir, next, accepted>>
Creates ==
    /\ dir[0] = 0
    /\ inodes' = Append(inodes, NewFile)
    /\ dir' = [dir EXCEPT ![0] = Len(inodes) + 1]
    /\ file' = Len(inodes) + 1
    /\ UNCHANGED <<next, accepted>>
Truncates ==
    /\ max_backups = 0
    /\ inodes' = [inodes EXCEPT ![dir[0]] = NewFile]
    /\ file' = dir[0]
    /\ UNCHANGED <<dir, next, accepted>>
Removes ==
    /\ max_backups > 0
    /\ dir' = [dir EXCEPT ![max_backups] = 0]
    /\ UNCHANGED <<inodes, file, next, accepted>>
Moves(p) ==
    /\ p < max_backups /\ dir[p] # 0
    /\ dir' = [dir EXCEPT ![p + 1] = dir[p], ![p] = 0]
    /\ RoomInv => dir[p + 1] = 0 \/ p + 1 = max_backups
    /\ UNCHANGED <<inodes, file, next, accepted>>
Appends ==
    /\ \E n \in Nat : AppendToFile(n)
    /\ next' = next + 1
    /\ accepted' \in {accepted, accepted \cup {next}}
    /\ UNCHANGED <<dir, file>>

DiskStep ==
    \/ Keeps \/ Reopens \/ Creates \/ Truncates \/ Removes \/ Appends
    \/ \E p \in Nat : Moves(p)

(* Every action does one of the seven things to the disk.                   *)
LEMMA FileSteps ==
    ASSUME FileTypeOK, ControlInv, [Next]_vars
    PROVE  DiskStep /\ max_backups' = max_backups
<1> USE DEF DiskStep
<1>0. next \in Nat /\ bytes \in Nat /\ max_backups \in Nat /\ 0 \in Paths
    BY Names DEF FileTypeOK, CallTypeOK
<1>1. ASSUME NEW n \in Sizes, write_bytes(n) PROVE Keeps /\ max_backups' = max_backups
    BY <1>1 DEF write_bytes, disk, sink, Keeps
<1>2. CASE RemoveOldest
    BY <1>0, <1>2 DEF RemoveOldest, OldestBackup, ControlInv, Rotating, sink, Keeps, Removes
<1>3. CASE ShiftBackup
    <2>1. slot \in Nat /\ slot < max_backups
        BY <1>0, <1>3 DEF ShiftBackup, ControlInv
    <2> QED BY <1>3, <2>1 DEF ShiftBackup, Rename, sink, Keeps, Moves, RoomInv
<1>4. CASE RenameActive
    <2>1. 0 \in Nat /\ 0 < max_backups
        BY <1>0, <1>4 DEF RenameActive, ControlInv, Rotating
    <2>2. 0 + 1 = 1
        OBVIOUS
    <2>3. Keeps \/ Moves(0)
        BY <1>0, <1>4, <2>1, <2>2
        DEF RenameActive, ReturnError, Rename, sink, Keeps, Moves, RoomInv
    <2> QED BY <1>4, <2>1, <2>3 DEF RenameActive, sink
<1>5. CASE OpenFresh
    <2>1. max_backups > 0 => dir[0] = 0
        BY <1>5 DEF OpenFresh, ControlInv
    <2>2. max_backups > 0 \/ max_backups = 0
        BY <1>0
    <2>3. dir \in [Paths -> 0..Len(inodes)]
        BY DEF FileTypeOK, DiskTypeOK
    <2>4. Keeps \/ Creates \/ Truncates
        BY <1>0, <1>5, <2>1, <2>2, <2>3
        DEF OpenFresh, ReturnError, disk, sink, Keeps, Creates, Truncates
    <2> QED BY <1>5, <2>4 DEF OpenFresh, sink
<1>6. CASE WriteAll
    <2>1. \A n \in 1..bytes - 1 : n \in Nat
        BY <1>0
    <2> QED BY <1>0, <1>6, <2>1 DEF WriteAll, ReturnError, Keeps, Appends
<1>7. CASE Crash
    <2>1. \A n \in 1..bytes : n \in Nat
        BY <1>0
    <2> QED BY <1>0, <1>7, <2>1 DEF Crash, sink, Keeps, Appends
<1>8. ASSUME NEW mode \in OpenModes, Reopen(mode)
      PROVE (Reopens \/ Creates) /\ max_backups' = max_backups
    <2>1. dir \in [Paths -> 0..Len(inodes)]
        BY DEF FileTypeOK, DiskTypeOK
    <2> QED BY <1>0, <1>8, <2>1 DEF Reopen, Opened, disk, Reopens, Creates
<1>9. CASE Tick
    BY <1>9 DEF Tick, disk, sink, call, Keeps
<1>10. CASE UNCHANGED vars
    BY <1>10 DEF vars, disk, sink, call, Keeps
<1>11. CASE Exhausted
    BY <1>10, <1>11 DEF Exhausted
<1> QED BY <1>1, <1>2, <1>3, <1>4, <1>5, <1>6, <1>7, <1>8, <1>9, <1>10, <1>11 DEF Next

------------------------------------------------------------------------------
(* Types.                                                                   *)

(* Each of the seven keeps the types of the disk.                           *)
LEMMA DiskTyped ==
    ASSUME FileTypeOK, ControlInv, DiskStep
    PROVE  DiskTypeOK'
<1>1. /\ inodes \in Seq(Inode) /\ dir \in [Paths -> 0..Len(inodes)]
      /\ file \in 1..Len(inodes) /\ Len(inodes) \in Nat
    BY DEF FileTypeOK, DiskTypeOK
<1>2. CASE Keeps \/ Reopens
    BY <1>1, <1>2, Names DEF Keeps, Reopens, DiskTypeOK
<1>3. CASE Creates
    <2>1. inodes' \in Seq(Inode) /\ Len(inodes') = Len(inodes) + 1
        <3>1. NewFile \in Inode /\ inodes' = Append(inodes, NewFile)
            BY <1>3, NewFileEmpty DEF Creates
        <3> QED BY <1>1, <3>1
    <2>2. dir' \in [Paths -> 0..Len(inodes')]
        <3>1. \A q \in 0..Len(inodes) : q \in 0..Len(inodes')
            BY <1>1, <2>1
        <3>2. Len(inodes) + 1 \in 0..Len(inodes')
            BY <1>1, <2>1
        <3>3. dir \in [Paths -> 0..Len(inodes')]
            BY <1>1, <3>1
        <3> QED BY <1>3, <3>2, <3>3 DEF Creates
    <2>3. file' \in 1..Len(inodes')
        BY <1>1, <1>3, <2>1 DEF Creates
    <2> QED BY <2>1, <2>2, <2>3 DEF DiskTypeOK
<1>4. CASE Truncates
    <2>1. dir[0] \in 1..Len(inodes)
        BY <1>4, Names DEF Truncates, ControlInv
    <2>2. inodes' \in Seq(Inode) /\ Len(inodes') = Len(inodes)
        <3> DEFINE i == dir[0]
                   new == NewFile
        <3>1. new \in Inode /\ inodes' = [inodes EXCEPT ![i] = new]
            BY <1>4, NewFileEmpty DEF Truncates
        <3>2. i \in 1..Len(inodes)
            BY <2>1
        <3> HIDE DEF i, new
        <3> QED BY <1>1, <3>1, <3>2
    <2> QED BY <1>1, <1>4, <2>1, <2>2 DEF Truncates, DiskTypeOK
<1>5. CASE Removes
    <2>1. 0 \in 0..Len(inodes)
        BY <1>1
    <2>2. dir' \in [Paths -> 0..Len(inodes)]
        BY <1>1, <1>5, <2>1 DEF Removes
    <2> QED BY <1>1, <1>5, <2>2 DEF Removes, DiskTypeOK
<1>6. ASSUME NEW p \in Nat, Moves(p) PROVE DiskTypeOK'
    <2>1. p \in Paths
        BY <1>6, Names DEF Moves
    <2> QED BY <1>1, <1>6, <2>1 DEF Moves, DiskTypeOK
<1>7. CASE Appends
    <2>1. PICK n \in Nat : AppendToFile(n)
        BY <1>7 DEF Appends
    <2>2. inodes' \in Seq(Inode) /\ Len(inodes') = Len(inodes)
        BY <2>1, Appended
    <2> QED BY <1>1, <1>7, <2>2 DEF Appends, DiskTypeOK
<1> QED BY <1>2, <1>3, <1>4, <1>5, <1>6, <1>7 DEF DiskStep

(* Every step keeps the types of the call's own state.                      *)
LEMMA CallTyped ==
    ASSUME FileTypeOK, ControlInv, [Next]_vars
    PROVE  CallTypeOK'
<1>0. DiskTypeOK' /\ max_backups' = max_backups /\ world' = world
    BY FileSteps, DiskTyped, WorldKept
<1>1. CallTypeOK
    BY DEF FileTypeOK
<1> USE <1>0 DEF CallTypeOK, Rotating
<1>2. ASSUME NEW n \in Sizes, write_bytes(n) PROVE CallTypeOK'
    <2>1. n \in Nat /\ slot' \in Int
        BY <1>1, <1>2, FileAssumption, Names DEF write_bytes, FirstShift
    <2> QED BY <1>1, <1>2, <2>1 DEF write_bytes, sink
<1>3. CASE RemoveOldest
    BY <1>1, <1>3 DEF RemoveOldest, sink
<1>4. CASE ShiftBackup
    BY <1>1, <1>4 DEF ShiftBackup, sink
<1>5. CASE RenameActive
    <2>1. /\ step' \in {"open", "idle"} /\ next' \in {next, next + 1}
          /\ UNCHANGED <<size, max_backups, now, slot, bytes, accepted>>
        BY <1>5 DEF RenameActive, ReturnError, sink
    <2> QED BY <1>1, <2>1
<1>6. CASE OpenFresh
    <2>1. /\ step' \in {"write", "idle"} /\ next' \in {next, next + 1} /\ size' \in {size, 0}
          /\ UNCHANGED <<max_backups, now, slot, bytes, accepted>>
        BY <1>6 DEF OpenFresh, ReturnError, sink, FreshSize
    <2> QED BY <1>1, <2>1
<1>7. CASE WriteAll
    <2>1. /\ step' = "idle" /\ next' = next + 1 /\ size' \in {size, size + bytes}
          /\ accepted' \in {accepted, accepted \cup {next}}
          /\ UNCHANGED <<max_backups, now, slot, bytes>>
        BY <1>7 DEF WriteAll, ReturnError
    <2> QED BY <1>1, <2>1
<1>8. CASE Crash
    BY <1>1, <1>8 DEF Crash, sink
<1>9. ASSUME NEW mode \in OpenModes, Reopen(mode) PROVE CallTypeOK'
    <2>1. inodes'[file'].length \in Nat
        <3>1. inodes'[file'] \in Inode
            BY <1>0 DEF DiskTypeOK
        <3> QED BY <3>1 DEF Inode
    <2> QED BY <1>1, <1>9, <2>1 DEF Reopen, Opened
<1>10. CASE Tick
    BY <1>1, <1>10, WorldTyped DEF Tick, sink, call
<1>11. CASE UNCHANGED vars
    BY <1>1, <1>11 DEF vars, sink, call
<1>12. CASE Exhausted
    BY <1>11, <1>12 DEF Exhausted
<1> QED BY <1>2, <1>3, <1>4, <1>5, <1>6, <1>7, <1>8, <1>9, <1>10, <1>11, <1>12 DEF Next

(* Every step keeps what a rotation's place says of the names.              *)
LEMMA ControlInductive ==
    ASSUME FileTypeOK, ControlInv, [Next]_vars
    PROVE  ControlInv'
<1>0. /\ max_backups' = max_backups /\ max_backups \in Nat
      /\ dir \in [Paths -> 0..Len(inodes)] /\ 0 \in Paths /\ slot \in Int
    BY FileSteps, Names DEF FileTypeOK, DiskTypeOK, CallTypeOK
<1>1. max_backups = 0 => dir'[0] # 0
    <2> SUFFICES ASSUME max_backups = 0 PROVE dir'[0] # 0
        OBVIOUS
    <2>1. dir[0] # 0
        BY DEF ControlInv
    <2>2. ~Removes /\ ~Creates /\ \A p \in Nat : ~Moves(p)
        BY <2>1 DEF Removes, Creates, Moves
    <2> QED BY <2>1, <2>2, FileSteps DEF DiskStep, Keeps, Reopens, Truncates, Appends
<1> SUFFICES /\ step' \in Rotating => max_backups > 0
             /\ step' = "remove" => slot' = max_backups - 1
             /\ step' = "shift" => slot' \in 1..max_backups - 1
             /\ step' = "open" /\ max_backups > 0 => dir'[0] = 0
    BY <1>0, <1>1 DEF ControlInv
<1> USE <1>0 DEF ControlInv, Rotating
<1>2. ASSUME NEW n \in Sizes, write_bytes(n)
      PROVE  /\ step' \in Rotating => step' = "remove" /\ max_backups > 0 /\ slot' = max_backups - 1
             /\ step' = "open" => max_backups = 0
    BY <1>2 DEF write_bytes, FirstShift
<1>3. CASE RemoveOldest
    BY <1>3 DEF RemoveOldest, LastShift
<1>4. CASE ShiftBackup
    BY <1>4 DEF ShiftBackup, LastShift
<1>5. CASE RenameActive
    BY <1>5 DEF RenameActive, ReturnError, Rename
<1>6. CASE OpenFresh
    BY <1>6 DEF OpenFresh, ReturnError
<1>7. CASE WriteAll
    BY <1>7 DEF WriteAll, ReturnError
<1>8. CASE Crash
    BY <1>8 DEF Crash
<1>9. ASSUME NEW mode \in OpenModes, Reopen(mode) PROVE step' = "idle"
    BY <1>9 DEF Reopen, Opened
<1>10. CASE Tick
    BY <1>10 DEF Tick, disk, call
<1>11. CASE UNCHANGED vars
    BY <1>11 DEF vars, disk, call
<1>12. CASE Exhausted
    BY <1>11, <1>12 DEF Exhausted
<1> QED BY <1>2, <1>3, <1>4, <1>5, <1>6, <1>7, <1>8, <1>9, <1>10, <1>11, <1>12 DEF Next

------------------------------------------------------------------------------
(* The names of the files.                                                  *)

(* Where the names are after each kind of step.                             *)
LEMMA NamesAfter ==
    ASSUME FileTypeOK, ControlInv, PlaceInv
    PROVE  /\ Keeps \/ Reopens \/ Truncates \/ Appends =>
                 Present' = Present /\ dir' = dir
           /\ Creates => /\ Present' = Present \cup {0} /\ 0 \notin Present
                         /\ dir'[0] = Len(inodes) + 1
                         /\ \A q \in Present : dir'[q] = dir[q]
           /\ Removes => /\ Present' = Present \ {max_backups}
                         /\ \A q \in Present' : dir'[q] = dir[q]
           /\ \A p \in Nat : Moves(p) =>
                 /\ p \in Present /\ Present' = (Present \ {p}) \cup {p + 1}
                 /\ dir'[p + 1] = dir[p]
                 /\ \A q \in Present \ {p, p + 1} : dir'[q] = dir[q]
<1>0. /\ dir \in [Paths -> 0..Len(inodes)] /\ Paths \subseteq Nat /\ 0 \in Paths
      /\ max_backups \in Nat /\ max_backups \in Paths /\ Len(inodes) \in Nat
    BY Names DEF FileTypeOK, DiskTypeOK
<1>1. \A q : q \in Present <=> q \in Paths /\ dir[q] # 0
    BY DEF Present
<1>2. \A q : q \in Present' <=> q \in Paths /\ dir'[q] # 0
    BY DEF Present, Paths
<1>3. Keeps \/ Reopens \/ Truncates \/ Appends => Present' = Present /\ dir' = dir
    BY <1>1, <1>2 DEF Keeps, Reopens, Truncates, Appends
<1>4. ASSUME Creates
      PROVE  /\ Present' = Present \cup {0} /\ 0 \notin Present
             /\ dir'[0] = Len(inodes) + 1
             /\ \A q \in Present : dir'[q] = dir[q]
    BY <1>0, <1>1, <1>2, <1>4 DEF Creates
<1>5. ASSUME Removes
      PROVE  /\ Present' = Present \ {max_backups}
             /\ \A q \in Present' : dir'[q] = dir[q]
    BY <1>0, <1>1, <1>2, <1>5 DEF Removes
<1>6. ASSUME NEW p \in Nat, Moves(p)
      PROVE  /\ p \in Present /\ Present' = (Present \ {p}) \cup {p + 1}
             /\ dir'[p + 1] = dir[p]
             /\ \A q \in Present \ {p, p + 1} : dir'[q] = dir[q]
    <2>1. p \in Paths /\ p + 1 \in Paths /\ p # p + 1
        BY <1>0, <1>6, Names DEF Moves
    <2>2. \A q \in Paths :
              dir'[q] = IF q = p THEN 0 ELSE IF q = p + 1 THEN dir[p] ELSE dir[q]
        BY <1>0, <1>6, <2>1 DEF Moves
    <2> QED BY <1>1, <1>2, <1>6, <2>1, <2>2 DEF Moves
<1> QED BY <1>3, <1>4, <1>5, <1>6

(* Every step keeps that a file has one name, and the open file the newest  *)
(* or none.                                                                 *)
LEMMA PlaceInductive ==
    ASSUME FileTypeOK, ControlInv, PlaceInv, [Next]_vars
    PROVE  PlaceInv'
<1>0. /\ max_backups \in Nat /\ max_backups' = max_backups /\ DiskStep
      /\ Len(inodes) \in Nat
      /\ \A q \in Present : q \in Nat /\ dir[q] \in 1..Len(inodes)
      /\ 0 \in Paths
    BY FileSteps, Names DEF Present
<1>1. /\ \A p, q \in Present : dir[p] = dir[q] => p = q
      /\ \A p \in Present : p <= max_backups
      /\ Present # {} => \E p \in Present : (\A q \in Present : p <= q) /\ dir[p] = file
    BY DEF PlaceInv, Newest
<1> SUFFICES /\ \A p, q \in Present' : dir'[p] = dir'[q] => p = q
             /\ \A p \in Present' : p <= max_backups
             /\ Present' # {} =>
                   \E p \in Present' : (\A q \in Present' : p <= q) /\ dir'[p] = file'
    BY <1>0 DEF PlaceInv, Newest
<1>2. CASE Keeps \/ Appends
    BY <1>1, <1>2, NamesAfter DEF Keeps, Appends
<1>3. CASE Reopens \/ Truncates
    <2>1. 0 \in Present /\ file' = dir[0]
        BY <1>0, <1>3 DEF Reopens, Truncates, Present, ControlInv
    <2> QED BY <1>0, <1>1, <1>3, <2>1, NamesAfter
<1>4. CASE Creates
    <2>1. /\ Present' = Present \cup {0} /\ 0 \notin Present
          /\ dir'[0] = Len(inodes) + 1 /\ file' = Len(inodes) + 1
          /\ \A q \in Present : dir'[q] = dir[q]
        BY <1>4, NamesAfter DEF Creates
    <2>2. \A p, q \in Present' : dir'[p] = dir'[q] => p = q
        BY <1>0, <1>1, <2>1
    <2>3. \A p \in Present' : p <= max_backups
        BY <1>0, <1>1, <2>1
    <2>4. 0 \in Present' /\ (\A q \in Present' : 0 <= q) /\ dir'[0] = file'
        BY <1>0, <2>1
    <2> QED BY <2>2, <2>3, <2>4
<1>5. CASE Removes
    <2>1. /\ Present' = Present \ {max_backups} /\ file' = file
          /\ \A q \in Present' : dir'[q] = dir[q]
        BY <1>5, NamesAfter DEF Removes
    <2>2. \A p \in Present, q \in Present' : p <= q => p \in Present'
        BY <1>0, <1>1, <2>1
    <2> QED BY <1>1, <2>1, <2>2
<1>6. ASSUME NEW p \in Nat, Moves(p)
      PROVE  /\ \A r, q \in Present' : dir'[r] = dir'[q] => r = q
             /\ \A q \in Present' : q <= max_backups
             /\ \E m \in Present' : (\A q \in Present' : m <= q) /\ dir'[m] = file'
    <2>1. /\ p \in Present /\ Present' = (Present \ {p}) \cup {p + 1}
          /\ dir'[p + 1] = dir[p] /\ file' = file /\ p < max_backups
          /\ \A q \in Present \ {p, p + 1} : dir'[q] = dir[q]
        BY <1>6, NamesAfter DEF Moves
    <2>2. \A q \in Present' : q = p + 1 \/ q \in Present \ {p, p + 1}
        BY <2>1
    <2>3. ASSUME NEW r \in Present', NEW q \in Present', dir'[r] = dir'[q] PROVE r = q
        <3>1. CASE r = p + 1 /\ q # p + 1
            BY <1>1, <2>1, <2>2, <2>3, <3>1
        <3>2. CASE r # p + 1 /\ q = p + 1
            BY <1>1, <2>1, <2>2, <2>3, <3>2
        <3>3. CASE r # p + 1 /\ q # p + 1
            BY <1>1, <2>1, <2>2, <2>3, <3>3
        <3> QED BY <3>1, <3>2, <3>3
    <2>4. \A q \in Present' : q <= max_backups
        <3>1. p + 1 <= max_backups
            BY <1>0, <1>6, <2>1
        <3> QED BY <1>1, <2>2, <3>1
    <2>5. PICK m \in Present : (\A q \in Present : m <= q) /\ dir[m] = file
        BY <1>1, <2>1
    <2>6. CASE m = p
        <3>1. \A q \in Present : q # p => p + 1 <= q
            BY <1>0, <1>6, <2>5, <2>6
        <3>2. \A q \in Present' : p + 1 <= q
            BY <1>6, <2>2, <3>1
        <3> QED BY <2>1, <2>3, <2>4, <2>5, <2>6, <3>2
    <2>7. CASE m # p
        <3>1. m < p /\ m # p + 1
            <4>1. m \in Nat /\ m <= p
                BY <1>0, <2>1, <2>5
            <4> QED BY <2>7, <4>1
        <3>2. m \in Present' /\ dir'[m] = file'
            BY <2>1, <2>5, <2>7, <3>1
        <3>3. \A q \in Present' : m <= q
            BY <1>0, <2>2, <2>5, <3>1
        <3> QED BY <2>3, <2>4, <3>2, <3>3
    <2> QED BY <2>6, <2>7
<1> QED BY <1>0, <1>2, <1>3, <1>4, <1>5, <1>6 DEF DiskStep

------------------------------------------------------------------------------
(* The records in the files.                                                *)

(* What the files hold after each kind of step.                             *)
LEMMA FilesAfter ==
    ASSUME FileTypeOK, ControlInv, RecordInv
    PROVE  /\ Creates =>
                 /\ Len(inodes') = Len(inodes) + 1
                 /\ \A i \in 1..Len(inodes) : inodes'[i] = inodes[i]
                 /\ inodes'[Len(inodes) + 1] = NewFile
           /\ Truncates =>
                 /\ Len(inodes') = Len(inodes) /\ dir[0] \in 1..Len(inodes)
                 /\ \A i \in 1..Len(inodes) : i # dir[0] => inodes'[i] = inodes[i]
                 /\ inodes'[dir[0]] = NewFile
           /\ Appends =>
                 /\ Len(inodes') = Len(inodes) /\ file \in 1..Len(inodes)
                 /\ \A i \in 1..Len(inodes) : i # file => inodes'[i] = inodes[i]
                 /\ IdsOf(inodes'[file]) = IdsOf(inodes[file]) \cup {next}
                 /\ Sorted(inodes'[file])
<1>0. inodes \in Seq(Inode) /\ file \in 1..Len(inodes) /\ Len(inodes) \in Nat
    BY DEF FileTypeOK, DiskTypeOK
<1>1. ASSUME Creates
      PROVE  /\ Len(inodes') = Len(inodes) + 1
             /\ \A i \in 1..Len(inodes) : inodes'[i] = inodes[i]
             /\ inodes'[Len(inodes) + 1] = NewFile
    <2> DEFINE new == NewFile
    <2>1. inodes' = Append(inodes, new) /\ new \in Inode
        BY <1>1, NewFileEmpty DEF Creates
    <2> HIDE DEF new
    <2>2. /\ Len(inodes') = Len(inodes) + 1
          /\ \A i \in 1..Len(inodes) : inodes'[i] = inodes[i]
          /\ inodes'[Len(inodes) + 1] = new
        BY <1>0, <2>1
    <2> QED BY <2>2 DEF new
<1>2. ASSUME Truncates
      PROVE  /\ Len(inodes') = Len(inodes) /\ dir[0] \in 1..Len(inodes)
             /\ \A i \in 1..Len(inodes) : i # dir[0] => inodes'[i] = inodes[i]
             /\ inodes'[dir[0]] = NewFile
    <2> DEFINE n == dir[0]
               new == NewFile
    <2>1. n \in 1..Len(inodes)
        BY <1>2, Names DEF Truncates, ControlInv
    <2>2. inodes' = [inodes EXCEPT ![n] = new] /\ new \in Inode
        BY <1>2, NewFileEmpty DEF Truncates
    <2> HIDE DEF n, new
    <2>3. /\ Len(inodes') = Len(inodes)
          /\ \A i \in 1..Len(inodes) : i # n => inodes'[i] = inodes[i]
          /\ inodes'[n] = new
        BY <1>0, <2>1, <2>2
    <2> QED BY <2>1, <2>3 DEF n, new
<1>3. ASSUME Appends
      PROVE  /\ Len(inodes') = Len(inodes)
             /\ \A i \in 1..Len(inodes) : i # file => inodes'[i] = inodes[i]
             /\ IdsOf(inodes'[file]) = IdsOf(inodes[file]) \cup {next}
             /\ Sorted(inodes'[file])
    <2>1. PICK n \in Nat : AppendToFile(n)
        BY <1>3 DEF Appends
    <2>2. Sorted(inodes[file]) /\ \A x \in IdsOf(inodes[file]) : x < next
        BY <1>0 DEF RecordInv
    <2> QED BY <2>1, <2>2, Appended, AppendedIds
<1> QED BY <1>0, <1>1, <1>2, <1>3

(* Whatever is done to the disk, the records of each file stay in order.    *)
LEMMA RecordsInFiles ==
    ASSUME FileTypeOK, ControlInv, RecordInv, DiskStep
    PROVE  \A i \in 1..Len(inodes') :
              Sorted(inodes'[i]) /\ \A x \in IdsOf(inodes'[i]) : x < next'
<1>0. /\ \A i \in 1..Len(inodes) : Sorted(inodes[i]) /\ \A x \in IdsOf(inodes[i]) : x < next
      /\ next \in Nat /\ Len(inodes) \in Nat
    BY DEF RecordInv, FileTypeOK, CallTypeOK, DiskTypeOK
<1>1. \A i \in 1..Len(inodes) : \A x \in IdsOf(inodes[i]) : x \in Nat
    <2> SUFFICES ASSUME NEW i \in 1..Len(inodes), NEW k \in 1..Len(inodes[i].entries)
                 PROVE  inodes[i].entries[k].id \in Nat
        BY DEF IdsOf
    <2>1. inodes[i].entries[k] \in Entry
        BY InodeAt
    <2> QED BY <2>1 DEF Entry
<1>2. CASE Keeps
    <2>1. inodes' = inodes /\ next <= next' /\ next' \in Nat
        BY <1>0, <1>2 DEF Keeps
    <2>2. \A i \in 1..Len(inodes) : \A x \in IdsOf(inodes[i]) : x < next'
        BY <1>0, <1>1, <2>1
    <2> QED BY <1>0, <2>1, <2>2
<1>3. CASE Reopens \/ Removes \/ \E p \in Nat : Moves(p)
    BY <1>0, <1>3 DEF Reopens, Removes, Moves
<1>4. CASE Creates
    <2>1. \A i \in 1..Len(inodes') : i \in 1..Len(inodes) \/ i = Len(inodes) + 1
        BY <1>0, <1>4, FilesAfter
    <2> QED BY <1>0, <1>4, <2>1, FilesAfter, NewFileEmpty DEF Creates
<1>5. CASE Truncates
    <2>1. next' = next
        BY <1>5 DEF Truncates
    <2>2. \A i \in 1..Len(inodes') : inodes'[i] = NewFile \/ inodes'[i] = inodes[i]
        BY <1>5, FilesAfter
    <2>3. Len(inodes') = Len(inodes)
        BY <1>5, FilesAfter
    <2> QED BY <1>0, <2>1, <2>2, <2>3, NewFileEmpty
<1>6. CASE Appends
    <2>1. next' = next + 1 /\ next < next + 1
        BY <1>0, <1>6 DEF Appends
    <2>2. ASSUME NEW i \in 1..Len(inodes')
          PROVE  Sorted(inodes'[i]) /\ \A x \in IdsOf(inodes'[i]) : x < next'
        <3>1. \A x \in IdsOf(inodes[i]) : x < next + 1
            BY <1>0, <1>1, <1>6, FilesAfter
        <3> QED BY <1>0, <1>6, <2>1, <3>1, FilesAfter
    <2> QED BY <2>2
<1> QED BY <1>2, <1>3, <1>4, <1>5, <1>6 DEF DiskStep

(* Every step keeps the order of records, inside files and across them.     *)
LEMMA RecordInductive ==
    ASSUME FileInv, [Next]_vars
    PROVE  RecordInv'
<1> USE DEF FileInv
<1>0. /\ DiskStep /\ max_backups \in Nat /\ Len(inodes) \in Nat /\ next \in Nat
      /\ \A q \in Present : q \in Nat /\ dir[q] \in 1..Len(inodes)
    BY FileSteps, Names DEF Present, FileTypeOK, CallTypeOK
<1>1. \A p, q \in Present : p < q =>
          \A x \in IdsOf(inodes[dir[p]]), y \in IdsOf(inodes[dir[q]]) : y < x
    BY DEF RecordInv
<1> SUFFICES ASSUME NEW p \in Present', NEW q \in Present', p < q,
                    NEW x \in IdsOf(inodes'[dir'[p]]), NEW y \in IdsOf(inodes'[dir'[q]])
             PROVE  y < x
    BY <1>0, RecordsInFiles DEF RecordInv
<1>2. CASE Keeps \/ Reopens
    <2>1. Present' = Present /\ dir' = dir /\ inodes' = inodes
        BY <1>2, NamesAfter DEF Keeps, Reopens
    <2> QED BY <1>1, <2>1
<1>3. CASE Creates
    <2>1. p \in Present' /\ q \in Present /\ dir'[q] = dir[q] /\ p # q
        BY <1>0, <1>3, NamesAfter
    <2>2. p # 0
        BY <1>3, NamesAfter, FilesAfter, NewFileEmpty
    <2>3. p \in Present /\ dir'[p] = dir[p]
        BY <1>3, <2>2, NamesAfter
    <2> QED BY <1>0, <1>1, <1>3, <2>1, <2>3, FilesAfter
<1>4. CASE Truncates
    <2>1. p \in Present /\ q \in Present /\ max_backups = 0
        BY <1>4, NamesAfter DEF Truncates
    <2>2. p = 0 /\ q = 0
        BY <1>0, <2>1 DEF PlaceInv
    <2> QED BY <2>2
<1>5. CASE Removes
    BY <1>1, <1>5, NamesAfter DEF Removes
<1>6. ASSUME NEW r \in Nat, Moves(r) PROVE y < x
    <2>1. /\ r \in Present /\ Present' = (Present \ {r}) \cup {r + 1}
          /\ dir'[r + 1] = dir[r] /\ inodes' = inodes
          /\ \A o \in Present \ {r, r + 1} : dir'[o] = dir[o]
        BY <1>6, NamesAfter DEF Moves
    <2>2. CASE p = r + 1
        <3>1. q \in Present /\ q # r + 1 /\ dir'[q] = dir[q] /\ r < q
            BY <1>0, <1>6, <2>1, <2>2
        <3> QED BY <1>1, <2>1, <2>2, <3>1
    <2>3. CASE q = r + 1
        <3>1. p \in Present /\ p # r /\ dir'[p] = dir[p] /\ p < r
            BY <1>0, <1>6, <2>1, <2>3
        <3> QED BY <1>1, <2>1, <2>3, <3>1
    <2>4. CASE p # r + 1 /\ q # r + 1
        <3>1. p \in Present /\ q \in Present /\ dir'[p] = dir[p] /\ dir'[q] = dir[q]
            BY <2>1, <2>4
        <3> QED BY <1>1, <2>1, <3>1
    <2> QED BY <2>2, <2>3, <2>4
<1>7. CASE Appends
    <2>1. p \in Present /\ q \in Present /\ dir' = dir
        BY <1>7, NamesAfter
    <2>2. dir[q] # file
        <3> SUFFICES ASSUME dir[q] = file PROVE FALSE
            OBVIOUS
        <3>1. PICK m \in Present : (\A o \in Present : m <= o) /\ dir[m] = file
            BY <2>1 DEF PlaceInv, Newest
        <3>2. q = m
            BY <2>1, <3>1 DEF PlaceInv
        <3> QED BY <1>0, <2>1, <3>1, <3>2
    <2>3. y \in IdsOf(inodes[dir[q]])
        BY <1>0, <1>7, <2>1, <2>2, FilesAfter
    <2>4. y < next
        BY <1>0, <2>1, <2>3 DEF RecordInv
    <2>5. x \in IdsOf(inodes[dir[p]]) \/ x = next
        BY <1>0, <1>7, <2>1, FilesAfter
    <2> QED BY <1>1, <2>1, <2>3, <2>4, <2>5
<1> QED BY <1>0, <1>2, <1>3, <1>4, <1>5, <1>6, <1>7 DEF DiskStep

(* The invariant holds in every state, whatever fails and wherever the      *)
(* process stops.                                                           *)
LEMMA FileInitially == ASSUME Init PROVE FileInv
<1>1. now \in Times /\ NewFile \in Inode /\ 0 \in Nat
    BY WorldTyped DEF Init, NewFile, Inode
<1>2. /\ inodes \in Seq(Inode) /\ Len(inodes) = 1 /\ inodes[1] = NewFile
    <2> DEFINE new == NewFile
    <2>1. new \in Inode /\ inodes = <<new>>
        BY <1>1 DEF Init
    <2> HIDE DEF new
    <2>2. inodes \in Seq(Inode) /\ Len(inodes) = 1 /\ inodes[1] = new
        BY <2>1
    <2> QED BY <2>2 DEF new
<1>3. FileTypeOK
    BY <1>1, <1>2, FileAssumption DEF Init, FileTypeOK, DiskTypeOK, CallTypeOK
<1>4. /\ 0 \in Paths /\ max_backups \in Nat /\ \A p \in Paths : p \in Nat
    BY <1>3, Names
<1>5. dir[0] = 1 /\ Present = {0} /\ file = 1
    BY <1>4 DEF Init, Present
<1>6. ControlInv
    BY <1>5 DEF Init, ControlInv, Rotating
<1>7. PlaceInv
    BY <1>4, <1>5 DEF PlaceInv, Newest
<1>8. RecordInv
    <2>1. IdsOf(NewFile) = {} /\ Sorted(NewFile)
        BY <1>3, NewFileEmpty
    <2> QED BY <1>2, <1>5, <2>1 DEF RecordInv
<1> QED BY <1>3, <1>6, <1>7, <1>8 DEF FileInv

(* The invariant holds throughout.                                          *)
LEMMA FileInvariant == Spec => []FileInv
<1>1. Init => FileInv
    BY FileInitially
<1>2. FileInv /\ [Next]_vars => FileInv'
    <2> SUFFICES ASSUME FileInv, [Next]_vars PROVE FileInv'
        OBVIOUS
    <2>1. DiskTypeOK'
        BY FileSteps, DiskTyped DEF FileInv
    <2>2. CallTypeOK' /\ ControlInv' /\ PlaceInv'
        BY CallTyped, ControlInductive, PlaceInductive DEF FileInv
    <2>3. RecordInv'
        BY RecordInductive
    <2> QED BY <2>1, <2>2, <2>3 DEF FileInv, FileTypeOK
<1> QED BY <1>1, <1>2, PTL DEF Spec

(* The backups from the oldest on and then the active file hold the records *)
(* in the order they were written, each once.                               *)
THEOREM FilesInOrder == Spec => []OrderAcrossFiles
<1>1. FileInv => OrderAcrossFiles
    <2> SUFFICES ASSUME FileInv PROVE OrderAcrossFiles
        OBVIOUS
    <2>1. \A p \in Present : dir[p] \in 1..Len(inodes)
        BY Names DEF FileInv, Present
    <2>2. \A p \in Present : Sorted(inodes[dir[p]])
        BY <2>1 DEF FileInv, RecordInv
    <2>3. \A p, q \in Present : p < q =>
              \A i \in IdsAt(p), j \in IdsAt(q) : j < i
        BY DEF FileInv, RecordInv, IdsAt, EntriesAt, IdsOf
    <2> QED BY <2>2, <2>3 DEF OrderAcrossFiles, Sorted, EntriesAt
<1> QED BY <1>1, FileInvariant, PTL

------------------------------------------------------------------------------
(* The size.                                                                *)

SizeNow == step # "down" => size = inodes[file].length

(* What is put into the open file is the record, or a part of it in a crash,*)
(* and only the former is followed by another call.                         *)
LEMMA SizeInductive ==
    ASSUME SizeIsSeen, FileInv, SizeNow, [Next]_vars
    PROVE  SizeNow'
<1> USE DEF SizeNow
<1>0. FileTypeOK /\ ControlInv /\ RecordInv /\ bytes \in Nat
    BY DEF FileInv, FileTypeOK, CallTypeOK
<1>1. ASSUME NEW n \in Sizes, write_bytes(n) PROVE SizeNow'
    BY <1>1 DEF write_bytes, disk, sink
<1>2. CASE RemoveOldest
    BY <1>2 DEF RemoveOldest, sink
<1>3. CASE ShiftBackup
    BY <1>3 DEF ShiftBackup, sink
<1>4. CASE RenameActive
    BY <1>4 DEF RenameActive, sink
<1>5. CASE OpenFresh
    <2>1. CASE UNCHANGED <<disk, sink>>
        BY <1>5, <2>1 DEF OpenFresh, disk, sink
    <2>2. CASE ~UNCHANGED <<disk, sink>>
        <3>1. size' = 0 /\ (Creates \/ Truncates)
            <4>1. max_backups > 0 => dir[0] = 0
                BY <1>0, <1>5 DEF OpenFresh, ControlInv
            <4>2. (max_backups > 0 \/ max_backups = 0) /\ 0 \in Paths
                BY <1>0, Names
            <4>3. dir \in [Paths -> 0..Len(inodes)]
                BY <1>0 DEF FileTypeOK, DiskTypeOK
            <4> QED BY <1>5, <2>2, <4>1, <4>2, <4>3
                DEF OpenFresh, ReturnError, FreshSize, Creates, Truncates
        <3>2. inodes'[file'] = NewFile
            BY <1>0, <3>1, FilesAfter DEF Creates, Truncates
        <3> QED BY <1>0, <3>1, <3>2, NewFileEmpty
    <2> QED BY <2>1, <2>2
<1>6. CASE WriteAll
    <2>1. AppendToFile(bytes) /\ size' = size + bytes /\ file' = file
        BY <1>6 DEF WriteAll, Fails, SizeIsSeen
    <2>2. inodes'[file].length = inodes[file].length + bytes
        BY <1>0, <2>1, Appended
    <2>3. step # "down"
        BY <1>6 DEF WriteAll
    <2> QED BY <2>1, <2>2, <2>3
<1>7. CASE Crash
    BY <1>7 DEF Crash
<1>8. ASSUME NEW mode \in OpenModes, Reopen(mode) PROVE SizeNow'
    BY <1>8 DEF Reopen, Opened, Fails, SizeIsSeen
<1>9. CASE Tick
    BY <1>9 DEF Tick, disk, sink, call
<1>10. CASE UNCHANGED vars
    BY <1>10 DEF vars, disk, sink, call
<1>11. CASE Exhausted
    BY <1>10, <1>11 DEF Exhausted
<1> QED BY <1>1, <1>2, <1>3, <1>4, <1>5, <1>6, <1>7, <1>8, <1>9, <1>10, <1>11 DEF Next

(* size is the length of the open file as long as no write stops half-way   *)
(* without the process and the length of a file that is kept can be read.   *)
THEOREM SizeIsTracked == Spec => []SizeTracksFile
<1>1. Init => SizeTracksFile
    BY DEF Init, SizeTracksFile, NewFile
<1>2. FileInv /\ SizeTracksFile /\ [Next]_vars => SizeTracksFile'
    <2> SUFFICES ASSUME FileInv, SizeTracksFile, [Next]_vars, SizeIsSeen'
                 PROVE  SizeNow'
        BY DEF SizeTracksFile, SizeNow
    <2>1. SizeIsSeen
        BY WorldKept DEF SizeIsSeen
    <2> QED BY <2>1, SizeInductive DEF SizeTracksFile, SizeNow
<1> QED BY <1>1, <1>2, FileInvariant, PTL DEF Spec

(* Every step keeps that the record about to be written fits, or will be    *)
(* alone.                                                                   *)
LEMMA FitInductive ==
    ASSUME FileInv, FitInv, [Next]_vars
    PROVE  FitInv'
<1> USE DEF FitInv
<1>0. FileTypeOK /\ ControlInv /\ RecordInv
    BY DEF FileInv
<1>1. ASSUME NEW n \in Sizes, write_bytes(n) PROVE FitInv'
    <2>1. step' = "write" => ~size_hit(n)
        BY <1>1 DEF write_bytes
    <2>2. n \in Nat /\ size \in Nat /\ MaxSize \in Nat /\ size' = size /\ bytes' = n
        BY <1>0, <1>1, FileAssumption DEF write_bytes, sink, FileTypeOK, CallTypeOK
    <2> QED BY <2>1, <2>2 DEF size_hit
<1>2. CASE RemoveOldest \/ ShiftBackup \/ RenameActive \/ Crash
    BY <1>2 DEF RemoveOldest, ShiftBackup, RenameActive, ReturnError, Crash
<1>3. CASE WriteAll
    BY <1>3 DEF WriteAll, ReturnError
<1>4. CASE OpenFresh
    <2>1. CASE step' # "write"
        BY <2>1
    <2>2. CASE step' = "write"
        <3>1. Creates \/ Truncates
            <4>1. max_backups > 0 => dir[0] = 0
                BY <1>0, <1>4 DEF OpenFresh, ControlInv
            <4>2. (max_backups > 0 \/ max_backups = 0) /\ 0 \in Paths
                BY <1>0, Names
            <4>3. dir \in [Paths -> 0..Len(inodes)]
                BY <1>0 DEF FileTypeOK, DiskTypeOK
            <4> QED BY <1>4, <2>2, <4>1, <4>2, <4>3
                DEF OpenFresh, ReturnError, Creates, Truncates
        <3>2. inodes'[file'] = NewFile
            BY <1>0, <3>1, FilesAfter DEF Creates, Truncates
        <3> QED BY <1>0, <3>2, NewFileEmpty
    <2> QED BY <2>1, <2>2
<1>5. ASSUME NEW mode \in OpenModes, Reopen(mode) PROVE FitInv'
    BY <1>5 DEF Reopen, Opened
<1>6. CASE Tick
    BY <1>6 DEF Tick, disk, sink, call
<1>7. CASE UNCHANGED vars
    BY <1>7 DEF vars, disk, sink, call
<1>8. CASE Exhausted
    BY <1>7, <1>8 DEF Exhausted
<1> QED BY <1>1, <1>2, <1>3, <1>4, <1>5, <1>6, <1>7, <1>8 DEF Next

(* What a step adds to the open file is at most the record in hand, whose   *)
(* write has begun.                                                         *)
LEMMA AddsRecord ==
    ASSUME FileTypeOK, Appends, [Next]_vars
    PROVE  step = "write" /\ \E n \in 0..bytes : AppendToFile(n)
<1>0. next \in Nat /\ bytes \in Nat
    BY DEF FileTypeOK, CallTypeOK
<1>1. inodes' # inodes /\ file' = file
    <2>1. PICK n \in Nat : AppendToFile(n)
        BY DEF Appends
    <2>2. inodes'[file].entries = Append(inodes[file].entries, [id |-> next, at |-> now])
        BY <2>1, Appended
    <2>3. inodes[file].entries \in Seq(Entry) /\ [id |-> next, at |-> now] \in Entry
        BY InodeAt DEF FileTypeOK, DiskTypeOK, CallTypeOK, Entry
    <2> DEFINE e == [id |-> next, at |-> now]
               old == inodes[file].entries
    <2>4. old \in Seq(Entry) /\ e \in Entry /\ inodes'[file].entries = Append(old, e)
        BY <2>2, <2>3
    <2> HIDE DEF e, old
    <2>5. Append(old, e) # old
        BY <2>4
    <2> QED BY <2>4, <2>5 DEF old, Appends
<1>2. next' # next
    BY <1>0 DEF Appends
<1>3. ~RemoveOldest /\ ~ShiftBackup /\ ~Tick /\ ~Exhausted /\ ~UNCHANGED vars /\ ~RenameActive
      /\ \A n \in Sizes : ~write_bytes(n)
    BY <1>1 DEF RemoveOldest, ShiftBackup, Tick, Exhausted, RenameActive, write_bytes, vars, disk
<1>4. \A mode \in OpenModes : ~Reopen(mode)
    BY <1>2 DEF Reopen
<1>5. ~OpenFresh
    BY <1>1, <1>2 DEF OpenFresh, disk
<1>6. WriteAll \/ Crash
    BY <1>3, <1>4, <1>5 DEF Next
<1>7. /\ bytes \in 0..bytes
      /\ \A n \in 1..bytes - 1 : n \in 0..bytes
      /\ \A n \in 1..bytes : n \in 0..bytes
    BY <1>0
<1>8. CASE WriteAll
    BY <1>1, <1>7, <1>8 DEF WriteAll
<1>9. CASE Crash
    BY <1>1, <1>7, <1>9 DEF Crash
<1> QED BY <1>6, <1>8, <1>9

(* Every step keeps that a file passes max_size only with a single record.  *)
LEMMA BoundInductive ==
    ASSUME FileInv, SizeTracksFile, FitInv, SizeBound, [Next]_vars
    PROVE  SizeBound'
<1> SUFFICES ASSUME SizeIsSeen', MaxSize > 0, NEW i \in 1..Len(inodes')
             PROVE  inodes'[i].length <= MaxSize \/ Len(inodes'[i].entries) <= 1
    BY DEF SizeBound
<1>10. SizeIsSeen
    BY WorldKept DEF SizeIsSeen
<1>0. /\ FileTypeOK /\ ControlInv /\ RecordInv /\ DiskStep
      /\ MaxSize \in Nat /\ bytes \in Nat /\ size \in Nat /\ Len(inodes) \in Nat
      /\ \A k \in 1..Len(inodes) : inodes[k].length <= MaxSize \/ Len(inodes[k].entries) <= 1
    BY <1>10, FileSteps, FileAssumption
       DEF FileInv, FileTypeOK, CallTypeOK, DiskTypeOK, SizeBound
<1>1. CASE inodes' = inodes
    BY <1>0, <1>1
<1>2. CASE Creates \/ Truncates
    <2>1. inodes'[i] = NewFile \/ (i \in 1..Len(inodes) /\ inodes'[i] = inodes[i])
        BY <1>0, <1>2, FilesAfter
    <2>2. NewFile.length <= MaxSize
        BY <1>0, NewFileEmpty
    <2> QED BY <1>0, <2>1, <2>2
<1>3. CASE Appends
    <2>1. step = "write" /\ \E n \in 0..bytes : AppendToFile(n)
        BY <1>0, <1>3, AddsRecord
    <2>2. PICK n \in 0..bytes : AppendToFile(n)
        BY <2>1
    <2>3. n \in Nat /\ n <= bytes
        BY <1>0, <2>2
    <2>4. i \in 1..Len(inodes) /\ (i # file => inodes'[i] = inodes[i])
        BY <1>0, <2>2, <2>3, Appended
    <2>5. CASE size + bytes <= MaxSize
        <3>1. inodes'[file].length = inodes[file].length + n /\ size = inodes[file].length
            BY <1>0, <1>10, <2>1, <2>2, <2>3, Appended DEF SizeTracksFile
        <3>2. inodes'[file].length <= MaxSize
            BY <1>0, <2>3, <2>5, <3>1
        <3> QED BY <1>0, <2>4, <3>2
    <2>6. CASE inodes[file].entries = <<>>
        <3> DEFINE e == [id |-> next, at |-> now]
                   old == inodes[file].entries
        <3>1. inodes'[file].entries = Append(old, e) /\ old \in Seq(Entry)
            BY <1>0, <2>2, <2>3, Appended, InodeAt DEF FileTypeOK, DiskTypeOK
        <3>2. e \in Entry /\ Len(old) = 0
            BY <1>0, <2>6 DEF FileTypeOK, CallTypeOK, Entry
        <3> HIDE DEF e, old
        <3>3. Len(Append(old, e)) = Len(old) + 1
            BY <3>1, <3>2
        <3>4. Len(inodes'[file].entries) <= 1
            BY <3>1, <3>2, <3>3
        <3>5. CASE i = file
            BY <3>4, <3>5, Zenon
        <3>6. CASE i # file
            <4>1. inodes'[i] = inodes[i] /\ i \in 1..Len(inodes)
                BY <2>4, <3>6
            <4> QED BY <1>0, <4>1
        <3> QED BY <3>5, <3>6
    <2> QED BY <2>1, <2>5, <2>6 DEF FitInv
<1> QED BY <1>0, <1>1, <1>2, <1>3 DEF DiskStep, Keeps, Reopens, Removes, Moves

(* No file grows past MaxSize but by one record that is longer, also when a *)
(* crash leaves a part of one.                                              *)
THEOREM FilesAreBounded == Spec => []SizeBound
<1>1. Init => FitInv /\ SizeBound
    <2> SUFFICES ASSUME Init PROVE FitInv /\ SizeBound
        OBVIOUS
    <2>1. step = "idle" /\ inodes = <<NewFile>> /\ NewFile.length = 0 /\ MaxSize \in Nat
        BY FileAssumption DEF Init, NewFile
    <2> QED BY <2>1 DEF FitInv, SizeBound
<1>2. FileInv /\ FitInv /\ [Next]_vars => FitInv'
    BY FitInductive
<1>3. FileInv /\ SizeTracksFile /\ FitInv /\ SizeBound /\ [Next]_vars => SizeBound'
    BY BoundInductive
<1>4. Spec => []SizeTracksFile
    BY SizeIsTracked
<1> QED BY <1>1, <1>2, <1>3, <1>4, FileInvariant, PTL DEF Spec

------------------------------------------------------------------------------
(* What leaves the disk.                                                    *)

(* While no shift fails, every step keeps that a rename replaces the oldest *)
(* only.                                                                    *)
LEMMA RoomInductive ==
    ASSUME BackupsMove, FileTypeOK, ControlInv, RoomInv, [Next]_vars
    PROVE  RoomInv'
<1>0. /\ max_backups' = max_backups /\ max_backups \in Nat /\ slot \in Int
      /\ dir \in [Paths -> 0..Len(inodes)]
    BY FileSteps, Names DEF FileTypeOK, DiskTypeOK, CallTypeOK
<1> USE DEF RoomInv
<1>1. ASSUME NEW n \in Sizes, write_bytes(n) PROVE RoomInv'
    BY <1>1 DEF write_bytes
<1>2. CASE RemoveOldest
    <2>1. slot = max_backups - 1 /\ max_backups > 0
        BY <1>2 DEF RemoveOldest, ControlInv, Rotating
    <2>2. step' = "shift" => slot' + 1 = max_backups'
        BY <1>0, <1>2, <2>1 DEF RemoveOldest
    <2>3. step' = "rename" => max_backups' = 1
        BY <1>0, <1>2, <2>1 DEF RemoveOldest, LastShift
    <2> QED BY <1>2, <2>2, <2>3 DEF RemoveOldest
<1>3. CASE ShiftBackup
    <2>1. slot \in 1..max_backups - 1 /\ slot \in Paths
        BY <1>0, <1>3, Names DEF ShiftBackup, ControlInv
    <2>2. dir'[slot] = 0
        BY <1>0, <1>3, <2>1 DEF ShiftBackup, Rename, Fails, BackupsMove
    <2>3. slot' + 1 = slot /\ (step' = "rename" => slot = 1)
        BY <1>0, <1>3, <2>1 DEF ShiftBackup, LastShift
    <2> QED BY <1>3, <2>2, <2>3 DEF ShiftBackup
<1>4. CASE RenameActive \/ OpenFresh \/ WriteAll \/ Crash
    BY <1>4 DEF RenameActive, OpenFresh, WriteAll, ReturnError, Crash
<1>5. ASSUME NEW mode \in OpenModes, Reopen(mode) PROVE RoomInv'
    BY <1>5 DEF Reopen, Opened
<1>6. CASE Tick
    BY <1>0, <1>6 DEF Tick, disk, call
<1>7. CASE UNCHANGED vars
    BY <1>0, <1>7 DEF vars, disk, call
<1>8. CASE Exhausted
    BY <1>7, <1>8 DEF Exhausted
<1> QED BY <1>1, <1>2, <1>3, <1>4, <1>5, <1>6, <1>7, <1>8 DEF Next

(* The records on disk are those of the files that have a name.             *)
LEMMA OnDiskIs ==
    /\ \A x : x \in OnDisk <=> \E p \in Present : x \in IdsOf(inodes[dir[p]])
    /\ \A x : x \in OnDisk' <=> \E p \in Present' : x \in IdsOf(inodes'[dir'[p]])
    /\ \A p : IdsAt(p) = IdsOf(inodes[dir[p]])
BY DEF OnDisk, IdsAt, EntriesAt, IdsOf

(* A step that takes records from the disk takes those of the oldest file   *)
(* that may be kept, and what stays is newer.                               *)
LEMMA Lost ==
    ASSUME FileInv, RoomInv, [Next]_vars, NEW i \in OnDisk, i \notin OnDisk'
    PROVE  /\ dir[max_backups] # 0 /\ i \in IdsAt(max_backups)
           /\ \A j \in OnDisk' : i < j
<1> USE DEF FileInv
<1>0. /\ DiskStep /\ max_backups \in Nat /\ Len(inodes) \in Nat
      /\ \A q \in Present : q \in Nat /\ q <= max_backups /\ dir[q] \in 1..Len(inodes) /\ dir[q] # 0
    BY FileSteps, Names DEF Present, PlaceInv
<1>1. PICK p \in Present : i \in IdsOf(inodes[dir[p]])
    BY OnDiskIs
<1>2. \A q \in Present : q < p =>
          \A x \in IdsOf(inodes[dir[q]]) : i < x
    BY <1>1 DEF RecordInv
<1>3. ~(p \in Present' /\ i \in IdsOf(inodes'[dir'[p]]))
    BY OnDiskIs
<1>4. CASE Keeps \/ Reopens
    BY <1>1, <1>3, <1>4, NamesAfter DEF Keeps, Reopens
<1>5. CASE Creates
    <2>1. p \in Present' /\ inodes'[dir'[p]] = inodes[dir[p]]
        BY <1>0, <1>5, NamesAfter, FilesAfter
    <2> QED BY <1>1, <1>3, <2>1
<1>6. CASE Appends
    <2>1. p \in Present' /\ dir'[p] = dir[p]
        BY <1>6, NamesAfter
    <2>2. i \in IdsOf(inodes'[dir[p]])
        BY <1>0, <1>1, <1>6, FilesAfter
    <2> QED BY <1>3, <2>1, <2>2
<1>7. CASE Truncates
    <2>1. \A q \in Present : q = 0
        <3>1. max_backups = 0
            BY <1>7 DEF Truncates
        <3> QED BY <1>0, <3>1
    <2>2. max_backups = p /\ \A q \in Present' : q = 0 /\ dir'[q] = dir[0]
        BY <1>7, <2>1, NamesAfter DEF Truncates
    <2>3. \A j : j \notin OnDisk'
        BY <1>7, <2>2, OnDiskIs, FilesAfter, NewFileEmpty
    <2> QED BY <1>0, <1>1, <2>2, <2>3, OnDiskIs
<1>8. CASE Removes
    <2>1. inodes' = inodes /\ Present' = Present \ {max_backups}
          /\ \A q \in Present' : dir'[q] = dir[q]
        BY <1>8, NamesAfter DEF Removes
    <2>2. p = max_backups
        BY <1>1, <1>3, <2>1
    <2>3. \A q \in Present' : q \in Present /\ q < p
        BY <1>0, <2>1, <2>2
    <2> QED BY <1>0, <1>1, <1>2, <2>1, <2>2, <2>3, OnDiskIs
<1>9. ASSUME NEW r \in Nat, Moves(r)
      PROVE  /\ dir[max_backups] # 0 /\ i \in IdsAt(max_backups)
             /\ \A j \in OnDisk' : i < j
    <2>1. /\ inodes' = inodes /\ r \in Present /\ r < max_backups
          /\ Present' = (Present \ {r}) \cup {r + 1}
          /\ dir'[r + 1] = dir[r]
          /\ \A q \in Present \ {r, r + 1} : dir'[q] = dir[q]
          /\ dir[r + 1] = 0 \/ r + 1 = max_backups
        BY <1>9, NamesAfter DEF Moves
    <2>2. p # r
        BY <1>1, <2>1, OnDiskIs
    <2>3. p = r + 1
        BY <1>1, <1>3, <2>1, <2>2
    <2>4. p = max_backups
        BY <1>0, <2>1, <2>3
    <2>5. ASSUME NEW q \in Present'
          PROVE  \E o \in Present : o < p /\ dir'[q] = dir[o]
        <3>1. CASE q = r + 1
            BY <1>9, <2>1, <2>3, <3>1
        <3>2. CASE q # r + 1
            <4>1. q \in Present /\ q # r /\ dir'[q] = dir[q]
                BY <2>1, <2>5, <3>2
            <4> QED BY <1>0, <2>3, <2>4, <3>2, <4>1
        <3> QED BY <3>1, <3>2
    <2>6. ASSUME NEW j \in OnDisk' PROVE i < j
        <3>1. PICK q \in Present' : j \in IdsOf(inodes[dir'[q]])
            BY <2>1, OnDiskIs
        <3> QED BY <1>2, <2>5, <3>1
    <2> QED BY <1>0, <1>1, <2>4, <2>6, OnDiskIs
<1> QED BY <1>0, <1>4, <1>5, <1>6, <1>7, <1>8, <1>9 DEF DiskStep

(* What comes to the disk is the record in hand, unless the open file has   *)
(* no name any more; then nothing is left on the disk.                      *)
LEMMA Gained ==
    ASSUME FileInv, [Next]_vars
    PROVE  \/ OnDisk' \subseteq OnDisk /\ accepted' = accepted
           \/ /\ accepted' \subseteq accepted \cup {next}
              /\ OnDisk' \subseteq OnDisk \cup {next}
              /\ next \in OnDisk' \/ OnDisk' = {}
<1> USE DEF FileInv
<1>0. /\ DiskStep /\ Len(inodes) \in Nat
      /\ \A q \in Present : dir[q] \in 1..Len(inodes)
    BY FileSteps, Names DEF Present
<1>1. CASE Keeps \/ Reopens
    BY <1>1, NamesAfter, OnDiskIs DEF Keeps, Reopens
<1>2. CASE Creates
    <2>1. ASSUME NEW q \in Present', NEW x \in IdsOf(inodes'[dir'[q]])
          PROVE  x \in OnDisk
        <3>1. q \in Present /\ dir'[q] = dir[q]
            BY <1>2, <2>1, NamesAfter, FilesAfter, NewFileEmpty
        <3> QED BY <1>0, <1>2, <2>1, <3>1, FilesAfter, OnDiskIs
    <2> QED BY <1>2, <2>1, OnDiskIs DEF Creates
<1>3. CASE Truncates
    <2>1. ASSUME NEW q \in Present', NEW x \in IdsOf(inodes'[dir'[q]])
          PROVE  x \in OnDisk
        <3>1. q \in Present /\ dir'[q] = dir[q]
            BY <1>3, <2>1, NamesAfter
        <3>2. inodes'[dir[q]] = NewFile \/ inodes'[dir[q]] = inodes[dir[q]]
            BY <1>0, <1>3, <3>1, FilesAfter
        <3> QED BY <2>1, <3>1, <3>2, NewFileEmpty, OnDiskIs
    <2> QED BY <1>3, <2>1, OnDiskIs DEF Truncates
<1>4. CASE Removes
    BY <1>4, NamesAfter, OnDiskIs DEF Removes
<1>5. ASSUME NEW r \in Nat, Moves(r) PROVE OnDisk' \subseteq OnDisk /\ accepted' = accepted
    <2>1. /\ r \in Present /\ Present' = (Present \ {r}) \cup {r + 1} /\ inodes' = inodes
          /\ dir'[r + 1] = dir[r] /\ accepted' = accepted
          /\ \A q \in Present \ {r, r + 1} : dir'[q] = dir[q]
        BY <1>5, NamesAfter DEF Moves
    <2>2. ASSUME NEW q \in Present' PROVE \E o \in Present : dir'[q] = dir[o]
        <3>1. CASE q = r + 1
            BY <2>1, <3>1
        <3>2. CASE q # r + 1
            BY <2>1, <2>2, <3>2
        <3> QED BY <3>1, <3>2
    <2> QED BY <2>1, <2>2, OnDiskIs
<1>6. CASE Appends
    <2>1. Present' = Present /\ dir' = dir /\ accepted' \subseteq accepted \cup {next}
        BY <1>6, NamesAfter DEF Appends
    <2>2. ASSUME NEW q \in Present, NEW x \in IdsOf(inodes'[dir[q]])
          PROVE  x \in OnDisk \cup {next}
        <3>1. CASE dir[q] = file
            BY <1>6, <2>2, <3>1, FilesAfter, OnDiskIs
        <3>2. CASE dir[q] # file
            BY <1>0, <1>6, <2>2, <3>2, FilesAfter, OnDiskIs
        <3> QED BY <3>1, <3>2
    <2>3. CASE Present = {}
        BY <2>1, <2>2, <2>3, OnDiskIs
    <2>4. CASE Present # {}
        <3>1. PICK m \in Present : dir[m] = file
            BY <2>4 DEF PlaceInv
        <3>2. next \in IdsOf(inodes'[dir'[m]])
            BY <1>6, <2>1, <3>1, FilesAfter
        <3> QED BY <2>1, <2>2, <3>1, <3>2, OnDiskIs
    <2> QED BY <2>3, <2>4
<1> QED BY <1>0, <1>1, <1>2, <1>3, <1>4, <1>5, <1>6 DEF DiskStep

(* The records accepted so far are before the next one.                     *)
AcceptedInv == \A i \in accepted : i < next

(* Records that were accepted have numbers below the next one's.            *)
LEMMA AcceptedInductive ==
    ASSUME FileInv, AcceptedInv, [Next]_vars
    PROVE  AcceptedInv'
<1>1. DiskStep /\ next \in Nat /\ accepted \subseteq Nat
    BY FileSteps DEF FileInv, FileTypeOK, CallTypeOK
<1>2. \/ next' \in {next, next + 1} /\ accepted' = accepted
      \/ next' = next + 1 /\ accepted' \subseteq accepted \cup {next}
    BY <1>1 DEF DiskStep, Keeps, Reopens, Creates, Truncates, Removes, Moves, Appends
<1>3. \A i \in accepted : i \in Nat /\ i < next
    BY <1>1 DEF AcceptedInv
<1>4. CASE next' \in {next, next + 1} /\ accepted' = accepted
    BY <1>1, <1>3, <1>4 DEF AcceptedInv
<1>5. CASE next' = next + 1 /\ accepted' \subseteq accepted \cup {next}
    <2>1. \A i \in accepted \cup {next} : i < next + 1
        BY <1>1, <1>3
    <2> QED BY <1>5, <2>1 DEF AcceptedInv
<1> QED BY <1>2, <1>4, <1>5

(* Every step keeps that what is on the disk has no gap.                    *)
LEMMA HolesInductive ==
    ASSUME BackupsMove, FileInv, RoomInv, AcceptedInv, NoHoles, [Next]_vars
    PROVE  NoHoles'
<1> SUFFICES ASSUME NEW i \in accepted', i \notin OnDisk', NEW j \in OnDisk'
             PROVE  i < j
    BY DEF NoHoles
<1>1. CASE i \in accepted /\ i \in OnDisk
    BY <1>1, Lost
<1>2. CASE i \in accepted /\ i \notin OnDisk
    <2>1. j \in OnDisk \/ j = next
        BY Gained
    <2> QED BY <1>2, <2>1 DEF NoHoles, AcceptedInv
<1>3. CASE i \notin accepted
    BY <1>3, Gained
<1> QED BY <1>1, <1>2, <1>3

(* While no backup's rename fails, a step takes from the disk only what was *)
(* in the file at max_backups.                                              *)
THEOREM OldestLeaves == Spec => OnlyOldestLeaves
<1>1. Init => RoomInv
    BY DEF Init, RoomInv
<1>2. FileInv /\ (BackupsMove => RoomInv) /\ [Next]_vars => (BackupsMove => RoomInv)'
    <2>1. [Next]_vars => (BackupsMove' <=> BackupsMove)
        BY WorldKept DEF BackupsMove
    <2> QED BY <2>1, RoomInductive DEF FileInv
<1>3. FileInv /\ (BackupsMove => RoomInv) /\ [Next]_vars =>
          [BackupsMove =>
              OnDisk \ OnDisk' \subseteq IF dir[max_backups] # 0 THEN IdsAt(max_backups) ELSE {}]_vars
    BY Lost
<1> QED BY <1>1, <1>2, <1>3, FileInvariant, PTL DEF Spec, OnlyOldestLeaves

(* An accepted record that is no longer on disk is older than each that is. *)
THEOREM NoRecordIsSkipped == Spec => []NoHoles
<1>1. Init => RoomInv /\ AcceptedInv /\ NoHoles
    BY DEF Init, RoomInv, AcceptedInv, NoHoles
<1>2. FileInv /\ (BackupsMove => RoomInv) /\ AcceptedInv /\ NoHoles /\ [Next]_vars
          => (BackupsMove => RoomInv)' /\ AcceptedInv' /\ NoHoles'
    <2> SUFFICES ASSUME FileInv, BackupsMove => RoomInv, AcceptedInv, NoHoles, [Next]_vars
                 PROVE  (BackupsMove' => RoomInv') /\ AcceptedInv' /\ NoHoles'
        OBVIOUS
    <2>1. BackupsMove' <=> BackupsMove
        BY WorldKept DEF BackupsMove
    <2>2. AcceptedInv'
        BY AcceptedInductive
    <2>3. CASE BackupsMove
        BY <2>1, <2>2, <2>3, RoomInductive, HolesInductive DEF FileInv
    <2>4. CASE ~BackupsMove
        BY <2>1, <2>2, <2>4 DEF NoHoles
    <2> QED BY <2>3, <2>4
<1> QED BY <1>1, <1>2, FileInvariant, PTL DEF Spec

------------------------------------------------------------------------------
(* Intervals.                                                               *)

(* Every period divides the time line from the epoch.                        *)
LEMMA DivisionIs ==
    ASSUME NEW a \in Nat, NEW p \in Nat \ {0}
    PROVE  a \div p \in Nat /\ a % p = a - (a \div p) * p
OBVIOUS

(* The start of an interval is not after an instant in it, unless clamped to *)
(* 0.                                                                       *)
LEMMA SlotIs ==
    ASSUME NEW rule \in Intervals, NEW t \in Int
    PROVE  /\ slot_start(rule, t) \in Nat
           /\ slot_start(rule, t) > 0 => slot_start(rule, t) <= t
           /\ rule.period = 0 => slot_start(rule, t) = 0
<1> DEFINE u == unix_secs(t)
<1>1. u \in Nat /\ (u > 0 => u = t)
    BY DEF unix_secs
<1> HIDE DEF u
<1>2. CASE rule = Never
    BY <1>2 DEF slot_start, Never
<1>3. CASE rule = Weekly
    <2>1. iso_week_start(u) \in Nat /\ iso_week_start(u) <= u
        BY <1>1 DEF iso_week_start, EPOCH_MONDAY_OFFSET
    <2>2. slot_start(rule, t) = iso_week_start(u) /\ rule.period # 0
        BY <1>3 DEF slot_start, Weekly, u
    <2> QED BY <1>1, <2>1, <2>2
<1>4. CASE rule = Every(rule.period) /\ rule.period \in Nat
    <2>1. CASE rule.period = 0
        <3>1. rule.kind = "Every"
            BY <1>4 DEF Every
        <3> QED BY <2>1, <3>1 DEF slot_start
    <2>2. CASE rule.period # 0
        <3> DEFINE p == rule.period
        <3>1. p \in Nat \ {0} /\ rule.kind = "Every"
            BY <1>4, <2>2 DEF Every
        <3>2. slot_start(rule, t) = (u \div p) * p
            BY <3>1 DEF slot_start, u
        <3> HIDE DEF p
        <3>3. (u \div p) * p \in Nat /\ (u \div p) * p <= u
            BY <1>1, <3>1
        <3> QED BY <1>1, <3>2, <3>3, <2>2
    <2> QED BY <2>1, <2>2
<1> QED BY <1>2, <1>3, <1>4, FileAssumption

(* The start of the interval never falls as time advances.                  *)
LEMMA SlotsRise ==
    ASSUME NEW rule \in Intervals, NEW s \in Int, NEW t \in Int, s <= t
    PROVE  slot_start(rule, s) <= slot_start(rule, t)
<1> DEFINE u == unix_secs(s)
           v == unix_secs(t)
<1>1. u \in Nat /\ v \in Nat /\ u <= v
    BY DEF unix_secs
<1>2. CASE rule = Never \/ rule.period = 0
    BY <1>2, SlotIs DEF Never
<1>3. CASE rule = Weekly
    <2>1. slot_start(rule, s) = iso_week_start(u) /\ slot_start(rule, t) = iso_week_start(v)
        BY <1>3 DEF slot_start, Weekly
    <2> HIDE DEF u, v
    <2> QED BY <1>1, <2>1 DEF iso_week_start, EPOCH_MONDAY_OFFSET
<1>4. CASE rule = Every(rule.period) /\ rule.period \in Nat \ {0}
    <2> DEFINE p == rule.period
    <2>1. rule.kind = "Every" /\ p \in Nat \ {0}
        BY <1>4 DEF Every
    <2>2. slot_start(rule, s) = (u \div p) * p /\ slot_start(rule, t) = (v \div p) * p
        BY <2>1 DEF slot_start
    <2> HIDE DEF u, v, p
    <2>3. u \div p <= v \div p /\ u \div p \in Nat /\ v \div p \in Nat
        BY <1>1, <2>1
    <2>4. (u \div p) * p <= (v \div p) * p
        BY <2>1, <2>3
    <2> QED BY <2>2, <2>4
<1> QED BY <1>2, <1>3, <1>4, FileAssumption

(* An interval starts at its first instant, the end of the one before it.   *)
LEMMA SlotsAreBoundaries ==
    ASSUME interval \in Intervals, NEW t \in Int
    PROVE  /\ slot_start(interval, t) > 0 => Boundary(slot_start(interval, t))
           /\ Boundary(t) => slot_start(interval, t) = t /\ t > 0
<1> DEFINE start == slot_start(interval, t)
<1>1. start \in Nat /\ (start > 0 => start <= t) /\ (interval.period = 0 => start = 0)
    BY SlotIs
<1>2. start > 0 => unix_secs(t) = t /\ t \in Nat
    BY <1>1 DEF unix_secs
<1>3. t > 0 => unix_secs(t) = t /\ t \in Nat
    BY DEF unix_secs
<1>4. CASE interval = Never \/ interval = Every(0)
    <2>1. interval.period = 0 /\ interval.kind # "Weekly"
        BY <1>4 DEF Never, Every
    <2> QED BY <1>1, <2>1 DEF Boundary
<1>5. CASE interval = Weekly
    <2>1. start = iso_week_start(unix_secs(t)) /\ interval.kind = "Weekly"
        BY <1>5 DEF slot_start, Weekly
    <2>2. start > 0 => (start - 4) % 7 = 0
        BY <1>1, <1>2, <2>1 DEF iso_week_start, EPOCH_MONDAY_OFFSET
    <2>3. t > 0 /\ (t - 4) % 7 = 0 => start = t
        BY <1>3, <2>1 DEF iso_week_start, EPOCH_MONDAY_OFFSET
    <2> QED BY <2>1, <2>2, <2>3 DEF Boundary
<1>6. CASE interval = Every(interval.period) /\ interval.period \in Nat \ {0}
    <2> DEFINE p == interval.period
    <2>1. interval.kind = "Every" /\ p \in Nat \ {0} /\ p > 0
        BY <1>6 DEF Every
    <2>2. start = (unix_secs(t) \div p) * p
        BY <2>1 DEF slot_start
    <2> HIDE DEF p, start
    <2>3. start > 0 => start % p = 0
        <3> SUFFICES ASSUME start > 0 PROVE start % p = 0
            OBVIOUS
        <3>1. t \div p \in Nat /\ start = (t \div p) * p
            BY <1>2, <2>1, <2>2
        <3>2. \A k \in Nat : (k * p) % p = 0
            BY <2>1
        <3> QED BY <3>1, <3>2
    <2>4. t > 0 /\ t % p = 0 => start = t
        <3> SUFFICES ASSUME t > 0, t % p = 0 PROVE start = t
            OBVIOUS
        <3>1. start = (t \div p) * p /\ t \in Nat
            BY <1>3, <2>2
        <3>2. t % p = t - (t \div p) * p
            BY <2>1, <3>1, DivisionIs
        <3>3. t \div p \in Nat
            BY <2>1, <3>1, DivisionIs
        <3>4. (t \div p) * p \in Int
            BY <2>1, <3>3
        <3> HIDE DEF start
        <3> QED BY <3>1, <3>2, <3>4
    <2> QED BY <2>1, <2>3, <2>4 DEF Boundary, p, start
<1> QED BY <1>4, <1>5, <1>6, FileAssumption

(* The end of an interval lies between two instants when they are in        *)
(* different ones.                                                          *)
LEMMA PassedIs ==
    ASSUME interval \in Intervals, NEW s \in Int, NEW t \in Int
    PROVE  Passed(s, t) <=> slot_start(interval, t) > slot_start(interval, s)
<1> DEFINE S(x) == slot_start(interval, x)
<1>1. \A x \in Int : S(x) \in Nat /\ (S(x) > 0 => S(x) <= x)
    BY SlotIs
<1>2. \A x, y \in Int : x <= y => S(x) <= S(y)
    BY SlotsRise
<1>3. \A x \in Int : /\ S(x) > 0 => Boundary(S(x))
                     /\ Boundary(x) => S(x) = x /\ x > 0
    BY SlotsAreBoundaries
<1> HIDE DEF S
<1>4. ASSUME S(t) > S(s) PROVE Passed(s, t)
    <2>1. S(t) > 0 /\ S(t) <= t /\ S(t) \in Int
        BY <1>1, <1>4
    <2>2. Boundary(S(t)) /\ S(S(t)) = S(t)
        BY <1>3, <2>1
    <2>3. ~(S(t) <= s)
        BY <1>1, <1>2, <1>4, <2>1, <2>2
    <2>4. S(t) \in s + 1..t
        BY <2>1, <2>3
    <2> QED BY <2>2, <2>4 DEF Passed
<1>5. ASSUME Passed(s, t) PROVE S(t) > S(s)
    <2>1. PICK b \in s + 1..t : Boundary(b)
        BY <1>5 DEF Passed
    <2>2. b \in Int /\ S(b) = b /\ b > 0 /\ b <= t /\ s < b
        BY <1>3, <2>1
    <2>3. S(t) >= b
        BY <1>1, <1>2, <2>2
    <2>4. S(s) < b
        BY <1>1, <2>2
    <2> QED BY <1>1, <2>2, <2>3, <2>4
<1> QED BY <1>4, <1>5 DEF S

(* What a step does to the times of the files, and to interval_start.       *)
Stays ==
    /\ UNCHANGED <<inodes, file, interval_start, now>>
    /\ step = "down" => step' = "down"
    /\ step' = "write" => step = "write"
Begins ==
    /\ UNCHANGED <<inodes, file, interval_start, now>>
    /\ step = "idle" /\ ~interval_elapsed
Renews ==
    /\ Creates \/ Truncates
    /\ interval_start' = slot_start(interval, now) /\ now' = now
Writes ==
    /\ step = "write" /\ step' # "write"
    /\ \E n \in Nat : AppendToFile(n)
    /\ UNCHANGED <<file, interval_start, now>>
Opens(mode) ==
    /\ step = "down" /\ step' = "idle" /\ mode \in world.modes
    /\ Reopens \/ Creates
    /\ interval_start' = slot_start(interval, IF mode = "mtime" THEN inodes'[file'].mtime ELSE now)
    /\ now' = now
Ticks ==
    /\ UNCHANGED <<inodes, file, interval_start, step>>
    /\ world.moves_in_call \/ step \in {"idle", "down"}
    /\ now' \in Times /\ (world.clock = "forward" => now' > now)

TimeStep ==
    Stays \/ Begins \/ Renews \/ Writes \/ Ticks \/ \E mode \in OpenModes : Opens(mode)

(* Every action does one of the six things to the times.                    *)
LEMMA TimeSteps ==
    ASSUME FileTypeOK, ControlInv, [Next]_vars
    PROVE  TimeStep /\ interval' = interval
<1> USE DEF TimeStep
<1>0. /\ next \in Nat /\ bytes \in Nat /\ max_backups \in Nat /\ 0 \in Paths
      /\ dir \in [Paths -> 0..Len(inodes)]
    BY Names DEF FileTypeOK, CallTypeOK, DiskTypeOK
<1>1. ASSUME NEW n \in Sizes, write_bytes(n) PROVE (Stays \/ Begins) /\ interval' = interval
    BY <1>1 DEF write_bytes, disk, sink, Stays, Begins
<1>2. CASE RemoveOldest
    BY <1>2 DEF RemoveOldest, sink, Stays
<1>3. CASE ShiftBackup
    BY <1>3 DEF ShiftBackup, sink, Stays
<1>4. CASE RenameActive
    BY <1>4 DEF RenameActive, ReturnError, sink, Stays
<1>5. CASE OpenFresh
    <2>1. max_backups > 0 => dir[0] = 0
        BY <1>5 DEF OpenFresh, ControlInv
    <2>2. max_backups > 0 \/ max_backups = 0
        BY <1>0
    <2>3. Stays \/ Renews
        BY <1>0, <1>5, <2>1, <2>2
        DEF OpenFresh, ReturnError, disk, sink, FreshStart, Stays, Renews, Creates, Truncates
    <2> QED BY <1>5, <2>3 DEF OpenFresh, sink
<1>6. CASE WriteAll
    <2>1. \A n \in 1..bytes - 1 : n \in Nat
        BY <1>0
    <2> QED BY <1>0, <1>6, <2>1 DEF WriteAll, ReturnError, Stays, Writes
<1>7. CASE Crash
    <2>1. \A n \in 1..bytes : n \in Nat
        BY <1>0
    <2> QED BY <1>0, <1>7, <2>1 DEF Crash, sink, Stays, Writes
<1>8. ASSUME NEW mode \in OpenModes, Reopen(mode) PROVE Opens(mode) /\ interval' = interval
    <2>1. Reopens \/ Creates
        BY <1>0, <1>8 DEF Reopen, Opened, disk, Reopens, Creates
    <2>2. interval' = interval
        BY <1>8 DEF Reopen
    <2>3. /\ step = "down" /\ step' = "idle" /\ now' = now /\ mode \in world.modes
          /\ interval_start' = slot_start(interval, IF mode = "mtime" THEN inodes'[file'].mtime
                                                    ELSE now)
        BY <1>8 DEF Reopen, Opened, interval_start_for
    <2> QED BY <2>1, <2>2, <2>3 DEF Opens
<1>9. CASE Tick
    BY <1>9, WorldTyped DEF Tick, disk, sink, call, Ticks, FileTypeOK, CallTypeOK
<1>10. CASE UNCHANGED vars
    BY <1>10 DEF vars, disk, sink, call, Stays
<1>11. CASE Exhausted
    BY <1>10, <1>11 DEF Exhausted
<1> QED BY <1>1, <1>2, <1>3, <1>4, <1>5, <1>6, <1>7, <1>8, <1>9, <1>10, <1>11 DEF Next

(* Times are integers.                                                      *)
LEMMA TimesTyped ==
    ASSUME FileTypeOK
    PROVE  /\ now \in Int /\ file \in 1..Len(inodes) /\ NewFile.mtime = now
           /\ \A i \in 1..Len(inodes) :
                 /\ inodes[i].mtime \in Int
                 /\ \A k \in 1..Len(inodes[i].entries) : inodes[i].entries[k].at \in Int
<1>1. now \in Times /\ Times \subseteq Int /\ file \in 1..Len(inodes)
    BY FileAssumption DEF FileTypeOK, CallTypeOK, DiskTypeOK
<1>2. ASSUME NEW i \in 1..Len(inodes)
      PROVE  /\ inodes[i].mtime \in Int
             /\ \A k \in 1..Len(inodes[i].entries) : inodes[i].entries[k].at \in Int
    <2>1. inodes[i] \in Inode
        BY DEF FileTypeOK, DiskTypeOK
    <2>2. inodes[i].mtime \in Times /\ inodes[i].entries \in Seq(Entry)
        BY <2>1 DEF Inode
    <2>3. \A e \in Entry : e.at \in Times
        BY DEF Entry
    <2>4. \A k \in 1..Len(inodes[i].entries) : inodes[i].entries[k] \in Entry
        BY <2>2
    <2> QED BY <1>1, <2>2, <2>3, <2>4
<1> QED BY <1>1, <1>2 DEF NewFile

(* A write stamps the file and the record with the present, and no other    *)
(* file.                                                                    *)
LEMMA WrittenNow ==
    ASSUME FileTypeOK, Writes
    PROVE  /\ Len(inodes') = Len(inodes)
           /\ \A i \in 1..Len(inodes) : i # file => inodes'[i] = inodes[i]
           /\ inodes'[file].mtime = now
           /\ inodes'[file].entries = Append(inodes[file].entries, [id |-> next, at |-> now])
           /\ \A k \in 1..Len(inodes'[file].entries) :
                 \/ inodes'[file].entries[k].at = now
                 \/ /\ k \in 1..Len(inodes[file].entries)
                    /\ inodes'[file].entries[k] = inodes[file].entries[k]
<1>1. PICK n \in Nat : AppendToFile(n)
    BY DEF Writes
<1>2. /\ Len(inodes') = Len(inodes)
      /\ \A i \in 1..Len(inodes) : i # file => inodes'[i] = inodes[i]
      /\ inodes'[file].entries = Append(inodes[file].entries, [id |-> next, at |-> now])
    BY <1>1, Appended
<1>3. inodes'[file].mtime = now
    BY <1>1 DEF AppendToFile, FileTypeOK, DiskTypeOK
<1> DEFINE old == inodes[file].entries
           e == [id |-> next, at |-> now]
<1>4. old \in Seq(Entry) /\ e \in Entry /\ e.at = now
    <2>1. file \in 1..Len(inodes) /\ next \in Nat /\ now \in Times
        BY DEF FileTypeOK, DiskTypeOK, CallTypeOK
    <2> QED BY <2>1, InodeAt DEF Entry
<1> HIDE DEF old, e
<1>5. \A k \in 1..Len(Append(old, e)) : \/ Append(old, e)[k] = e
                                        \/ k \in 1..Len(old) /\ Append(old, e)[k] = old[k]
    BY <1>4, AppendProperties
<1> QED BY <1>2, <1>3, <1>4, <1>5 DEF old, e

(* While the clock only advances, no file is younger than it.               *)
ClockInv == \A i \in 1..Len(inodes) : inodes[i].mtime <= now

(* A clock that only advances keeps that.                                   *)
LEMMA ClockInductive ==
    ASSUME world.clock = "forward", FileInv, ClockInv, [Next]_vars
    PROVE  ClockInv'
<1>0. FileTypeOK /\ ControlInv /\ RecordInv /\ TimeStep
    BY TimeSteps DEF FileInv
<1>1. /\ now \in Int /\ file \in 1..Len(inodes) /\ NewFile.mtime = now /\ Len(inodes) \in Nat
      /\ \A i \in 1..Len(inodes) : inodes[i].mtime \in Int /\ inodes[i].mtime <= now
    BY <1>0, TimesTyped DEF ClockInv, FileTypeOK, DiskTypeOK
<1>2. ASSUME Reopens \/ Creates \/ Truncates, now' = now PROVE ClockInv'
    <2>1. ASSUME NEW i \in 1..Len(inodes')
          PROVE  inodes'[i] = NewFile \/ (i \in 1..Len(inodes) /\ inodes'[i] = inodes[i])
        BY <1>0, <1>1, <1>2, FilesAfter DEF Reopens
    <2> QED BY <1>1, <1>2, <2>1 DEF ClockInv
<1>3. CASE Writes
    BY <1>0, <1>1, <1>3, WrittenNow DEF ClockInv, Writes
<1>4. CASE Ticks
    <2>1. now' > now /\ now' \in Int /\ inodes' = inodes
        BY <1>4, FileAssumption DEF Ticks
    <2> QED BY <1>1, <2>1 DEF ClockInv
<1>5. CASE Stays \/ Begins
    BY <1>1, <1>5 DEF Stays, Begins, ClockInv
<1> QED BY <1>0, <1>2, <1>3, <1>4, <1>5 DEF TimeStep, Renews, Opens

(* interval_start is not before the interval of the open file's mtime, nor  *)
(* before the present one where write_bytes has found that not elapsed.     *)
StartInv ==
    /\ interval \in Intervals /\ interval_start \in Nat
    /\ step # "down" => slot_start(interval, inodes[file].mtime) <= interval_start
    /\ step = "write" => slot_start(interval, now) <= interval_start

(* Every step keeps what interval_start is not before.                      *)
LEMMA StartInductive ==
    ASSUME ~world.moves_in_call, "clock" \in world.modes => ClockInv,
           FileInv, StartInv, [Next]_vars
    PROVE  StartInv'
<1> DEFINE S(t) == slot_start(interval, t)
<1>0. FileTypeOK /\ ControlInv /\ RecordInv /\ TimeStep /\ interval' = interval
    BY TimeSteps DEF FileInv
<1>1. /\ now \in Int /\ file \in 1..Len(inodes) /\ NewFile.mtime = now /\ Len(inodes) \in Nat
      /\ \A i \in 1..Len(inodes) : inodes[i].mtime \in Int
    BY <1>0, TimesTyped DEF FileTypeOK, DiskTypeOK
<1>2. \A t \in Int : S(t) \in Nat /\ (interval.period = 0 => S(t) = 0)
    BY SlotIs DEF StartInv
<1>3. interval \in Intervals /\ interval_start \in Nat
    BY DEF StartInv
<1>4. DiskTypeOK'
    BY <1>0, FileSteps, DiskTyped
<1>5. /\ step # "down" => S(inodes[file].mtime) <= interval_start
      /\ step = "write" => S(now) <= interval_start
    BY DEF StartInv
<1> SUFFICES /\ interval_start' \in Nat
             /\ step' # "down" => S(inodes'[file'].mtime) <= interval_start'
             /\ step' = "write" => S(now') <= interval_start'
    BY <1>0, <1>3 DEF StartInv
<1>6. CASE Stays
    BY <1>3, <1>5, <1>6 DEF Stays
<1>7. CASE Begins
    <2>1. step # "down" /\ step # "write" /\ interval_start' = interval_start
        BY <1>7 DEF Begins
    <2>2. interval.period > 0 => ~(S(now) > interval_start)
        BY <1>7 DEF Begins, interval_elapsed
    <2>3. S(now) <= interval_start
        <3>1. CASE interval.period = 0
            BY <1>1, <1>2, <1>3, <3>1
        <3>2. CASE interval.period > 0
            BY <1>1, <1>2, <1>3, <2>2, <3>2
        <3>3. interval.period \in Nat
            BY <1>3, FileAssumption DEF Never, Weekly
        <3> QED BY <3>1, <3>2, <3>3
    <2> QED BY <1>3, <1>5, <1>7, <2>1, <2>3 DEF Begins
<1>8. CASE Renews
    <2>1. inodes'[file'] = NewFile
        BY <1>0, <1>8, FilesAfter DEF Renews, Creates, Truncates
    <2>2. S(inodes'[file'].mtime) = S(now) /\ interval_start' = S(now) /\ S(now') = S(now)
        BY <1>1, <1>8, <2>1 DEF Renews
    <2>3. S(now) \in Nat
        BY <1>1, <1>2
    <2> HIDE DEF S
    <2> QED BY <2>2, <2>3
<1>9. CASE Writes
    <2>1. inodes'[file'].mtime = now /\ now' = now /\ interval_start' = interval_start
        BY <1>0, <1>9, WrittenNow DEF Writes
    <2>2. step = "write" /\ step' # "write"
        BY <1>9 DEF Writes
    <2> QED BY <1>3, <1>5, <2>1, <2>2
<1>10. CASE Ticks
    <2>1. step' = step /\ step # "write" /\ UNCHANGED <<inodes, file, interval_start>>
        BY <1>10 DEF Ticks
    <2> QED BY <1>3, <1>5, <2>1
<1>11. ASSUME NEW mode \in OpenModes, Opens(mode)
       PROVE  /\ interval_start' \in Nat /\ step' # "write"
              /\ S(inodes'[file'].mtime) <= interval_start'
    <2> DEFINE m == inodes'[file'].mtime
    <2>1. (m = now \/ \E i \in 1..Len(inodes) : m = inodes[i].mtime) /\ m \in Int
        <3>1. CASE Creates
            BY <1>0, <1>1, <3>1, FilesAfter DEF Creates
        <3>2. CASE Reopens
            <4>1. inodes' = inodes /\ file' \in 1..Len(inodes')
                BY <1>4, <3>2 DEF Reopens, DiskTypeOK
            <4> QED BY <1>1, <4>1
        <3> QED BY <1>11, <3>1, <3>2 DEF Opens
    <2>2. interval_start' = S(IF mode = "mtime" THEN m ELSE now) /\ step' = "idle"
        BY <1>11 DEF Opens
    <2> HIDE DEF m
    <2>3. S(m) \in Nat /\ S(now) \in Nat
        BY <1>1, <1>2, <2>1
    <2>4. mode # "mtime" => S(m) <= S(now)
        <3> SUFFICES ASSUME mode # "mtime" PROVE S(m) <= S(now)
            OBVIOUS
        <3>1. mode = "clock" /\ "clock" \in world.modes
            BY <1>11 DEF OpenModes, Opens
        <3>2. m <= now
            BY <1>1, <2>1, <3>1 DEF ClockInv
        <3> QED BY <1>1, <1>3, <2>1, <3>2, SlotsRise
    <2> HIDE DEF S
    <2>5. interval_start' \in Nat /\ S(m) <= interval_start'
        BY <2>2, <2>3, <2>4
    <2> QED BY <2>2, <2>5 DEF m
<1> QED BY <1>0, <1>6, <1>7, <1>8, <1>9, <1>10, <1>11 DEF TimeStep

(* Nor is it after that interval, when a sink is opened by the file's mtime.*)
NoLaterInv ==
    step # "down" => interval_start <= slot_start(interval, inodes[file].mtime)

(* Every step keeps what interval_start is not after.                       *)
LEMMA NoLaterInductive ==
    ASSUME "clock" \notin world.modes, FileInv, ClockInv, StartInv, NoLaterInv, [Next]_vars
    PROVE  NoLaterInv'
<1> DEFINE S(t) == slot_start(interval, t)
<1>0. FileTypeOK /\ ControlInv /\ RecordInv /\ TimeStep /\ interval' = interval
    BY TimeSteps DEF FileInv
<1>1. /\ now \in Int /\ file \in 1..Len(inodes) /\ NewFile.mtime = now
      /\ \A i \in 1..Len(inodes) : inodes[i].mtime \in Int /\ inodes[i].mtime <= now
    BY <1>0, TimesTyped DEF ClockInv
<1>2. interval \in Intervals /\ interval_start \in Nat /\ \A t \in Int : S(t) \in Nat
    BY SlotIs DEF StartInv
<1>3. step # "down" => interval_start <= S(inodes[file].mtime)
    BY DEF NoLaterInv
<1> SUFFICES step' # "down" => interval_start' <= S(inodes'[file'].mtime)
    BY <1>0 DEF NoLaterInv
<1>4. CASE Stays \/ Begins \/ Ticks
    BY <1>3, <1>4 DEF Stays, Begins, Ticks
<1>5. CASE Renews
    <2>1. inodes'[file'] = NewFile
        BY <1>0, <1>5, FilesAfter DEF Renews, Creates, Truncates
    <2>2. interval_start' = S(now) /\ S(inodes'[file'].mtime) = S(now)
        BY <1>1, <1>5, <2>1 DEF Renews
    <2>3. S(now) \in Nat
        BY <1>1, <1>2
    <2> HIDE DEF S
    <2> QED BY <2>2, <2>3
<1>6. CASE Writes
    <2>1. /\ inodes'[file'].mtime = now /\ interval_start' = interval_start /\ step # "down"
        BY <1>0, <1>6, WrittenNow DEF Writes
    <2>2. S(inodes[file].mtime) <= S(now)
        BY <1>1, <1>2, SlotsRise
    <2>3. S(inodes[file].mtime) \in Nat /\ S(now) \in Nat
        BY <1>1, <1>2
    <2>4. S(inodes'[file'].mtime) = S(now)
        BY <1>6, <2>1 DEF Writes
    <2> HIDE DEF S
    <2> QED BY <1>2, <1>3, <2>1, <2>2, <2>3, <2>4
<1>7. ASSUME NEW mode \in OpenModes, Opens(mode)
      PROVE  interval_start' <= S(inodes'[file'].mtime)
    <2>1. mode = "mtime"
        BY <1>7 DEF OpenModes, Opens
    <2>2. interval_start' = S(inodes'[file'].mtime)
        BY <1>7, <2>1 DEF Opens
    <2>3. inodes'[file'].mtime \in Int
        <3>1. CASE Creates
            BY <1>0, <1>1, <3>1, FilesAfter DEF Creates
        <3>2. CASE Reopens
            <4>1. inodes' = inodes /\ file' \in 1..Len(inodes')
                BY <1>0, <3>2, FileSteps, DiskTyped DEF Reopens, DiskTypeOK
            <4> QED BY <1>1, <4>1
        <3> QED BY <1>7, <3>1, <3>2 DEF Opens
    <2> QED BY <1>2, <2>2, <2>3
<1> QED BY <1>0, <1>4, <1>5, <1>6, <1>7 DEF TimeStep

(* The entries of a file are of the interval of its mtime.                  *)
OneSlotInv ==
    \A i \in 1..Len(inodes) : \A k \in 1..Len(inodes[i].entries) :
        slot_start(interval, inodes[i].entries[k].at) = slot_start(interval, inodes[i].mtime)

(* Every step keeps that a file's records are of the interval of its mtime. *)
LEMMA OneSlotInductive ==
    ASSUME FileInv, ClockInv, StartInv, NoLaterInv, OneSlotInv, [Next]_vars
    PROVE  OneSlotInv'
<1> DEFINE S(t) == slot_start(interval, t)
<1>0. FileTypeOK /\ ControlInv /\ RecordInv /\ TimeStep /\ interval' = interval
    BY TimeSteps DEF FileInv
<1>1. /\ now \in Int /\ file \in 1..Len(inodes) /\ Len(inodes) \in Nat
      /\ \A i \in 1..Len(inodes) : inodes[i].mtime \in Int /\ inodes[i].mtime <= now
    BY <1>0, TimesTyped DEF ClockInv, FileTypeOK, DiskTypeOK
<1>2. interval \in Intervals /\ interval_start \in Nat /\ \A t \in Int : S(t) \in Nat
    BY SlotIs DEF StartInv
<1>3. \A i \in 1..Len(inodes) : \A k \in 1..Len(inodes[i].entries) :
          S(inodes[i].entries[k].at) = S(inodes[i].mtime)
    BY DEF OneSlotInv
<1> SUFFICES ASSUME NEW i \in 1..Len(inodes'), NEW k \in 1..Len(inodes'[i].entries)
             PROVE  S(inodes'[i].entries[k].at) = S(inodes'[i].mtime)
    BY <1>0 DEF OneSlotInv
<1>4. CASE inodes' = inodes
    BY <1>3, <1>4
<1>5. CASE Creates \/ Truncates
    <2>1. inodes'[i] = NewFile \/ (i \in 1..Len(inodes) /\ inodes'[i] = inodes[i])
        BY <1>0, <1>1, <1>5, FilesAfter
    <2>2. NewFile.entries = <<>>
        BY <1>0, NewFileEmpty
    <2> QED BY <1>3, <2>1, <2>2
<1>6. CASE Writes
    <2>1. S(now) = S(inodes[file].mtime)
        <3>1. step # "down" /\ S(now) <= interval_start
            BY <1>6 DEF Writes, StartInv
        <3>2. interval_start <= S(inodes[file].mtime)
            BY <3>1 DEF NoLaterInv
        <3>3. S(inodes[file].mtime) <= S(now)
            BY <1>1, <1>2, SlotsRise
        <3>4. S(now) \in Nat /\ S(inodes[file].mtime) \in Nat
            BY <1>1, <1>2
        <3>5. interval_start \in Nat
            BY <1>2
        <3> DEFINE a == S(now)
                   b == S(inodes[file].mtime)
        <3>6. a \in Nat /\ b \in Nat /\ a <= interval_start /\ interval_start <= b /\ b <= a
            BY <3>1, <3>2, <3>3, <3>4
        <3> HIDE DEF a, b
        <3>7. a = b
            BY <3>5, <3>6
        <3> QED BY <3>7 DEF a, b
    <2>2. CASE i # file
        BY <1>0, <1>3, <1>6, <2>2, WrittenNow
    <2>3. CASE i = file
        <3>1. inodes'[file].mtime = now
            BY <1>0, <1>6, WrittenNow
        <3>2. \/ inodes'[file].entries[k].at = now
              \/ /\ k \in 1..Len(inodes[file].entries)
                 /\ inodes'[file].entries[k] = inodes[file].entries[k]
            BY <1>0, <1>6, <2>3, WrittenNow
        <3>3. S(inodes'[file].entries[k].at) = S(now)
            BY <1>1, <1>3, <2>1, <3>2
        <3> QED BY <2>3, <3>1, <3>3
    <2> QED BY <2>2, <2>3
<1>7. inodes' = inodes \/ Creates \/ Truncates \/ Writes
    BY <1>0 DEF TimeStep, Stays, Begins, Renews, Ticks, Opens, Reopens
<1> QED BY <1>4, <1>5, <1>6, <1>7

(* All of this holds of the first file.                                     *)
LEMMA IntervalInitially == Init => ClockInv /\ StartInv /\ NoLaterInv /\ OneSlotInv
<1> SUFFICES ASSUME Init PROVE ClockInv /\ StartInv /\ NoLaterInv /\ OneSlotInv
    OBVIOUS
<1>1. /\ inodes = <<NewFile>> /\ file = 1 /\ interval_start = 0 /\ step = "idle"
      /\ now \in Int /\ now <= 0 /\ interval \in Intervals
    BY FileAssumption, WorldTyped DEF Init
<1>2. /\ Len(inodes) = 1 /\ inodes[1] = NewFile
      /\ NewFile.mtime = now /\ NewFile.entries = <<>>
    BY <1>1 DEF NewFile
<1>3. slot_start(interval, now) = 0
    BY <1>1, SlotIs
<1> QED BY <1>1, <1>2, <1>3 DEF ClockInv, StartInv, NoLaterInv, OneSlotInv

(* The records of one file were written in one interval, for every period,  *)
(* every limit and whatever fails, also across restarts: with a clock that  *)
(* only advances, no call that straddles the end of an interval, and sinks  *)
(* that are opened by the mtime of their file (open_with, write_bytes).     *)
THEOREM OneIntervalInFile == Spec => []OneIntervalPerFile
<1> DEFINE Told == world.clock = "forward" /\ ~world.moves_in_call /\ world.modes = {"mtime"}
           Inv == ClockInv /\ StartInv /\ NoLaterInv /\ OneSlotInv
<1>1. Init => Inv
    BY IntervalInitially
<1>2. FileInv /\ (Told => Inv) /\ [Next]_vars => (Told' => Inv')
    <2> SUFFICES ASSUME FileInv, Told, Inv, [Next]_vars PROVE Inv'
        BY WorldKept
    <2>1. "clock" \notin world.modes
        OBVIOUS
    <2> QED BY <2>1, ClockInductive, StartInductive, NoLaterInductive, OneSlotInductive
<1>3. FileInv /\ (Told => Inv) => OneIntervalPerFile
    <2> SUFFICES ASSUME FileInv, Told => Inv, Told,
                        NEW i \in 1..Len(inodes),
                        NEW j \in 1..Len(inodes[i].entries), NEW k \in 1..Len(inodes[i].entries)
                 PROVE  ~Passed(inodes[i].entries[j].at, inodes[i].entries[k].at)
        BY DEF OneIntervalPerFile
    <2> DEFINE s == inodes[i].entries[j].at
               t == inodes[i].entries[k].at
    <2>1. s \in Int /\ t \in Int /\ interval \in Intervals
        BY TimesTyped DEF FileInv, StartInv
    <2>2. slot_start(interval, s) = slot_start(interval, t)
        BY DEF OneSlotInv
    <2> HIDE DEF s, t
    <2>3. slot_start(interval, t) \in Nat
        BY <2>1, SlotIs
    <2>4. ~Passed(s, t)
        BY <2>1, <2>2, <2>3, PassedIs
    <2> QED BY <2>4 DEF s, t
<1> QED BY <1>1, <1>2, <1>3, FileInvariant, PTL DEF Spec

(* A process that has not been stopped runs on.                             *)
RunsInv == crashes \in Nat /\ (crashes = 0 => step # "down")

(* Every step keeps that, and none takes a restart back.                    *)
LEMMA RunsInductive ==
    ASSUME RunsInv, [Next]_vars
    PROVE  RunsInv' /\ (crashes' = 0 => crashes = 0)
<1> DEFINE Runs == RunsInv' /\ (crashes' = 0 => crashes = 0)
<1> USE DEF RunsInv
<1>1. ASSUME NEW n \in Sizes, write_bytes(n) PROVE Runs
    BY <1>1 DEF write_bytes
<1>2. CASE RemoveOldest \/ ShiftBackup
    BY <1>2 DEF RemoveOldest, ShiftBackup
<1>3. CASE RenameActive \/ OpenFresh \/ WriteAll
    BY <1>3 DEF RenameActive, OpenFresh, WriteAll, ReturnError
<1>4. CASE Crash \/ \E mode \in OpenModes : Reopen(mode)
    BY <1>4 DEF Crash, Reopen, Opened
<1>5. CASE Tick
    BY <1>5 DEF Tick, call
<1>6. CASE Exhausted \/ UNCHANGED vars
    BY <1>6 DEF Exhausted, vars, call
<1> QED BY <1>1, <1>2, <1>3, <1>4, <1>5, <1>6 DEF Next

(* All the records of a file but the last are of one interval; in the open  *)
(* file it is the one that interval_start says, the last is not of an       *)
(* earlier one, and when a write was let through it is of the same.         *)
StraddleInv ==
    /\ interval \in Intervals /\ interval_start \in Nat
    /\ interval_start <= slot_start(interval, now)
    /\ \A i \in 1..Len(inodes) : \A j, k \in 1..Len(inodes[i].entries) - 1 :
          slot_start(interval, inodes[i].entries[j].at)
              = slot_start(interval, inodes[i].entries[k].at)
    /\ \A k \in 1..Len(inodes[file].entries) :
          LET at == inodes[file].entries[k].at IN
          /\ at <= now
          /\ slot_start(interval, at) >= interval_start
          /\ k < Len(inodes[file].entries) \/ step = "write" =>
                slot_start(interval, at) = interval_start

(* Every step of a sink whose clock only advances keeps that.               *)
LEMMA StraddleInductive ==
    ASSUME world.clock = "forward", step # "down", FileInv, StraddleInv, [Next]_vars
    PROVE  StraddleInv'
<1> DEFINE S(t) == slot_start(interval, t)
           Old == inodes[file].entries
<1>0. FileTypeOK /\ ControlInv /\ RecordInv /\ TimeStep /\ interval' = interval
    BY TimeSteps DEF FileInv
<1>1. /\ now \in Int /\ file \in 1..Len(inodes) /\ Len(inodes) \in Nat
      /\ \A k \in 1..Len(Old) : Old[k].at \in Int
      /\ Len(Old) \in Nat
    BY <1>0, TimesTyped, InodeAt DEF FileTypeOK, DiskTypeOK
<1>2. interval \in Intervals /\ interval_start \in Nat /\ \A t \in Int : S(t) \in Nat
    BY SlotIs DEF StraddleInv
<1>3. /\ interval_start <= S(now)
      /\ \A i \in 1..Len(inodes) : \A j, k \in 1..Len(inodes[i].entries) - 1 :
            S(inodes[i].entries[j].at) = S(inodes[i].entries[k].at)
      /\ \A k \in 1..Len(Old) :
            /\ Old[k].at <= now /\ S(Old[k].at) >= interval_start
            /\ k < Len(Old) \/ step = "write" => S(Old[k].at) = interval_start
    BY DEF StraddleInv
<1> SUFFICES /\ interval_start' \in Nat /\ interval_start' <= S(now')
             /\ \A i \in 1..Len(inodes') : \A j, k \in 1..Len(inodes'[i].entries) - 1 :
                   S(inodes'[i].entries[j].at) = S(inodes'[i].entries[k].at)
             /\ \A k \in 1..Len(inodes'[file'].entries) :
                   /\ inodes'[file'].entries[k].at <= now'
                   /\ S(inodes'[file'].entries[k].at) >= interval_start'
                   /\ k < Len(inodes'[file'].entries) \/ step' = "write" =>
                         S(inodes'[file'].entries[k].at) = interval_start'
    BY <1>0, <1>2 DEF StraddleInv
<1>4. CASE Stays
    <2>1. /\ inodes' = inodes /\ file' = file /\ interval_start' = interval_start /\ now' = now
          /\ step' = "write" => step = "write"
        BY <1>4 DEF Stays
    <2>2. interval_start' <= S(now')
        BY <1>3, <2>1
    <2>3. \A i \in 1..Len(inodes') : \A j, k \in 1..Len(inodes'[i].entries) - 1 :
             S(inodes'[i].entries[j].at) = S(inodes'[i].entries[k].at)
        BY <1>3, <2>1
    <2> HIDE DEF S
    <2>4. ASSUME NEW k \in 1..Len(inodes'[file'].entries)
          PROVE  /\ inodes'[file'].entries[k].at <= now'
                 /\ S(inodes'[file'].entries[k].at) >= interval_start'
                 /\ k < Len(inodes'[file'].entries) \/ step' = "write" =>
                       S(inodes'[file'].entries[k].at) = interval_start'
        <3>1. k \in 1..Len(Old) /\ inodes'[file'].entries = Old
            BY <2>1
        <3> QED BY <1>3, <2>1, <3>1
    <2> QED BY <1>2, <2>1, <2>2, <2>3, <2>4
<1>5. CASE Begins
    <2>1. S(now) = interval_start
        <3> DEFINE a == S(now)
        <3>1. interval.period > 0 => ~(a > interval_start)
            BY <1>5 DEF Begins, interval_elapsed
        <3>2. interval.period \in Nat
            BY <1>2, FileAssumption DEF Never, Weekly
        <3>3. a \in Nat /\ (interval.period = 0 => a = 0)
            BY <1>1, <1>2, SlotIs
        <3>4. interval_start <= a /\ interval_start \in Nat
            BY <1>2, <1>3
        <3> HIDE DEF a
        <3>5. a = interval_start
            BY <3>1, <3>2, <3>3, <3>4
        <3> QED BY <3>5 DEF a
    <2>2. \A k \in 1..Len(Old) : S(Old[k].at) = interval_start
        <3> SUFFICES ASSUME NEW k \in 1..Len(Old) PROVE S(Old[k].at) = interval_start
            OBVIOUS
        <3> DEFINE at == Old[k].at
        <3>1. at \in Int /\ at <= now /\ S(at) >= interval_start
            BY <1>1, <1>3
        <3> HIDE DEF at
        <3>2. S(at) <= S(now) /\ S(at) \in Nat
            BY <1>1, <1>2, <3>1, SlotsRise
        <3> HIDE DEF S
        <3>3. S(at) = interval_start
            BY <1>2, <2>1, <3>1, <3>2
        <3> QED BY <3>3 DEF at
    <2>3. inodes' = inodes /\ file' = file /\ interval_start' = interval_start /\ now' = now
        BY <1>5 DEF Begins
    <2>4. interval_start' <= S(now')
        BY <1>3, <2>3
    <2>5. \A i \in 1..Len(inodes') : \A j, k \in 1..Len(inodes'[i].entries) - 1 :
             S(inodes'[i].entries[j].at) = S(inodes'[i].entries[k].at)
        BY <1>3, <2>3
    <2> HIDE DEF S
    <2>6. ASSUME NEW k \in 1..Len(inodes'[file'].entries)
          PROVE  /\ inodes'[file'].entries[k].at <= now'
                 /\ S(inodes'[file'].entries[k].at) >= interval_start'
                 /\ S(inodes'[file'].entries[k].at) = interval_start'
        <3>1. k \in 1..Len(Old) /\ inodes'[file'].entries = Old
            BY <2>3
        <3> QED BY <1>3, <2>2, <2>3, <3>1
    <2> QED BY <1>2, <2>3, <2>4, <2>5, <2>6
<1>6. CASE Renews
    <2>1. /\ inodes'[file'] = NewFile /\ NewFile.entries = <<>>
          /\ \A i \in 1..Len(inodes') :
                inodes'[i] = NewFile \/ (i \in 1..Len(inodes) /\ inodes'[i] = inodes[i])
        BY <1>0, <1>1, <1>6, FilesAfter, NewFileEmpty DEF Renews, Creates, Truncates
    <2>2. interval_start' = S(now) /\ now' = now /\ S(now) \in Nat
        BY <1>1, <1>2, <1>6 DEF Renews
    <2>3. ASSUME NEW i \in 1..Len(inodes')
          PROVE  \A j, k \in 1..Len(inodes'[i].entries) - 1 :
                    S(inodes'[i].entries[j].at) = S(inodes'[i].entries[k].at)
        <3>1. CASE inodes'[i] = NewFile
            <4>1. inodes'[i].entries = <<>>
                BY <2>1, <3>1
            <4>2. Len(inodes'[i].entries) = 0
                BY <4>1
            <4> QED BY <4>2
        <3>2. CASE i \in 1..Len(inodes) /\ inodes'[i] = inodes[i]
            BY <1>3, <3>2
        <3> QED BY <2>1, <3>1, <3>2
    <2>4. interval_start' <= S(now')
        <3> HIDE DEF S
        <3> QED BY <2>2
    <2> QED BY <2>1, <2>2, <2>3, <2>4
<1>7. CASE Writes
    <2> DEFINE e == [id |-> next, at |-> now]
               new == Append(Old, e)
    <2>1. /\ Len(inodes') = Len(inodes) /\ file' = file /\ now' = now
          /\ interval_start' = interval_start /\ step = "write" /\ step' # "write"
          /\ \A i \in 1..Len(inodes) : i # file => inodes'[i] = inodes[i]
          /\ inodes'[file].entries = new
        BY <1>0, <1>7, WrittenNow DEF Writes
    <2>2. Old \in Seq(Entry) /\ e \in Entry /\ e.at = now
        BY <1>0, <1>1, InodeAt DEF FileTypeOK, CallTypeOK, Entry
    <2>3. \A k \in 1..Len(Old) : Old[k].at <= now /\ S(Old[k].at) = interval_start
        BY <1>3, <2>1
    <2>4. /\ Len(new) = Len(Old) + 1 /\ new[Len(Old) + 1] = e
          /\ \A k \in 1..Len(Old) : new[k] = Old[k]
        <3> HIDE DEF e, Old
        <3> QED BY <2>2, AppendProperties
    <2> HIDE DEF new, Old, e
    <2>11. Len(Old) \in Nat
        BY <2>2
    <2>5. \A k \in 1..Len(new) : \/ k \in 1..Len(Old) /\ new[k] = Old[k]
                                 \/ k = Len(new) /\ new[k] = e
        BY <2>4, <2>11
    <2>6. \A k \in 1..Len(new) - 1 : S(new[k].at) = interval_start
        BY <2>3, <2>4, <2>11
    <2>7. \A k \in 1..Len(new) : /\ new[k].at <= now /\ S(new[k].at) >= interval_start
                                 /\ k < Len(new) => S(new[k].at) = interval_start
        <3> SUFFICES ASSUME NEW k \in 1..Len(new)
                     PROVE  /\ new[k].at <= now /\ S(new[k].at) >= interval_start
                            /\ k < Len(new) => S(new[k].at) = interval_start
            OBVIOUS
        <3>1. CASE k \in 1..Len(Old) /\ new[k] = Old[k]
            <4>1. Old[k].at <= now /\ S(Old[k].at) = interval_start
                BY <2>3, <3>1
            <4> HIDE DEF S
            <4> QED BY <1>2, <3>1, <4>1
        <3>2. CASE k = Len(new) /\ new[k] = e
            <4>1. Len(new) \in Nat
                BY <2>4, <2>11
            <4>2. S(now) >= interval_start
                <5> DEFINE a == S(now)
                <5>1. a \in Nat /\ interval_start <= a
                    BY <1>1, <1>2, <1>3
                <5> HIDE DEF a
                <5>2. a >= interval_start
                    BY <1>2, <5>1
                <5> QED BY <5>2 DEF a
            <4>3. new[k].at = now /\ ~(k < Len(new))
                BY <2>2, <3>2, <4>1
            <4> QED BY <1>1, <4>2, <4>3
        <3> QED BY <2>5, <3>1, <3>2
    <2>8. ASSUME NEW i \in 1..Len(inodes')
          PROVE  \A j, k \in 1..Len(inodes'[i].entries) - 1 :
                    S(inodes'[i].entries[j].at) = S(inodes'[i].entries[k].at)
        <3>1. CASE i = file
            BY <2>1, <2>6, <3>1
        <3>2. CASE i # file
            BY <1>3, <2>1, <3>2
        <3> QED BY <3>1, <3>2
    <2>9. interval_start' \in Nat /\ interval_start' <= S(now')
        BY <1>2, <1>3, <2>1
    <2>10. \A k \in 1..Len(inodes'[file'].entries) :
              /\ inodes'[file'].entries[k].at <= now'
              /\ S(inodes'[file'].entries[k].at) >= interval_start'
              /\ k < Len(inodes'[file'].entries) \/ step' = "write" =>
                    S(inodes'[file'].entries[k].at) = interval_start'
        BY <2>1, <2>7
    <2> QED BY <2>8, <2>9, <2>10
<1>8. CASE Ticks
    <2>1. now' > now /\ now' \in Int /\ UNCHANGED <<inodes, file, interval_start, step>>
        BY <1>8, FileAssumption DEF Ticks
    <2>2. S(now) <= S(now') /\ S(now) \in Nat /\ S(now') \in Nat
        <3> DEFINE later == now'
        <3>1. later \in Int /\ now <= later
            BY <1>1, <2>1
        <3> HIDE DEF later
        <3>2. S(now) <= S(later) /\ S(now) \in Nat /\ S(later) \in Nat
            BY <1>1, <1>2, <3>1, SlotsRise
        <3> QED BY <3>2 DEF later
    <2>3. interval_start <= S(now')
        <3> HIDE DEF S
        <3> QED BY <1>2, <1>3, <2>2
    <2>4. \A k \in 1..Len(Old) : Old[k].at <= now'
        <3> SUFFICES ASSUME NEW k \in 1..Len(Old) PROVE Old[k].at <= now'
            OBVIOUS
        <3> DEFINE at == Old[k].at
        <3>1. at \in Int /\ at <= now
            BY <1>1, <1>3
        <3> HIDE DEF at
        <3>2. at <= now'
            BY <1>1, <2>1, <3>1
        <3> QED BY <3>2 DEF at
    <2> QED BY <1>2, <1>3, <2>1, <2>3, <2>4
<1>9. ~\E mode \in OpenModes : Opens(mode)
    BY DEF Opens
<1> QED BY <1>0, <1>4, <1>5, <1>6, <1>7, <1>8, <1>9 DEF TimeStep

(* All the records of a file but the last were written in one interval, for *)
(* every period and limit and whatever fails, also while calls straddle the *)
(* ends of intervals: with a clock that only advances and until the process *)
(* is started again (write_bytes, interval_elapsed, rotate).                *)
THEOREM LastStraddles == Spec => []OnlyTheLastStraddles
<1> DEFINE Told == world.clock = "forward" /\ crashes = 0
<1>1. Init => RunsInv /\ StraddleInv
    <2> SUFFICES ASSUME Init PROVE RunsInv /\ StraddleInv
        OBVIOUS
    <2>1. /\ inodes = <<NewFile>> /\ file = 1 /\ interval_start = 0 /\ step = "idle"
          /\ now \in Int /\ interval \in Intervals /\ crashes = 0
        BY FileAssumption, WorldTyped DEF Init
    <2>2. Len(inodes) = 1 /\ inodes[1] = NewFile /\ NewFile.entries = <<>>
        BY <2>1 DEF NewFile
    <2>3. slot_start(interval, now) \in Nat
        BY <2>1, SlotIs
    <2> QED BY <2>1, <2>2, <2>3 DEF RunsInv, StraddleInv
<1>2. FileInv /\ RunsInv /\ (Told => StraddleInv) /\ [Next]_vars
          => RunsInv' /\ (Told' => StraddleInv')
    <2> SUFFICES ASSUME FileInv, RunsInv, Told => StraddleInv, [Next]_vars
                 PROVE  RunsInv' /\ (Told' => StraddleInv')
        OBVIOUS
    <2>1. RunsInv' /\ (Told' => Told)
        BY RunsInductive, WorldKept
    <2>2. Told => StraddleInv'
        BY StraddleInductive DEF RunsInv
    <2> QED BY <2>1, <2>2
<1>3. FileInv /\ (Told => StraddleInv) => OnlyTheLastStraddles
    <2> SUFFICES ASSUME FileInv, Told => StraddleInv, Told, NEW i \in 1..Len(inodes),
                        NEW j \in 1..Len(inodes[i].entries) - 1,
                        NEW k \in 1..Len(inodes[i].entries) - 1
                 PROVE  ~Passed(inodes[i].entries[j].at, inodes[i].entries[k].at)
        BY DEF OnlyTheLastStraddles
    <2> DEFINE s == inodes[i].entries[j].at
               t == inodes[i].entries[k].at
    <2>1. Len(inodes[i].entries) \in Nat
        BY InodeAt DEF FileInv, FileTypeOK, DiskTypeOK
    <2>2. j \in 1..Len(inodes[i].entries) /\ k \in 1..Len(inodes[i].entries)
        BY <2>1
    <2>3. s \in Int /\ t \in Int /\ interval \in Intervals
        BY <2>2, TimesTyped DEF FileInv, StraddleInv
    <2>4. slot_start(interval, s) = slot_start(interval, t)
        BY DEF StraddleInv
    <2> HIDE DEF s, t
    <2>5. slot_start(interval, t) \in Nat
        BY <2>3, SlotIs
    <2>6. ~Passed(s, t)
        BY <2>3, <2>4, <2>5, PassedIs
    <2> QED BY <2>6 DEF s, t
<1> QED BY <1>1, <1>2, <1>3, FileInvariant, PTL DEF Spec

(* The open file has at least the bytes that the sink counts.               *)
SizeBelow == step # "down" => size <= inodes[file].length

(* The size that the sink keeps never exceeds the file's length.            *)
LEMMA SizeBelowInductive ==
    ASSUME FileInv, SizeBelow, [Next]_vars
    PROVE  SizeBelow'
<1> USE DEF SizeBelow
<1>0. /\ FileTypeOK /\ ControlInv /\ RecordInv /\ bytes \in Nat /\ size \in Nat
      /\ inodes[file].length \in Nat
    BY InodeAt DEF FileInv, FileTypeOK, CallTypeOK, DiskTypeOK
<1>1. ASSUME NEW n \in Sizes, write_bytes(n) PROVE SizeBelow'
    BY <1>1 DEF write_bytes, disk, sink
<1>2. CASE RemoveOldest \/ ShiftBackup \/ RenameActive
    BY <1>2 DEF RemoveOldest, ShiftBackup, RenameActive, sink
<1>3. CASE OpenFresh
    <2>1. CASE UNCHANGED <<disk, sink>>
        BY <1>3, <2>1 DEF OpenFresh, disk, sink
    <2>2. CASE ~UNCHANGED <<disk, sink>>
        <3>1. size' = 0
            BY <1>3, <2>2 DEF OpenFresh, FreshSize
        <3>2. inodes'[file'].length \in Nat
            <4>1. inodes'[file'] \in Inode
                BY <1>0, FileSteps, DiskTyped DEF DiskTypeOK
            <4> QED BY <4>1 DEF Inode
        <3> QED BY <3>1, <3>2
    <2> QED BY <2>1, <2>2
<1>4. CASE WriteAll
    <2>0. step # "down" /\ file' = file
        BY <1>4 DEF WriteAll
    <2>1. CASE AppendToFile(bytes) /\ size' = size + bytes
        <3>1. inodes'[file].length = inodes[file].length + bytes
            BY <1>0, <2>1, Appended
        <3> QED BY <1>0, <2>0, <2>1, <3>1
    <2>2. CASE size' = size /\ (UNCHANGED inodes \/ \E n \in 1..bytes - 1 : AppendToFile(n))
        <3>1. CASE UNCHANGED inodes
            BY <2>0, <2>2, <3>1
        <3>2. ASSUME NEW n \in 1..bytes - 1, AppendToFile(n) PROVE SizeBelow'
            <4>1. n \in Nat
                BY <1>0
            <4>2. inodes'[file].length = inodes[file].length + n
                BY <1>0, <3>2, <4>1, Appended
            <4> QED BY <1>0, <2>0, <2>2, <4>1, <4>2
        <3> QED BY <2>2, <3>1, <3>2
    <2> QED BY <1>4, <2>1, <2>2 DEF WriteAll
<1>5. CASE Crash
    BY <1>5 DEF Crash
<1>6. ASSUME NEW mode \in OpenModes, Reopen(mode) PROVE SizeBelow'
    <2>1. inodes'[file'] \in Inode
        BY <1>0, FileSteps, DiskTyped DEF DiskTypeOK
    <2>2. size' \in {0, inodes'[file'].length} /\ inodes'[file'].length \in Nat
        BY <1>6, <2>1 DEF Reopen, Opened, Inode
    <2> QED BY <2>2
<1>7. CASE Tick
    BY <1>7 DEF Tick, disk, sink, call
<1>8. CASE UNCHANGED vars
    BY <1>8 DEF vars, disk, sink, call
<1>9. CASE Exhausted
    BY <1>8, <1>9 DEF Exhausted
<1> QED BY <1>1, <1>2, <1>3, <1>4, <1>5, <1>6, <1>7, <1>8, <1>9 DEF Next

(* A rotation begins only for a record that does not fit or in an interval  *)
(* later than that of the open file's mtime: with any clock where sinks are *)
(* opened by the mtime, with one that only advances where rotate_every sets *)
(* the interval, and no call that straddles the end of an interval.         *)
THEOREM RotationsAreNeeded == Spec => NoNeedlessRotation
<1> DEFINE Clock == "clock" \in world.modes => ClockInv
           Inv == Clock /\ StartInv
<1>1. Init => Inv /\ SizeBelow
    <2>1. Init => SizeBelow
        BY DEF Init, SizeBelow, NewFile
    <2> QED BY <2>1, IntervalInitially
<1>2. FileInv /\ (ClockTold => Inv) /\ SizeBelow /\ [Next]_vars
          => (ClockTold => Inv)' /\ SizeBelow'
    <2> SUFFICES ASSUME FileInv, ClockTold => Inv, SizeBelow, [Next]_vars
                 PROVE  (ClockTold' => Inv') /\ SizeBelow'
        OBVIOUS
    <2>1. world' = world /\ (ClockTold' <=> ClockTold) /\ SizeBelow'
        BY WorldKept, SizeBelowInductive DEF ClockTold
    <2>2. ASSUME ClockTold PROVE Clock' /\ StartInv'
        <3>1. StartInv' /\ ("clock" \in world.modes => ClockInv')
            BY <2>2, ClockInductive, StartInductive DEF ClockTold
        <3> QED BY <2>1, <3>1
    <2> QED BY <2>1, <2>2
<1>3. FileInv /\ (ClockTold => Inv) /\ SizeBelow /\ [Next]_vars =>
          [ClockTold /\ step = "idle" /\ step' \in {"remove", "open"} =>
              \/ MaxSize > 0 /\ inodes[file].length + bytes' > MaxSize
              \/ Passed(inodes[file].mtime, now)]_vars
    <2> SUFFICES ASSUME FileInv, StartInv, SizeBelow, Next,
                        step = "idle", step' \in {"remove", "open"}
                 PROVE  \/ MaxSize > 0 /\ inodes[file].length + bytes' > MaxSize
                        \/ Passed(inodes[file].mtime, now)
        OBVIOUS
    <2>1. PICK n \in Sizes : write_bytes(n)
        BY DEF Next, RemoveOldest, ShiftBackup, RenameActive, OpenFresh, WriteAll, Crash,
               Reopen, Tick, call, Exhausted, vars
    <2>2. bytes' = n /\ (size_hit(n) \/ interval_elapsed)
        BY <2>1 DEF write_bytes
    <2>3. CASE size_hit(n)
        <3>1. /\ size \in Nat /\ inodes[file].length \in Nat /\ size <= inodes[file].length
              /\ n \in Nat /\ MaxSize \in Nat
            BY InodeAt, FileAssumption
               DEF FileInv, FileTypeOK, CallTypeOK, DiskTypeOK, SizeBelow
        <3> QED BY <2>2, <2>3, <3>1 DEF size_hit
    <2>4. CASE interval_elapsed
        <3> DEFINE m == inodes[file].mtime
        <3>1. m \in Int /\ now \in Int /\ interval \in Intervals /\ interval_start \in Nat
            BY TimesTyped DEF FileInv, StartInv
        <3>2. slot_start(interval, m) <= interval_start /\ slot_start(interval, now) > interval_start
            BY <2>4 DEF StartInv, interval_elapsed
        <3> HIDE DEF m
        <3>3. slot_start(interval, m) \in Nat /\ slot_start(interval, now) \in Nat
            BY <3>1, SlotIs
        <3>4. Passed(m, now)
            BY <3>1, <3>2, <3>3, PassedIs
        <3> QED BY <3>4 DEF m
    <2> QED BY <2>2, <2>3, <2>4
<1> QED BY <1>1, <1>2, <1>3, FileInvariant, PTL DEF Spec, NoNeedlessRotation
==============================================================================
