----------------------------- MODULE MCFileSink -----------------------------
(* Instances of FileSink for TLC.                                           *)
EXTENDS FileSink

FourRules == {Never, Every(1), Every(2), Weekly}

(* Before the epoch and in its first week, on both sides of the first       *)
(* Monday, which also ends a period of two, and a week later.               *)
FirstMonday == {-2, 3, 4}
Weeks == FirstMonday \cup {11}
AllTimes == {0, 1} \cup Weeks

(* Rotations that are interrupted, under a clock that goes anywhere.        *)
Interrupted ==
    [faults |-> {"remove", "rename", "open"}, intervals |-> {Every(1)}, times |-> {0, 1},
     moves_in_call |-> TRUE, clock |-> "any", modes |-> OpenModes]

(* Files of one interval each, though writes tear and backups stay.         *)
Regular ==
    [faults |-> {"shift", "write", "stat"}, intervals |-> {Every(2), Weekly}, times |-> Weeks,
     moves_in_call |-> FALSE, clock |-> "forward", modes |-> {"mtime"}]

(* Calls that straddle the end of an interval.                              *)
Straddling ==
    [faults |-> {"open"}, intervals |-> {Every(2), Weekly}, times |-> FirstMonday,
     moves_in_call |-> TRUE, clock |-> "forward", modes |-> {"mtime"}]

(* A file that cannot be opened in the middle of a rotation by size.        *)
Unopenable ==
    [faults |-> {"open"}, intervals |-> {Never}, times |-> {0},
     moves_in_call |-> FALSE, clock |-> "forward", modes |-> {"mtime"}]

ThreeWorlds == {Interrupted, Regular, Straddling}
OneWorld == {Unopenable}
=============================================================================
