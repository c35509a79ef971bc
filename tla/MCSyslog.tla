------------------------------ MODULE MCSyslog ------------------------------
(* Instances of Syslog for TLC.  A packet of at most 6 bytes with a header  *)
(* of 3 leaves 3 for the message: one that fits to the byte and ends in a   *)
(* newline, one whose last character is cut in two, and one that is cut     *)
(* between two characters.  The remote sink, whose host name and tag are    *)
(* its own, has a header of 7, which leaves no room.                        *)
EXTENDS Syslog

ThreeRecords ==
    {[level |-> 2, text |-> <<"ascii", "wide", "newline">>],
     [level |-> 4, text |-> <<"wide", "wide", "newline">>],
     [level |-> 0, text |-> <<"wide", "ascii", "ascii", "wide", "ascii">>]}

NoRoomRemotely == [unix |-> 3, udp |-> 7]
=============================================================================
