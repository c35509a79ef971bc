----------------------------- MODULE RecordQueue -----------------------------
(***************************************************************************)
(* What a logger promises the program, without threads, locks, messages or *)
(* sinks: a bounded queue of the records it took, which leave it in their  *)
(* order, one at a time; nothing is taken back or overtakes, whatever is   *)
(* refused for want of room; and it stops with records in it only after it *)
(* was asked to close.                                                     *)
(*                                                                         *)
(* A record is a number, greater than those of all the records before it.  *)
(***************************************************************************)
EXTENDS Naturals, FiniteSets

CONSTANT Bound

VARIABLES
    pending,    (* the records taken and not yet delivered                   *)
    delivered,  (* the records delivered to the sinks                        *)
    closing,    (* some shutdown was called                                  *)
    stopped     (* nothing more is delivered                                 *)

vars == <<pending, delivered, closing, stopped>>

Init ==
    /\ pending = {} /\ delivered = {}
    /\ closing = FALSE /\ stopped = FALSE

Accept ==
    /\ ~stopped /\ Cardinality(pending) < Bound
    /\ \E r \in pending' :
          /\ pending' = pending \cup {r}
          /\ \A q \in pending \cup delivered : q < r
    /\ UNCHANGED <<delivered, closing, stopped>>

Deliver ==
    /\ ~stopped
    /\ \E r \in pending :
          /\ \A q \in pending : r <= q
          /\ pending' = pending \ {r}
          /\ delivered' = delivered \cup {r}
    /\ UNCHANGED <<closing, stopped>>

Close ==
    /\ closing' = TRUE
    /\ UNCHANGED <<pending, delivered, stopped>>

Stop ==
    /\ ~stopped
    /\ pending = {} \/ closing
    /\ stopped' = TRUE
    /\ UNCHANGED <<pending, delivered, closing>>

Next == Accept \/ Deliver \/ Close \/ Stop

Spec == Init /\ [][Next]_vars
==============================================================================
