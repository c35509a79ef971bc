----------------------------- MODULE LoggerQueue -----------------------------
(* Logger implements RecordQueue: the mutex, the control messages, the      *)
(* clones, the writer's steps and the fan-out are how it is done.  A record *)
(* is its position in the channel's history, and is delivered when the      *)
(* writer is done with it; beside the channel the queue holds the one in    *)
(* the writer's hands.                                                      *)
EXTENDS Logger

Queue == INSTANCE RecordQueue WITH
            Bound <- Capacity + 1,
            pending <- LogsOf(Handled + 1..Len(sent)),
            delivered <- LogsOf(1..Handled),
            closing <- closed,
            stopped <- writer = "done"

(* Whatever the callers do at the same time, their records leave the logger *)
(* in the order the channel took them, one at a time, never more waiting    *)
(* than the queue holds and the writer has in hand; flushes reorder         *)
(* nothing; and the writer stops on an undelivered record only when some    *)
(* clone was shut down, also if all the clones are gone (lib.rs:21-27).     *)
ImplementsQueue == Queue!Spec

(* What the writer's end rests on: a shutdown is closed before its message. *)
CloseInv ==
    /\ \A c \in Callers : pc[c] \in {"shut_lock", "shut_send"} => closed
    /\ \A i \in 1..Len(sent) : sent[i].kind = "shutdown" => closed
==============================================================================
