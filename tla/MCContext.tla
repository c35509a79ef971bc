----------------------------- MODULE MCContext -----------------------------
(* Instances of Context for TLC: two threads, two keys, two values.         *)
EXTENDS Context, TLC

CONSTANTS t1, t2, request, user

TwoThreads == {t1, t2}
ThreadSymmetry == Permutations(Threads)

Field(k, v) == [key |-> k, value |-> v]

(* One key; the same key with another value before a second key; one key    *)
(* twice.                                                                   *)
ThreeLists == {<<Field(request, 1)>>,
               <<Field(user, 1), Field(request, 2)>>,
               <<Field(user, 2), Field(user, 3)>>}
============================================================================
