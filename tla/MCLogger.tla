------------------------------ MODULE MCLogger ------------------------------
(* Instances of Logger for TLC: one or two callers, one to four slots.     *)
EXTENDS LoggerQueue

CONSTANTS c1, c2

OneCaller == {c1}
TwoCallers == {c1, c2}

(* Floors: one or two sinks without a filter of their own; four sinks, the  *)
(* second for warnings and above, the third off.                            *)
OneFloor == <<0>>
TwoFloors == <<0, 0>>
FourFloors == <<0, 3, 5, 0>>
==============================================================================
