------------------------------ MODULE SinkSlots ------------------------------
(***************************************************************************)
(* The writer thread's fan-out: a vector of sink slots, each a sink with   *)
(* its level floor and its failure state (logger.rs, SinkSlot and          *)
(* handle_message).  A record is named by its position in the queue's      *)
(* history.  The writer walks the slots in vector order, and nothing else  *)
(* reads them, so that writing one record to all the slots is one step.    *)
(***************************************************************************)
EXTENDS Naturals, Sequences, FiniteSets

CONSTANTS
    NumSlots,        (* length of the slot vector, at least 1: build() adds  *)
                     (* a StdoutSink when no sink was configured             *)
    MinLevel,        (* MinLevel[s]: level floor of slot s                   *)
    MaxErrors,       (* MAX_CONSECUTIVE_WRITE_ERRORS                         *)
    FaultySinks,     (* slots whose sink may answer an error, or panic, on a *)
                     (* write, and an error on a flush                       *)
    PanickySinks     (* slots whose sink may panic on a flush                *)

Slots == 1..NumSlots

(* Level: Trace = 0, Debug, Info, Warn, Error = 4, Off = 5.                  *)
Level == 0..5
Off == 5

ASSUME SinkAssumption ==
    /\ NumSlots \in Nat \ {0}
    /\ MinLevel \in [Slots -> Level]
    /\ MaxErrors \in Nat \ {0}
    /\ FaultySinks \subseteq Slots
    /\ PanickySinks \subseteq Slots

VARIABLES
    slots,      (* slots[s]: consecutive_errors and degraded of SinkSlot s    *)
    written,    (* written[s]: the records sink s accepted, oldest first      *)
    diverted,   (* diverted[s]: the records written to stderr in place of s   *)
    failed,     (* failed[s]: the records whose write to s failed; the code   *)
                (* does not write them anywhere else                          *)
    flushed     (* flushed[s]: how many records of written[s] the sink had    *)
                (* accepted when it last flushed with success                 *)

slotVars == <<slots, written, diverted, failed, flushed>>

SinkSlot == [consecutive_errors : Nat, degraded : BOOLEAN]

SlotsTypeOK ==
    /\ slots \in [Slots -> SinkSlot]
    /\ written \in [Slots -> Seq(Nat)]
    /\ diverted \in [Slots -> Seq(Nat)]
    /\ failed \in [Slots -> Seq(Nat)]
    /\ flushed \in [Slots -> Nat]

SlotsInit ==
    /\ slots = [s \in Slots |-> [consecutive_errors |-> 0, degraded |-> FALSE]]
    /\ written = [s \in Slots |-> <<>>]
    /\ diverted = [s \in Slots |-> <<>>]
    /\ failed = [s \in Slots |-> <<>>]
    /\ flushed = [s \in Slots |-> 0]

------------------------------------------------------------------------------
(* Failure state of one slot.                                               *)

Accepts(s, level) == level >= MinLevel[s]

AfterSuccessNoReset(slot) == slot
AfterSuccess(slot) == [slot EXCEPT !.consecutive_errors = 0]

AfterFailure(slot) ==
    [consecutive_errors |-> slot.consecutive_errors + 1,
     degraded |-> slot.consecutive_errors + 1 >= MaxErrors]

(* log[s] with record i appended for every slot s of S.                     *)
ExtendTwice(log, S, i) ==
    [s \in Slots |-> IF s \in S THEN log[s] \o <<i, i>> ELSE log[s]]
Extend(log, S, i) ==
    [s \in Slots |-> IF s \in S THEN Append(log[s], i) ELSE log[s]]

------------------------------------------------------------------------------
(* The slots a record of this level reaches, and those whose sink is tried. *)
EligibleHealthy(level) == {s \in Slots : Accepts(s, level) /\ ~slots[s].degraded}
Eligible(level) == {s \in Slots : Accepts(s, level)}
DirectRetry(level) == Eligible(level)
Direct(level) == {s \in Eligible(level) : ~slots[s].degraded}

(* Message::Log: the record goes to every eligible slot.  A sink that fails *)
(* is counted; a degraded slot's record goes to stderr.                     *)
WriteRecord(i, level) ==
    \E failing \in SUBSET (Direct(level) \cap FaultySinks) :
        LET ok == Direct(level) \ failing IN
        /\ slots' = [s \in Slots |->
                        IF s \in failing THEN AfterFailure(slots[s])
                        ELSE IF s \in ok THEN AfterSuccess(slots[s])
                        ELSE slots[s]]
        /\ written' = Extend(written, ok, i)
        /\ failed' = Extend(failed, failing, i)
        /\ diverted' = Extend(diverted, Eligible(level) \ Direct(level), i)
        /\ UNCHANGED flushed

(* slot.sink.flush() for the slots of S, in vector order; the result is     *)
(* ignored, so that a sink that answers an error is passed over.            *)
FlushSkipsLast(S) ==
    flushed' = [s \in Slots |-> IF s \in S \ {NumSlots}
                                   THEN Len(written[s]) ELSE flushed[s]]
FlushSome(S) ==
    \E failing \in SUBSET (S \cap FaultySinks) :
        flushed' = [s \in Slots |-> IF s \in S \ failing
                                       THEN Len(written[s]) ELSE flushed[s]]

FlushAll ==
    /\ FlushSome(Slots)
    /\ UNCHANGED <<slots, written, diverted, failed>>

(* A panic in the flush of slot p ends the walk there.                      *)
FlushUpTo(p) == FlushSome({s \in Slots : s < p})

(* writer_loop catches the panic and degrades every slot.                   *)
DegradeAll == slots' = [s \in Slots |-> [slots[s] EXCEPT !.degraded = TRUE]]

FlushPanic ==
    \E p \in PanickySinks :
        /\ FlushUpTo(p)
        /\ DegradeAll
        /\ UNCHANGED <<written, diverted, failed>>

(* The last flush of writer_loop is outside catch_unwind: a panic ends the  *)
(* thread there and the slots after p are dropped without a flush.          *)
FinalFlush ==
    /\ \/ FlushSome(Slots)
       \/ \E p \in PanickySinks : FlushUpTo(p)
    /\ UNCHANGED <<slots, written, diverted, failed>>
==============================================================================
