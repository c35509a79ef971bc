------------------------------- MODULE Context -------------------------------
(***************************************************************************)
(* Contextual logging (context.rs): a stack of frames per thread, guards   *)
(* that remove exactly their own frame and may be dropped in any order,    *)
(* snapshots that move between threads, and the merge of the context into  *)
(* a record (entry.rs).  A stack is touched by its own thread only; the    *)
(* frame counter and the snapshots are what the threads share.             *)
(***************************************************************************)
EXTENDS Fields

CONSTANTS
    Threads,
    FieldLists,     (* the field lists a program pushes, or puts on a record  *)
    MaxFrames,      (* bound: frames pushed in a behaviour                    *)
    MaxSnapshots    (* bound: snapshots kept at a time                        *)

FieldsInUse == UNION {Range(fields) : fields \in FieldLists}

ASSUME ContextAssumption == FieldLists \subseteq Seq(FieldsInUse)

VARIABLES
    stack,          (* CONTEXT_STACK of each thread, outermost frame first    *)
    next_id,        (* NEXT_FRAME_ID                                          *)
    guards,         (* the ids in the ContextGuards each thread holds         *)
    snapshots,      (* the fields of the ContextSnapshots the program keeps   *)
    record,         (* the last record logged: the caller's own fields, the   *)
                    (* context at that time and the fields it was queued with *)
    pushed          (* history: pushed[k] is the k-th push: thread and fields *)

vars == <<stack, next_id, guards, snapshots, record, pushed>>

(* The last value a list of fields gives to a key.                          *)
ValueIn(fields, key) ==
    fields[CHOOSE i \in 1..Len(fields) :
              /\ fields[i].key = key
              /\ \A j \in i + 1..Len(fields) : fields[j].key # key].value

NoRecord == [own |-> <<>>, context |-> <<>>, fields |-> <<>>]

Init ==
    /\ stack = [t \in Threads |-> <<>>]
    /\ next_id = 1
    /\ guards = [t \in Threads |-> {}]
    /\ snapshots = {}
    /\ record = NoRecord
    /\ pushed = <<>>

------------------------------------------------------------------------------
(* current_context: the frames' fields, outermost first; a later field      *)
(* replaces the value of its key where the key first stood.                 *)
PutFirstWins(merged, field) ==
    IF field.key \in KeysOf(merged) THEN merged ELSE Append(merged, field)
Put(merged, field) ==
    IF field.key \in KeysOf(merged)
    THEN [i \in 1..Len(merged) |->
             IF merged[i].key = field.key THEN field ELSE merged[i]]
    ELSE Append(merged, field)

PutFrame(merged, frame) == FoldLeft(Put, merged, frame.fields)

Merge(frames) == FoldLeft(PutFrame, <<>>, frames)

current_context(t) == Merge(stack[t])

CaptureFlat(t) == FlattenSeq([i \in 1..Len(stack[t]) |-> stack[t][i].fields])
Capture(t) == current_context(t)

(* The frame's id comes from a counter that all the threads share.          *)
FrameId(t) == next_id

push_context(t, fields) ==
    /\ next_id <= MaxFrames
    /\ stack' = [stack EXCEPT ![t] = Append(@, [id |-> FrameId(t), fields |-> fields])]
    /\ guards' = [guards EXCEPT ![t] = @ \cup {FrameId(t)}]
    /\ next_id' = next_id + 1
    /\ pushed' = Append(pushed, [thread |-> t, fields |-> fields])

Push(t) ==
    /\ \E fields \in FieldLists : push_context(t, fields)
    /\ UNCHANGED <<snapshots, record>>

(* ContextSnapshot::enter, on any thread.                                   *)
Enter(t) ==
    /\ \E fields \in snapshots : push_context(t, fields)
    /\ UNCHANGED <<snapshots, record>>

(* drop of a ContextGuard                                                   *)
WithoutLast(frames, id) == Front(frames)
Without(frames, id) == RemoveFirstMatch(frames, LAMBDA frame : frame.id = id)

Drop(t) ==
    \E id \in guards[t] :
        /\ stack' = [stack EXCEPT ![t] = Without(@, id)]
        /\ guards' = [guards EXCEPT ![t] = @ \ {id}]
        /\ UNCHANGED <<next_id, snapshots, record, pushed>>

capture_context(t) ==
    /\ Cardinality(snapshots) < MaxSnapshots
    /\ snapshots' = snapshots \cup {Capture(t)}
    /\ UNCHANGED <<stack, next_id, guards, record, pushed>>

Forget ==
    /\ \E s \in snapshots : snapshots' = snapshots \ {s}
    /\ UNCHANGED <<stack, next_id, guards, record, pushed>>

(* The part of Logger::log that reads the context: merge_context, Fields.   *)
Log(t) ==
    /\ \E own \in FieldLists \cup {<<>>} :
          record' = [own |-> own, context |-> current_context(t),
                     fields |-> merge_context(own, current_context(t))]
    /\ UNCHANGED <<stack, next_id, guards, snapshots, pushed>>

Next ==
    \/ \E t \in Threads : Push(t) \/ Enter(t) \/ Drop(t) \/ capture_context(t) \/ Log(t)
    \/ Forget

Spec == Init /\ [][Next]_vars

------------------------------------------------------------------------------
(* Properties.                                                              *)

(* The frames on a thread's stack are those whose guards the thread holds,  *)
(* each with the fields it was pushed with, inner ones later, in whatever   *)
(* order guards were dropped and other threads pushed (context.rs:43-46).   *)
StackIsLiveGuards ==
    \A t \in Threads :
        /\ {stack[t][i].id : i \in 1..Len(stack[t])} = guards[t]
        /\ \A i \in 1..Len(stack[t]) :
              pushed[stack[t][i].id] = [thread |-> t, fields |-> stack[t][i].fields]
        /\ \A i, j \in 1..Len(stack[t]) : i < j => stack[t][i].id < stack[t][j].id

(* A thread's context has each key of its live scopes once, with the value  *)
(* the innermost scope that has the key gave it last, whatever was dropped  *)
(* around it (context.rs:148-149).                                          *)
Holders(t, key) == {id \in guards[t] : key \in KeysOf(pushed[id].fields)}

InnermostWins ==
    \A t \in Threads :
        LET context == current_context(t) IN
        /\ KeysOf(context) = UNION {KeysOf(pushed[id].fields) : id \in guards[t]}
        /\ Len(context) = Cardinality(KeysOf(context))
        /\ \A i \in 1..Len(context) :
              LET held == Holders(t, context[i].key)
                  innermost == CHOOSE id \in held : \A other \in held : other <= id
              IN  context[i].value = ValueIn(pushed[innermost].fields, context[i].key)

(* A snapshot entered on a thread without context makes that context again, *)
(* key for key in the same order; entered anywhere, its values hide the     *)
(* thread's own (context.rs:73-77).                                         *)
SnapshotTransfers ==
    \A s \in snapshots :
        /\ Merge(<<[fields |-> s]>>) = s
        /\ \A t \in Threads :
              LET context == Merge(Append(stack[t], [fields |-> s]))
              IN  \A key \in KeysOf(s) : ValueIn(context, key) = ValueIn(s, key)

(* A queued record has the caller's fields as they were, then the context   *)
(* of the logging thread for the keys the caller did not set, each once     *)
(* (entry.rs:243-246).                                                      *)
RecordFields ==
    /\ Len(record.own) <= Len(record.fields)
    /\ SubSeq(record.fields, 1, Len(record.own)) = record.own
    /\ KeysOf(record.fields) = KeysOf(record.own) \cup KeysOf(record.context)
    /\ \A i \in Len(record.own) + 1..Len(record.fields) :
          /\ record.fields[i].key \notin KeysOf(record.own)
          /\ record.fields[i].value = ValueIn(record.context, record.fields[i].key)
          /\ \A j \in Len(record.own) + 1..Len(record.fields) :
                record.fields[j].key = record.fields[i].key => j = i
==============================================================================
