------------------------------- MODULE Fields -------------------------------
(* The fields of a record and of a context frame (entry.rs): sequences of   *)
(* keys with values.                                                        *)
EXTENDS Naturals, SequencesExt

KeysOf(fields) == {fields[i].key : i \in 1..Len(fields)}

(* merge_context: what the caller put on the record stays as it is, and     *)
(* the context's other keys follow.  A key that the context has twice is    *)
(* taken once: the loop looks at what it has pushed already.                *)
MergeAll(own, context) == own \o context
AddMissing(fields, f) == IF f.key \in KeysOf(fields) THEN fields ELSE Append(fields, f)
merge_context(own, context) == FoldLeft(AddMissing, own, context)
=============================================================================
