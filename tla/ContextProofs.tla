---------------------------- MODULE ContextProofs ----------------------------
(* Theorems about Context, for every set of threads, every set of field     *)
(* lists, any number of frames and snapshots, and guards dropped in any     *)
(* order.  What a thread's context holds is a fold of a fold, and is proved *)
(* by induction over the frames and over the fields of each.                *)
EXTENDS Context, FoldTheorems, FiniteSetTheorems

------------------------------------------------------------------------------
(* The stacks.                                                              *)

List == Seq(FieldsInUse)
Frame == [id : Nat, fields : List]
Pushed == [thread : Threads, fields : List]

StackTypeOK ==
    /\ stack \in [Threads -> Seq(Frame)]
    /\ next_id \in Nat \ {0}
    /\ guards \in [Threads -> SUBSET (1..next_id - 1)]
    /\ snapshots \subseteq List
    /\ pushed \in Seq(Pushed) /\ Len(pushed) = next_id - 1

StackInv == StackTypeOK /\ StackIsLiveGuards

(* A stack of the frames whose guards are held, inner ones later.           *)
IdsOf(frames) == {frames[i].id : i \in 1..Len(frames)}
Rising(frames) == \A i, j \in 1..Len(frames) : i < j => frames[i].id < frames[j].id

(* The frames of a stack are frames.                                        *)
LEMMA FramesTyped ==
    ASSUME NEW frames \in Seq(Frame)
    PROVE  /\ Len(frames) \in Nat
           /\ \A i \in 1..Len(frames) : frames[i] \in Frame /\ frames[i].id \in Nat
<1>1. \A f \in Frame : f.id \in Nat
    BY DEF Frame
<1>2. \A i \in 1..Len(frames) : frames[i] \in Frame
    OBVIOUS
<1> QED BY <1>1, <1>2

(* The drop of a guard takes its own frame out, wherever it stands.         *)
LEMMA WithoutFrame ==
    ASSUME NEW frames \in Seq(Frame), Rising(frames), NEW id \in IdsOf(frames)
    PROVE  \E p \in 1..Len(frames) :
              /\ frames[p].id = id
              /\ Without(frames, id) \in Seq(Frame)
              /\ Len(Without(frames, id)) = Len(frames) - 1
              /\ \A i \in 1..Len(frames) - 1 :
                    Without(frames, id)[i] = frames[IF i < p THEN i ELSE i + 1]
<1>1. Len(frames) \in Nat /\ \A i \in 1..Len(frames) : frames[i] \in Frame /\ frames[i].id \in Nat
    BY FramesTyped
<1>2. PICK p \in 1..Len(frames) : frames[p].id = id
    BY DEF IdsOf
<1> DEFINE found == {i \in 1..Len(frames) : frames[i].id = id}
<1>3. \A i \in 1..Len(frames) : frames[i].id = id => i = p
    BY <1>1, <1>2 DEF Rising
<1>4. found = {p}
    BY <1>2, <1>3
<1>5. Min(found) = p
    BY <1>4 DEF Min
<1>6. Without(frames, id) = RemoveAt(frames, p)
    <2>1. SelectInSeq(frames, LAMBDA frame : frame.id = id) = p
        BY <1>4, <1>5 DEF SelectInSeq
    <2> QED BY <1>2, <2>1 DEF Without, RemoveFirstMatch
<1>7. Without(frames, id) = SubSeq(frames, 1, p - 1) \o SubSeq(frames, p + 1, Len(frames))
    BY <1>6 DEF RemoveAt
<1> DEFINE before == SubSeq(frames, 1, p - 1)
           after == SubSeq(frames, p + 1, Len(frames))
<1>8. /\ before \in Seq(Frame) /\ Len(before) = p - 1
      /\ \A i \in 1..p - 1 : before[i] = frames[i]
    BY <1>1
<1>9. /\ after \in Seq(Frame) /\ Len(after) = Len(frames) - p
      /\ \A i \in 1..Len(frames) - p : after[i] = frames[p + i]
    BY <1>1
<1> HIDE DEF before, after
<1>10. /\ before \o after \in Seq(Frame) /\ Len(before \o after) = Len(frames) - 1
       /\ \A i \in 1..Len(frames) - 1 :
             (before \o after)[i] = IF i <= p - 1 THEN before[i] ELSE after[i - (p - 1)]
    <2>1. /\ before \o after \in Seq(Frame)
          /\ Len(before \o after) = Len(before) + Len(after)
          /\ \A i \in 1..Len(before) + Len(after) :
                (before \o after)[i] = IF i <= Len(before) THEN before[i]
                                       ELSE after[i - Len(before)]
        BY <1>8, <1>9, ConcatProperties
    <2>2. Len(before) + Len(after) = Len(frames) - 1
        BY <1>1, <1>8, <1>9
    <2> QED BY <1>8, <2>1, <2>2
<1>11. ASSUME NEW i \in 1..Len(frames) - 1
       PROVE  (before \o after)[i] = frames[IF i < p THEN i ELSE i + 1]
    <2>1. CASE i < p
        BY <1>8, <1>10, <2>1
    <2>2. CASE ~(i < p)
        <3>1. i - (p - 1) \in 1..Len(frames) - p /\ p + (i - (p - 1)) = i + 1 /\ ~(i <= p - 1)
            BY <1>1, <2>2
        <3> QED BY <1>9, <1>10, <2>2, <3>1
    <2> QED BY <2>1, <2>2
<1>12. Without(frames, id) = before \o after
    BY <1>7 DEF before, after
<1> QED BY <1>2, <1>10, <1>11, <1>12

(* Without a frame, the others keep their numbers and their order.          *)
LEMMA WithoutIds ==
    ASSUME NEW frames \in Seq(Frame), Rising(frames), NEW id \in IdsOf(frames)
    PROVE  LET left == Without(frames, id) IN
           /\ left \in Seq(Frame)
           /\ IdsOf(left) = IdsOf(frames) \ {id}
           /\ Rising(left)
           /\ \A i \in 1..Len(left) : \E j \in 1..Len(frames) : left[i] = frames[j]
<1> DEFINE left == Without(frames, id)
<1>1. PICK p \in 1..Len(frames) :
          /\ frames[p].id = id /\ left \in Seq(Frame) /\ Len(left) = Len(frames) - 1
          /\ \A i \in 1..Len(frames) - 1 : left[i] = frames[IF i < p THEN i ELSE i + 1]
    BY WithoutFrame
<1>2. Len(frames) \in Nat /\ \A i \in 1..Len(frames) : frames[i].id \in Nat
    BY FramesTyped
<1> HIDE DEF left
<1>3. \A i \in 1..Len(left) :
          /\ (IF i < p THEN i ELSE i + 1) \in 1..Len(frames) \ {p}
          /\ left[i] = frames[IF i < p THEN i ELSE i + 1]
    BY <1>1, <1>2
<1>4. \A j \in 1..Len(frames) \ {p} : \E i \in 1..Len(left) : left[i] = frames[j]
    <2> TAKE j \in 1..Len(frames) \ {p}
    <2>1. CASE j < p
        <3>1. j \in 1..Len(left) /\ left[j] = frames[j]
            BY <1>1, <1>2, <2>1
        <3> QED BY <3>1
    <2>2. CASE j > p
        <3>1. j - 1 \in 1..Len(left) /\ ~(j - 1 < p) /\ (j - 1) + 1 = j
            BY <1>1, <1>2, <2>2
        <3> QED BY <1>3, <3>1
    <2> QED BY <1>2, <2>1, <2>2
<1>5. \A j \in 1..Len(frames) \ {p} : frames[j].id # id
    BY <1>1, <1>2 DEF Rising
<1>6. IdsOf(left) = IdsOf(frames) \ {id}
    <2>1. ASSUME NEW x \in IdsOf(left) PROVE x \in IdsOf(frames) \ {id}
        BY <1>3, <1>5, <2>1 DEF IdsOf
    <2>2. ASSUME NEW x \in IdsOf(frames) \ {id} PROVE x \in IdsOf(left)
        <3>1. PICK j \in 1..Len(frames) : frames[j].id = x
            BY <2>2 DEF IdsOf
        <3>2. j # p
            BY <1>1, <2>2, <3>1
        <3>3. PICK i \in 1..Len(left) : left[i] = frames[j]
            BY <1>4, <3>2
        <3> QED BY <3>1, <3>3 DEF IdsOf
    <2> QED BY <2>1, <2>2
<1>7. Rising(left)
    <2> SUFFICES ASSUME NEW i \in 1..Len(left), NEW j \in 1..Len(left), i < j
                 PROVE  left[i].id < left[j].id
        BY DEF Rising
    <2> DEFINE f == IF i < p THEN i ELSE i + 1
               g == IF j < p THEN j ELSE j + 1
    <2>1. f \in 1..Len(frames) /\ g \in 1..Len(frames) /\ f < g
        BY <1>1, <1>2
    <2>2. left[i] = frames[f] /\ left[j] = frames[g]
        BY <1>3
    <2> HIDE DEF f, g
    <2> QED BY <2>1, <2>2 DEF Rising
<1> QED BY <1>1, <1>3, <1>6, <1>7 DEF left

(* A push puts a frame with a new number at the end.                        *)
LEMMA PushedFrame ==
    ASSUME NEW frames \in Seq(Frame), NEW frame \in Frame
    PROVE  LET more == Append(frames, frame) IN
           /\ more \in Seq(Frame) /\ Len(more) = Len(frames) + 1
           /\ IdsOf(more) = IdsOf(frames) \cup {frame.id}
           /\ \A i \in 1..Len(frames) : more[i] = frames[i]
           /\ more[Len(frames) + 1] = frame
<1> DEFINE more == Append(frames, frame)
<1>1. /\ more \in Seq(Frame) /\ Len(more) = Len(frames) + 1 /\ Len(frames) \in Nat
      /\ \A i \in 1..Len(frames) : more[i] = frames[i]
      /\ more[Len(frames) + 1] = frame
    BY AppendProperties
<1> HIDE DEF more
<1>2. IdsOf(more) = IdsOf(frames) \cup {frame.id}
    <2>1. 1..Len(more) = 1..Len(frames) \cup {Len(frames) + 1}
        BY <1>1
    <2> QED BY <1>1, <2>1 DEF IdsOf
<1> QED BY <1>1, <1>2 DEF more

(* The two threads of a push: the one that pushes and the others.           *)
LEMMA PushStacks ==
    ASSUME StackInv, NEW t \in Threads, NEW fields \in List, push_context(t, fields),
           UNCHANGED snapshots
    PROVE  StackInv'
<1>1. /\ next_id \in Nat \ {0} /\ next_id' = next_id + 1 /\ stack[t] \in Seq(Frame)
      /\ pushed \in Seq(Pushed) /\ Len(pushed) = next_id - 1
      /\ guards \in [Threads -> SUBSET (1..next_id - 1)]
    BY DEF StackInv, StackTypeOK, push_context
<1> DEFINE frame == [id |-> next_id, fields |-> fields]
           push == [thread |-> t, fields |-> fields]
<1>2. frame \in Frame /\ push \in Pushed
    BY <1>1 DEF Frame, Pushed
<1>3. /\ stack' = [stack EXCEPT ![t] = Append(stack[t], frame)]
      /\ pushed' = Append(pushed, push)
      /\ guards' = [guards EXCEPT ![t] = guards[t] \cup {next_id}]
    BY DEF push_context, FrameId
<1>4. frame.id = next_id /\ frame.fields = fields
    OBVIOUS
<1>5. push = [thread |-> t, fields |-> frame.fields]
    OBVIOUS
<1> HIDE DEF frame, push
<1>6. /\ Append(stack[t], frame) \in Seq(Frame)
      /\ Len(Append(stack[t], frame)) = Len(stack[t]) + 1
      /\ IdsOf(Append(stack[t], frame)) = IdsOf(stack[t]) \cup {next_id}
      /\ \A i \in 1..Len(stack[t]) : Append(stack[t], frame)[i] = stack[t][i]
      /\ Append(stack[t], frame)[Len(stack[t]) + 1] = frame
    BY <1>1, <1>2, <1>4, PushedFrame
<1>7. /\ pushed' \in Seq(Pushed) /\ Len(pushed') = next_id
      /\ \A k \in 1..next_id - 1 : pushed'[k] = pushed[k]
      /\ pushed'[next_id] = push
    BY <1>1, <1>2, <1>3, AppendProperties
<1>8. StackTypeOK'
    <2>1. stack' \in [Threads -> Seq(Frame)]
        BY <1>3, <1>6 DEF StackInv, StackTypeOK
    <2>2. guards' \in [Threads -> SUBSET (1..next_id' - 1)]
        <3>1. 1..next_id' - 1 = 1..next_id - 1 \cup {next_id}
            BY <1>1
        <3> QED BY <1>1, <1>3, <3>1
    <2> QED BY <1>1, <1>7, <2>1, <2>2 DEF StackInv, StackTypeOK
<1>9. ASSUME NEW u \in Threads
      PROVE  /\ {stack'[u][i].id : i \in 1..Len(stack'[u])} = guards'[u]
             /\ \A i \in 1..Len(stack'[u]) :
                   pushed'[stack'[u][i].id] = [thread |-> u, fields |-> stack'[u][i].fields]
             /\ \A i, j \in 1..Len(stack'[u]) : i < j => stack'[u][i].id < stack'[u][j].id
    <2>1. /\ IdsOf(stack[u]) = guards[u]
          /\ \A i \in 1..Len(stack[u]) :
                pushed[stack[u][i].id] = [thread |-> u, fields |-> stack[u][i].fields]
          /\ \A i, j \in 1..Len(stack[u]) : i < j => stack[u][i].id < stack[u][j].id
        BY DEF StackInv, StackIsLiveGuards, IdsOf
    <2>2. \A i \in 1..Len(stack[u]) : stack[u][i].id \in 1..next_id - 1
        BY <1>1, <2>1 DEF IdsOf
    <2>3. CASE u # t
        <3>1. stack'[u] = stack[u] /\ guards'[u] = guards[u]
            BY <1>1, <1>3, <2>3 DEF StackInv, StackTypeOK
        <3> QED BY <1>7, <2>1, <2>2, <3>1 DEF IdsOf
    <2>4. CASE u = t
        <3>1. stack'[u] = Append(stack[t], frame) /\ guards'[u] = guards[t] \cup {next_id}
            BY <1>1, <1>3, <2>4 DEF StackInv, StackTypeOK
        <3>2. IdsOf(stack'[u]) = guards'[u]
            BY <1>6, <2>1, <2>4, <3>1
        <3>3. Len(stack[t]) \in Nat
            BY <1>1
        <3>4. ASSUME NEW i \in 1..Len(stack'[u])
              PROVE  \/ i \in 1..Len(stack[t]) /\ stack'[u][i] = stack[t][i]
                     \/ i = Len(stack[t]) + 1 /\ stack'[u][i] = frame
            BY <1>6, <3>1, <3>3
        <3>5. ASSUME NEW i \in 1..Len(stack'[u])
              PROVE  pushed'[stack'[u][i].id] = [thread |-> u, fields |-> stack'[u][i].fields]
            BY <1>4, <1>5, <1>7, <2>1, <2>2, <2>4, <3>4
        <3>6. ASSUME NEW i \in 1..Len(stack'[u]), NEW j \in 1..Len(stack'[u]), i < j
              PROVE  stack'[u][i].id < stack'[u][j].id
            <4>1. i \in 1..Len(stack[t]) /\ stack'[u][i] = stack[t][i]
                BY <1>6, <3>1, <3>3, <3>4, <3>6
            <4>2. CASE stack'[u][j] = frame
                BY <1>1, <1>4, <2>2, <2>4, <4>1, <4>2
            <4>3. CASE j \in 1..Len(stack[t]) /\ stack'[u][j] = stack[t][j]
                BY <2>1, <2>4, <3>6, <4>1, <4>3
            <4> QED BY <3>4, <4>2, <4>3
        <3> QED BY <3>2, <3>5, <3>6 DEF IdsOf
    <2> QED BY <2>3, <2>4
<1>10. StackIsLiveGuards'
    BY <1>9 DEF StackIsLiveGuards
<1> QED BY <1>8, <1>10 DEF StackInv

(* The drop of a guard keeps the invariant, whichever guard it is.          *)
LEMMA DropStacks ==
    ASSUME StackInv, NEW t \in Threads, Drop(t)
    PROVE  StackInv'
<1>1. PICK id \in guards[t] :
          /\ stack' = [stack EXCEPT ![t] = Without(stack[t], id)]
          /\ guards' = [guards EXCEPT ![t] = guards[t] \ {id}]
          /\ UNCHANGED <<next_id, snapshots, record, pushed>>
    BY DEF Drop
<1>2. /\ stack \in [Threads -> Seq(Frame)]
      /\ guards \in [Threads -> SUBSET (1..next_id - 1)]
    BY DEF StackInv, StackTypeOK
<1>3. ASSUME NEW u \in Threads
      PROVE  /\ IdsOf(stack[u]) = guards[u] /\ Rising(stack[u])
             /\ \A i \in 1..Len(stack[u]) :
                   pushed[stack[u][i].id] = [thread |-> u, fields |-> stack[u][i].fields]
    BY DEF StackInv, StackIsLiveGuards, IdsOf, Rising
<1> DEFINE left == Without(stack[t], id)
<1>4. /\ left \in Seq(Frame) /\ IdsOf(left) = guards[t] \ {id} /\ Rising(left)
      /\ \A i \in 1..Len(left) : \E j \in 1..Len(stack[t]) : left[i] = stack[t][j]
    <2>1. stack[t] \in Seq(Frame) /\ Rising(stack[t]) /\ id \in IdsOf(stack[t])
        BY <1>1, <1>2, <1>3
    <2> QED BY <1>3, <2>1, WithoutIds
<1> HIDE DEF left
<1>5. /\ stack' = [stack EXCEPT ![t] = left]
      /\ \A u \in Threads : stack'[u] = (IF u = t THEN left ELSE stack[u])
      /\ \A u \in Threads : guards'[u] = (IF u = t THEN guards[t] \ {id} ELSE guards[u])
    BY <1>1, <1>2 DEF left
<1>6. StackTypeOK'
    <2>1. stack' \in [Threads -> Seq(Frame)]
        BY <1>2, <1>4, <1>5
    <2>2. guards' \in [Threads -> SUBSET (1..next_id - 1)]
        BY <1>1, <1>2
    <2> QED BY <1>1, <2>1, <2>2 DEF StackInv, StackTypeOK
<1>7. ASSUME NEW u \in Threads
      PROVE  /\ IdsOf(stack'[u]) = guards'[u] /\ Rising(stack'[u])
             /\ \A i \in 1..Len(stack'[u]) :
                   pushed'[stack'[u][i].id] = [thread |-> u, fields |-> stack'[u][i].fields]
    <2>1. CASE u # t
        BY <1>1, <1>3, <1>5, <2>1
    <2>2. CASE u = t
        <3>1. stack'[u] = left /\ guards'[u] = guards[t] \ {id} /\ pushed' = pushed
            BY <1>1, <1>5, <2>2
        <3>2. \A i \in 1..Len(left) :
                  pushed[left[i].id] = [thread |-> t, fields |-> left[i].fields]
            BY <1>3, <1>4
        <3> QED BY <1>4, <2>2, <3>1, <3>2
    <2> QED BY <2>1, <2>2
<1>8. StackIsLiveGuards'
    BY <1>7 DEF StackIsLiveGuards, IdsOf, Rising
<1> QED BY <1>6, <1>8 DEF StackInv

------------------------------------------------------------------------------
(* One frame's fields.                                                      *)

(* A list that has no key twice stands for the set of its fields.           *)
Distinct(list) == \A i, j \in 1..Len(list) : list[i].key = list[j].key => i = j
Contexts == {list \in List : Distinct(list)}
FieldsOf(list) == {list[i] : i \in 1..Len(list)}

(* A set of fields with those of another over it.                           *)
Over(under, top) == {e \in under : \A f \in top : f.key # e.key} \cup top

(* A field replaces the one with its key, or is added.                      *)
LEMMA PutIs ==
    ASSUME NEW merged \in Contexts, NEW field \in FieldsInUse
    PROVE  /\ Put(merged, field) \in Contexts
           /\ FieldsOf(Put(merged, field)) = Over(FieldsOf(merged), {field})
<1> DEFINE put == Put(merged, field)
<1>1. /\ merged \in List /\ Distinct(merged) /\ Len(merged) \in Nat
      /\ \A i \in 1..Len(merged) : merged[i] \in FieldsInUse
    BY DEF Contexts, List
<1>2. CASE field.key \in KeysOf(merged)
    <2>1. put = [i \in 1..Len(merged) |->
                    IF merged[i].key = field.key THEN field ELSE merged[i]]
        BY <1>2 DEF Put
    <2>2. put \in List
        BY <1>1, <2>1 DEF List
    <2>3. Len(put) = Len(merged)
        BY <1>1, <2>1
    <2>4. \A i \in 1..Len(merged) :
              put[i] = IF merged[i].key = field.key THEN field ELSE merged[i]
        BY <2>1
    <2> HIDE DEF put
    <2>5. \A i \in 1..Len(merged) : put[i].key = merged[i].key
        BY <2>4
    <2>6. Distinct(put)
        BY <1>1, <2>3, <2>5 DEF Distinct
    <2>7. PICK k \in 1..Len(merged) : merged[k].key = field.key
        BY <1>2 DEF KeysOf
    <2>8. FieldsOf(put) = Over(FieldsOf(merged), {field})
        <3>1. ASSUME NEW e \in FieldsOf(put) PROVE e \in Over(FieldsOf(merged), {field})
            BY <2>3, <2>4, <3>1 DEF FieldsOf, Over
        <3>2. field \in FieldsOf(put)
            BY <2>3, <2>4, <2>7 DEF FieldsOf
        <3>3. ASSUME NEW e \in FieldsOf(merged), field.key # e.key PROVE e \in FieldsOf(put)
            BY <2>3, <2>4, <3>3 DEF FieldsOf
        <3> QED BY <3>1, <3>2, <3>3 DEF Over
    <2> QED BY <2>2, <2>6, <2>8 DEF Contexts, put
<1>3. CASE field.key \notin KeysOf(merged)
    <2>1. put = Append(merged, field)
        BY <1>3 DEF Put
    <2>2. /\ put \in List /\ Len(put) = Len(merged) + 1
          /\ \A i \in 1..Len(merged) : put[i] = merged[i]
          /\ put[Len(merged) + 1] = field
        BY <1>1, <2>1, AppendProperties DEF List
    <2> HIDE DEF put
    <2>3. \A i \in 1..Len(merged) : merged[i].key # field.key
        BY <1>3 DEF KeysOf
    <2>4. \A i \in 1..Len(put) : i \in 1..Len(merged) \/ i = Len(merged) + 1
        BY <1>1, <2>2
    <2>5. Distinct(put)
        <3> SUFFICES ASSUME NEW i \in 1..Len(put), NEW j \in 1..Len(put),
                            put[i].key = put[j].key
                     PROVE  i = j
            BY DEF Distinct
        <3> QED BY <1>1, <2>2, <2>3, <2>4 DEF Distinct
    <2>6. FieldsOf(put) = FieldsOf(merged) \cup {field}
        <3>1. 1..Len(put) = 1..Len(merged) \cup {Len(merged) + 1}
            BY <1>1, <2>2
        <3> QED BY <2>2, <3>1 DEF FieldsOf
    <2>7. FieldsOf(put) = Over(FieldsOf(merged), {field})
        BY <2>3, <2>6 DEF Over, FieldsOf
    <2> QED BY <2>2, <2>5, <2>7 DEF Contexts, put
<1> QED BY <1>2, <1>3

(* The inner loop of current_context, one field after another.              *)
PutAll(it, merged, fields) ==
    it = [s \in SUBSET DOMAIN fields |->
             IF s = {} THEN merged ELSE Put(it[s \ {Max(s)}], fields[Max(s)])]

(* Its values for each number of fields.                                    *)
LEMMA PutSteps ==
    ASSUME NEW merged \in Contexts, NEW fields \in List
    PROVE  \E m : /\ m[0] = merged
                  /\ \A k \in 1..Len(fields) : m[k] = Put(m[k - 1], fields[k])
                  /\ FoldLeft(Put, merged, fields) = m[Len(fields)]
<1> DEFINE n == Len(fields)
           chosen == CHOOSE it : PutAll(it, merged, fields)
           op == [x \in Contexts \X FieldsInUse |-> Put(x[1], x[2])]
<1>1. n \in Nat /\ DOMAIN fields = 1..n /\ \A i \in 1..n : fields[i] \in FieldsInUse
    BY DEF List
<1>2. FoldLeft(Put, merged, fields) = chosen[1..n]
    BY <1>1 DEF FoldLeft, MapThenFoldSet, PutAll
<1>3. op \in [Contexts \X FieldsInUse -> Contexts]
    BY PutIs
<1>4. \A v \in Contexts, e \in FieldsInUse : op[<<v, e>>] = Put(v, e)
    OBVIOUS
<1> HIDE DEF op
<1>5. PICK it \in [SUBSET (1..n) -> Contexts] : FoldOf(it, op, merged, fields, n)
    BY <1>3, FoldExists DEF List
<1>6. PutAll(it, merged, fields)
    <2>1. ASSUME NEW s \in SUBSET (1..n), s # {}
          PROVE  op[<<it[s \ {Max(s)}], fields[Max(s)]>>] = Put(it[s \ {Max(s)}], fields[Max(s)])
        <3>1. Max(s) \in 1..n
            <4>1. s \subseteq 0..n
                BY <1>1
            <4> QED BY <1>1, <2>1, <4>1, MaxOfBounded
        <3>2. it[s \ {Max(s)}] \in Contexts /\ fields[Max(s)] \in FieldsInUse
            BY <1>1, <1>5, <3>1
        <3> QED BY <1>4, <3>2
    <2> QED BY <1>1, <1>5, <2>1 DEF FoldOf, PutAll
<1>7. PutAll(chosen, merged, fields)
    BY <1>6
<1> HIDE DEF chosen
<1>8. \A s \in SUBSET (1..n) : chosen[s] =
          IF s = {} THEN merged ELSE Put(chosen[s \ {Max(s)}], fields[Max(s)])
    BY <1>1, <1>7 DEF PutAll
<1> DEFINE m == [k \in 0..n |-> chosen[1..k]]
<1>9. m[0] = merged
    <2>1. 0 \in 0..n /\ 1..0 = {} /\ {} \in SUBSET (1..n)
        BY <1>1
    <2>2. m[0] = chosen[{}]
        BY <2>1
    <2> QED BY <1>8, <2>1, <2>2
<1>10. ASSUME NEW k \in 1..n PROVE m[k] = Put(m[k - 1], fields[k])
    <2>1. 1..k # {} /\ Max(1..k) = k /\ 1..k \ {k} = 1..k - 1 /\ 1..k \in SUBSET (1..n)
        BY <1>1, UpTo
    <2>2. chosen[1..k] = Put(chosen[1..k - 1], fields[k])
        BY <1>8, <2>1
    <2> QED BY <1>1, <2>2
<1>11. m[n] = chosen[1..n]
    BY <1>1
<1> HIDE DEF m
<1> QED BY <1>2, <1>9, <1>10, <1>11

(* Of the first k fields of a list, the last with each key.                 *)
Lasts(fields, k) ==
    {fields[j] : j \in {i \in 1..k : \A h \in i + 1..k : fields[h].key # fields[i].key}}

(* One more field is put over those before it.                              *)
LEMMA LastsGrow ==
    ASSUME NEW fields, NEW k \in Nat \ {0}
    PROVE  Lasts(fields, k) = Over(Lasts(fields, k - 1), {fields[k]})
<1>1. ASSUME NEW e \in Lasts(fields, k) PROVE e \in Over(Lasts(fields, k - 1), {fields[k]})
    <2>1. PICK j \in 1..k : e = fields[j] /\ \A h \in j + 1..k : fields[h].key # fields[j].key
        BY <1>1 DEF Lasts
    <2>2. CASE j = k
        BY <2>1, <2>2 DEF Over
    <2>3. CASE j # k
        <3>1. /\ j \in 1..k - 1 /\ k \in j + 1..k
              /\ \A h \in j + 1..k - 1 : fields[h].key # fields[j].key
            BY <2>1, <2>3
        <3> QED BY <2>1, <3>1 DEF Lasts, Over
    <2> QED BY <2>2, <2>3
<1>2. ASSUME NEW e \in Over(Lasts(fields, k - 1), {fields[k]}) PROVE e \in Lasts(fields, k)
    <2>1. CASE e = fields[k]
        <3>1. k \in 1..k /\ k + 1..k = {}
            OBVIOUS
        <3> QED BY <2>1, <3>1 DEF Lasts
    <2>2. CASE e \in Lasts(fields, k - 1) /\ fields[k].key # e.key
        <3>1. PICK j \in 1..k - 1 : /\ e = fields[j]
                                    /\ \A h \in j + 1..k - 1 : fields[h].key # fields[j].key
            BY <2>2 DEF Lasts
        <3>2. j \in 1..k /\ \A h \in j + 1..k : fields[h].key # fields[j].key
            BY <2>2, <3>1
        <3> QED BY <3>1, <3>2 DEF Lasts
    <2> QED BY <1>2, <2>1, <2>2 DEF Over
<1> QED BY <1>1, <1>2

(* A key of the list has a last field, whose value is ValueIn.              *)
LEMMA LastsAre ==
    ASSUME NEW fields \in List
    PROVE  /\ \A e \in Lasts(fields, Len(fields)) :
                 e.key \in KeysOf(fields) /\ ValueIn(fields, e.key) = e.value
           /\ \A key \in KeysOf(fields) : \E e \in Lasts(fields, Len(fields)) : e.key = key
<1>1. Len(fields) \in Nat
    BY DEF List
<1>2. ASSUME NEW e \in Lasts(fields, Len(fields))
      PROVE  e.key \in KeysOf(fields) /\ ValueIn(fields, e.key) = e.value
    <2>1. PICK j \in 1..Len(fields) : /\ e = fields[j]
                                      /\ \A h \in j + 1..Len(fields) : fields[h].key # e.key
        BY <1>2 DEF Lasts
    <2> DEFINE last == CHOOSE i \in 1..Len(fields) :
                          /\ fields[i].key = e.key
                          /\ \A h \in i + 1..Len(fields) : fields[h].key # e.key
    <2>2. /\ last \in 1..Len(fields) /\ fields[last].key = e.key
          /\ \A h \in last + 1..Len(fields) : fields[h].key # e.key
        BY <2>1
    <2>3. ValueIn(fields, e.key) = fields[last].value
        BY DEF ValueIn
    <2> HIDE DEF last
    <2>4. last = j
        BY <1>1, <2>1, <2>2
    <2> QED BY <2>1, <2>3, <2>4 DEF KeysOf
<1>3. ASSUME NEW key \in KeysOf(fields)
      PROVE  \E e \in Lasts(fields, Len(fields)) : e.key = key
    <2> DEFINE with == {i \in 1..Len(fields) : fields[i].key = key}
    <2>1. with \subseteq 0..Len(fields) /\ with # {}
        BY <1>1, <1>3 DEF KeysOf
    <2>2. Max(with) \in with /\ \A i \in with : i <= Max(with)
        BY <1>1, <2>1, MaxOfBounded
    <2>3. PICK j \in with : \A i \in with : i <= j
        BY <2>2
    <2>4. \A h \in j + 1..Len(fields) : fields[h].key # fields[j].key
        BY <1>1, <2>3
    <2>5. fields[j] \in Lasts(fields, Len(fields)) /\ fields[j].key = key
        BY <2>3, <2>4 DEF Lasts
    <2> QED BY <2>5
<1> QED BY <1>2, <1>3

(* A frame's fields over those of the frames around it.                     *)
LEMMA PutAllIs ==
    ASSUME NEW merged \in Contexts, NEW fields \in List
    PROVE  /\ FoldLeft(Put, merged, fields) \in Contexts
           /\ FieldsOf(FoldLeft(Put, merged, fields))
                = Over(FieldsOf(merged), Lasts(fields, Len(fields)))
<1>1. PICK m : /\ m[0] = merged
               /\ \A k \in 1..Len(fields) : m[k] = Put(m[k - 1], fields[k])
               /\ FoldLeft(Put, merged, fields) = m[Len(fields)]
    BY PutSteps
<1>2. Len(fields) \in Nat /\ \A k \in 1..Len(fields) : fields[k] \in FieldsInUse
    BY DEF List
<1> DEFINE P == {k \in Nat : /\ m[k] \in Contexts
                             /\ FieldsOf(m[k]) = Over(FieldsOf(merged), Lasts(fields, k))}
<1>3. 0 \in P
    <2>1. Lasts(fields, 0) = {}
        BY DEF Lasts
    <2> QED BY <1>1, <2>1 DEF Over
<1>4. ASSUME NEW k \in 1..Len(fields), k - 1 \in P PROVE k \in P
    <2>1. /\ m[k] \in Contexts
          /\ FieldsOf(m[k]) = Over(FieldsOf(m[k - 1]), {fields[k]})
        BY <1>1, <1>2, <1>4, PutIs
    <2>2. FieldsOf(m[k]) = Over(Over(FieldsOf(merged), Lasts(fields, k - 1)), {fields[k]})
        BY <1>4, <2>1
    <2>3. \A A, B, C : Over(Over(A, B), C) = Over(A, Over(B, C))
        BY DEF Over
    <2>4. k \in Nat \ {0} /\ k \in Nat
        BY <1>2
    <2>5. Lasts(fields, k) = Over(Lasts(fields, k - 1), {fields[k]})
        BY <2>4, LastsGrow
    <2> QED BY <2>1, <2>2, <2>3, <2>4, <2>5
<1> HIDE DEF P
<1>5. \A k \in 0..Len(fields) : k \in P
    <2>1. Len(fields) \in Nat
        BY <1>2
    <2> QED BY <1>3, <1>4, <2>1, UpToInduction
<1>6. Len(fields) \in P
    BY <1>2, <1>5
<1> QED BY <1>1, <1>6 DEF P

------------------------------------------------------------------------------
(* A stack of frames.                                                       *)

(* The outer loop of current_context, one frame after another.              *)
PutFrames(it, frames) ==
    it = [s \in SUBSET DOMAIN frames |->
             IF s = {} THEN <<>> ELSE PutFrame(it[s \ {Max(s)}], frames[Max(s)])]

(* Its values for each number of frames.                                    *)
LEMMA MergeSteps ==
    ASSUME NEW E, \A f \in E : f.fields \in List, NEW frames \in Seq(E)
    PROVE  \E m : /\ m[0] = <<>>
                  /\ \A k \in 1..Len(frames) : m[k] = PutFrame(m[k - 1], frames[k])
                  /\ Merge(frames) = m[Len(frames)]
<1> DEFINE n == Len(frames)
           chosen == CHOOSE it : PutFrames(it, frames)
           op == [x \in Contexts \X E |-> PutFrame(x[1], x[2])]
<1>1. n \in Nat /\ DOMAIN frames = 1..n /\ \A i \in 1..n : frames[i] \in E
    OBVIOUS
<1>2. Merge(frames) = chosen[1..n]
    BY <1>1 DEF Merge, FoldLeft, MapThenFoldSet, PutFrames
<1>3. op \in [Contexts \X E -> Contexts]
    BY PutAllIs DEF PutFrame
<1>4. \A v \in Contexts, e \in E : op[<<v, e>>] = PutFrame(v, e)
    OBVIOUS
<1> HIDE DEF op
<1>5. <<>> \in Contexts
    BY DEF Contexts, List, Distinct
<1>6. PICK it \in [SUBSET (1..n) -> Contexts] : FoldOf(it, op, <<>>, frames, n)
    BY <1>3, <1>5, FoldExists
<1>7. PutFrames(it, frames)
    <2>1. ASSUME NEW s \in SUBSET (1..n), s # {}
          PROVE  op[<<it[s \ {Max(s)}], frames[Max(s)]>>]
                   = PutFrame(it[s \ {Max(s)}], frames[Max(s)])
        <3>1. Max(s) \in 1..n
            <4>1. s \subseteq 0..n
                BY <1>1
            <4> QED BY <1>1, <2>1, <4>1, MaxOfBounded
        <3>2. it[s \ {Max(s)}] \in Contexts /\ frames[Max(s)] \in E
            BY <1>1, <1>6, <3>1
        <3> QED BY <1>4, <3>2
    <2> QED BY <1>1, <1>6, <2>1 DEF FoldOf, PutFrames
<1>8. PutFrames(chosen, frames)
    BY <1>7
<1> HIDE DEF chosen
<1>9. \A s \in SUBSET (1..n) : chosen[s] =
          IF s = {} THEN <<>> ELSE PutFrame(chosen[s \ {Max(s)}], frames[Max(s)])
    BY <1>1, <1>8 DEF PutFrames
<1> DEFINE m == [k \in 0..n |-> chosen[1..k]]
<1>10. m[0] = <<>>
    <2>1. 0 \in 0..n /\ 1..0 = {} /\ {} \in SUBSET (1..n)
        BY <1>1
    <2>2. m[0] = chosen[{}]
        BY <2>1
    <2> QED BY <1>9, <2>1, <2>2
<1>11. ASSUME NEW k \in 1..n PROVE m[k] = PutFrame(m[k - 1], frames[k])
    <2>1. 1..k # {} /\ Max(1..k) = k /\ 1..k \ {k} = 1..k - 1 /\ 1..k \in SUBSET (1..n)
        BY <1>1, UpTo
    <2>2. chosen[1..k] = PutFrame(chosen[1..k - 1], frames[k])
        BY <1>9, <2>1
    <2> QED BY <1>1, <2>2
<1>12. m[n] = chosen[1..n]
    BY <1>1
<1> HIDE DEF m
<1> QED BY <1>2, <1>10, <1>11, <1>12

LastsOf(fields) == Lasts(fields, Len(fields))

(* The fields of the first k frames that no frame further in hides.         *)
Visible(frames, k) ==
    UNION {{e \in LastsOf(frames[j].fields) :
               \A h \in j + 1..k : e.key \notin KeysOf(frames[h].fields)} : j \in 1..k}

(* One more frame is put over those around it.                              *)
LEMMA VisibleGrow ==
    ASSUME NEW frames, NEW k \in Nat \ {0}, frames[k].fields \in List
    PROVE  Visible(frames, k) = Over(Visible(frames, k - 1), LastsOf(frames[k].fields))
<1> DEFINE last == frames[k].fields
<1>1. /\ \A e \in LastsOf(last) : e.key \in KeysOf(last)
      /\ \A key \in KeysOf(last) : \E e \in LastsOf(last) : e.key = key
    BY LastsAre DEF LastsOf
<1>2. \A e : (\A f \in LastsOf(last) : f.key # e.key) <=> e.key \notin KeysOf(last)
    BY <1>1
<1> HIDE DEF last
<1>3. ASSUME NEW e \in Visible(frames, k)
      PROVE  e \in Over(Visible(frames, k - 1), LastsOf(last))
    <2>1. PICK j \in 1..k : /\ e \in LastsOf(frames[j].fields)
                            /\ \A h \in j + 1..k : e.key \notin KeysOf(frames[h].fields)
        BY <1>3 DEF Visible
    <2>2. CASE j = k
        BY <2>1, <2>2 DEF Over, last
    <2>3. CASE j # k
        <3>1. /\ j \in 1..k - 1 /\ k \in j + 1..k
              /\ \A h \in j + 1..k - 1 : h \in j + 1..k
            BY <2>3
        <3>2. e \in Visible(frames, k - 1)
            BY <2>1, <3>1 DEF Visible
        <3>3. e.key \notin KeysOf(last)
            BY <2>1, <3>1 DEF last
        <3> QED BY <1>2, <3>2, <3>3 DEF Over
    <2> QED BY <2>2, <2>3
<1>4. ASSUME NEW e \in Over(Visible(frames, k - 1), LastsOf(last))
      PROVE  e \in Visible(frames, k)
    <2>1. CASE e \in LastsOf(last)
        <3>1. k \in 1..k /\ k + 1..k = {}
            OBVIOUS
        <3> QED BY <2>1, <3>1 DEF Visible, last
    <2>2. CASE e \in Visible(frames, k - 1) /\ \A f \in LastsOf(last) : f.key # e.key
        <3>1. PICK j \in 1..k - 1 :
                  /\ e \in LastsOf(frames[j].fields)
                  /\ \A h \in j + 1..k - 1 : e.key \notin KeysOf(frames[h].fields)
            BY <2>2 DEF Visible
        <3>2. e.key \notin KeysOf(frames[k].fields)
            BY <1>2, <2>2 DEF last
        <3>3. j \in 1..k /\ \A h \in j + 1..k : h \in j + 1..k - 1 \/ h = k
            OBVIOUS
        <3>4. \A h \in j + 1..k : e.key \notin KeysOf(frames[h].fields)
            BY <3>1, <3>2, <3>3
        <3> QED BY <3>1, <3>3, <3>4 DEF Visible
    <2> QED BY <1>4, <2>1, <2>2 DEF Over
<1> QED BY <1>3, <1>4 DEF last

(* The merge of a stack has the visible fields, and no key twice.           *)
LEMMA MergeIs ==
    ASSUME NEW E, \A f \in E : f.fields \in List, NEW frames \in Seq(E)
    PROVE  /\ Merge(frames) \in Contexts
           /\ FieldsOf(Merge(frames)) = Visible(frames, Len(frames))
<1>1. PICK m : /\ m[0] = <<>>
               /\ \A k \in 1..Len(frames) : m[k] = PutFrame(m[k - 1], frames[k])
               /\ Merge(frames) = m[Len(frames)]
    BY MergeSteps
<1>2. Len(frames) \in Nat /\ \A k \in 1..Len(frames) : frames[k].fields \in List
    OBVIOUS
<1> DEFINE P == {k \in Nat : /\ m[k] \in Contexts
                             /\ FieldsOf(m[k]) = Visible(frames, k)}
<1>3. 0 \in P
    <2>1. Visible(frames, 0) = {}
        BY DEF Visible
    <2>2. FieldsOf(<<>>) = {} /\ <<>> \in Contexts
        BY DEF FieldsOf, Contexts, List, Distinct
    <2> QED BY <1>1, <2>1, <2>2
<1>4. ASSUME NEW k \in 1..Len(frames), k - 1 \in P PROVE k \in P
    <2>1. /\ m[k] \in Contexts
          /\ FieldsOf(m[k]) = Over(FieldsOf(m[k - 1]), LastsOf(frames[k].fields))
        BY <1>1, <1>2, <1>4, PutAllIs DEF PutFrame, LastsOf
    <2>2. k \in Nat \ {0} /\ frames[k].fields \in List
        BY <1>2
    <2>3. Visible(frames, k) = Over(Visible(frames, k - 1), LastsOf(frames[k].fields))
        BY <2>2, VisibleGrow
    <2> QED BY <1>4, <2>1, <2>2, <2>3
<1> HIDE DEF P
<1>5. \A k \in 0..Len(frames) : k \in P
    <2>1. Len(frames) \in Nat
        BY <1>2
    <2> QED BY <1>3, <1>4, <2>1, UpToInduction
<1>6. Len(frames) \in P
    BY <1>2, <1>5
<1> QED BY <1>1, <1>6 DEF P

(* A key of the frames is visible, from the innermost frame that has it.    *)
LEMMA VisibleKeys ==
    ASSUME NEW E, \A f \in E : f.fields \in List, NEW frames \in Seq(E)
    PROVE  {e.key : e \in Visible(frames, Len(frames))}
             = UNION {KeysOf(frames[j].fields) : j \in 1..Len(frames)}
<1> DEFINE n == Len(frames)
<1>1. n \in Nat /\ \A j \in 1..n : frames[j].fields \in List
    OBVIOUS
<1>2. ASSUME NEW e \in Visible(frames, n)
      PROVE  \E j \in 1..n : e.key \in KeysOf(frames[j].fields)
    BY <1>1, LastsAre DEF Visible, LastsOf
<1>3. ASSUME NEW i \in 1..n, NEW key \in KeysOf(frames[i].fields)
      PROVE  \E e \in Visible(frames, n) : e.key = key
    <2> DEFINE with == {j \in 1..n : key \in KeysOf(frames[j].fields)}
    <2>1. with \subseteq 0..n /\ with # {}
        BY <1>1, <1>3
    <2>2. PICK j \in with : \A h \in with : h <= j
        BY <1>1, <2>1, MaxOfBounded
    <2>3. \A h \in j + 1..n : key \notin KeysOf(frames[h].fields)
        BY <1>1, <2>2
    <2>4. PICK e \in LastsOf(frames[j].fields) : e.key = key
        BY <1>1, <2>2, LastsAre DEF LastsOf
    <2> HIDE DEF with
    <2>5. j \in 1..n
        BY <2>2 DEF with
    <2> QED BY <2>3, <2>4, <2>5 DEF Visible
<1>4. \A k : k \in {e.key : e \in Visible(frames, n)}
              <=> \E j \in 1..n : k \in KeysOf(frames[j].fields)
    BY <1>2, <1>3
<1> QED BY <1>4

(* The keys of a list are those of its fields.                              *)
LEMMA KeysAreFieldKeys ==
    ASSUME NEW list
    PROVE  KeysOf(list) = {e.key : e \in FieldsOf(list)}
BY DEF KeysOf, FieldsOf

(* A context has as many fields as keys.                                    *)
LEMMA KeysCounted ==
    ASSUME NEW list \in Contexts
    PROVE  Len(list) = Cardinality(KeysOf(list))
<1>1. Len(list) \in Nat /\ Distinct(list)
    BY DEF Contexts, List
<1> DEFINE key == [i \in 1..Len(list) |-> list[i].key]
<1>2. key \in Bijection(1..Len(list), KeysOf(list))
    <2>1. key \in [1..Len(list) -> KeysOf(list)]
        BY DEF KeysOf
    <2>2. \A i, j \in 1..Len(list) : key[i] = key[j] => i = j
        BY <1>1 DEF Distinct
    <2>3. \A k \in KeysOf(list) : \E i \in 1..Len(list) : key[i] = k
        BY DEF KeysOf
    <2> HIDE DEF key
    <2> QED BY <2>1, <2>2, <2>3, Zenon DEF Bijection, Injection, Surjection, IsInjective
<1>3. IsFiniteSet(1..Len(list)) /\ Cardinality(1..Len(list)) = Len(list)
    <2>1. 1 \in Int /\ Len(list) \in Int
        BY <1>1
    <2>2. Cardinality(1..Len(list)) = IF 1 > Len(list) THEN 0 ELSE Len(list) - 1 + 1
        BY <2>1, FS_Interval
    <2>3. IsFiniteSet(1..Len(list))
        BY <2>1, FS_Interval
    <2> QED BY <1>1, <2>2, <2>3
<1>4. Cardinality(KeysOf(list)) = Cardinality(1..Len(list))
    BY <1>2, <1>3, FS_Bijection DEF ExistsBijection
<1> QED BY <1>3, <1>4

(* What the stacks' invariant says of the merged context.                   *)
LEMMA InnermostFromStacks ==
    ASSUME StackInv
    PROVE  InnermostWins
<1> SUFFICES ASSUME NEW t \in Threads
             PROVE  LET context == current_context(t) IN
                    /\ KeysOf(context) = UNION {KeysOf(pushed[id].fields) : id \in guards[t]}
                    /\ Len(context) = Cardinality(KeysOf(context))
                    /\ \A i \in 1..Len(context) :
                          LET held == Holders(t, context[i].key)
                              innermost == CHOOSE id \in held : \A other \in held : other <= id
                          IN  context[i].value = ValueIn(pushed[innermost].fields, context[i].key)
    BY Zenon DEF InnermostWins
<1> DEFINE frames == stack[t]
           n == Len(frames)
           context == current_context(t)
<1>1. /\ frames \in Seq(Frame) /\ n \in Nat
      /\ \A i \in 1..n : frames[i].fields \in List /\ frames[i].id \in Nat
    <2>1. frames \in Seq(Frame)
        BY DEF StackInv, StackTypeOK
    <2>2. \A f \in Frame : f.fields \in List /\ f.id \in Nat
        BY DEF Frame
    <2> QED BY <2>1, <2>2
<1>2. /\ guards[t] = {frames[i].id : i \in 1..n}
      /\ \A i \in 1..n : pushed[frames[i].id].fields = frames[i].fields
      /\ \A i, j \in 1..n : i < j => frames[i].id < frames[j].id
    <2>1. \A i \in 1..n : pushed[frames[i].id] = [thread |-> t, fields |-> frames[i].fields]
        BY DEF StackInv, StackIsLiveGuards
    <2>2. ASSUME NEW i \in 1..n PROVE pushed[frames[i].id].fields = frames[i].fields
        <3>1. pushed[frames[i].id] = [thread |-> t, fields |-> frames[i].fields]
            BY <2>1
        <3> HIDE DEF frames
        <3> QED BY <3>1
    <2>3. guards[t] = {frames[i].id : i \in 1..n}
        BY DEF StackInv, StackIsLiveGuards
    <2>4. \A i, j \in 1..n : i < j => frames[i].id < frames[j].id
        BY DEF StackInv, StackIsLiveGuards
    <2> QED BY <2>2, <2>3, <2>4
<1>3. context \in Contexts /\ FieldsOf(context) = Visible(frames, n)
    <2>1. \A f \in Frame : f.fields \in List
        BY DEF Frame
    <2> QED BY <1>1, <2>1, MergeIs DEF current_context
<1> HIDE DEF frames, context
<1>4. KeysOf(context) = UNION {KeysOf(pushed[id].fields) : id \in guards[t]}
    <2>1. \A f \in Frame : f.fields \in List
        BY DEF Frame
    <2>2. KeysOf(context) = UNION {KeysOf(frames[j].fields) : j \in 1..n}
        BY <1>1, <1>3, <2>1, VisibleKeys, KeysAreFieldKeys
    <2> QED BY <1>2, <2>2
<1>5. Len(context) = Cardinality(KeysOf(context))
    BY <1>3, KeysCounted
<1>6. ASSUME NEW i \in 1..Len(context)
      PROVE  LET held == Holders(t, context[i].key)
                 innermost == CHOOSE id \in held : \A other \in held : other <= id
             IN  context[i].value = ValueIn(pushed[innermost].fields, context[i].key)
    <2> DEFINE e == context[i]
               held == Holders(t, e.key)
               innermost == CHOOSE id \in held : \A other \in held : other <= id
    <2>1. e \in Visible(frames, n)
        BY <1>3 DEF FieldsOf
    <2>2. PICK j \in 1..n : /\ e \in LastsOf(frames[j].fields)
                            /\ \A h \in j + 1..n : e.key \notin KeysOf(frames[h].fields)
        BY <2>1 DEF Visible
    <2>3. e.key \in KeysOf(frames[j].fields) /\ ValueIn(frames[j].fields, e.key) = e.value
        BY <1>1, <2>2, LastsAre DEF LastsOf
    <2>4. frames[j].id \in held
        BY <1>2, <2>3 DEF Holders
    <2>5. ASSUME NEW other \in held PROVE other <= frames[j].id
        <3>1. PICK h \in 1..n : other = frames[h].id /\ e.key \in KeysOf(frames[h].fields)
            BY <1>2 DEF Holders
        <3>2. h \notin j + 1..n
            BY <2>2, <3>1
        <3>3. h <= j
            BY <1>1, <3>2
        <3>4. h = j \/ frames[h].id < frames[j].id
            BY <1>1, <1>2, <3>3
        <3> QED BY <1>1, <3>1, <3>4
    <2>6. \A id \in held : id \in Nat
        BY <1>1, <1>2 DEF Holders
    <2>7. innermost \in held /\ \A other \in held : other <= innermost
        BY <2>4, <2>5
    <2> HIDE DEF held, innermost
    <2>8. innermost = frames[j].id
        BY <2>4, <2>5, <2>6, <2>7
    <2>9. pushed[innermost].fields = frames[j].fields
        BY <1>2, <2>8
    <2> QED BY <2>3, <2>9 DEF held, innermost
<1> QED BY <1>4, <1>5, <1>6 DEF context

------------------------------------------------------------------------------
(* Snapshots.                                                               *)

(* In a list without a key twice, a key has the value of its field.         *)
LEMMA ValueOfKey ==
    ASSUME NEW list \in Contexts, NEW i \in 1..Len(list)
    PROVE  ValueIn(list, list[i].key) = list[i].value
<1>1. Len(list) \in Nat /\ Distinct(list)
    BY DEF Contexts, List
<1> DEFINE last == CHOOSE j \in 1..Len(list) :
                      /\ list[j].key = list[i].key
                      /\ \A h \in j + 1..Len(list) : list[h].key # list[i].key
<1>2. \A h \in i + 1..Len(list) : list[h].key # list[i].key
    BY <1>1 DEF Distinct
<1>3. last \in 1..Len(list) /\ list[last].key = list[i].key
    BY <1>2
<1>4. ValueIn(list, list[i].key) = list[last].value
    BY DEF ValueIn
<1> HIDE DEF last
<1>5. last = i
    BY <1>1, <1>3 DEF Distinct
<1> QED BY <1>4, <1>5

(* A context put into nothing, field by field, is itself again.             *)
LEMMA CopyIs ==
    ASSUME NEW s \in Contexts
    PROVE  Merge(<<[fields |-> s]>>) = s
<1> DEFINE frame == [fields |-> s]
           n == Len(s)
<1>1. s \in List /\ Distinct(s) /\ n \in Nat /\ \A i \in 1..n : s[i] \in FieldsInUse
    BY DEF Contexts, List
<1>2. <<>> \in Contexts
    BY DEF Contexts, List, Distinct
<1>3. Merge(<<frame>>) = FoldLeft(Put, <<>>, s)
    <2>1. <<frame>> \in Seq({frame}) /\ \A f \in {frame} : f.fields \in List
        BY <1>1
    <2>2. Len(<<frame>>) = 1 /\ <<frame>>[1] = frame
        OBVIOUS
    <2>3. PICK m : /\ m[0] = <<>>
                   /\ \A k \in 1..1 : m[k] = PutFrame(m[k - 1], <<frame>>[k])
                   /\ Merge(<<frame>>) = m[1]
        BY <2>1, <2>2, MergeSteps
    <2>4. 1 \in 1..1 /\ 1 - 1 = 0
        OBVIOUS
    <2>5. m[1] = PutFrame(<<>>, frame)
        BY <2>2, <2>3, <2>4
    <2> QED BY <2>3, <2>5 DEF PutFrame
<1>4. PICK m : /\ m[0] = <<>>
               /\ \A k \in 1..n : m[k] = Put(m[k - 1], s[k])
               /\ FoldLeft(Put, <<>>, s) = m[n]
    BY <1>1, <1>2, PutSteps
<1> DEFINE P == {k \in Nat : /\ m[k] \in List /\ Len(m[k]) = k
                             /\ \A i \in 1..k : m[k][i] = s[i]}
<1>5. 0 \in P
    <2>1. <<>> \in List /\ Len(<<>>) = 0 /\ \A i \in 1..0 : FALSE
        BY DEF List
    <2> QED BY <1>4, <2>1
<1>6. ASSUME NEW k \in 1..n, k - 1 \in P PROVE k \in P
    <2> DEFINE before == m[k - 1]
    <2>1. /\ before \in List /\ Len(before) = k - 1 /\ k \in Nat /\ s[k] \in FieldsInUse
          /\ \A i \in 1..k - 1 : before[i] = s[i]
        BY <1>1, <1>6
    <2>2. m[k] = Put(before, s[k])
        BY <1>4
    <2> HIDE DEF before
    <2>3. s[k].key \notin KeysOf(before)
        BY <1>1, <2>1 DEF KeysOf, Distinct
    <2>4. m[k] = Append(before, s[k])
        BY <2>2, <2>3 DEF Put
    <2>5. /\ m[k] \in List /\ Len(m[k]) = Len(before) + 1
          /\ \A i \in 1..Len(before) : m[k][i] = before[i]
          /\ m[k][Len(before) + 1] = s[k]
        BY <2>1, <2>4, AppendProperties DEF List
    <2>6. \A i \in 1..k : m[k][i] = s[i]
        BY <2>1, <2>5
    <2> QED BY <2>1, <2>5, <2>6
<1> HIDE DEF P
<1>7. \A k \in 0..n : k \in P
    BY <1>1, <1>5, <1>6, UpToInduction
<1>8. n \in P
    BY <1>1, <1>7
<1>9. m[n] = s
    <2>1. m[n] \in List /\ Len(m[n]) = Len(s) /\ \A i \in 1..Len(s) : m[n][i] = s[i]
        BY <1>8 DEF P
    <2> QED BY <1>1, <2>1, SeqEqual DEF List
<1> QED BY <1>3, <1>4, <1>9

(* The fields of the innermost frame hide those of every other.             *)
LEMMA TopWins ==
    ASSUME NEW frames \in Seq(Frame), NEW s \in List, NEW key \in KeysOf(s)
    PROVE  ValueIn(Merge(Append(frames, [fields |-> s])), key) = ValueIn(s, key)
<1> DEFINE top == [fields |-> s]
           E == Frame \cup {top}
           all == Append(frames, top)
           n == Len(frames)
           context == Merge(all)
<1>1. \A f \in E : f.fields \in List
    BY DEF Frame
<1>2. frames \in Seq(E) /\ top \in E /\ n \in Nat
    <2>1. \A i \in 1..n : frames[i] \in E
        OBVIOUS
    <2> QED BY <2>1
<1> HIDE DEF E
<1>3. all \in Seq(E) /\ Len(all) = n + 1 /\ all[n + 1].fields = s
    BY <1>2, AppendProperties
<1> HIDE DEF all
<1>4. context \in Contexts /\ FieldsOf(context) = Visible(all, n + 1)
    BY <1>1, <1>3, MergeIs
<1>5. FieldsOf(context) = Over(Visible(all, n), LastsOf(s))
    <2>1. n + 1 \in Nat \ {0} /\ (n + 1) - 1 = n
        BY <1>2
    <2> QED BY <1>3, <1>4, <2>1, VisibleGrow
<1>6. PICK e \in LastsOf(s) : e.key = key
    BY LastsAre DEF LastsOf
<1>7. ValueIn(s, key) = e.value
    BY <1>6, LastsAre DEF LastsOf
<1>8. PICK i \in 1..Len(context) : context[i] = e
    BY <1>5, <1>6 DEF Over, FieldsOf
<1> HIDE DEF context
<1>9. ValueIn(context, key) = e.value
    BY <1>4, <1>6, <1>8, ValueOfKey
<1> QED BY <1>7, <1>9 DEF context, all

(* What it says of the snapshots.                                           *)
LEMMA TransfersFromStacks ==
    ASSUME StackInv, snapshots \subseteq Contexts
    PROVE  SnapshotTransfers
<1> SUFFICES ASSUME NEW s \in snapshots
             PROVE  /\ Merge(<<[fields |-> s]>>) = s
                    /\ \A t \in Threads, key \in KeysOf(s) :
                          ValueIn(Merge(Append(stack[t], [fields |-> s])), key)
                            = ValueIn(s, key)
    BY Zenon DEF SnapshotTransfers
<1>1. s \in Contexts /\ s \in List
    BY DEF Contexts
<1>2. \A t \in Threads : stack[t] \in Seq(Frame)
    BY DEF StackInv, StackTypeOK
<1> QED BY <1>1, <1>2, CopyIs, TopWins

------------------------------------------------------------------------------
(* The record.                                                              *)

(* The caller's fields, then fields of the context under other keys, each   *)
(* key of the context once.                                                 *)
Merged(fields, own, context, k) ==
    /\ fields \in List
    /\ Len(own) <= Len(fields)
    /\ \A i \in 1..Len(own) : fields[i] = own[i]
    /\ KeysOf(fields) = KeysOf(own) \cup {context[h].key : h \in 1..k}
    /\ \A i \in Len(own) + 1..Len(fields) :
          /\ fields[i].key \notin KeysOf(own)
          /\ \E h \in 1..k : fields[i] = context[h]
          /\ \A j \in Len(own) + 1..Len(fields) : fields[j].key = fields[i].key => j = i

(* One more field of the context, taken or passed.                          *)
LEMMA AddOne ==
    ASSUME NEW own \in List, NEW context \in List, NEW k \in 1..Len(context),
           NEW fields, Merged(fields, own, context, k - 1)
    PROVE  Merged(AddMissing(fields, context[k]), own, context, k)
<1> DEFINE more == AddMissing(fields, context[k])
           n == Len(fields)
<1>1. /\ fields \in List /\ n \in Nat /\ Len(own) \in Nat /\ Len(own) <= n
      /\ context[k] \in FieldsInUse /\ k \in Nat
    BY DEF Merged, List
<1>2. {context[h].key : h \in 1..k} = {context[h].key : h \in 1..k - 1} \cup {context[k].key}
    <2>1. 1..k = 1..k - 1 \cup {k}
        OBVIOUS
    <2> QED BY <2>1
<1>3. CASE context[k].key \in KeysOf(fields)
    <2>1. more = fields
        BY <1>3 DEF AddMissing
    <2>2. KeysOf(fields) = KeysOf(own) \cup {context[h].key : h \in 1..k}
        BY <1>2, <1>3 DEF Merged
    <2>3. \A h \in 1..k - 1 : h \in 1..k
        OBVIOUS
    <2> QED BY <2>1, <2>2, <2>3 DEF Merged
<1>4. CASE context[k].key \notin KeysOf(fields)
    <2>1. more = Append(fields, context[k])
        BY <1>4 DEF AddMissing
    <2>2. /\ more \in List /\ Len(more) = n + 1
          /\ \A i \in 1..n : more[i] = fields[i]
          /\ more[n + 1] = context[k]
        BY <1>1, <2>1, AppendProperties DEF List
    <2> HIDE DEF more
    <2>3. KeysOf(more) = KeysOf(fields) \cup {context[k].key}
        <3>1. 1..Len(more) = 1..n \cup {n + 1}
            BY <1>1, <2>2
        <3> QED BY <2>2, <3>1 DEF KeysOf
    <2>4. \A i \in 1..n : fields[i].key # context[k].key
        BY <1>4 DEF KeysOf
    <2>5. context[k].key \notin KeysOf(own)
        BY <1>4 DEF Merged
    <2>6. ASSUME NEW i \in Len(own) + 1..Len(more)
          PROVE  \/ i \in Len(own) + 1..n /\ i \in 1..n /\ more[i] = fields[i]
                 \/ i = n + 1 /\ more[i] = context[k]
        BY <1>1, <2>2
    <2>7. ASSUME NEW i \in Len(own) + 1..Len(more)
          PROVE  /\ more[i].key \notin KeysOf(own)
                 /\ \E h \in 1..k : more[i] = context[h]
                 /\ \A j \in Len(own) + 1..Len(more) : more[j].key = more[i].key => j = i
        <3>1. more[i].key \notin KeysOf(own)
            BY <2>5, <2>6 DEF Merged
        <3>2. \E h \in 1..k : more[i] = context[h]
            BY <1>1, <2>6 DEF Merged
        <3>3. \A j \in Len(own) + 1..Len(more) : more[j].key = more[i].key => j = i
            BY <2>4, <2>6 DEF Merged
        <3> QED BY <3>1, <3>2, <3>3
    <2>8. /\ Len(own) <= Len(more)
          /\ \A i \in 1..Len(own) : more[i] = own[i]
        BY <1>1, <2>2 DEF Merged
    <2>9. KeysOf(more) = KeysOf(own) \cup {context[h].key : h \in 1..k}
        BY <1>2, <2>3 DEF Merged
    <2> QED BY <2>2, <2>7, <2>8, <2>9 DEF Merged, more
<1> QED BY <1>3, <1>4

(* What merge_context returns.                                              *)
LEMMA MergeContextIs ==
    ASSUME NEW own \in List, NEW context \in List
    PROVE  Merged(merge_context(own, context), own, context, Len(context))
<1> DEFINE n == Len(context)
<1>1. n \in Nat
    BY DEF List
<1>2. PICK m : /\ m[0] = own
               /\ \A k \in 1..n : m[k] = AddMissing(m[k - 1], context[k])
               /\ merge_context(own, context) = m[n]
    BY AddSteps DEF List
<1> DEFINE P == {k \in Nat : Merged(m[k], own, context, k)}
<1>3. 0 \in P
    <2>1. Len(own) \in Nat /\ Len(own) + 1..Len(own) = {} /\ 1..0 = {}
        BY DEF List
    <2> QED BY <1>2, <2>1 DEF Merged
<1>4. ASSUME NEW k \in 1..n, k - 1 \in P PROVE k \in P
    BY <1>1, <1>2, <1>4, AddOne
<1> HIDE DEF P
<1>5. \A k \in 0..n : k \in P
    BY <1>1, <1>3, <1>4, UpToInduction
<1>6. n \in P
    BY <1>1, <1>5
<1> QED BY <1>2, <1>6 DEF P

RecordInv ==
    /\ record.own \in List
    /\ record.context \in Contexts
    /\ record.fields = merge_context(record.own, record.context)

(* So a record has the fields that the property asks for.                   *)
LEMMA FieldsOfRecord ==
    ASSUME RecordInv
    PROVE  RecordFields
<1> DEFINE own == record.own
           context == record.context
           fields == record.fields
<1>1. own \in List /\ context \in Contexts /\ context \in List
    BY DEF RecordInv, Contexts
<1>2. Merged(fields, own, context, Len(context))
    BY <1>1, MergeContextIs DEF RecordInv
<1> HIDE DEF own, context, fields
<1>3. fields \in List /\ Len(own) \in Nat /\ Len(fields) \in Nat /\ Len(own) <= Len(fields)
    BY <1>1, <1>2 DEF Merged, List
<1>4. SubSeq(fields, 1, Len(own)) = own
    <2>1. /\ SubSeq(fields, 1, Len(own)) \in List
          /\ Len(SubSeq(fields, 1, Len(own))) = Len(own)
          /\ \A i \in 1..Len(own) : SubSeq(fields, 1, Len(own))[i] = fields[i]
        BY <1>3 DEF List
    <2>2. \A i \in 1..Len(own) : fields[i] = own[i]
        BY <1>2 DEF Merged
    <2> QED BY <1>1, <2>1, <2>2, SeqEqual DEF List
<1>5. KeysOf(fields) = KeysOf(own) \cup KeysOf(context)
    BY <1>2 DEF Merged, KeysOf
<1>6. ASSUME NEW i \in Len(own) + 1..Len(fields)
      PROVE  /\ fields[i].key \notin KeysOf(own)
             /\ fields[i].value = ValueIn(context, fields[i].key)
             /\ \A j \in Len(own) + 1..Len(fields) : fields[j].key = fields[i].key => j = i
    BY <1>1, <1>2, ValueOfKey DEF Merged
<1> QED BY <1>3, <1>4, <1>5, <1>6 DEF RecordFields, own, context, fields

------------------------------------------------------------------------------
(* The specification.                                                       *)

ContextInv == StackInv /\ snapshots \subseteq Contexts /\ RecordInv

(* The lists that a caller gives are lists, and so is the empty context.    *)
LEMMA ListsTyped == FieldLists \subseteq List /\ <<>> \in Contexts /\ <<>> \in List
<1>1. <<>> \in List /\ Distinct(<<>>)
    BY DEF List, Distinct
<1> QED BY <1>1, ContextAssumption DEF List, Contexts

(* A thread's context is one without a key twice.                           *)
LEMMA ContextTyped ==
    ASSUME StackInv, NEW t \in Threads
    PROVE  current_context(t) \in Contexts
<1>1. stack[t] \in Seq(Frame) /\ \A f \in Frame : f.fields \in List
    BY DEF StackInv, StackTypeOK, Frame
<1> QED BY <1>1, MergeIs DEF current_context

(* The invariant holds at first.                                            *)
LEMMA ContextInit == Init => ContextInv
<1> SUFFICES ASSUME Init PROVE ContextInv
    OBVIOUS
<1>1. StackTypeOK
    BY DEF Init, StackTypeOK
<1>2. StackIsLiveGuards
    <2>1. \A t \in Threads : stack[t] = <<>> /\ guards[t] = {} /\ Len(stack[t]) = 0
        BY DEF Init
    <2> QED BY <2>1 DEF StackIsLiveGuards
<1>3. RecordInv
    <2> DEFINE m == merge_context(<<>>, <<>>)
    <2>1. Merged(m, <<>>, <<>>, Len(<<>>))
        BY ListsTyped, MergeContextIs
    <2>2. m \in List /\ KeysOf(m) = {}
        BY <2>1 DEF Merged, KeysOf
    <2>3. m = <<>>
        <3>1. Len(m) \in Nat /\ \A i \in 1..Len(m) : m[i].key \in KeysOf(m)
            BY <2>2 DEF KeysOf, List
        <3>2. 1 \notin 1..Len(m)
            BY <2>2, <3>1
        <3>3. Len(m) = 0
            BY <3>1, <3>2
        <3> QED BY <2>2, <3>3 DEF List
    <2> HIDE DEF m
    <2> QED BY <2>3, ListsTyped DEF Init, NoRecord, RecordInv, m
<1>4. snapshots \subseteq Contexts
    BY DEF Init
<1> QED BY <1>1, <1>2, <1>3, <1>4 DEF ContextInv, StackInv

(* Every step keeps it.                                                     *)
LEMMA ContextStep == ContextInv /\ [Next]_vars => ContextInv'
<1> SUFFICES ASSUME ContextInv, [Next]_vars PROVE ContextInv'
    OBVIOUS
<1> USE DEF ContextInv
<1>1. ASSUME NEW t \in Threads, Push(t) PROVE ContextInv'
    <2>1. PICK fields \in FieldLists : push_context(t, fields)
        BY <1>1 DEF Push
    <2>2. fields \in List
        BY <2>1, ListsTyped
    <2>3. snapshots' = snapshots /\ record' = record
        BY <1>1 DEF Push
    <2>4. StackInv'
        BY <2>1, <2>2, <2>3, PushStacks
    <2> QED BY <2>3, <2>4 DEF RecordInv
<1>2. ASSUME NEW t \in Threads, Enter(t) PROVE ContextInv'
    <2>1. PICK fields \in snapshots : push_context(t, fields)
        BY <1>2 DEF Enter
    <2>2. fields \in List
        BY <2>1 DEF Contexts
    <2>3. snapshots' = snapshots /\ record' = record
        BY <1>2 DEF Enter
    <2>4. StackInv'
        BY <2>1, <2>2, <2>3, PushStacks
    <2> QED BY <2>3, <2>4 DEF RecordInv
<1>3. ASSUME NEW t \in Threads, Drop(t) PROVE ContextInv'
    <2>1. snapshots' = snapshots /\ record' = record
        BY <1>3 DEF Drop
    <2> QED BY <1>3, <2>1, DropStacks DEF RecordInv
<1>4. ASSUME NEW t \in Threads, capture_context(t) PROVE ContextInv'
    <2>1. /\ snapshots' = snapshots \cup {current_context(t)}
          /\ UNCHANGED <<stack, next_id, guards, record, pushed>>
        BY <1>4 DEF capture_context, Capture
    <2>2. snapshots' \subseteq Contexts /\ snapshots' \subseteq List
        BY <2>1, ContextTyped DEF Contexts
    <2>3. StackInv'
        BY <2>1, <2>2 DEF StackInv, StackTypeOK, StackIsLiveGuards
    <2> QED BY <2>1, <2>2, <2>3 DEF RecordInv
<1>5. ASSUME NEW t \in Threads, Log(t) PROVE ContextInv'
    <2>1. PICK own \in FieldLists \cup {<<>>} :
              record' = [own |-> own, context |-> current_context(t),
                         fields |-> merge_context(own, current_context(t))]
        BY <1>5 DEF Log
    <2>2. UNCHANGED <<stack, next_id, guards, snapshots, pushed>>
        BY <1>5 DEF Log
    <2>3. own \in List /\ current_context(t) \in Contexts
        BY ListsTyped, ContextTyped
    <2>4. RecordInv'
        BY <2>1, <2>3 DEF RecordInv
    <2>5. StackInv'
        BY <2>2 DEF StackInv, StackTypeOK, StackIsLiveGuards
    <2> QED BY <2>2, <2>4, <2>5
<1>6. CASE Forget
    <2>1. snapshots' \subseteq snapshots /\ UNCHANGED <<stack, next_id, guards, record, pushed>>
        BY <1>6 DEF Forget
    <2> QED BY <2>1 DEF StackInv, StackTypeOK, StackIsLiveGuards, RecordInv
<1>7. CASE UNCHANGED vars
    BY <1>7 DEF vars, StackInv, StackTypeOK, StackIsLiveGuards, RecordInv
<1> QED BY <1>1, <1>2, <1>3, <1>4, <1>5, <1>6, <1>7 DEF Next

(* The stacks have their types, the snapshots are contexts without a key    *)
(* twice, and a record's fields are what merge_context made of its own.     *)
THEOREM ContextInvariant == Spec => []ContextInv
<1> QED BY ContextInit, ContextStep, PTL DEF Spec

(* A thread's stack has the frames of the guards it holds, outermost first, *)
(* each as it was pushed, whatever order the guards are dropped in and      *)
(* whatever other threads push meanwhile (push_context, ContextGuard::drop).*)
THEOREM ScopesAreGuards == Spec => []StackIsLiveGuards
<1>1. ContextInv => StackIsLiveGuards
    BY DEF ContextInv, StackInv
<1> QED BY <1>1, ContextInvariant, PTL

(* The context of a thread has each key of its live scopes once, with the   *)
(* last value of the innermost of them (current_context).                   *)
THEOREM InnermostValueWins == Spec => []InnermostWins
<1>1. ContextInv => InnermostWins
    BY InnermostFromStacks DEF ContextInv
<1> QED BY <1>1, ContextInvariant, PTL

(* A snapshot entered on an empty thread is its context, and hides what is  *)
(* there on any other (ContextSnapshot::enter).                             *)
THEOREM SnapshotsTransfer == Spec => []SnapshotTransfers
<1>1. ContextInv => SnapshotTransfers
    BY TransfersFromStacks DEF ContextInv
<1> QED BY <1>1, ContextInvariant, PTL

(* A record is queued with the caller's fields in front and untouched, and  *)
(* the context's other keys once behind them (merge_context).               *)
THEOREM RecordsMerged == Spec => []RecordFields
<1>1. ContextInv => RecordFields
    BY FieldsOfRecord DEF ContextInv
<1> QED BY <1>1, ContextInvariant, PTL
==============================================================================
