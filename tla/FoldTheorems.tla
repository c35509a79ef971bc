---------------------------- MODULE FoldTheorems ----------------------------
(* Induction over the naturals, and what a fold of a sequence computes, in  *)
(* a form without operator parameters: a predicate is the set of the        *)
(* numbers that have it, and the operation of a fold is a function.         *)
EXTENDS Fields, SequencesExt, WellFoundedInduction, SequenceTheorems, TLAPS

------------------------------------------------------------------------------
(* Induction.                                                               *)

LEMMA LeastNatural ==
    ASSUME NEW T, T \subseteq Nat, T # {}
    PROVE  \E x \in T : \A y \in T : x <= y
<1> DEFINE R == OpToRel(<, Nat)
<1>1. IsWellFoundedOn(R, Nat)
    BY NatLessThanWellFounded
<1>2. \A x, y \in Nat : <<x, y>> \in R <=> x < y
    BY DEF OpToRel
<1> HIDE DEF R
<1>3. PICK x \in T : \A y \in T : ~(<<y, x>> \in R)
    BY <1>1, WFMin
<1>4. \A y \in T : ~(y < x)
    BY <1>2, <1>3
<1> QED BY <1>4

(* A set of naturals with 0, and with the successor of each of its members, *)
(* is all of them.                                                          *)
LEMMA SetInduction ==
    ASSUME NEW P, 0 \in P, \A k \in Nat : k \in P => k + 1 \in P
    PROVE  \A k \in Nat : k \in P
<1>1. SUFFICES ASSUME Nat \ P # {} PROVE FALSE
    OBVIOUS
<1>2. PICK x \in Nat \ P : \A y \in Nat \ P : x <= y
    BY <1>1, LeastNatural
<1>3. x # 0 /\ x - 1 \in Nat /\ ~(x <= x - 1) /\ (x - 1) + 1 = x
    BY <1>2
<1>4. x - 1 \in P
    BY <1>2, <1>3
<1> QED BY <1>2, <1>3, <1>4

(* The same up to a bound.                                                  *)
LEMMA UpToInduction ==
    ASSUME NEW n \in Nat, NEW P, 0 \in P,
           \A k \in 1..n : k - 1 \in P => k \in P
    PROVE  \A k \in 0..n : k \in P
<1> DEFINE Q == {k \in Nat : k <= n => k \in P}
<1>1. 0 \in Q
    OBVIOUS
<1>2. ASSUME NEW k \in Nat, k \in Q PROVE k + 1 \in Q
    <2>1. CASE k + 1 <= n
        <3>1. k \in P
            BY <1>2, <2>1
        <3>2. k + 1 \in 1..n /\ (k + 1) - 1 = k
            BY <2>1
        <3>3. k + 1 \in P
            BY <3>1, <3>2
        <3> QED BY <3>3
    <2>2. CASE ~(k + 1 <= n)
        BY <2>2
    <2> QED BY <2>1, <2>2
<1> HIDE DEF Q
<1>3. \A k \in Nat : k \in Q
    BY <1>1, <1>2, SetInduction
<1> QED BY <1>3 DEF Q

------------------------------------------------------------------------------
(* The largest member of a set.                                             *)

LEMMA MaxIs ==
    ASSUME NEW S, S \subseteq Int, NEW x \in S, \A y \in S : y <= x
    PROVE  Max(S) = x
<1>1. \E z \in S : \A y \in S : z >= y
    OBVIOUS
<1>2. Max(S) \in S /\ \A y \in S : Max(S) >= y
    BY <1>1 DEF Max
<1>3. Max(S) \in Int /\ Max(S) >= x /\ Max(S) <= x /\ x \in Int
    BY <1>2
<1> QED BY <1>3

LEMMA MaxOfBounded ==
    ASSUME NEW n \in Nat, NEW S, S \subseteq 0..n, S # {}
    PROVE  Max(S) \in S /\ \A y \in S : y <= Max(S)
<1> DEFINE T == {n - y : y \in S}
<1>1. T \subseteq Nat /\ T # {}
    <2>1. \A y \in S : y \in 0..n /\ n - y \in Nat
        OBVIOUS
    <2> QED BY <2>1
<1>2. PICK t \in T : \A u \in T : t <= u
    BY <1>1, LeastNatural
<1>3. PICK x \in S : t = n - x
    BY <1>2
<1>4. \A y \in S : n - x <= n - y
    BY <1>2, <1>3
<1>5. \A y \in S : y <= x
    BY <1>4
<1>6. Max(S) = x
    <2>1. S \subseteq Int
        OBVIOUS
    <2> QED BY <1>5, <2>1, MaxIs
<1> QED BY <1>5, <1>6

(* The first k elements of a sequence without the last of them.             *)
LEMMA UpTo ==
    ASSUME NEW k \in Nat
    PROVE  /\ k # 0 => 1..k # {} /\ Max(1..k) = k /\ 1..k \ {k} = 1..k - 1
           /\ 1..0 = {}
<1>1. CASE k # 0
    <2>1. k \in 1..k /\ \A y \in 1..k : y <= k
        BY <1>1
    <2>2. Max(1..k) = k
        BY <2>1, MaxIs
    <2> QED BY <2>1, <2>2
<1>2. CASE k = 0
    BY <1>2
<1> QED BY <1>1, <1>2

------------------------------------------------------------------------------
(* Folds.                                                                   *)

(* MapThenFoldSet as FoldLeft uses it: the fold of the elements at each set *)
(* of positions.                                                            *)
FoldOf(it, op, base, seq, n) ==
    it = [s \in SUBSET (1..n) |->
             IF s = {} THEN base ELSE op[<<it[s \ {Max(s)}], seq[Max(s)]>>]]

LEMMA FoldExists ==
    ASSUME NEW V, NEW E, NEW op \in [V \X E -> V], NEW base \in V, NEW seq \in Seq(E)
    PROVE  \E it \in [SUBSET (1..Len(seq)) -> V] : FoldOf(it, op, base, seq, Len(seq))
<1> DEFINE n == Len(seq)
           P == {k \in Nat : \E it \in [SUBSET (1..k) -> V] : FoldOf(it, op, base, seq, k)}
<1>1. n \in Nat /\ \A i \in 1..n : seq[i] \in E
    OBVIOUS
<1>2. 0 \in P
    <2> DEFINE it == [s \in SUBSET (1..0) |-> base]
    <2>1. it \in [SUBSET (1..0) -> V]
        OBVIOUS
    <2>2. \A s \in SUBSET (1..0) : s = {}
        OBVIOUS
    <2>3. FoldOf(it, op, base, seq, 0)
        BY <2>2 DEF FoldOf
    <2> QED BY <2>1, <2>3
<1>3. ASSUME NEW k \in 1..n, k - 1 \in P PROVE k \in P
    <2>1. PICK it \in [SUBSET (1..k - 1) -> V] : FoldOf(it, op, base, seq, k - 1)
        BY <1>3
    <2> DEFINE more == [s \in SUBSET (1..k) |->
                           IF k \in s THEN op[<<it[s \ {k}], seq[k]>>] ELSE it[s]]
    <2>2. \A s \in SUBSET (1..k) : /\ s \ {k} \in SUBSET (1..k - 1)
                                  /\ k \notin s => s \in SUBSET (1..k - 1)
        BY <1>1
    <2>3. more \in [SUBSET (1..k) -> V]
        <3>1. ASSUME NEW s \in SUBSET (1..k)
              PROVE  (IF k \in s THEN op[<<it[s \ {k}], seq[k]>>] ELSE it[s]) \in V
            <4>1. CASE k \in s
                <5>1. it[s \ {k}] \in V /\ seq[k] \in E
                    BY <1>1, <2>1, <2>2
                <5> QED BY <4>1, <5>1
            <4>2. CASE k \notin s
                BY <2>1, <2>2, <4>2
            <4> QED BY <4>1, <4>2
        <3> QED BY <3>1
    <2>4. ASSUME NEW s \in SUBSET (1..k)
          PROVE  more[s] = IF s = {} THEN base
                           ELSE op[<<more[s \ {Max(s)}], seq[Max(s)]>>]
        <3>1. CASE k \in s
            <4>1. Max(s) = k
                <5>1. s \subseteq Int /\ \A y \in s : y <= k
                    OBVIOUS
                <5> QED BY <3>1, <5>1, MaxIs
            <4>2. more[s \ {k}] = it[s \ {k}]
                <5>1. s \ {k} \in SUBSET (1..k) /\ k \notin s \ {k}
                    BY <2>2
                <5> QED BY <5>1
            <4> QED BY <3>1, <4>1, <4>2
        <3>2. CASE k \notin s
            <4>1. s \in SUBSET (1..k - 1)
                BY <2>2, <3>2
            <4>2. k \notin s \ {Max(s)} /\ s \ {Max(s)} \in SUBSET (1..k)
                BY <3>2
            <4>3. more[s] = it[s] /\ more[s \ {Max(s)}] = it[s \ {Max(s)}]
                BY <3>2, <4>2
            <4>4. it[s] = IF s = {} THEN base ELSE op[<<it[s \ {Max(s)}], seq[Max(s)]>>]
                BY <2>1, <4>1 DEF FoldOf
            <4> QED BY <4>3, <4>4
        <3> QED BY <3>1, <3>2
    <2>5. FoldOf(more, op, base, seq, k)
        <3>1. more = [s \in SUBSET (1..k) |-> more[s]]
            OBVIOUS
        <3> HIDE DEF more
        <3> QED BY <2>4, <3>1 DEF FoldOf
    <2> HIDE DEF more
    <2> QED BY <2>3, <2>5
<1> HIDE DEF P
<1>4. \A k \in 0..n : k \in P
    BY <1>1, <1>2, <1>3, UpToInduction
<1>5. n \in P
    BY <1>1, <1>4
<1> QED BY <1>5 DEF P

(* FlattenSeq, one sequence after another.                                  *)
FlattenAll(flatten, seqs) ==
    flatten = [i \in 1..Len(seqs) |->
                  IF i = 1 THEN seqs[i] ELSE flatten[i - 1] \o seqs[i]]

LEMMA FlattenSteps ==
    ASSUME NEW E, NEW seqs \in Seq(Seq(E))
    PROVE  \E m : /\ m[0] = <<>>
                  /\ \A k \in 1..Len(seqs) : m[k] = m[k - 1] \o seqs[k]
                  /\ \A k \in 0..Len(seqs) : m[k] \in Seq(E)
                  /\ FlattenSeq(seqs) = m[Len(seqs)]
<1> DEFINE V == Seq(E)
           n == Len(seqs)
           op == [x \in V \X V |-> x[1] \o x[2]]
           chosen == CHOOSE flatten : FlattenAll(flatten, seqs)
<1>1. n \in Nat /\ \A i \in 1..n : seqs[i] \in V
    OBVIOUS
<1>2. \A s, t \in V : s \o t \in V /\ op[<<s, t>>] = s \o t
    <2>1. \A s, t \in V : s \o t \in V
        BY ConcatProperties
    <2>2. \A s, t \in V : op[<<s, t>>] = s \o t
        OBVIOUS
    <2> QED BY <2>1, <2>2
<1>3. \A s \in V : <<>> \o s = s
    BY ConcatEmptySeq
<1>4. op \in [V \X V -> V]
    BY <1>2
<1> HIDE DEF op
<1>5. <<>> \in V
    OBVIOUS
<1>6. seqs \in Seq(V)
    OBVIOUS
<1> HIDE DEF V
<1>7. PICK it \in [SUBSET (1..n) -> V] : FoldOf(it, op, <<>>, seqs, n)
    BY <1>4, <1>5, <1>6, FoldExists
<1> DEFINE m == [k \in 0..n |-> it[1..k]]
<1>8. m[0] = <<>>
    <2>1. 0 \in 0..n /\ 1..0 = {} /\ {} \in SUBSET (1..n)
        BY <1>1
    <2>2. m[0] = it[{}] /\ it[{}] = <<>>
        BY <1>7, <2>1 DEF FoldOf
    <2> QED BY <2>2
<1>9. \A k \in 0..n : m[k] \in V
    <2>1. \A k \in 0..n : 1..k \in SUBSET (1..n)
        BY <1>1
    <2> QED BY <1>7, <2>1
<1>10. \A k \in 1..n : m[k] = m[k - 1] \o seqs[k]
    <2> SUFFICES ASSUME NEW k \in 1..n PROVE m[k] = m[k - 1] \o seqs[k]
        OBVIOUS
    <2>1. 1..k # {} /\ Max(1..k) = k /\ 1..k \ {k} = 1..k - 1
        <3>1. k \in Nat /\ k # 0
            BY <1>1
        <3> QED BY <3>1, UpTo
    <2> HIDE DEF m
    <2>2. 1..k \in SUBSET (1..n)
        BY <1>1
    <2>3. it[1..k] = op[<<it[1..k - 1], seqs[k]>>]
        BY <1>7, <2>1, <2>2 DEF FoldOf
    <2>4. m[k] = it[1..k] /\ m[k - 1] = it[1..k - 1]
        BY <1>1 DEF m
    <2>5. m[k - 1] \in V
        BY <1>1, <1>9
    <2> QED BY <1>1, <1>2, <2>3, <2>4, <2>5
<1> HIDE DEF m
<1>11. CASE n = 0
    <2>1. seqs = <<>> /\ FlattenSeq(seqs) = seqs
        BY <1>6, <1>11 DEF FlattenSeq
    <2> QED BY <1>1, <1>8, <1>9, <1>10, <1>11, <2>1 DEF V
<1>12. CASE n # 0
    <2>1. FlattenSeq(seqs) = chosen[n]
        BY <1>12 DEF FlattenSeq, FlattenAll
    <2> DEFINE flatten == [i \in 1..n |-> m[i]]
    <2>2. FlattenAll(flatten, seqs)
        <3>1. ASSUME NEW i \in 1..n
              PROVE  m[i] = IF i = 1 THEN seqs[i] ELSE flatten[i - 1] \o seqs[i]
            <4>1. m[i] = m[i - 1] \o seqs[i] /\ seqs[i] \in V
                BY <1>1, <1>10
            <4>2. CASE i = 1
                <5>1. i - 1 = 0
                    BY <4>2
                <5> QED BY <1>3, <1>8, <4>1, <4>2, <5>1
            <4>3. CASE i # 1
                <5>1. i - 1 \in 1..n
                    BY <1>1, <4>3
                <5> QED BY <4>1, <4>3, <5>1
            <4> QED BY <4>2, <4>3
        <3> QED BY <3>1 DEF FlattenAll
    <2>3. FlattenAll(chosen, seqs)
        BY <2>2
    <2> HIDE DEF chosen
    <2>4. \A i \in 1..n : chosen[i] = IF i = 1 THEN seqs[i] ELSE chosen[i - 1] \o seqs[i]
        BY <2>3 DEF FlattenAll
    <2> DEFINE P == {k \in Nat : k # 0 => chosen[k] = m[k]}
    <2>5. 0 \in P
        OBVIOUS
    <2>6. ASSUME NEW k \in 1..n, k - 1 \in P PROVE k \in P
        <3>1. m[k] = m[k - 1] \o seqs[k] /\ seqs[k] \in V
            BY <1>1, <1>10
        <3>2. k \in Nat /\ (k # 1 => chosen[k - 1] = m[k - 1])
            BY <1>1, <2>6
        <3>3. chosen[k] = IF k = 1 THEN seqs[k] ELSE chosen[k - 1] \o seqs[k]
            BY <2>4
        <3>4. CASE k = 1
            <4>1. k - 1 = 0
                BY <3>4
            <4>2. m[k] = seqs[k]
                BY <1>3, <1>8, <3>1, <4>1
            <4> QED BY <3>2, <3>3, <3>4, <4>2
        <3>5. CASE k # 1
            BY <3>1, <3>2, <3>3, <3>5
        <3> QED BY <3>4, <3>5
    <2> HIDE DEF P
    <2>7. \A k \in 0..n : k \in P
        BY <1>1, <2>5, <2>6, UpToInduction
    <2>8. chosen[n] = m[n]
        BY <1>1, <1>12, <2>7 DEF P
    <2> QED BY <1>8, <1>9, <1>10, <2>1, <2>8 DEF V
<1> QED BY <1>11, <1>12

LEMMA FlattenTyped ==
    ASSUME NEW E, NEW seqs \in Seq(Seq(E))
    PROVE  FlattenSeq(seqs) \in Seq(E)
<1>1. Len(seqs) \in Nat /\ Len(seqs) \in 0..Len(seqs)
    OBVIOUS
<1> QED BY <1>1, FlattenSteps

LEMMA FlattenNone == FlattenSeq(<<>>) = <<>>
BY DEF FlattenSeq

LEMMA FlattenConcat ==
    ASSUME NEW E, NEW a \in Seq(Seq(E)), NEW b \in Seq(Seq(E))
    PROVE  FlattenSeq(a \o b) = FlattenSeq(a) \o FlattenSeq(b)
<1> DEFINE V == Seq(E)
           s == a \o b
           k == Len(a)
           n == Len(b)
<1>1. a \in Seq(V) /\ b \in Seq(V)
    OBVIOUS
<1>2. /\ \A x, y \in V : x \o y \in V
      /\ \A x, y, z \in V : (x \o y) \o z = x \o (y \o z)
      /\ \A x \in V : x \o <<>> = x
    BY ConcatProperties, ConcatAssociative, ConcatEmptySeq
<1>3. PICK u : /\ u[0] = <<>>
               /\ \A j \in 1..Len(a) : u[j] = u[j - 1] \o a[j]
               /\ \A j \in 0..Len(a) : u[j] \in V
               /\ FlattenSeq(a) = u[Len(a)]
    BY FlattenSteps
<1>4. PICK w : /\ w[0] = <<>>
               /\ \A j \in 1..Len(b) : w[j] = w[j - 1] \o b[j]
               /\ \A j \in 0..Len(b) : w[j] \in V
               /\ FlattenSeq(b) = w[Len(b)]
    BY FlattenSteps
<1>5. s \in Seq(V)
    BY <1>1, ConcatProperties
<1>6. PICK m : /\ m[0] = <<>>
               /\ \A j \in 1..Len(s) : m[j] = m[j - 1] \o s[j]
               /\ FlattenSeq(s) = m[Len(s)]
    <2> HIDE DEF s
    <2> QED BY <1>5, FlattenSteps
<1> HIDE DEF V
<1>7. /\ k \in Nat /\ n \in Nat /\ Len(s) = k + n
      /\ \A j \in 1..k : s[j] = a[j]
      /\ \A j \in 1..n : s[k + j] = b[j] /\ b[j] \in V
    BY <1>1, ConcatProperties
<1> HIDE DEF s, k, n
<1> DEFINE P == {j \in Nat : m[j] = u[j]}
           Q == {j \in Nat : m[k + j] = u[k] \o w[j]}
<1>8. \A j \in 0..k : j \in P
    <2>1. 0 \in P
        BY <1>3, <1>6
    <2>2. ASSUME NEW j \in 1..k, j - 1 \in P PROVE j \in P
        <3>1. j \in 1..Len(s) /\ j \in Nat
            BY <1>7
        <3> QED BY <1>3, <1>6, <1>7, <2>2, <3>1 DEF k
    <2> HIDE DEF P
    <2> QED BY <1>7, <2>1, <2>2, UpToInduction
<1>9. m[k] = u[k] /\ u[k] \in V
    BY <1>3, <1>7, <1>8 DEF k
<1>10. \A j \in 0..n : j \in Q
    <2>1. 0 \in Q
        <3>1. k + 0 = k /\ u[k] \o <<>> = u[k]
            BY <1>2, <1>7, <1>9
        <3>2. m[k + 0] = u[k] \o w[0]
            BY <1>4, <1>9, <3>1
        <3> QED BY <3>2
    <2>2. ASSUME NEW j \in 1..n, j - 1 \in Q PROVE j \in Q
        <3>1. k + j \in 1..Len(s) /\ k + j - 1 = k + (j - 1) /\ j \in Nat
            BY <1>7
        <3>2. m[k + j] = m[k + (j - 1)] \o s[k + j]
            <4>1. PICK i \in 1..Len(s) : i = k + j
                BY <3>1
            <4>2. m[i] = m[i - 1] \o s[i]
                BY <1>6
            <4>3. i - 1 = k + (j - 1)
                BY <1>7, <3>1, <4>1
            <4> QED BY <4>1, <4>2, <4>3
        <3>3. w[j] = w[j - 1] \o b[j] /\ w[j - 1] \in V
            <4>1. j \in 1..Len(b) /\ j - 1 \in 0..Len(b)
                BY <1>7 DEF n
            <4> QED BY <1>4, <4>1
        <3>4. m[k + (j - 1)] = u[k] \o w[j - 1]
            BY <2>2
        <3>5. b[j] \in V /\ s[k + j] = b[j]
            BY <1>7
        <3>6. (u[k] \o w[j - 1]) \o b[j] = u[k] \o (w[j - 1] \o b[j])
            BY <1>2, <1>9, <3>3, <3>5
        <3> QED BY <3>1, <3>2, <3>3, <3>4, <3>5, <3>6
    <2> HIDE DEF Q
    <2> QED BY <1>7, <2>1, <2>2, UpToInduction
<1> HIDE DEF Q
<1>11. m[k + n] = u[k] \o w[n]
    <2>1. n \in 0..n
        BY <1>7
    <2>2. n \in Q
        BY <1>10, <2>1
    <2> QED BY <2>2 DEF Q
<1> QED BY <1>3, <1>4, <1>6, <1>7, <1>11 DEF s, k, n

(* The loop of merge_context, one context field after another.              *)
AddAll(it, own, context) ==
    it = [s \in SUBSET DOMAIN context |->
             IF s = {} THEN own ELSE AddMissing(it[s \ {Max(s)}], context[Max(s)])]

LEMMA AddMissingTyped ==
    ASSUME NEW F, NEW fields \in Seq(F), NEW f \in F
    PROVE  AddMissing(fields, f) \in Seq(F)
BY AppendProperties DEF AddMissing

LEMMA AddSteps ==
    ASSUME NEW F, NEW own \in Seq(F), NEW context \in Seq(F)
    PROVE  \E m : /\ m[0] = own
                  /\ \A k \in 1..Len(context) : m[k] = AddMissing(m[k - 1], context[k])
                  /\ \A k \in 0..Len(context) : m[k] \in Seq(F)
                  /\ merge_context(own, context) = m[Len(context)]
<1> DEFINE n == Len(context)
           chosen == CHOOSE it : AddAll(it, own, context)
           List == Seq(F)
           op == [x \in List \X F |-> AddMissing(x[1], x[2])]
<1>1. n \in Nat /\ DOMAIN context = 1..n /\ \A i \in 1..n : context[i] \in F
    OBVIOUS
<1>2. merge_context(own, context) = chosen[1..n]
    BY <1>1 DEF merge_context, FoldLeft, MapThenFoldSet, AddAll
<1>3. op \in [List \X F -> List]
    BY AddMissingTyped
<1>4. \A v \in List, e \in F : op[<<v, e>>] = AddMissing(v, e)
    OBVIOUS
<1> HIDE DEF op
<1>5. PICK it \in [SUBSET (1..n) -> List] : FoldOf(it, op, own, context, n)
    BY <1>3, FoldExists
<1>6. AddAll(it, own, context)
    <2>1. ASSUME NEW s \in SUBSET (1..n), s # {}
          PROVE  op[<<it[s \ {Max(s)}], context[Max(s)]>>]
                   = AddMissing(it[s \ {Max(s)}], context[Max(s)])
        <3>1. Max(s) \in 1..n
            <4>1. s \subseteq 0..n
                BY <1>1
            <4> QED BY <1>1, <2>1, <4>1, MaxOfBounded
        <3>2. it[s \ {Max(s)}] \in List /\ context[Max(s)] \in F
            BY <1>1, <1>5, <3>1
        <3> QED BY <1>4, <3>2
    <2> QED BY <1>1, <1>5, <2>1 DEF FoldOf, AddAll
<1>7. AddAll(chosen, own, context)
    BY <1>6
<1> HIDE DEF chosen
<1>8. \A s \in SUBSET (1..n) : chosen[s] =
          IF s = {} THEN own ELSE AddMissing(chosen[s \ {Max(s)}], context[Max(s)])
    BY <1>1, <1>7 DEF AddAll
<1> DEFINE m == [k \in 0..n |-> chosen[1..k]]
<1>9. m[0] = own
    <2>1. 0 \in 0..n /\ 1..0 = {} /\ {} \in SUBSET (1..n)
        BY <1>1
    <2>2. m[0] = chosen[{}]
        BY <2>1
    <2> QED BY <1>8, <2>1, <2>2
<1>10. \A k \in 1..n : m[k] = AddMissing(m[k - 1], context[k])
    <2> SUFFICES ASSUME NEW k \in 1..n PROVE m[k] = AddMissing(m[k - 1], context[k])
        OBVIOUS
    <2>1. 1..k # {} /\ Max(1..k) = k /\ 1..k \ {k} = 1..k - 1 /\ 1..k \in SUBSET (1..n)
        BY <1>1, UpTo
    <2>2. chosen[1..k] = AddMissing(chosen[1..k - 1], context[k])
        BY <1>8, <2>1
    <2> QED BY <1>1, <2>2
<1>11. m[n] = chosen[1..n]
    BY <1>1
<1> HIDE DEF m
<1> DEFINE P == {k \in Nat : m[k] \in List}
<1>12. 0 \in P
    BY <1>9
<1>13. ASSUME NEW k \in 1..n, k - 1 \in P PROVE k \in P
    <2>1. m[k - 1] \in Seq(F) /\ context[k] \in F /\ k \in Nat
        BY <1>1, <1>13
    <2>2. AddMissing(m[k - 1], context[k]) \in Seq(F)
        BY <2>1, AddMissingTyped
    <2> QED BY <1>10, <2>1, <2>2
<1> HIDE DEF P
<1>14. \A k \in 0..n : k \in P
    BY <1>1, <1>12, <1>13, UpToInduction
<1>15. \A k \in 0..n : m[k] \in List
    BY <1>14 DEF P
<1> QED BY <1>2, <1>9, <1>10, <1>11, <1>15
=============================================================================
