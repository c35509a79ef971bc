----------------------------- MODULE SetupProofs -----------------------------
(* Proofs about Setup, for all paths, levels, environments and numbers of   *)
(* calls: what a parsed filter admits (TargetFilter), which filter and      *)
(* sinks a logger is built with, and which logger the macros reach.         *)
EXTENDS Setup, FoldTheorems, FiniteSetTheorems

------------------------------------------------------------------------------
(* Parsing: the list of a parsed text.                                      *)

Names == Paths \cup {<<>>}
Directives == [target : Names, level : 0..Off]
Filters == Seq(Directives)
Texts == Seq(Parts)

(* The last part of a text that sets the level of a target.                 *)
LastSetter(text, target) ==
    CHOOSE i \in Setters(text, target) : \A j \in Setters(text, target) : j <= i

(* The list holds one directive for each target that the text has a word    *)
(* on, with the last of them.                                               *)
ParsesTo(list, text) ==
    /\ list \in Filters
    /\ text \in Texts
    /\ Targets(list) = {p \in Names : Setters(text, p) # {}}
    /\ \A i \in 1..Len(list) : list[i].level = LastWord(text, list[i].target)
    /\ \A i, j \in 1..Len(list) : list[i].target = list[j].target => i = j

LEMMA NamesTyped ==
    /\ Names \subseteq Seq(Segments)
    /\ \A p \in Names : p \in Paths <=> p # <<>>
    /\ Levels \subseteq 0..Off /\ Trace \in 0..Off
<1>1. <<>> \in Seq(Segments)
    OBVIOUS
<1>2. Paths \subseteq Seq(Segments) /\ <<>> \notin Paths
    BY FilterAssumption
<1>3. Levels \subseteq 0..Off /\ Trace \in 0..Off
    BY FilterAssumption DEF Trace, Off
<1> QED BY <1>1, <1>2, <1>3 DEF Names

LEMMA PartIs ==
    ASSUME NEW part \in Parts
    PROVE  /\ part.form = "bad" => \A p : ~Says(part, p)
           /\ part.form # "bad" =>
                 /\ DirectiveOf(part) \in Directives
                 /\ DirectiveOf(part).level = LevelOf(part)
                 /\ \A p : Says(part, p) <=> p = DirectiveOf(part).target
           /\ \A p : Says(part, p) => p \in Names
<1> USE NamesTyped
<1>1. CASE part \in LevelPart
    BY <1>1 DEF LevelPart, Says, DirectiveOf, LevelOf, Names, Directives
<1>2. CASE part \in TargetPart
    BY <1>2 DEF TargetPart, Says, DirectiveOf, LevelOf, Names, Directives
<1>3. CASE part \in PairPart
    BY <1>3 DEF PairPart, Says, DirectiveOf, LevelOf, Names, Directives
<1>4. CASE part \in EmptyPart
    BY <1>4 DEF EmptyPart, Says, DirectiveOf, LevelOf, Names, Directives
<1>5. CASE part \in BadPart
    BY <1>5 DEF BadPart, Says
<1> QED BY <1>1, <1>2, <1>3, <1>4, <1>5 DEF Parts

LEMMA SettersTyped ==
    ASSUME NEW text \in Texts, NEW p
    PROVE  /\ Len(text) \in Nat
           /\ Setters(text, p) \subseteq 1..Len(text)
           /\ \A i \in 1..Len(text) : text[i] \in Parts
BY DEF Texts, Setters

LEMMA LastSetterIs ==
    ASSUME NEW text \in Texts, NEW p, NEW i \in Setters(text, p),
           \A j \in Setters(text, p) : j <= i
    PROVE  LastSetter(text, p) = i
<1> DEFINE S == Setters(text, p)
<1>1. S \subseteq Nat
    BY SettersTyped
<1>2. LastSetter(text, p) \in S /\ \A j \in S : j <= LastSetter(text, p)
    <2>1. \E k \in S : \A j \in S : j <= k
        OBVIOUS
    <2> QED BY <2>1 DEF LastSetter
<1> QED BY <1>1, <1>2

LEMMA LastSetterExists ==
    ASSUME NEW text \in Texts, NEW p, Setters(text, p) # {}
    PROVE  /\ LastSetter(text, p) \in Setters(text, p)
           /\ \A j \in Setters(text, p) : j <= LastSetter(text, p)
<1> DEFINE S == Setters(text, p)
<1>1. Len(text) \in Nat /\ S \subseteq 0..Len(text)
    BY SettersTyped
<1>2. Max(S) \in S /\ \A y \in S : y <= Max(S)
    BY <1>1, MaxOfBounded
<1> QED BY <1>2, LastSetterIs

(* One more part.                                                           *)
LEMMA OneMoreSetter ==
    ASSUME NEW text \in Texts, NEW part \in Parts, NEW p
    PROVE  /\ Append(text, part) \in Texts
           /\ Setters(Append(text, part), p) =
                 Setters(text, p) \cup (IF Says(part, p) THEN {Len(text) + 1} ELSE {})
           /\ Setters(Append(text, part), p) # {} <=> Setters(text, p) # {} \/ Says(part, p)
           /\ Says(part, p) => LastWord(Append(text, part), p) = LevelOf(part)
           /\ ~Says(part, p) /\ Setters(text, p) # {} =>
                 LastWord(Append(text, part), p) = LastWord(text, p)
<1> DEFINE n == Len(text)
           more == Append(text, part)
<1>1. /\ more \in Texts /\ n \in Nat /\ Len(more) = n + 1 /\ more[n + 1] = part
      /\ \A i \in 1..n : more[i] = text[i]
    BY DEF Texts
<1> HIDE DEF more
<1>2. Setters(more, p) = Setters(text, p) \cup (IF Says(part, p) THEN {n + 1} ELSE {})
    <2>1. \A i : i \in 1..n + 1 <=> i \in 1..n \/ i = n + 1
        BY <1>1
    <2>2. \A i : i \in Setters(more, p) <=> i \in Setters(text, p) \/ (i = n + 1 /\ Says(part, p))
        BY <1>1, <2>1 DEF Setters
    <2> QED BY <2>2
<1>3. ASSUME Says(part, p)
      PROVE  LastWord(more, p) = LevelOf(part)
    <2>1. n + 1 \in Setters(more, p)
        BY <1>2, <1>3
    <2>2. \A j \in Setters(more, p) : j <= n + 1
        BY <1>1, SettersTyped
    <2>3. LastSetter(more, p) = n + 1
        BY <1>1, <2>1, <2>2, LastSetterIs
    <2>4. LastWord(more, p) = LevelOf(more[LastSetter(more, p)])
        BY DEF LastWord, LastSetter
    <2> QED BY <1>1, <2>3, <2>4
<1>4. ASSUME ~Says(part, p), Setters(text, p) # {}
      PROVE  LastWord(more, p) = LastWord(text, p)
    <2>1. Setters(more, p) = Setters(text, p)
        BY <1>2, <1>4
    <2>2. LastSetter(more, p) = LastSetter(text, p)
        BY <2>1 DEF LastSetter
    <2>3. LastSetter(text, p) \in 1..n
        BY <1>4, LastSetterExists, SettersTyped
    <2>4. LastWord(more, p) = LevelOf(more[LastSetter(more, p)])
        BY DEF LastWord, LastSetter
    <2>5. LastWord(text, p) = LevelOf(text[LastSetter(text, p)])
        BY DEF LastWord, LastSetter
    <2> QED BY <1>1, <2>2, <2>3, <2>4, <2>5
<1>5. Setters(more, p) # {} <=> Setters(text, p) # {} \/ Says(part, p)
    BY <1>2
<1> QED BY <1>1, <1>2, <1>3, <1>4, <1>5 DEF more

LEMMA FilterTyped ==
    ASSUME NEW list \in Filters
    PROVE  /\ Len(list) \in Nat
           /\ \A i \in 1..Len(list) :
                 /\ list[i] \in Directives
                 /\ list[i].target \in Names /\ list[i].level \in 0..Off
                 /\ list[i].target \in Targets(list)
           /\ \A p \in Targets(list) : \E i \in 1..Len(list) : list[i].target = p
<1>1. Len(list) \in Nat /\ \A i \in 1..Len(list) : list[i] \in Directives
    BY DEF Filters
<1>3. \A d \in Directives : d.target \in Names /\ d.level \in 0..Off
    BY DEF Directives
<1>2. \A p : p \in Targets(list) <=> \E i \in 1..Len(list) : list[i].target = p
    BY DEF Targets
<1> QED BY <1>1, <1>2, <1>3

LEMMA PutParses ==
    ASSUME NEW list, NEW text, ParsesTo(list, text), NEW part \in Parts, part.form # "bad"
    PROVE  ParsesTo(Put(list, DirectiveOf(part)), Append(text, part))
<1> DEFINE d == DirectiveOf(part)
           n == Len(list)
           put == Put(list, d)
           more == Append(text, part)
<1>1. /\ list \in Filters /\ text \in Texts /\ n \in Nat
      /\ \A i \in 1..n : list[i].target \in Names /\ list[i].level \in 0..Off
    BY FilterTyped DEF ParsesTo
<1>2. /\ d \in Directives /\ d.target \in Names
      /\ \A p : Says(part, p) <=> p = d.target
      /\ d.level = LevelOf(part)
    BY PartIs
<1> HIDE DEF d, more
<1>3. /\ more \in Texts
      /\ \A p \in Names : Setters(more, p) # {} <=> Setters(text, p) # {} \/ p = d.target
      /\ LastWord(more, d.target) = d.level
      /\ \A p : p # d.target /\ Setters(text, p) # {} => LastWord(more, p) = LastWord(text, p)
    <2>1. \A p : /\ more \in Texts
                 /\ Setters(more, p) # {} <=> Setters(text, p) # {} \/ Says(part, p)
                 /\ Says(part, p) => LastWord(more, p) = LevelOf(part)
                 /\ ~Says(part, p) /\ Setters(text, p) # {} => LastWord(more, p) = LastWord(text, p)
        BY <1>1, OneMoreSetter DEF more
    <2> QED BY <1>2, <2>1
<1>4. \A i \in 1..n : Setters(text, list[i].target) # {}
    BY <1>1, FilterTyped DEF ParsesTo
<1>5. /\ \A i \in 1..n : list[i].level = LastWord(text, list[i].target)
      /\ \A i, j \in 1..n : list[i].target = list[j].target => i = j
      /\ \A p : p \in Targets(list) <=> p \in Names /\ Setters(text, p) # {}
    BY DEF ParsesTo
<1>6. CASE d.target \in Targets(list)
    <2>1. put = [i \in 1..n |-> IF list[i].target = d.target THEN d ELSE list[i]]
        BY <1>6 DEF Put
    <2>2. \A i \in 1..n : list[i] \in Directives
        BY <1>1, FilterTyped
    <2>3. put \in Filters /\ Len(put) = n
        <3>1. put \in [1..n -> Directives]
            BY <1>2, <2>1, <2>2
        <3> QED BY <1>1, <3>1 DEF Filters
    <2>4. \A i \in 1..n : put[i] = IF list[i].target = d.target THEN d ELSE list[i]
        BY <2>1
    <2>5. \A i \in 1..n : put[i].target = list[i].target
        BY <2>4
    <2> HIDE DEF put
    <2>6. Targets(put) = Targets(list)
        BY <2>3, <2>5 DEF Targets
    <2>7. \A i \in 1..n : put[i].level = LastWord(more, put[i].target)
        BY <1>3, <1>4, <1>5, <2>4, <2>5
    <2>8. Targets(put) = {p \in Names : Setters(more, p) # {}}
        BY <1>3, <1>5, <1>6, <2>6
    <2> QED BY <1>3, <1>5, <2>3, <2>5, <2>7, <2>8 DEF ParsesTo, put, d, more
<1>7. CASE d.target \notin Targets(list)
    <2>1. put = Append(list, d)
        BY <1>7 DEF Put
    <2>2. /\ put \in Filters /\ Len(put) = n + 1 /\ put[n + 1] = d
          /\ \A i \in 1..n : put[i] = list[i]
        BY <1>1, <1>2, <2>1 DEF Filters
    <2>3. \A i : i \in 1..n + 1 <=> i \in 1..n \/ i = n + 1
        BY <1>1
    <2> HIDE DEF put
    <2>4. \A i \in 1..n : list[i].target # d.target
        BY <1>7, FilterTyped, <1>1
    <2>5. \A p : p \in Targets(put) <=> p \in Targets(list) \/ p = d.target
        <3>1. \A p : p \in Targets(put) <=> \E i \in 1..n + 1 : put[i].target = p
            BY <2>2 DEF Targets
        <3>2. \A p : p \in Targets(list) <=> \E i \in 1..n : list[i].target = p
            BY DEF Targets
        <3> QED BY <2>2, <2>3, <3>1, <3>2
    <2>6. \A i \in 1..n + 1 : put[i].level = LastWord(more, put[i].target)
        BY <1>3, <1>4, <1>5, <2>2, <2>3, <2>4
    <2>7. \A i, j \in 1..n + 1 : put[i].target = put[j].target => i = j
        BY <1>5, <2>2, <2>3, <2>4
    <2>8. Targets(put) = {p \in Names : Setters(more, p) # {}}
        BY <1>2, <1>3, <1>5, <2>5
    <2> QED BY <1>3, <2>2, <2>6, <2>7, <2>8 DEF ParsesTo, put, d, more
<1> QED BY <1>6, <1>7

LEMMA AfterPartParses ==
    ASSUME NEW list, NEW text, ParsesTo(list, text), NEW part \in Parts
    PROVE  ParsesTo(AfterPart(list, part), Append(text, part))
<1>1. CASE part.form # "bad"
    BY <1>1, PutParses DEF AfterPart
<1>2. CASE part.form = "bad"
    <2>1. list \in Filters /\ text \in Texts /\ Len(list) \in Nat
        BY FilterTyped DEF ParsesTo
    <2>2. /\ Append(text, part) \in Texts
          /\ \A p : Setters(Append(text, part), p) # {} <=> Setters(text, p) # {}
          /\ \A p : Setters(text, p) # {} => LastWord(Append(text, part), p) = LastWord(text, p)
        <3>1. \A p : ~Says(part, p)
            BY <1>2, PartIs
        <3> QED BY Zenon, <2>1, <3>1, OneMoreSetter
    <2>3. \A i \in 1..Len(list) : Setters(text, list[i].target) # {}
        BY <2>1, FilterTyped DEF ParsesTo
    <2>4. \A i \in 1..Len(list) : list[i].level = LastWord(Append(text, part), list[i].target)
        BY <2>2, <2>3 DEF ParsesTo
    <2>5. AfterPart(list, part) = list
        BY <1>2 DEF AfterPart
    <2> QED BY <2>1, <2>2, <2>4, <2>5 DEF ParsesTo
<1> QED BY <1>1, <1>2

LEMMA NothingParsed == ParsesTo(<<>>, <<>>)
<1>1. <<>> \in Filters /\ <<>> \in Texts /\ Len(<<>>) = 0 /\ 1..0 = {}
    BY DEF Filters, Texts
<1>2. Targets(<<>>) = {} /\ \A p : Setters(<<>>, p) = {}
    BY <1>1 DEF Targets, Setters
<1> QED BY <1>1, <1>2 DEF ParsesTo

LEMMA AfterPartTyped ==
    ASSUME NEW list \in Filters, NEW part \in Parts
    PROVE  AfterPart(list, part) \in Filters
<1> DEFINE d == DirectiveOf(part)
<1>2. CASE part.form # "bad"
    <2>1. d \in Directives
        BY <1>2, PartIs
    <2> HIDE DEF d
    <2>2. Put(list, d) \in Filters
        BY <2>1 DEF Put, Filters
    <2> QED BY <1>2, <2>2 DEF AfterPart, d
<1>3. CASE part.form = "bad"
    BY <1>3 DEF AfterPart
<1> QED BY <1>2, <1>3

(* The fold of parse(): the list after the parts at each set of positions.  *)
ParseAll(it, text) ==
    it = [s \in SUBSET (1..Len(text)) |->
             IF s = {} THEN <<>> ELSE AfterPart(it[s \ {Max(s)}], text[Max(s)])]

LEMMA ParseSteps ==
    ASSUME NEW text \in Texts
    PROVE  \E m : /\ m[0] = <<>>
                  /\ \A k \in 1..Len(text) : m[k] = AfterPart(m[k - 1], text[k])
                  /\ parse(text) = m[Len(text)]
<1> DEFINE n == Len(text)
           chosen == CHOOSE it : ParseAll(it, text)
           op == [x \in Filters \X Parts |-> AfterPart(x[1], x[2])]
<1>1. n \in Nat /\ DOMAIN text = 1..n /\ \A i \in 1..n : text[i] \in Parts
    BY DEF Texts
<1>2. parse(text) = chosen[1..n]
    BY <1>1 DEF parse, FoldLeft, MapThenFoldSet, ParseAll
<1>3. op \in [Filters \X Parts -> Filters]
    BY AfterPartTyped
<1>4. \A v \in Filters, e \in Parts : op[<<v, e>>] = AfterPart(v, e)
    OBVIOUS
<1> HIDE DEF op
<1>5. PICK it \in [SUBSET (1..n) -> Filters] : FoldOf(it, op, <<>>, text, n)
    BY <1>3, <<>> \in Filters, FoldExists DEF Texts, Filters
<1>6. ParseAll(it, text)
    <2>1. ASSUME NEW s \in SUBSET (1..n), s # {}
          PROVE  op[<<it[s \ {Max(s)}], text[Max(s)]>>]
                   = AfterPart(it[s \ {Max(s)}], text[Max(s)])
        <3>1. Max(s) \in 1..n
            <4>1. s \subseteq 0..n
                BY <1>1
            <4> QED BY <1>1, <2>1, <4>1, MaxOfBounded
        <3>2. it[s \ {Max(s)}] \in Filters /\ text[Max(s)] \in Parts
            BY <1>1, <1>5, <3>1
        <3> QED BY <1>4, <3>2
    <2> QED BY <1>1, <1>5, <2>1 DEF FoldOf, ParseAll
<1>7. ParseAll(chosen, text)
    BY <1>6
<1> HIDE DEF chosen
<1>8. \A s \in SUBSET (1..n) : chosen[s] =
          IF s = {} THEN <<>> ELSE AfterPart(chosen[s \ {Max(s)}], text[Max(s)])
    BY <1>1, <1>7 DEF ParseAll
<1> DEFINE m == [k \in 0..n |-> chosen[1..k]]
<1>9. m[0] = <<>>
    <2>1. 0 \in 0..n /\ 1..0 = {} /\ {} \in SUBSET (1..n)
        BY <1>1
    <2>2. m[0] = chosen[{}]
        BY <2>1
    <2> QED BY <1>8, <2>1, <2>2
<1>10. ASSUME NEW k \in 1..n PROVE m[k] = AfterPart(m[k - 1], text[k])
    <2>1. 1..k # {} /\ Max(1..k) = k /\ 1..k \ {k} = 1..k - 1 /\ 1..k \in SUBSET (1..n)
        BY <1>1, UpTo
    <2>2. chosen[1..k] = AfterPart(chosen[1..k - 1], text[k])
        BY <1>8, <2>1
    <2> QED BY <1>1, <2>2
<1>11. m[n] = chosen[1..n]
    BY <1>1
<1> HIDE DEF m
<1> QED BY <1>2, <1>9, <1>10, <1>11

(* What parse() makes of a text, by induction over its parts.               *)
LEMMA ParsedAs == ASSUME NEW text \in Texts PROVE ParsesTo(parse(text), text)
<1> DEFINE n == Len(text)
<1>1. n \in Nat /\ \A k \in 1..n : text[k] \in Parts
    BY DEF Texts
<1>2. PICK m : /\ m[0] = <<>>
               /\ \A k \in 1..n : m[k] = AfterPart(m[k - 1], text[k])
               /\ parse(text) = m[n]
    BY ParseSteps
<1> DEFINE P == {k \in Nat : ParsesTo(m[k], SubSeq(text, 1, k))}
<1>3. 0 \in P
    <2>1. SubSeq(text, 1, 0) = <<>>
        BY DEF Texts
    <2> QED BY <1>2, <2>1, NothingParsed
<1>4. ASSUME NEW k \in 1..n, k - 1 \in P PROVE k \in P
    <2>1. SubSeq(text, 1, k) = Append(SubSeq(text, 1, k - 1), text[k])
        BY <1>1 DEF Texts
    <2>2. ParsesTo(m[k], SubSeq(text, 1, k))
        BY <1>1, <1>2, <1>4, <2>1, AfterPartParses
    <2> QED BY <1>1, <2>2
<1> HIDE DEF P
<1>5. \A k \in 0..n : k \in P
    BY <1>1, <1>3, <1>4, UpToInduction
<1>6. SubSeq(text, 1, n) = text
    BY DEF Texts
<1>7. n \in P
    BY <1>1, <1>5
<1> QED BY <1>2, <1>6, <1>7 DEF P

------------------------------------------------------------------------------
(* Queries: the longest of the directives that cover a target.              *)

(* The directive that effective_level settles on, or the one it falls back  *)
(* to, as the fold of those at each set of positions.                       *)
Best(list, target, none) ==
    FoldLeft(LAMBDA best, d : Considered(best, d, target), none, list)

EffectiveAll(it, list, target, none) ==
    it = [s \in SUBSET (1..Len(list)) |->
             IF s = {} THEN none ELSE Considered(it[s \ {Max(s)}], list[Max(s)], target)]

LEMMA EffectiveSteps ==
    ASSUME NEW list \in Filters, NEW target, NEW none \in Directives
    PROVE  \E m : /\ m[0] = none
                  /\ \A k \in 1..Len(list) : m[k] = Considered(m[k - 1], list[k], target)
                  /\ Best(list, target, none) = m[Len(list)]
<1> DEFINE n == Len(list)
           chosen == CHOOSE it : EffectiveAll(it, list, target, none)
           op == [x \in Directives \X Directives |-> Considered(x[1], x[2], target)]
<1>1. n \in Nat /\ DOMAIN list = 1..n /\ \A i \in 1..n : list[i] \in Directives
    BY DEF Filters
<1>2. Best(list, target, none) = chosen[1..n]
    BY <1>1 DEF Best, FoldLeft, MapThenFoldSet, EffectiveAll
<1>3. op \in [Directives \X Directives -> Directives]
    BY DEF Considered, Better
<1>4. \A v \in Directives, e \in Directives : op[<<v, e>>] = Considered(v, e, target)
    OBVIOUS
<1> HIDE DEF op
<1>5. PICK it \in [SUBSET (1..n) -> Directives] : FoldOf(it, op, none, list, n)
    BY <1>3, FoldExists DEF Filters
<1>6. EffectiveAll(it, list, target, none)
    <2>1. ASSUME NEW s \in SUBSET (1..n), s # {}
          PROVE  op[<<it[s \ {Max(s)}], list[Max(s)]>>]
                   = Considered(it[s \ {Max(s)}], list[Max(s)], target)
        <3>1. Max(s) \in 1..n
            <4>1. s \subseteq 0..n
                BY <1>1
            <4> QED BY <1>1, <2>1, <4>1, MaxOfBounded
        <3>2. it[s \ {Max(s)}] \in Directives /\ list[Max(s)] \in Directives
            BY <1>1, <1>5, <3>1
        <3> QED BY <1>4, <3>2
    <2> QED BY <1>1, <1>5, <2>1 DEF FoldOf, EffectiveAll
<1>7. EffectiveAll(chosen, list, target, none)
    BY <1>6
<1> HIDE DEF chosen
<1>8. \A s \in SUBSET (1..n) : chosen[s] =
          IF s = {} THEN none ELSE Considered(chosen[s \ {Max(s)}], list[Max(s)], target)
    BY <1>1, <1>7 DEF EffectiveAll
<1> DEFINE m == [k \in 0..n |-> chosen[1..k]]
<1>9. m[0] = none
    <2>1. 0 \in 0..n /\ 1..0 = {} /\ {} \in SUBSET (1..n)
        BY <1>1
    <2>2. m[0] = chosen[{}]
        BY <2>1
    <2> QED BY <1>8, <2>1, <2>2
<1>10. ASSUME NEW k \in 1..n PROVE m[k] = Considered(m[k - 1], list[k], target)
    <2>1. 1..k # {} /\ Max(1..k) = k /\ 1..k \ {k} = 1..k - 1 /\ 1..k \in SUBSET (1..n)
        BY <1>1, UpTo
    <2>2. chosen[1..k] = Considered(chosen[1..k - 1], list[k], target)
        BY <1>8, <2>1
    <2> QED BY <1>1, <2>2
<1>11. m[n] = chosen[1..n]
    BY <1>1
<1> HIDE DEF m
<1> QED BY <1>2, <1>9, <1>10, <1>11

Matches(d, target) == d.target # <<>> /\ module_matches(d.target, target)

(* The best of the first k directives: the last of the longest that match.  *)
BestOf(best, none, list, target, k) ==
    \/ /\ best = none
       /\ \A i \in 1..k : ~Matches(list[i], target)
    \/ \E i \in 1..k :
          /\ best = list[i]
          /\ Matches(list[i], target)
          /\ \A j \in 1..k : Matches(list[j], target)
                                => Len(list[j].target) <= Len(list[i].target)

LEMMA NamesHaveLength == \A p \in Names : Len(p) \in Nat /\ (p # <<>> => Len(p) # 0)
<1>1. \A p \in Seq(Segments) : Len(p) \in Nat /\ (Len(p) = 0 => p = <<>>)
    OBVIOUS
<1> QED BY <1>1, NamesTyped

LEMMA OneMoreConsidered ==
    ASSUME NEW list \in Filters, NEW target, NEW none, none.target = <<>>,
           NEW k \in 1..Len(list), NEW best, BestOf(best, none, list, target, k - 1)
    PROVE  BestOf(Considered(best, list[k], target), none, list, target, k)
<1> DEFINE n == Len(list)
           long(i) == Len(list[i].target)
           hit(i) == Matches(list[i], target)
           next == Considered(best, list[k], target)
<1>1. /\ n \in Nat /\ k \in 1..k /\ 1..k - 1 \subseteq 1..k
      /\ \A i : i \in 1..k <=> i \in 1..k - 1 \/ i = k
      /\ \A i \in 1..k : long(i) \in Nat
    BY FilterTyped, NamesHaveLength
<1>2. next = IF hit(k) THEN Better(best, list[k]) ELSE best
    BY DEF Considered, Matches
<1>3. CASE best = none /\ \A i \in 1..k - 1 : ~hit(i)
    <2>1. hit(k) => Better(best, list[k]) = list[k]
        <3>1. Len(<<>>) = 0 /\ long(k) \in Nat /\ ~(0 > long(k))
            BY <1>1
        <3> QED BY <1>3, <3>1 DEF Better
    <2> HIDE DEF next, hit
    <2>2. CASE hit(k)
        <3>1. next = list[k] /\ \A j \in 1..k : hit(j) => long(j) <= long(k)
            BY <1>1, <1>2, <1>3, <2>1, <2>2
        <3> QED BY <1>1, <2>2, <3>1 DEF BestOf, next, hit
    <2>3. CASE ~hit(k)
        <3>1. next = none /\ \A i \in 1..k : ~hit(i)
            BY <1>1, <1>2, <1>3, <2>3
        <3> QED BY <3>1 DEF BestOf, next, hit
    <2> QED BY <2>2, <2>3
<1>4. ASSUME NEW i \in 1..k - 1, best = list[i], hit(i),
             \A j \in 1..k - 1 : hit(j) => long(j) <= long(i)
      PROVE  BestOf(next, none, list, target, k)
    <2>1. Better(best, list[k]) = IF long(i) > long(k) THEN list[i] ELSE list[k]
        BY <1>4 DEF Better
    <2> HIDE DEF next, hit, long
    <2>2. CASE hit(k) /\ ~(long(i) > long(k))
        <3>1. next = list[k] /\ \A j \in 1..k : hit(j) => long(j) <= long(k)
            BY <1>1, <1>2, <1>4, <2>1, <2>2
        <3> QED BY <1>1, <2>2, <3>1 DEF BestOf, next, hit, long
    <2>3. CASE hit(k) /\ long(i) > long(k)
        <3>1. next = list[i] /\ \A j \in 1..k : hit(j) => long(j) <= long(i)
            BY <1>1, <1>2, <1>4, <2>1, <2>3
        <3> QED BY <1>1, <1>4, <3>1 DEF BestOf, next, hit, long
    <2>4. CASE ~hit(k)
        <3>1. next = list[i] /\ \A j \in 1..k : hit(j) => long(j) <= long(i)
            BY <1>1, <1>2, <1>4, <2>4
        <3> QED BY <1>1, <1>4, <3>1 DEF BestOf, next, hit, long
    <2> QED BY <2>2, <2>3, <2>4
<1> QED BY <1>3, <1>4 DEF BestOf

LEMMA EffectiveIs ==
    ASSUME NEW list \in Filters, NEW target, NEW none \in Directives, none.target = <<>>
    PROVE  BestOf(Best(list, target, none), none, list, target, Len(list))
<1> DEFINE n == Len(list)
<1>1. n \in Nat
    BY FilterTyped
<1>2. PICK m : /\ m[0] = none
               /\ \A k \in 1..n : m[k] = Considered(m[k - 1], list[k], target)
               /\ Best(list, target, none) = m[n]
    BY EffectiveSteps
<1> DEFINE P == {k \in Nat : BestOf(m[k], none, list, target, k)}
<1>3. 0 \in P
    <2>1. 1..0 = {}
        OBVIOUS
    <2> QED BY <1>2, <2>1 DEF BestOf
<1>4. ASSUME NEW k \in 1..n, k - 1 \in P PROVE k \in P
    <2>1. BestOf(Considered(m[k - 1], list[k], target), none, list, target, k)
        BY <1>4, OneMoreConsidered
    <2> QED BY <1>1, <1>2, <2>1
<1> HIDE DEF P
<1>5. \A k \in 0..n : k \in P
    BY <1>1, <1>3, <1>4, UpToInduction
<1>6. n \in P
    BY <1>1, <1>5
<1> QED BY <1>2, <1>6 DEF P

------------------------------------------------------------------------------
(* The level of a target is the last word on the longest path that covers   *)
(* it.                                                                      *)

LEMMA PrefixIs ==
    ASSUME NEW p \in Names, NEW t \in Names
    PROVE  module_matches(p, t) <=> Len(p) <= Len(t) /\ p = SubSeq(t, 1, Len(p))
<1>1. p \in Seq(Segments)
    BY NamesTyped
<1>2. SubSeq(p, 1, Len(p)) = p
    BY <1>1
<1> QED BY <1>2 DEF module_matches, IsPrefix

LEMMA DefaultIs ==
    ASSUME NEW list, NEW text, ParsesTo(list, text), NEW base
    PROVE  default_level(list, base) =
              IF Setters(text, <<>>) = {} THEN base ELSE LastWord(text, <<>>)
<1> DEFINE I == {i \in 1..Len(list) : list[i].target = <<>>}
<1>1. /\ Len(list) \in Nat /\ I \subseteq Nat
      /\ <<>> \in Targets(list) <=> I # {}
      /\ <<>> \in Targets(list) <=> Setters(text, <<>>) # {}
    <2>1. list \in Filters /\ <<>> \in Names
        BY DEF ParsesTo, Names
    <2>2. Len(list) \in Nat
        BY <2>1, FilterTyped
    <2>3. <<>> \in Targets(list) <=> I # {}
        BY DEF Targets
    <2>4. <<>> \in Targets(list) <=> Setters(text, <<>>) # {}
        BY <2>1 DEF ParsesTo
    <2> QED BY <2>2, <2>3, <2>4
<1>2. global_default(list) = IF I # {} THEN Min(I) ELSE 0
    BY DEF global_default, SelectInSeq
<1>3. CASE I # {}
    <2>1. PICK x \in I : \A y \in I : x <= y
        BY <1>1, <1>3, LeastNatural
    <2>2. Min(I) \in I
        BY <2>1 DEF Min
    <2>3. global_default(list) \in 1..Len(list) /\ list[global_default(list)].target = <<>>
        BY <1>2, <1>3, <2>2
    <2>4. list[global_default(list)].level = LastWord(text, <<>>)
        BY <2>3 DEF ParsesTo
    <2>5. global_default(list) # 0
        BY <1>1, <2>3
    <2> QED BY <1>1, <1>3, <2>4, <2>5 DEF default_level
<1>4. CASE I = {}
    BY <1>1, <1>2, <1>4 DEF default_level
<1> QED BY <1>3, <1>4

(* The prefixes of a target that the text names.                            *)
Named(text, target) == {n \in 1..Len(target) : Setters(text, SubSeq(target, 1, n)) # {}}

LEMMA LongestNamed ==
    ASSUME NEW text, NEW target
    PROVE  Governing(text, target) =
              IF Named(text, target) = {} THEN <<>>
              ELSE SubSeq(target, 1, CHOOSE n \in Named(text, target) :
                                         \A m \in Named(text, target) : m <= n)
BY DEF Governing, Named

LEMMA GoverningIs ==
    ASSUME NEW target \in Names, NEW text,
           NEW n \in Named(text, target), \A m \in Named(text, target) : m <= n
    PROVE  Governing(text, target) = SubSeq(target, 1, n)
<1> DEFINE S == Named(text, target)
           last == CHOOSE k \in S : \A m \in S : m <= k
<1>1. S \subseteq Nat
    BY NamesHaveLength DEF Named
<1>2. last \in S /\ \A m \in S : m <= last
    OBVIOUS
<1>3. last = n
    BY <1>1, <1>2
<1>4. S # {} /\ Governing(text, target) = SubSeq(target, 1, last)
    BY LongestNamed
<1> QED BY <1>3, <1>4

LEMMA NamedMatches ==
    ASSUME NEW list, NEW text, ParsesTo(list, text), NEW target \in Names,
           NEW n \in Named(text, target)
    PROVE  \E i \in 1..Len(list) :
              /\ list[i].target = SubSeq(target, 1, n)
              /\ Len(list[i].target) = n
              /\ Matches(list[i], target)
<1> DEFINE p == SubSeq(target, 1, n)
<1>1. target \in Seq(Segments) /\ Len(target) \in Nat /\ n \in 1..Len(target)
    BY NamesTyped, NamesHaveLength DEF Named
<1>2. Len(p) = n /\ p # <<>>
    BY <1>1
<1>3. Setters(text, p) # {} /\ text \in Texts
    BY DEF Named, ParsesTo
<1>4. p \in Names
    <2>1. PICK i \in 1..Len(text) : Says(text[i], p) /\ text[i] \in Parts
        BY <1>3, SettersTyped DEF Setters
    <2> QED BY <2>1, PartIs
<1> HIDE DEF p
<1>5. p \in Targets(list)
    BY <1>3, <1>4 DEF ParsesTo
<1>6. PICK i \in 1..Len(list) : list[i].target = p
    BY <1>5 DEF Targets
<1>7. module_matches(p, target)
    <2>1. p = SubSeq(target, 1, Len(p)) /\ Len(p) <= Len(target)
        BY <1>1, <1>2 DEF p
    <2> QED BY <1>4, <2>1, PrefixIs
<1> QED BY <1>2, <1>6, <1>7 DEF Matches, p

LEMMA EffectiveIsWord ==
    ASSUME NEW list, NEW text, ParsesTo(list, text), NEW target \in Names,
           NEW base \in 0..Off
    PROVE  /\ effective_level(list, target, base) = Word(text, target, base)
           /\ effective_level(list, target, base) \in 0..Off
<1> DEFINE none == NoMatch(list, base)
           best == Best(list, target, none)
           n == Len(list)
<1>1. /\ list \in Filters /\ n \in Nat
      /\ \A i \in 1..n : /\ list[i].target \in Names /\ list[i].level \in 0..Off
                         /\ list[i].level = LastWord(text, list[i].target)
                         /\ Setters(text, list[i].target) # {}
    BY FilterTyped DEF ParsesTo
<1>2. default_level(list, base) =
          IF Setters(text, <<>>) = {} THEN base ELSE LastWord(text, <<>>)
    BY DefaultIs
<1>3. default_level(list, base) \in 0..Off
    <2>1. CASE Setters(text, <<>>) = {}
        BY <1>2, <2>1
    <2>2. CASE Setters(text, <<>>) # {}
        <3>1. <<>> \in Targets(list)
            BY <2>2 DEF ParsesTo, Names
        <3>2. PICK i \in 1..n : list[i].target = <<>>
            BY <3>1 DEF Targets
        <3> QED BY <1>1, <1>2, <2>2, <3>2
    <2> QED BY <2>1, <2>2
<1>4. none \in Directives /\ none.target = <<>> /\ none.level = default_level(list, base)
    BY <1>3 DEF NoMatch, Directives, Names
<1>5. effective_level(list, target, base) = best.level
    BY DEF effective_level, Best
<1> HIDE DEF none
<1>6. BestOf(best, none, list, target, n)
    BY <1>1, <1>4, EffectiveIs
<1> HIDE DEF best
<1>7. CASE best = none /\ \A i \in 1..n : ~Matches(list[i], target)
    <2>1. Named(text, target) = {}
        BY <1>7, NamedMatches
    <2>2. Governing(text, target) = <<>>
        BY <2>1 DEF Governing, Named
    <2> QED BY <1>2, <1>3, <1>4, <1>5, <1>7, <2>2 DEF Word
<1>8. ASSUME NEW i \in 1..n, best = list[i], Matches(list[i], target),
             \A j \in 1..n : Matches(list[j], target)
                                => Len(list[j].target) <= Len(list[i].target)
      PROVE  /\ effective_level(list, target, base) = Word(text, target, base)
             /\ effective_level(list, target, base) \in 0..Off
    <2> DEFINE p == list[i].target
    <2>1. p \in Names /\ p # <<>> /\ Len(p) \in 1..Len(target) /\ p = SubSeq(target, 1, Len(p))
        <3>1. p \in Names /\ p # <<>> /\ module_matches(p, target)
            BY <1>1, <1>8 DEF Matches
        <3>2. Len(p) <= Len(target) /\ p = SubSeq(target, 1, Len(p))
            BY <3>1, PrefixIs
        <3>3. Len(p) \in Nat /\ Len(p) # 0 /\ Len(target) \in Nat
            BY <3>1, NamesHaveLength
        <3> QED BY <3>1, <3>2, <3>3
    <2>2. Len(p) \in Named(text, target)
        BY <1>1, <2>1 DEF Named
    <2>3. \A m \in Named(text, target) : m <= Len(p)
        BY <1>8, NamedMatches
    <2>4. Governing(text, target) = p
        BY <2>1, <2>2, <2>3, GoverningIs
    <2>5. Word(text, target, base) = list[i].level
        BY <1>1, <2>4 DEF Word
    <2> QED BY <1>1, <1>5, <1>8, <2>5
<1> QED BY <1>6, <1>7, <1>8 DEF BestOf

LEMMA EnabledIs ==
    ASSUME NEW list, NEW text, ParsesTo(list, text), NEW target \in Names,
           NEW base \in 0..Off, NEW level \in 0..Off
    PROVE  enabled(list, target, level, base) <=> level \in Word(text, target, base)..Error
<1> DEFINE e == effective_level(list, target, base)
<1>1. e \in 0..Off /\ e = Word(text, target, base)
    BY EffectiveIsWord
<1> HIDE DEF e
<1>2. level # Off /\ e # Off /\ level >= e <=> level \in e..Error
    BY <1>1 DEF Off, Error
<1> QED BY <1>1, <1>2 DEF enabled, e

(* A part that covers no prefix of a target leaves its level alone.         *)
LEMMA WordUnchanged ==
    ASSUME NEW text \in Texts, NEW part \in Parts, NEW target \in Names, NEW base,
           ~Covers(part, target)
    PROVE  Word(Append(text, part), target, base) = Word(text, target, base)
<1> DEFINE more == Append(text, part)
           prefix(n) == SubSeq(target, 1, n)
<1>1. target \in Seq(Segments) /\ Len(target) \in Nat
    BY NamesTyped, NamesHaveLength
<1>2. ASSUME NEW p, Says(part, p)
      PROVE  /\ p \in Paths /\ p # <<>> /\ ~IsPrefix(p, target)
    <2>1. /\ part.form \in {"target", "target=", "pair"} /\ part.target = p
          /\ ~IsPrefix(part.target, target)
        BY <1>2 DEF Says, Covers
    <2>2. p \in Names
        BY <1>2, PartIs
    <2>3. part.target \in Paths
        BY <2>1 DEF Parts, LevelPart, TargetPart, PairPart, EmptyPart, BadPart
    <2> QED BY <2>1, <2>3, FilterAssumption
<1>3. ~Says(part, <<>>)
    BY <1>2
<1>4. ASSUME NEW n \in 1..Len(target) PROVE ~Says(part, prefix(n))
    <2>1. SUFFICES ASSUME prefix(n) \in Names PROVE module_matches(prefix(n), target)
        BY <1>2 DEF module_matches, Names
    <2>2. Len(prefix(n)) = n /\ n <= Len(target)
        BY <1>1
    <2>3. prefix(n) = SubSeq(target, 1, Len(prefix(n)))
        BY <2>2
    <2> HIDE DEF prefix
    <2> QED BY <2>1, <2>2, <2>3, PrefixIs
<1> HIDE DEF more
<1>5. \A p : ~Says(part, p) =>
          /\ Setters(more, p) = Setters(text, p)
          /\ Setters(text, p) # {} => LastWord(more, p) = LastWord(text, p)
    <2>1. SUFFICES ASSUME NEW p, ~Says(part, p)
                   PROVE  /\ Setters(more, p) = Setters(text, p)
                          /\ Setters(text, p) # {} => LastWord(more, p) = LastWord(text, p)
        OBVIOUS
    <2>2. /\ Setters(more, p) =
                Setters(text, p) \cup (IF Says(part, p) THEN {Len(text) + 1} ELSE {})
          /\ ~Says(part, p) /\ Setters(text, p) # {} => LastWord(more, p) = LastWord(text, p)
        BY OneMoreSetter DEF more
    <2> QED BY <2>1, <2>2
<1>6. Named(more, target) = Named(text, target)
    BY <1>4, <1>5 DEF Named
<1>7. CASE Named(text, target) = {}
    <2>1. Governing(more, target) = <<>> /\ Governing(text, target) = <<>>
        BY <1>6, <1>7, LongestNamed
    <2> QED BY <1>3, <1>5, <2>1 DEF Word, more
<1>8. CASE Named(text, target) # {}
    <2>1. Named(text, target) \subseteq 0..Len(target) /\ Named(text, target) \subseteq 1..Len(target)
        BY <1>1 DEF Named
    <2>2. PICK n \in Named(text, target) : \A m \in Named(text, target) : m <= n
        BY <1>1, <1>8, <2>1, MaxOfBounded
    <2>3. Governing(more, target) = prefix(n) /\ Governing(text, target) = prefix(n)
        BY <1>6, <2>2, GoverningIs
    <2> QED BY <1>4, <1>5, <2>1, <2>3 DEF Word, more
<1> QED BY <1>7, <1>8

------------------------------------------------------------------------------
(* The filter in a program.                                                 *)

FilterInv == ParsesTo(directives, spec)

LEMMA FilterStep ==
    ASSUME FilterInv, [SetupNext]_<<setup, vars>>
    PROVE  /\ FilterInv'
           /\ \/ UNCHANGED vars
              \/ \E part \in Parts : ParsePart(part)
<1>1. CASE UNCHANGED vars
    BY <1>1 DEF vars, FilterInv
<1>2. CASE \E part \in Parts : ParsePart(part)
    <2>1. PICK part \in Parts : ParsePart(part)
        BY <1>2
    <2>2. ParsesTo(AfterPart(directives, part), Append(spec, part))
        BY AfterPartParses DEF FilterInv
    <2> QED BY <1>2, <2>1, <2>2 DEF ParsePart, FilterInv
<1> QED BY <1>1, <1>2 DEF SetupNext, Parsing, Next, Parsed

LEMMA FilterInvariant == SetupSpec => []FilterInv
<1>1. SetupInit => FilterInv
    BY NothingParsed DEF SetupInit, Init, FilterInv
<1>2. FilterInv /\ [SetupNext]_<<setup, vars>> => FilterInv'
    BY FilterStep
<1> QED BY <1>1, <1>2, PTL DEF SetupSpec

(* Whatever directives have been parsed, in whatever order, a record passes *)
(* exactly when its level is at least the last word on the longest path     *)
(* that covers its target, unless a stray "=" is one of the words on it     *)
(* (TargetFilter::enabled).                                                 *)
THEOREM LastWordWins == SetupSpec => []MostSpecificLastWord
<1>1. ASSUME FilterInv PROVE MostSpecificLastWord
    <2>1. ASSUME NEW target \in Paths \cup {<<>>}, NEW base \in Levels, NEW level \in 0..Off,
                 ~StrayGoverns(spec, target)
          PROVE  enabled(directives, target, level, base)
                   <=> level \in Word(spec, target, base)..Error
        <3>1. target \in Names /\ base \in 0..Off
            BY NamesTyped DEF Names
        <3> QED BY <1>1, <3>1, EnabledIs DEF FilterInv
    <2> QED BY <2>1 DEF MostSpecificLastWord
<1> QED BY <1>1, FilterInvariant, PTL

(* Parsing one more directive changes the level of the targets that the     *)
(* directive covers and of no other (TargetFilter::parse).                  *)
THEOREM DirectivesAreLocal == SetupSpec => OnlyItsOwnTargets
<1>1. ASSUME FilterInv, [SetupNext]_<<setup, vars>>
      PROVE  [\A target \in Paths, base \in Levels :
                 effective_level(directives, target, base)'
                   # effective_level(directives, target, base) => Covers(Last(spec'), target)]_vars
    <2>1. SUFFICES ASSUME NEW part \in Parts, ParsePart(part),
                          NEW target \in Paths, NEW base \in Levels, ~Covers(Last(spec'), target)
                   PROVE  effective_level(directives', target, base)
                            = effective_level(directives, target, base)
        BY <1>1, FilterStep
    <2>2. FilterInv' /\ spec' = Append(spec, part) /\ spec \in Texts
        BY <1>1, <2>1, FilterStep DEF ParsePart, FilterInv, ParsesTo
    <2>3. Last(spec') = part
        BY <2>2 DEF Last, Texts
    <2>4. target \in Names /\ base \in 0..Off
        BY NamesTyped DEF Names
    <2>5. Word(spec', target, base) = Word(spec, target, base)
        BY <2>1, <2>2, <2>3, <2>4, WordUnchanged
    <2>6. effective_level(directives, target, base) = Word(spec, target, base)
        BY <1>1, <2>4, EffectiveIsWord DEF FilterInv
    <2>7. effective_level(directives', target, base) = Word(spec', target, base)
        BY <2>2, <2>4, EffectiveIsWord DEF FilterInv
    <2> QED BY <2>5, <2>6, <2>7
<1> QED BY <1>1, FilterInvariant, PTL DEF SetupSpec, OnlyItsOwnTargets

------------------------------------------------------------------------------
(* The builder: what a history of calls makes of it.                        *)

CallsInUse ==
    [op : {"level", "filter", "add_sink", "env_filter", "ignore_env_filter", "json"}
            \cup SinkMethods,
     level : 0..Off, text : Texts]
Histories == Seq(CallsInUse)

LEMMA LatestIs ==
    ASSUME NEW S, S \subseteq Nat, NEW x \in S, \A y \in S : y <= x
    PROVE  Latest(S) = x
<1>1. Latest(S) \in S /\ \A y \in S : y <= Latest(S)
    BY DEF Latest
<1>2. Latest(S) \in Nat /\ x \in Nat /\ Latest(S) <= x /\ x <= Latest(S)
    BY <1>1
<1> QED BY <1>2

LEMMA OpsTyped ==
    ASSUME NEW made \in Histories, NEW ops
    PROVE  /\ Len(made) \in Nat
           /\ Ops(made, ops) \subseteq 1..Len(made)
           /\ \A i \in 1..Len(made) : made[i] \in CallsInUse
           /\ Ops(made, ops) # {} =>
                 /\ Latest(Ops(made, ops)) \in Ops(made, ops)
                 /\ \A i \in Ops(made, ops) : i <= Latest(Ops(made, ops))
<1> DEFINE S == Ops(made, ops)
<1>1. /\ Len(made) \in Nat
      /\ \A i \in 1..Len(made) : made[i] \in CallsInUse
    BY DEF Histories
<1>2. S \subseteq 1..Len(made) /\ S \subseteq 0..Len(made) /\ S \subseteq Nat
    BY <1>1 DEF Ops
<1>3. ASSUME S # {}
      PROVE  Latest(S) \in S /\ \A i \in S : i <= Latest(S)
    <2>1. Max(S) \in S /\ \A y \in S : y <= Max(S)
        BY <1>1, <1>2, <1>3, MaxOfBounded
    <2>2. Latest(S) = Max(S)
        BY <1>2, <2>1, LatestIs
    <2> QED BY <2>1, <2>2
<1> QED BY <1>1, <1>2, <1>3

(* One more call.                                                           *)
LEMMA OneMoreCall ==
    ASSUME NEW made \in Histories, NEW call \in CallsInUse
    PROVE  LET more == Append(made, call)
           IN  /\ more \in Histories /\ Len(more) = Len(made) + 1
               /\ more[Len(made) + 1] = call
               /\ \A i \in 1..Len(made) : more[i] = made[i]
               /\ \A ops : call.op \in ops =>
                     /\ Ops(more, ops) = Ops(made, ops) \cup {Len(made) + 1}
                     /\ Latest(Ops(more, ops)) = Len(made) + 1
               /\ \A ops : call.op \notin ops =>
                     /\ Ops(more, ops) = Ops(made, ops)
                     /\ Ops(made, ops) # {} =>
                           more[Latest(Ops(more, ops))] = made[Latest(Ops(made, ops))]
<1> DEFINE n == Len(made)
           more == Append(made, call)
<1>1. /\ more \in Histories /\ n \in Nat /\ Len(more) = n + 1 /\ more[n + 1] = call
      /\ \A i \in 1..n : more[i] = made[i]
    BY DEF Histories
<1>2. \A i : i \in 1..n + 1 <=> i \in 1..n \/ i = n + 1
    BY <1>1
<1> HIDE DEF more
<1>3. ASSUME NEW ops, call.op \in ops
      PROVE  /\ Ops(more, ops) = Ops(made, ops) \cup {n + 1}
             /\ Latest(Ops(more, ops)) = n + 1
    <2>1. \A i : i \in Ops(more, ops) <=> i \in Ops(made, ops) \/ i = n + 1
        BY <1>1, <1>2, <1>3 DEF Ops
    <2>2. /\ Ops(more, ops) \subseteq Nat /\ n + 1 \in Ops(more, ops)
          /\ \A i \in Ops(more, ops) : i <= n + 1
        BY <1>1, <2>1, OpsTyped
    <2> QED BY <2>1, <2>2, LatestIs
<1>4. ASSUME NEW ops, call.op \notin ops
      PROVE  /\ Ops(more, ops) = Ops(made, ops)
             /\ Ops(made, ops) # {} =>
                   more[Latest(Ops(more, ops))] = made[Latest(Ops(made, ops))]
    <2>1. \A i : i \in Ops(more, ops) <=> i \in Ops(made, ops)
        BY <1>1, <1>2, <1>4 DEF Ops
    <2>2. Ops(more, ops) = Ops(made, ops)
        BY <2>1
    <2>3. Ops(made, ops) # {} => Latest(Ops(made, ops)) \in 1..n
        BY OpsTyped
    <2> QED BY <1>1, <2>2, <2>3
<1> QED BY <1>1, <1>3, <1>4 DEF more

(* The filter, levels and sinks of a builder, in terms of the calls.        *)
ExplicitText(made) == made[Latest(Ops(made, {"filter"}))].text

Builders ==
    [level : 0..Off, json : BOOLEAN, filter : [some : BOOLEAN, list : Filters],
     read_env : BOOLEAN, sinks : Seq([source : {"add_sink"} \cup SinkMethods, floor : 0..Off])]

FilterAsked(b, made) ==
    /\ b.level = LevelFor(made)
    /\ b.read_env <=> EnvWanted(made)
    /\ b.filter.some <=> Ops(made, {"filter"}) # {}
    /\ b.filter.some => ParsesTo(b.filter.list, ExplicitText(made))

SinksAsked(b, made) == SinksAre(b.sinks, made, IF Singles(made) = {} THEN 0 ELSE 1)

MadeBy(b, made) ==
    /\ b \in Builders
    /\ made \in Histories
    /\ FilterAsked(b, made)
    /\ SinksAsked(b, made)

LEMMA NoCalls ==
    /\ <<>> \in Histories
    /\ \A ops : Ops(<<>>, ops) = {}
    /\ Singles(<<>>) = {} /\ Added(<<>>) = {}
<1>1. <<>> \in Histories /\ Len(<<>>) = 0 /\ 1..0 = {}
    BY DEF Histories
<1>2. \A ops : Ops(<<>>, ops) = {}
    BY <1>1 DEF Ops
<1> QED BY <1>1, <1>2 DEF Singles, Added

LEMMA NewBuilderMade == MadeBy(NewBuilder, <<>>)
<1>1. NewBuilder \in Builders
    BY DEF NewBuilder, NoFilter, Builders, Info, Off, Filters
<1>2. FilterAsked(NewBuilder, <<>>)
    BY NoCalls DEF FilterAsked, NewBuilder, NoFilter, LevelFor, EnvWanted
<1>3. SinksAsked(NewBuilder, <<>>)
    <2>1. Cardinality({}) = 0 /\ Len(<<>>) = 0
        BY FS_EmptySet
    <2>2. NewBuilder.sinks = <<>>
        BY DEF NewBuilder
    <2>3. SinksAre(<<>>, <<>>, 0)
        BY <2>1, NoCalls DEF SinksAre
    <2> QED BY <2>2, <2>3, NoCalls DEF SinksAsked
<1> QED BY <1>1, <1>2, <1>3, NoCalls DEF MadeBy

LEMMA AfterTyped ==
    ASSUME NEW b \in Builders, NEW call \in CallsInUse
    PROVE  After(b, call) \in Builders
<1> DEFINE S == [source : {"add_sink"} \cup SinkMethods, floor : 0..Off]
           B == [level : 0..Off, json : BOOLEAN, filter : [some : BOOLEAN, list : Filters],
                 read_env : BOOLEAN, sinks : Seq(S)]
<1>1. b \in B /\ call.level \in 0..Off /\ call.text \in Texts /\ b.sinks \in Seq(S)
    BY DEF Builders, CallsInUse
<1>2. [some |-> TRUE, list |-> parse(call.text)] \in [some : BOOLEAN, list : Filters]
    BY <1>1, ParsedAs DEF ParsesTo
<1>3. /\ [source |-> "add_sink", floor |-> call.level] \in S
      /\ call.op \in SinkMethods => [source |-> call.op, floor |-> Trace] \in S
    BY <1>1, NamesTyped
<1> HIDE DEF S
<1>4. CASE call.op \in {"level", "filter", "env_filter", "ignore_env_filter", "json"}
    <2>1. CASE call.op = "level"
        <3>1. After(b, call) = [b EXCEPT !.level = call.level]
            BY <2>1 DEF After, SinkMethods
        <3> QED BY <1>1, <3>1 DEF Builders, S
    <2>2. CASE call.op = "filter"
        <3>1. After(b, call) =
                 [b EXCEPT !.filter = [some |-> TRUE, list |-> parse(call.text)]]
            BY <2>2 DEF After, SinkMethods
        <3> QED BY <1>1, <1>2, <3>1 DEF Builders, S
    <2>3. CASE call.op = "json"
        <3>1. After(b, call) = [b EXCEPT !.json = TRUE]
            BY <2>3 DEF After, SinkMethods
        <3> QED BY <1>1, <3>1 DEF Builders, S
    <2>4. CASE call.op \in {"env_filter", "ignore_env_filter"}
        <3>1. \E r \in BOOLEAN : After(b, call) = [b EXCEPT !.read_env = r]
            BY <2>4 DEF After, SinkMethods
        <3> QED BY <1>1, <3>1 DEF Builders, S
    <2> QED BY <1>4, <2>1, <2>2, <2>3, <2>4
<1>5. CASE call.op = "add_sink"
    <2>1. Append(b.sinks, [source |-> "add_sink", floor |-> call.level]) \in Seq(S)
        BY <1>1, <1>3
    <2>2. After(b, call) =
             [b EXCEPT !.sinks = Append(b.sinks, [source |-> "add_sink", floor |-> call.level])]
        BY <1>5 DEF After, SinkMethods, add_sink
    <2>3. After(b, call) \in B
        BY <1>1, <2>1, <2>2
    <2> QED BY <2>3 DEF Builders, S
<1>6. CASE call.op \in SinkMethods
    <2>1. <<[source |-> call.op, floor |-> Trace]>> \in Seq(S)
        BY <1>3, <1>6
    <2>2. After(b, call) = [b EXCEPT !.sinks = <<[source |-> call.op, floor |-> Trace]>>]
        BY <1>6 DEF After, set_single_sink, SinkMethods
    <2>3. After(b, call) \in B
        BY <1>1, <2>1, <2>2
    <2> QED BY <2>3 DEF Builders, S
<1> QED BY <1>4, <1>5, <1>6 DEF CallsInUse

LEMMA AfterIs ==
    ASSUME NEW b \in Builders, NEW call \in CallsInUse
    PROVE  /\ After(b, call).level = IF call.op = "level" THEN call.level ELSE b.level
           /\ After(b, call).read_env <=>
                 IF call.op \in {"env_filter", "ignore_env_filter"}
                 THEN call.op = "env_filter" ELSE b.read_env
           /\ After(b, call).filter =
                 IF call.op = "filter" THEN [some |-> TRUE, list |-> parse(call.text)] ELSE b.filter
           /\ After(b, call).sinks =
                 IF call.op = "add_sink"
                 THEN Append(b.sinks, [source |-> "add_sink", floor |-> call.level])
                 ELSE IF call.op \in SinkMethods THEN <<[source |-> call.op, floor |-> Trace]>>
                 ELSE b.sinks
<1> USE DEF After, SinkMethods
<1>0. b = [level |-> b.level, json |-> b.json, filter |-> b.filter,
           read_env |-> b.read_env, sinks |-> b.sinks]
    BY DEF Builders
<1>1. CASE call.op = "level"
    <2>1. After(b, call) = [b EXCEPT !.level = call.level]
        BY <1>1
    <2> QED BY <1>0, <1>1, <2>1
<1>2. CASE call.op = "filter"
    <2>1. After(b, call) = [b EXCEPT !.filter = [some |-> TRUE, list |-> parse(call.text)]]
        BY <1>2
    <2> QED BY <1>0, <1>2, <2>1
<1>3. CASE call.op = "json"
    <2>1. After(b, call) = [b EXCEPT !.json = TRUE]
        BY <1>3
    <2> QED BY <1>0, <1>3, <2>1
<1>4. CASE call.op = "env_filter"
    <2>1. After(b, call) = [b EXCEPT !.read_env = TRUE]
        BY <1>4
    <2> QED BY <1>0, <1>4, <2>1
<1>5. CASE call.op = "ignore_env_filter"
    <2>1. After(b, call) = [b EXCEPT !.read_env = FALSE]
        BY <1>5
    <2> QED BY <1>0, <1>5, <2>1
<1>6. CASE call.op = "add_sink"
    <2>1. After(b, call) =
             [b EXCEPT !.sinks = Append(b.sinks, [source |-> "add_sink", floor |-> call.level])]
        BY <1>6 DEF add_sink
    <2> QED BY <1>0, <1>6, <2>1
<1>7. CASE call.op \in SinkMethods
    <2>1. After(b, call) = [b EXCEPT !.sinks = <<[source |-> call.op, floor |-> Trace]>>]
        BY <1>7 DEF set_single_sink
    <2> QED BY <1>0, <1>7, <2>1
<1> QED BY <1>1, <1>2, <1>3, <1>4, <1>5, <1>6, <1>7 DEF CallsInUse

LEMMA FilterAskedAfter ==
    ASSUME NEW b, NEW made, MadeBy(b, made), NEW call \in CallsInUse
    PROVE  FilterAsked(After(b, call), Append(made, call))
<1> DEFINE n == Len(made)
           more == Append(made, call)
           after == After(b, call)
           explicit == Ops(made, {"filter"})
           level == Ops(made, {"level"})
           about == Ops(made, {"env_filter", "ignore_env_filter"})
<1>1. b \in Builders /\ made \in Histories /\ FilterAsked(b, made) /\ call.text \in Texts
    BY DEF MadeBy, CallsInUse
<1>2. /\ more[n + 1] = call /\ n + 1 \in Nat
      /\ \A ops : call.op \in ops =>
            Latest(Ops(more, ops)) = n + 1 /\ Ops(more, ops) # {}
      /\ \A ops : call.op \notin ops =>
            /\ Ops(more, ops) = Ops(made, ops)
            /\ Ops(made, ops) # {} =>
                  more[Latest(Ops(more, ops))] = made[Latest(Ops(made, ops))]
    BY <1>1, OneMoreCall, OpsTyped
<1> HIDE DEF more
<1>3. after.level = LevelFor(more)
    <2>1. after.level = IF call.op = "level" THEN call.level ELSE LevelFor(made)
        BY <1>1, AfterIs DEF FilterAsked
    <2>2. CASE call.op = "level"
        BY <1>2, <2>1, <2>2 DEF LevelFor
    <2>3. CASE call.op # "level"
        BY <1>2, <2>1, <2>3 DEF LevelFor
    <2> QED BY <2>2, <2>3
<1>4. after.read_env <=> EnvWanted(more)
    <2>1. CASE call.op \in {"env_filter", "ignore_env_filter"}
        <3>1. after.read_env <=> call.op = "env_filter"
            BY <1>1, <2>1, AfterIs
        <3>2. EnvWanted(more) <=> call.op = "env_filter"
            BY <1>2, <2>1 DEF EnvWanted
        <3> QED BY <3>1, <3>2
    <2>2. CASE call.op \notin {"env_filter", "ignore_env_filter"}
        <3>1. after.read_env <=> b.read_env
            BY <1>1, <2>2, AfterIs
        <3>2. EnvWanted(more) <=> EnvWanted(made)
            BY <1>2, <2>2 DEF EnvWanted
        <3>3. b.read_env <=> EnvWanted(made)
            BY <1>1 DEF FilterAsked
        <3> QED BY <3>1, <3>2, <3>3
    <2> QED BY <2>1, <2>2
<1>5. /\ after.filter.some <=> Ops(more, {"filter"}) # {}
      /\ after.filter.some => ParsesTo(after.filter.list, ExplicitText(more))
    <2>1. CASE call.op = "filter"
        <3>1. after.filter = [some |-> TRUE, list |-> parse(call.text)]
            BY <1>1, <2>1, AfterIs
        <3>2. Ops(more, {"filter"}) # {} /\ ExplicitText(more) = call.text
            BY <1>2, <2>1 DEF ExplicitText
        <3>3. after.filter.some /\ after.filter.list = parse(call.text)
            BY <3>1
        <3> QED BY <1>1, <3>2, <3>3, ParsedAs
    <2>2. CASE call.op # "filter"
        <3>1. after.filter = b.filter
            BY <1>1, <2>2, AfterIs
        <3>2. Ops(more, {"filter"}) = explicit
            BY <1>2, <2>2
        <3>3. explicit # {} => ExplicitText(more) = ExplicitText(made)
            BY <1>2, <2>2 DEF ExplicitText
        <3>4. /\ b.filter.some <=> explicit # {}
              /\ b.filter.some => ParsesTo(b.filter.list, ExplicitText(made))
            BY <1>1 DEF FilterAsked
        <3> QED BY <3>1, <3>2, <3>3, <3>4
    <2> QED BY <2>1, <2>2
<1> QED BY <1>3, <1>4, <1>5 DEF FilterAsked, more

LEMMA AddedTyped ==
    ASSUME NEW made \in Histories
    PROVE  /\ Added(made) \subseteq 1..Len(made)
           /\ IsFiniteSet(Added(made)) /\ Cardinality(Added(made)) \in Nat
           /\ \A i \in Added(made) :
                 Cardinality({j \in Added(made) : j <= i}) \in 1..Cardinality(Added(made))
<1> DEFINE A == Added(made)
<1>1. A \subseteq 1..Len(made) /\ Len(made) \in Nat
    BY OpsTyped DEF Added
<1>2. IsFiniteSet(A) /\ Cardinality(A) \in Nat
    <2>1. IsFiniteSet(1..Len(made))
        BY <1>1, FS_Interval
    <2>2. IsFiniteSet(A)
        BY <1>1, <2>1, FS_Subset
    <2> QED BY <2>2, FS_CardinalityType
<1>3. ASSUME NEW i \in A
      PROVE  Cardinality({j \in A : j <= i}) \in 1..Cardinality(A)
    <2> DEFINE T == {j \in A : j <= i}
    <2>1. T \subseteq A /\ i \in T
        BY <1>1
    <2>2. IsFiniteSet(T) /\ Cardinality(T) \in Nat /\ Cardinality(T) <= Cardinality(A)
        BY <1>2, <2>1, FS_Subset, FS_CardinalityType
    <2>3. Cardinality(T) # 0
        BY <2>1, <2>2, FS_EmptySet
    <2> QED BY <1>2, <2>2, <2>3
<1> QED BY <1>1, <1>2, <1>3

LEMMA SinksAskedAfter ==
    ASSUME NEW b, NEW made, MadeBy(b, made), NEW call \in CallsInUse
    PROVE  SinksAsked(After(b, call), Append(made, call))
<1> DEFINE n == Len(made)
           more == Append(made, call)
           sinks == After(b, call).sinks
           A == Added(made)
           card == Cardinality(A)
           rank(S, i) == Cardinality({j \in S : j <= i})
           added(level) == [source |-> "add_sink", floor |-> level]
           first == IF Singles(made) = {} THEN 0 ELSE 1
<1>1. b \in Builders /\ made \in Histories /\ n \in Nat
    BY OpsTyped DEF MadeBy
<1>2. /\ Len(b.sinks) = first + card
      /\ first = 1 => b.sinks[1] = [source |-> made[Latest(Singles(made))].op, floor |-> Trace]
      /\ \A i \in A : b.sinks[first + rank(A, i)] = added(made[i].level)
    <2>1. SinksAre(b.sinks, made, first)
        BY DEF MadeBy, SinksAsked
    <2>2. /\ Len(b.sinks) = first + card
          /\ \A i \in A : b.sinks[first + rank(A, i)] = added(made[i].level)
        BY <2>1 DEF SinksAre
    <2>3. ASSUME first = 1
          PROVE  b.sinks[1] = [source |-> made[Latest(Singles(made))].op, floor |-> Trace]
        <3>1. Singles(made) # {}
            BY <2>3
        <3>2. b.sinks[1] = [source |-> IF Singles(made) = {} THEN "to_stdout"
                                       ELSE made[Latest(Singles(made))].op,
                            floor |-> Trace]
            BY <2>1, <2>3 DEF SinksAre
        <3> QED BY <3>1, <3>2
    <2> QED BY <2>2, <2>3
<1>3. /\ more \in Histories /\ Len(more) = n + 1 /\ more[n + 1] = call
      /\ \A i \in 1..n : more[i] = made[i]
    BY <1>1, OneMoreCall
<1>4. /\ A \subseteq 1..n /\ IsFiniteSet(A) /\ card \in Nat
      /\ \A i \in A : rank(A, i) \in 1..card
    BY <1>1, AddedTyped
<1>5. \E S : b.sinks \in Seq(S)
    BY <1>1 DEF Builders
<1>6. sinks = IF call.op = "add_sink" THEN Append(b.sinks, added(call.level))
              ELSE IF call.op \in SinkMethods THEN <<[source |-> call.op, floor |-> Trace]>>
              ELSE b.sinks
    BY <1>1, AfterIs
<1>7. /\ call.op \in SinkMethods =>
            Singles(more) # {} /\ Latest(Singles(more)) = n + 1
      /\ call.op \notin SinkMethods =>
            /\ Singles(more) = Singles(made)
            /\ Singles(made) # {} => more[Latest(Singles(more))] = made[Latest(Singles(made))]
    <2>1. \A ops : call.op \in ops =>
             Ops(more, ops) = Ops(made, ops) \cup {n + 1} /\ Latest(Ops(more, ops)) = n + 1
        BY <1>1, OneMoreCall
    <2>2. \A ops : call.op \notin ops =>
             /\ Ops(more, ops) = Ops(made, ops)
             /\ Ops(made, ops) # {} =>
                   more[Latest(Ops(more, ops))] = made[Latest(Ops(made, ops))]
        BY <1>1, OneMoreCall
    <2> HIDE DEF more
    <2>3. call.op \in SinkMethods =>
             /\ Ops(more, SinkMethods) = Ops(made, SinkMethods) \cup {n + 1}
             /\ Latest(Ops(more, SinkMethods)) = n + 1
        BY Zenon, <2>1
    <2> QED BY <2>2, <2>3 DEF Singles
<1> HIDE DEF more, sinks
<1>8. CASE call.op = "add_sink"
    <2>1. call.op \notin SinkMethods
        BY <1>8 DEF SinkMethods
    <2>2. Added(more) = A \cup {n + 1}
        <3>1. Ops(more, {"add_sink"}) = Ops(made, {"add_sink"}) \cup {n + 1}
            BY <1>1, <1>8, OneMoreCall DEF more
        <3>2. Singles(made) # {} => Latest(Singles(made)) \in 1..n
            BY <1>1, OpsTyped DEF Singles
        <3>3. Singles(more) = Singles(made)
            BY <1>7, <2>1
        <3>4. Singles(made) # {} => n + 1 \notin 1..Latest(Singles(made))
            BY <1>1, <3>2
        <3> QED BY <3>1, <3>3, <3>4 DEF Added
    <2>3. n + 1 \notin A /\ Cardinality(A \cup {n + 1}) = card + 1
        <3>1. n + 1 \notin A
            BY <1>1, <1>4
        <3> HIDE DEF A, n
        <3> QED BY <1>4, <3>1, FS_AddElement
    <2>4. \A i \in A : {j \in A \cup {n + 1} : j <= i} = {j \in A : j <= i}
        BY <1>1, <1>4
    <2>5. {j \in A \cup {n + 1} : j <= n + 1} = A \cup {n + 1}
        BY <1>1, <1>4
    <2>6. first \in Nat /\ Len(b.sinks) = first + card
        BY <1>2
    <2>7. /\ Len(sinks) = first + card + 1
          /\ sinks[first + card + 1] = added(call.level)
          /\ \A k \in 1..first + card : sinks[k] = b.sinks[k]
        <3>1. sinks = Append(b.sinks, added(call.level))
            BY <1>6, <1>8
        <3> HIDE DEF first, added
        <3> QED BY <1>5, <2>6, <3>1
    <2>8. Len(sinks) = first + Cardinality(Added(more))
        BY <1>4, <2>2, <2>3, <2>6, <2>7
    <2>9. first = 1 =>
             sinks[1] = [source |-> IF Singles(more) = {} THEN "to_stdout"
                                    ELSE more[Latest(Singles(more))].op,
                         floor |-> Trace]
        <3>1. SUFFICES ASSUME Singles(made) # {} PROVE
                 sinks[1] = [source |-> more[Latest(Singles(more))].op, floor |-> Trace]
            BY <1>7, <2>1
        <3>2. sinks[1] = b.sinks[1]
            BY <1>4, <2>7, <3>1
        <3> QED BY <1>2, <1>7, <2>1, <3>1, <3>2
    <2>10. ASSUME NEW i \in A \cup {n + 1}
           PROVE  sinks[first + rank(A \cup {n + 1}, i)] = added(more[i].level)
        <3>1. CASE i = n + 1
            <4>1. rank(A \cup {n + 1}, i) = card + 1
                BY <2>3, <2>5, <3>1
            <4> QED BY <1>3, <1>4, <2>6, <2>7, <3>1, <4>1
        <3>2. CASE i \in A
            <4>1. rank(A \cup {n + 1}, i) = rank(A, i)
                BY <2>4, <3>2
            <4>2. first + rank(A, i) \in 1..first + card
                BY <1>4, <2>6, <3>2
            <4>3. more[i] = made[i]
                BY <1>3, <1>4, <3>2
            <4>4. sinks[first + rank(A, i)] = b.sinks[first + rank(A, i)]
                BY <2>7, <4>2
            <4>5. b.sinks[first + rank(A, i)] = added(made[i].level)
                BY <1>2, <3>2
            <4> QED BY <4>1, <4>3, <4>4, <4>5, Zenon
        <3> QED BY <3>1, <3>2
    <2>11. first = IF Singles(more) = {} THEN 0 ELSE 1
        BY <1>7, <2>1
    <2>12. SinksAre(sinks, more, first)
        BY <2>2, <2>8, <2>9, <2>10 DEF SinksAre
    <2> QED BY <2>11, <2>12 DEF SinksAsked, sinks, more
<1>9. CASE call.op \in SinkMethods
    <2>1. sinks = <<[source |-> call.op, floor |-> Trace]>>
        BY <1>6, <1>9 DEF SinkMethods
    <2>2. Singles(more) # {} /\ Latest(Singles(more)) = n + 1
        BY <1>7, <1>9
    <2>3. Added(more) = {}
        <3>1. Ops(more, {"add_sink"}) \subseteq 1..n + 1
            BY <1>3, OpsTyped
        <3> QED BY <2>2, <3>1 DEF Added
    <2>4. Cardinality(Added(more)) = 0
        BY <2>3, FS_EmptySet
    <2>5. SinksAre(sinks, more, 1)
        <3>1. Len(sinks) = 1 /\ sinks[1] = [source |-> call.op, floor |-> Trace]
            BY <2>1
        <3> QED BY <1>3, <2>2, <2>3, <2>4, <3>1 DEF SinksAre
    <2> QED BY <2>2, <2>5 DEF SinksAsked, sinks, more
<1>10. CASE call.op # "add_sink" /\ call.op \notin SinkMethods
    <2>1. sinks = b.sinks
        BY <1>6, <1>10
    <2>2. Singles(more) = Singles(made) /\ Added(more) = A
        <3>1. Ops(more, {"add_sink"}) = Ops(made, {"add_sink"})
            BY <1>1, <1>10, OneMoreCall DEF more
        <3> QED BY <1>7, <1>10, <3>1 DEF Added
    <2>3. \A i \in A : more[i] = made[i]
        BY <1>3, <1>4
    <2>4. Singles(made) # {} => more[Latest(Singles(more))] = made[Latest(Singles(made))]
        BY <1>7, <1>10
    <2>5. first = 1 =>
             sinks[1] = [source |-> IF Singles(more) = {} THEN "to_stdout"
                                    ELSE more[Latest(Singles(more))].op,
                         floor |-> Trace]
        <3>1. SUFFICES ASSUME Singles(made) # {} PROVE
                 sinks[1] = [source |-> more[Latest(Singles(more))].op, floor |-> Trace]
            BY <2>2
        <3> QED BY <1>2, <2>1, <2>4, <3>1
    <2>6. SinksAre(sinks, more, first)
        <3>1. Len(sinks) = first + Cardinality(Added(more))
            BY <1>2, <2>1, <2>2
        <3>2. \A i \in A : sinks[first + rank(A, i)] = added(more[i].level)
            BY <1>2, <2>1, <2>3
        <3> HIDE DEF first
        <3> QED BY <2>2, <2>5, <3>1, <3>2 DEF SinksAre
    <2> QED BY <2>2, <2>6 DEF SinksAsked, sinks, more
<1> QED BY <1>8, <1>9, <1>10

LEMMA AfterMade ==
    ASSUME NEW b, NEW made, MadeBy(b, made), NEW call \in CallsInUse
    PROVE  MadeBy(After(b, call), Append(made, call))
<1>1. After(b, call) \in Builders
    BY AfterTyped DEF MadeBy
<1>2. Append(made, call) \in Histories
    BY DEF MadeBy, Histories
<1> QED BY <1>1, <1>2, FilterAskedAfter, SinksAskedAfter DEF MadeBy

------------------------------------------------------------------------------
(* The loggers that a program has built.                                    *)

LoggerMade(logger) ==
    /\ logger.calls \in Histories
    /\ logger.level = LevelFor(logger.calls) /\ logger.level \in 0..Off
    /\ ParsesTo(logger.filter, TextFor(logger.calls))
    /\ SinksAre(logger.sinks, logger.calls,
                IF Singles(logger.calls) = {} /\ Added(logger.calls) # {} THEN 0 ELSE 1)

LEMMA BuiltMade ==
    ASSUME NEW b, NEW made, MadeBy(b, made), env.parts \in Texts
    PROVE  LoggerMade(Built(b, made))
<1> DEFINE logger == Built(b, made)
           first == IF Singles(made) = {} /\ Added(made) # {} THEN 0 ELSE 1
<1>1. /\ logger.calls = made /\ logger.level = b.level /\ logger.filter = FilterOf(b)
      /\ logger.sinks = IF b.sinks = <<>> THEN <<[source |-> "to_stdout", floor |-> Trace]>>
                        ELSE b.sinks
    BY DEF Built
<1> HIDE DEF logger
<1>2. b \in Builders /\ made \in Histories /\ FilterAsked(b, made) /\ SinksAsked(b, made)
    BY DEF MadeBy
<1>3. b.level = LevelFor(made) /\ b.level \in 0..Off
    BY <1>2 DEF FilterAsked, Builders
<1>4. ParsesTo(FilterOf(b), TextFor(made))
    <2>1. CASE b.filter.some
        BY <1>2, <2>1 DEF FilterOf, TextFor, FilterAsked, ExplicitText
    <2>2. CASE ~b.filter.some /\ EnvWanted(made) /\ env.state = "text"
        <3>1. from_env.some /\ from_env.list = parse(env.parts)
            BY <2>2 DEF from_env
        <3>2. FilterOf(b) = parse(env.parts)
            BY <1>2, <2>2, <3>1 DEF FilterOf, FilterAsked
        <3>3. TextFor(made) = env.parts
            BY <1>2, <2>2 DEF TextFor, FilterAsked
        <3> QED BY <3>2, <3>3, ParsedAs
    <2>3. CASE ~b.filter.some /\ ~(EnvWanted(made) /\ env.state = "text")
        <3>1. env.state # "text" => ~from_env.some
            BY DEF from_env, NoFilter
        <3>2. FilterOf(b) = <<>>
            BY <1>2, <2>3, <3>1 DEF FilterOf, FilterAsked
        <3>3. TextFor(made) = <<>>
            BY <1>2, <2>3 DEF TextFor, FilterAsked
        <3> QED BY <3>2, <3>3, NothingParsed
    <2> QED BY <2>1, <2>2, <2>3
<1>5. SinksAre(logger.sinks, made, first)
    <2>1. SinksAre(b.sinks, made, IF Singles(made) = {} THEN 0 ELSE 1)
        BY <1>2 DEF SinksAsked
    <2>2. /\ IsFiniteSet(Added(made)) /\ Cardinality(Added(made)) \in Nat
          /\ Added(made) # {} => Cardinality(Added(made)) # 0
        BY <1>2, AddedTyped, FS_EmptySet
    <2>3. \E S : b.sinks \in Seq(S)
        BY <1>2 DEF Builders
    <2>4. CASE Singles(made) = {} /\ Added(made) = {}
        <3>1. Len(b.sinks) = 0
            <4>1. Len(b.sinks) = 0 + Cardinality({})
                BY <2>1, <2>4 DEF SinksAre
            <4> QED BY <4>1, FS_EmptySet
        <3>2. logger.sinks = <<[source |-> "to_stdout", floor |-> Trace]>>
            BY <1>1, <2>3, <3>1
        <3>3. Len(logger.sinks) = 1 /\ logger.sinks[1] = [source |-> "to_stdout", floor |-> Trace]
            BY <3>2
        <3> QED BY <2>4, <3>3, FS_EmptySet DEF SinksAre
    <2>5. CASE ~(Singles(made) = {} /\ Added(made) = {})
        <3>1. first = IF Singles(made) = {} THEN 0 ELSE 1
            BY <2>5
        <3>2. Len(b.sinks) # 0
            <4>1. Len(b.sinks) = first + Cardinality(Added(made))
                BY <2>1, <3>1 DEF SinksAre
            <4> QED BY <2>2, <2>5, <4>1
        <3>3. logger.sinks = b.sinks
            BY <1>1, <3>2
        <3> QED BY <2>1, <3>1, <3>3
    <2> QED BY <2>4, <2>5
<1> QED BY <1>1, <1>2, <1>3, <1>4, <1>5 DEF LoggerMade, logger

BuildInv ==
    /\ env.parts \in Texts
    /\ stage = "parsing" => DOMAIN loggers = {}
    /\ MadeBy(builder, calls)
    /\ \A t \in DOMAIN loggers : LoggerMade(loggers[t])

LEMMA CallsTyped == ASSUME FilterInv PROVE Calls \subseteq CallsInUse
<1>1. spec \in Texts /\ <<>> \in Texts
    BY DEF FilterInv, ParsesTo, Texts
<1>2. Levels \subseteq 0..Off /\ Off \in 0..Off /\ Trace \in 0..Off /\ Error \in 0..Off
    BY NamesTyped DEF Off, Error
<1> QED BY <1>1, <1>2 DEF Calls, Call, CallsInUse

(* What a step does to the loggers: it leaves them and the environment      *)
(* alone, or adds one that was built as its calls ask.                      *)
LoggersKept ==
    /\ env' = env
    /\ \A t \in DOMAIN loggers' :
          \/ t \in DOMAIN loggers /\ loggers'[t] = loggers[t]
          \/ LoggerMade(loggers'[t])

LEMMA KeptMade ==
    ASSUME LoggersKept, BuildInv
    PROVE  (\A t \in DOMAIN loggers : LoggerMade(loggers[t]))'
<1>1. \A t \in DOMAIN loggers' : LoggerMade(loggers'[t])
    BY DEF LoggersKept, BuildInv
<1> QED BY <1>1 DEF LoggersKept, LoggerMade, TextFor

LEMMA BuildStep ==
    ASSUME FilterInv, BuildInv, [SetupNext]_<<setup, vars>>
    PROVE  BuildInv'
<1>1. CASE UNCHANGED setup
    <2>1. LoggersKept
        BY <1>1 DEF setup, LoggersKept
    <2> QED BY <1>1, <2>1, KeptMade DEF setup, BuildInv
<1>2. CASE StartSetup
    <2>1. env'.parts \in Texts /\ DOMAIN loggers' = {}
        BY <1>2, SetupAssumption DEF StartSetup, BuildInv, Texts
    <2> QED BY <1>2, <2>1 DEF StartSetup, BuildInv
<1>3. CASE Configure
    <2>1. PICK call \in Calls : builder' = After(builder, call) /\ calls' = Append(calls, call)
        BY <1>3 DEF Configure
    <2>2. MadeBy(builder', calls')
        BY <2>1, AfterMade, CallsTyped DEF BuildInv
    <2>3. LoggersKept
        BY <1>3 DEF Configure, LoggersKept
    <2> QED BY <1>3, <2>2, <2>3, KeptMade DEF Configure, BuildInv
<1>4. CASE ConfigureFails
    <2>1. LoggersKept
        BY <1>4 DEF ConfigureFails, LoggersKept
    <2> QED BY <1>4, <2>1, KeptMade, NewBuilderMade DEF ConfigureFails, BuildInv
<1>5. CASE build
    <2>1. LoggerMade(Built(builder, calls))
        BY BuiltMade DEF BuildInv
    <2>2. LoggersKept
        BY <1>5, <2>1 DEF build, WithLogger, LoggersKept
    <2> QED BY <1>5, <2>2, KeptMade DEF build, BuildInv
<1>6. CASE InitDefaultBuild
    <2>1. LoggerMade(Built(NewBuilder, <<>>))
        BY BuiltMade, NewBuilderMade DEF BuildInv
    <2>2. LoggersKept
        BY <1>6, <2>1 DEF InitDefaultBuild, WithLogger, LoggersKept
    <2> QED BY <1>6, <2>2, KeptMade DEF InitDefaultBuild, BuildInv
<1>7. CASE set_global
    <2>1. LoggersKept
        BY <1>7 DEF set_global, LoggersKept
    <2> QED BY <1>7, <2>1, KeptMade DEF set_global, BuildInv
<1>8. CASE InitDefaultSet
    <2>1. LoggersKept
        BY <1>8 DEF InitDefaultSet, LoggersKept
    <2> QED BY <1>8, <2>1, KeptMade DEF InitDefaultSet, BuildInv
<1>9. CASE \E level \in Levels \ {Off}, target \in Paths : Log(level, target)
    <2>1. LoggersKept
        BY <1>9 DEF Log, LoggersKept
    <2> QED BY <1>9, <2>1, KeptMade DEF Log, BuildInv
<1>10. [SetupNext]_<<setup, vars>> =>
          \/ UNCHANGED setup \/ StartSetup \/ Configure \/ ConfigureFails \/ build
          \/ InitDefaultBuild \/ set_global \/ InitDefaultSet
          \/ \E level \in Levels \ {Off}, target \in Paths : Log(level, target)
    BY DEF SetupNext, Parsing, Running
<1> QED BY <1>1, <1>2, <1>3, <1>4, <1>5, <1>6, <1>7, <1>8, <1>9, <1>10

LEMMA BuildInvariant == SetupSpec => [](FilterInv /\ BuildInv)
<1>1. SetupInit => BuildInv
    <2>1. SetupInit => /\ env.parts \in Texts
                       /\ DOMAIN loggers = {}
        BY NothingParsed DEF SetupInit, ParsesTo
    <2> QED BY <2>1, NewBuilderMade DEF SetupInit, BuildInv
<1>2. FilterInv /\ BuildInv /\ [SetupNext]_<<setup, vars>> => BuildInv'
    BY BuildStep
<1> QED BY <1>1, <1>2, FilterInvariant, PTL DEF SetupSpec

(* Every logger admits the records that its builder's calls ask for: by the *)
(* last filter(), else by the environment's unless that is unset, blank or  *)
(* ignored, and by level() where that has no word (LoggerBuilder::build).   *)
THEOREM FilterAsConfigured == SetupSpec => []ConfiguredFilter
<1>1. ASSUME BuildInv PROVE ConfiguredFilter
    <2>1. ASSUME NEW t \in DOMAIN loggers, NEW target \in Paths \cup {<<>>}, NEW level \in 0..Off
          PROVE  is_enabled_for(loggers[t], level, target) <=>
                   level \in Word(TextFor(loggers[t].calls), target, LevelFor(loggers[t].calls))
                               ..Error
        <3>1. /\ ParsesTo(loggers[t].filter, TextFor(loggers[t].calls))
              /\ loggers[t].level \in 0..Off /\ loggers[t].level = LevelFor(loggers[t].calls)
            BY <1>1 DEF BuildInv, LoggerMade
        <3>2. target \in Names
            BY DEF Names
        <3> QED BY <3>1, <3>2, EnabledIs DEF is_enabled_for
    <2> QED BY <2>1 DEF ConfiguredFilter
<1> QED BY <1>1, BuildInvariant, PTL

(* A logger has the last single sink and the sinks added since, in their    *)
(* order and with their floors, and standard output when there would be     *)
(* none (LoggerBuilder::set_single_sink, add_sink and build).               *)
THEOREM SinksAsConfigured == SetupSpec => []ConfiguredSinks
<1>1. BuildInv => ConfiguredSinks
    BY DEF BuildInv, LoggerMade, ConfiguredSinks
<1> QED BY <1>1, BuildInvariant, PTL

------------------------------------------------------------------------------
(* The global logger.                                                       *)

Threads == {"main", "peer"}
RecordsSeen ==
    Seq([logger : Threads \cup {NoLogger}, logged : BOOLEAN, installed : BOOLEAN])

GlobalInv ==
    /\ records \in RecordsSeen
    /\ global \in Threads \cup {NoLogger}
    /\ stage = "installed" \/ peer = "done" => global # NoLogger
    /\ global = "peer" => peer = "done"
    /\ dropped \subseteq {"peer"}
    /\ "peer" \in dropped => peer = "done" /\ global = "main"
    /\ \A i \in 1..Len(records) :
          /\ records[i].logger \in {NoLogger, global}
          /\ records[i].installed => records[i].logger # NoLogger
    /\ \A i, j \in 1..Len(records) :
          i < j /\ records[i].logger # NoLogger => records[j].logger = records[i].logger

LEMMA GlobalStep ==
    ASSUME GlobalInv, [SetupNext]_<<setup, vars>>
    PROVE  GlobalInv'
<1> USE DEF Threads, NoLogger
<1>1. CASE UNCHANGED <<stage, global, peer, dropped, records>>
    BY <1>1 DEF GlobalInv
<1>2. CASE set_global
    BY <1>2 DEF set_global, SetGlobal, GlobalInv
<1>3. CASE InitDefaultSet
    BY <1>3 DEF InitDefaultSet, SetGlobal, GlobalInv
<1>4. CASE InitDefaultBuild
    BY <1>4 DEF InitDefaultBuild, GlobalInv
<1>5. CASE stage' \in {"building", "built"} /\ UNCHANGED <<global, peer, dropped, records>>
    BY <1>5 DEF GlobalInv
<1>6. CASE \E level \in Levels \ {Off}, target \in Paths : Log(level, target)
    <2>1. PICK level \in Levels \ {Off}, target \in Paths : Log(level, target)
        BY <1>6
    <2> DEFINE n == Len(records)
               record == [logger |-> global,
                          logged |-> global # NoLogger
                                       /\ is_enabled_for(loggers[global], level, target),
                          installed |-> stage = "installed" \/ peer = "done"]
    <2>2. /\ records' = Append(records, record)
          /\ UNCHANGED <<stage, global, peer, dropped>>
        BY <2>1 DEF Log
    <2>3. record.logger = global /\ (record.installed <=> stage = "installed" \/ peer = "done")
        OBVIOUS
    <2>4. record \in [logger : Threads \cup {NoLogger}, logged : BOOLEAN, installed : BOOLEAN]
        BY DEF GlobalInv
    <2> HIDE DEF record
    <2>5. /\ records' \in RecordsSeen /\ n \in Nat /\ Len(records') = n + 1
          /\ records'[n + 1] = record
          /\ \A i \in 1..n : records'[i] = records[i]
        BY <2>2, <2>4 DEF GlobalInv, RecordsSeen
    <2>6. \A i : i \in 1..n + 1 <=> i \in 1..n \/ i = n + 1
        BY <2>5
    <2>7. /\ \A i \in 1..n + 1 :
                /\ records'[i].logger \in {NoLogger, global}
                /\ records'[i].installed => records'[i].logger # NoLogger
          /\ \A i, j \in 1..n + 1 :
                i < j /\ records'[i].logger # NoLogger => records'[j].logger = records'[i].logger
        BY <2>3, <2>5, <2>6 DEF GlobalInv
    <2> QED BY <2>2, <2>5, <2>7 DEF GlobalInv
<1>7. [SetupNext]_<<setup, vars>> =>
          \/ UNCHANGED <<stage, global, peer, dropped, records>>
          \/ set_global \/ InitDefaultSet \/ InitDefaultBuild
          \/ stage' \in {"building", "built"} /\ UNCHANGED <<global, peer, dropped, records>>
          \/ \E level \in Levels \ {Off}, target \in Paths : Log(level, target)
    BY DEF SetupNext, Parsing, Running, StartSetup, Configure, ConfigureFails, build, setup
<1> QED BY <1>1, <1>2, <1>3, <1>4, <1>5, <1>6, <1>7

(* The macros speak to one logger for the rest of the program, which is not *)
(* the one that init_default dropped, and to one from the moment that a     *)
(* call that installs one has returned (set_global, init_default, GLOBAL).  *)
THEOREM MacrosReachOneLogger == SetupSpec => []OneLoggerForMacros
<1>1. SetupInit => GlobalInv
    <2>1. <<>> \in RecordsSeen /\ Len(<<>>) = 0 /\ 1..0 = {}
        BY DEF RecordsSeen
    <2> QED BY <2>1 DEF SetupInit, GlobalInv, Threads, NoLogger
<1>2. GlobalInv /\ [SetupNext]_<<setup, vars>> => GlobalInv'
    BY GlobalStep
<1>3. GlobalInv => OneLoggerForMacros
    BY DEF GlobalInv, OneLoggerForMacros, Threads, NoLogger
<1> QED BY <1>1, <1>2, <1>3, PTL DEF SetupSpec
=============================================================================
