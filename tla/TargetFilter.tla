---------------------------- MODULE TargetFilter ----------------------------
(***************************************************************************)
(* The per-target level filter (filter.rs): parse() turns the directives   *)
(* of a spec, one at a time, into a list with one level per target, and    *)
(* effective_level() finds the level that holds for a record's target.     *)
(*                                                                         *)
(* A target is its module path, the sequence of segments between "::";     *)
(* the empty path is the global default's.  A spec is the sequence of its  *)
(* trimmed, non-empty parts.                                               *)
(***************************************************************************)
EXTENDS Naturals, SequencesExt

CONSTANTS
    Paths,          (* the module paths that directives and records name      *)
    Levels,         (* the levels of directives, records and the logger       *)
    MaxParts        (* bound: parts of the spec                               *)

(* Level: Trace = 0, Debug, Info, Warn, Error = 4, Off = 5.                 *)
Trace == 0
Error == 4
Off == 5

(* The names between the "::" of the paths.                                 *)
Segments == UNION {Range(path) : path \in Paths}

ASSUME FilterAssumption ==
    /\ Levels \subseteq 0..Off
    /\ Paths \subseteq Seq(Segments) /\ <<>> \notin Paths
    /\ MaxParts \in Nat

VARIABLES
    directives,     (* TargetFilter.directives                                *)
    spec            (* the parts parsed so far                                *)

vars == <<directives, spec>>

(* The forms of a part: "debug"; "hyper"; "hyper="; "hyper=warn"; and those *)
(* that are skipped: "=", "hyper=loud", "a=b=c".                            *)
LevelPart == [form : {"level"}, level : Levels]
TargetPart == [form : {"target", "target="}, target : Paths]
PairPart == [form : {"pair"}, target : Paths, level : Levels]
EmptyPart == [form : {"=level"}, level : Levels]     \* "=debug"
BadPart == [form : {"bad"}]
Parts == LevelPart \cup TargetPart \cup PairPart \cup EmptyPart \cup BadPart

Init ==
    /\ directives = <<>>
    /\ spec = <<>>

------------------------------------------------------------------------------
(* TargetFilter::parse: the loop's body for one part.                       *)

DirectiveOf(part) ==
    CASE part.form = "level" -> [target |-> <<>>, level |-> part.level]
      [] part.form \in {"target", "target="} -> [target |-> part.target, level |-> Trace]
      [] part.form = "pair" -> [target |-> part.target, level |-> part.level]
      [] part.form = "=level" -> [target |-> <<>>, level |-> part.level]

Targets(list) == {list[i].target : i \in 1..Len(list)}

(* A later directive with the same target replaces the earlier one.         *)
Put(list, d) ==
    IF d.target \in Targets(list)
    THEN [i \in 1..Len(list) |-> IF list[i].target = d.target THEN d ELSE list[i]]
    ELSE Append(list, d)

AfterPart(list, part) ==
    IF part.form = "bad" THEN list ELSE Put(list, DirectiveOf(part))

ParsePart(part) ==
    /\ Len(spec) < MaxParts
    /\ spec' = Append(spec, part)
    /\ directives' = AfterPart(directives, part)

(* The whole of a text at once, as its callers see it.                      *)
parse(text) == FoldLeft(AfterPart, <<>>, text)

(* The program runs with the filter it has parsed.                          *)
Parsed ==
    /\ Len(spec) = MaxParts
    /\ UNCHANGED vars

Next == (\E part \in Parts : ParsePart(part)) \/ Parsed

Spec == Init /\ [][Next]_vars

------------------------------------------------------------------------------
(* Queries of a filter's list of directives.                                *)

(* The place of the global default in the list, 0 when there is none.       *)
global_default(list) == SelectInSeq(list, LAMBDA d : d.target = <<>>)
default_level(list, base) ==
    IF global_default(list) = 0 THEN base ELSE list[global_default(list)].level

matches_swapped(directive, target) == IsPrefix(target, directive)
module_matches(directive, target) == IsPrefix(directive, target)

(* The loop's choice between the best match so far and a directive.         *)
BetterLast(best, d) == d
Better(best, d) == IF Len(best.target) > Len(d.target) THEN best ELSE d

Considered(best, d, target) ==
    IF d.target # <<>> /\ module_matches(d.target, target) THEN Better(best, d) ELSE best

NoMatch(list, base) == [target |-> <<>>, level |-> default_level(list, base)]

effective_level(list, target, base) ==
    FoldLeft(LAMBDA best, d : Considered(best, d, target), NoMatch(list, base), list).level

enabled(list, target, level, base) ==
    level # Off
      /\ effective_level(list, target, base) # Off
      /\ level >= effective_level(list, target, base)

------------------------------------------------------------------------------
(* Properties.                                                              *)

(* The parts of a text that set a level for this very target, and the level *)
(* that the last of them gives it (filter.rs:31-52).                        *)
Says(part, target) ==
    CASE part.form \in {"level", "=level"} -> target = <<>>
      [] part.form \in {"target", "target=", "pair"} -> part.target = target
      [] OTHER -> FALSE

Setters(text, target) == {i \in 1..Len(text) : Says(text[i], target)}
LevelOf(part) == IF part.form \in {"level", "=level", "pair"} THEN part.level ELSE Trace
LastWord(text, target) ==
    LevelOf(text[CHOOSE i \in Setters(text, target) :
                    \A j \in Setters(text, target) : j <= i])

(* The path of a record's target that governs it: the longest one, of those *)
(* the target is or lies under, for which the text has a level.             *)
Governing(text, target) ==
    LET named == {n \in 1..Len(target) : Setters(text, SubSeq(target, 1, n)) # {}}
    IN  IF named = {} THEN <<>>
        ELSE SubSeq(target, 1, CHOOSE n \in named : \A m \in named : m <= n)

(* The level of the last word on that path; the global default, and then    *)
(* the logger's level, stand in for a text that has no word on the target.  *)
Word(text, target, base) ==
    IF Setters(text, Governing(text, target)) = {} THEN base
    ELSE LastWord(text, Governing(text, target))

(* A stray "=debug" is among the words on that path, which is the default's. *)
StrayGoverns(text, target) ==
    \E i \in Setters(text, Governing(text, target)) : text[i].form = "=level"

(* Whatever the order of the directives and however often a target is       *)
(* repeated, the records that pass are those from the last word of the spec *)
(* on the longest path that covers the target up to Error, and none when    *)
(* that word is Off (filter.rs:31-52); a malformed part elsewhere in the    *)
(* spec, a stray "=" too, makes no difference.  Where a stray "=" is one of *)
(* the words, the documentation says otherwise: see StrayEqualsSkipped.     *)
MostSpecificLastWord ==
    \A target \in Paths \cup {<<>>}, base \in Levels, level \in 0..Off :
        ~StrayGoverns(spec, target) =>
            (enabled(directives, target, level, base)
               <=> level \in Word(spec, target, base)..Error)

(* One more directive changes the level of the targets it covers and of no  *)
(* other; a bad part changes nothing (filter.rs:42-46).                     *)
Covers(part, target) ==
    CASE part.form \in {"level", "=level"} -> TRUE
      [] part.form \in {"target", "target=", "pair"} -> IsPrefix(part.target, target)
      [] OTHER -> FALSE

OnlyItsOwnTargets ==
    [][\A target \in Paths, base \in Levels :
          effective_level(directives, target, base)'
              # effective_level(directives, target, base) => Covers(Last(spec'), target)]_vars

------------------------------------------------------------------------------
(* What the documentation says and the code does not do.                    *)

WithoutStray(text) == SelectSeq(text, LAMBDA part : part.form # "=level")

(* "Directives that cannot be parsed (bad level names, stray `=` signs) are *)
(* silently skipped" (filter.rs:36-38): a filter admits what it would admit *)
(* had the spec no stray "=" in it.  parse() sees an empty target before    *)
(* the "=" and takes the level for the global default (filter.rs:95).       *)
StrayEqualsSkipped ==
    \A target \in Paths \cup {<<>>}, base \in Levels, level \in 0..Off :
        enabled(directives, target, level, base)
          <=> level \in Word(WithoutStray(spec), target, base)..Error
==============================================================================
