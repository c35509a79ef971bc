---------------------------- MODULE RecordFormat ----------------------------
(***************************************************************************)
(* A record from the call that makes it to the line that a sink receives   *)
(* (entry.rs, json.rs, format_record and emergency_write of logger.rs): the *)
(* conversions of field values, the chain of LogEntry::field calls, the    *)
(* stamp and the context that Logger::log adds, and the two layouts.       *)
(*                                                                         *)
(* A string is a sequence of chunks: a chunk is one of the characters that  *)
(* JSON escapes, or stands for any run of other characters.  A line is a   *)
(* sequence of chunks too; numbers and timestamps are one chunk each.      *)
(***************************************************************************)
EXTENDS Calendar, Fields, TLC

CONSTANTS
    Levels, Messages, Locations,    (* what LogEntry::new is called with      *)
    GivenLists,     (* lists of fields that a caller passes: a key and a Rust *)
                    (* value each                                             *)
    Contexts,       (* the contexts of the logging thread                     *)
    I64_MAX,        (* bound: the scaled range of an i64 is -I64_MAX-1..      *)
    Loggers,        (* a logger's json and include_location                   *)
    Stamps,         (* clock readings with offsets                            *)
    OneStamp,       (* bound: the one for records other than the plainest,    *)
    PlainMessage,   (* which has this message, no fields and no location      *)
    MaxFields       (* bound: fields the caller passes                        *)

VARIABLES
    stage,          (* "idle", "building", "queued", "written", "emergency"   *)
    entry,          (* the LogEntry                                           *)
    logger,         (* the json and include_location of its logger            *)
    line,           (* the bytes handed to the sinks, or to standard error    *)
    given,          (* history: the fields the caller passed, as they were    *)
    context,        (* history: the thread's context when it was logged       *)
    logged_at       (* history: the clock and the offset at that time         *)

vars == <<stage, entry, logger, line, given, context, logged_at>>

------------------------------------------------------------------------------
(* FieldValue and its From implementations.                                 *)

AsStr(text) == [kind |-> "Str", text |-> text, int |-> 0]
AsInt(n) == [kind |-> "Int", text |-> <<>>, int |-> n]
AsFloat(text) == [kind |-> "Float", text |-> text, int |-> 0]
AsBool(text) == [kind |-> "Bool", text |-> text, int |-> 0]
Null == [kind |-> "Null", text |-> <<>>, int |-> 0]

(* usize as i64: the upper half of the range wraps.                         *)
AsI64(n) == IF n > I64_MAX THEN n - 2 * (I64_MAX + 1) ELSE n

(* A Rust value has a type and, as it needs, a text or an integer.          *)
StringTypes == {"String", "&str", "&String", "char"}
SmallIntTypes == {"i8", "i16", "i32", "i64", "isize", "u8", "u16", "u32"}
Into(v) ==
    CASE v.type \in StringTypes -> AsStr(v.text)
      [] v.type = "bool" -> AsBool(v.text)
      [] v.type \in SmallIntTypes -> AsInt(v.int)
      [] v.type = "u64" -> IF v.int <= I64_MAX THEN AsInt(v.int) ELSE AsStr(<<ToString(v.int)>>)
      [] v.type = "usize" -> AsInt(AsI64(v.int))
      [] v.type \in {"f32", "f64"} -> AsFloat(v.text)
      [] v.type = "FieldValue::Null" -> Null

(* The texts of the floats that are not is_finite().                        *)
NotFinite == {<<"NaN">>, <<"inf">>, <<"-inf">>}

(* Field::new; Field::str, int, float and bool fix the type; fields! makes  *)
(* one for each of its pairs.                                               *)
NewField(g) == [key |-> g.key, value |-> Into(g.value)]
NewFields(list) == [i \in 1..Len(list) |-> NewField(list[i])]

------------------------------------------------------------------------------
(* The JSON layout: write_record.                                           *)

Quote == "\""
Backslash == "\\"
Escapes ==      \* push_string's match; "bell" stands for any other control
    [c \in {"\"", "\\", "\n", "\r", "\t", "backspace", "formfeed", "bell"} |->
        CASE c = "\"" -> "\""
          [] c = "\\" -> "\\"
          [] c = "\n" -> "n"
          [] c = "\r" -> "r"
          [] c = "\t" -> "t"
          [] c = "backspace" -> "b"
          [] c = "formfeed" -> "f"
          [] c = "bell" -> "u0007"]

EscapedSparing(ch) ==
    IF ch \in DOMAIN Escapes \ {Backslash} THEN <<Backslash, Escapes[ch]>> ELSE <<ch>>
Escaped(ch) == IF ch \in DOMAIN Escapes THEN <<Backslash, Escapes[ch]>> ELSE <<ch>>

push_string(text) ==
    <<Quote>> \o FlattenSeq([i \in 1..Len(text) |-> Escaped(text[i])]) \o <<Quote>>

push_value(value) ==
    CASE value.kind = "Str" -> push_string(value.text)
      [] value.kind = "Int" -> <<ToString(value.int)>>
      [] value.kind = "Float" -> IF value.text \in NotFinite THEN <<"null">> ELSE value.text
      [] value.kind = "Bool" -> value.text
      [] value.kind = "Null" -> <<"null">>

Stamp(timestamp) == <<ToString(Display(timestamp))>>

(* What needs no escape: the names of the members, timestamps and levels.   *)
Quoted(text) == <<Quote>> \o text \o <<Quote>>
Named(name) == Quoted(<<name>>) \o <<":">>

Also(name, value) == <<",">> \o Named(name) \o value

FieldMember(field) == <<",">> \o push_string(field.key) \o <<":">> \o push_value(field.value)

write_record(e, include_location) ==
    <<"{">> \o Named("ts") \o Quoted(Stamp(e.timestamp))
      \o Also("level", Quoted(<<e.level>>))
      \o Also("msg", push_string(e.message))
      \o (IF include_location
          THEN Also("file", push_string(e.file)) \o Also("line", <<ToString(e.line)>>)
                 \o Also("target", push_string(e.target))
          ELSE <<>>)
      \o FlattenSeq([i \in 1..Len(e.fields) |-> FieldMember(e.fields[i])])
      \o <<"}", "\n">>

(* The text layout: format_record, with LogEntry::location.                 *)
location(e) ==
    IF e.file = <<>> THEN <<>>
    ELSE e.file \o <<":", ToString(e.line), " @ ">> \o e.target

format_record(e, include_location) ==
    Stamp(e.timestamp) \o <<" [", e.level, "] ">> \o e.message
      \o (IF include_location /\ location(e) # <<>>
          THEN <<" (">> \o location(e) \o <<")">> ELSE <<>>)
      \o <<"\n">>

Formatted(e, json, include_location) ==
    IF json THEN write_record(e, include_location) ELSE format_record(e, include_location)

------------------------------------------------------------------------------
(* What the constants are.  No timestamp, number, float or level has a      *)
(* character that JSON escapes, or is a lone colon.                         *)

Plainly(chunk) == chunk \notin DOMAIN Escapes \cup {":"}
Strings == Seq(STRING)

IsValue(v) ==
    /\ v.text \in Strings /\ v.int \in Int
    /\ \/ v.type \in StringTypes
       \/ v.type = "bool" /\ v.text \in {<<"true">>, <<"false">>}
       \/ v.type \in SmallIntTypes /\ v.int \in -I64_MAX - 1..I64_MAX
       \/ v.type \in {"u64", "usize"} /\ v.int \in 0..2 * I64_MAX + 1
       \/ v.type \in {"f32", "f64"} /\ Len(v.text) = 1 /\ Plainly(v.text[1])
       \/ v.type = "FieldValue::Null"
    /\ Plainly(ToString(v.int)) /\ Plainly(ToString(AsI64(v.int)))

Pairs == UNION {Range(list) : list \in GivenLists \cup Contexts}

ASSUME FormatAssumption ==
    /\ MaxFields \in Nat /\ I64_MAX \in Nat
    /\ OneStamp \in Stamps /\ PlainMessage \in Messages
    /\ Levels \subseteq {"TRACE", "DEBUG", "INFO", "WARN", "ERROR"}
    /\ Messages \subseteq Strings
    /\ \A l \in Locations :
          /\ l.file \in Strings /\ l.target \in Strings
          /\ l.line \in Nat /\ Plainly(ToString(l.line))
    /\ GivenLists \cup Contexts \subseteq Seq(Pairs)
    /\ \A g \in Pairs : g.key \in Strings /\ IsValue(g.value)
    /\ \A c \in Contexts : \A i, j \in 1..Len(c) :    \* current_context has no key twice
          c[i].key = c[j].key => i = j
    /\ Loggers \subseteq [json : BOOLEAN, include_location : BOOLEAN]
    /\ \A s \in Stamps :
          /\ s.clock.before \in BOOLEAN /\ s.offset \in Int
          /\ s.clock.day \in Nat /\ s.clock.second \in Nat /\ s.clock.micro \in Nat
          /\ Plainly(ToString(Display(NowAt(s.clock, s.offset))))

------------------------------------------------------------------------------
(* The life of a record.                                                    *)

NoEntry == [level |-> "", message |-> <<>>, file |-> <<>>, line |-> 0, target |-> <<>>,
            fields |-> <<>>, timestamp |-> NowAt(OneStamp.clock, 0)]

Init ==
    /\ stage = "idle"
    /\ entry = NoEntry
    /\ logger \in Loggers
    /\ line = <<>>
    /\ given = <<>>
    /\ context = <<>>
    /\ logged_at = OneStamp

(* LogEntry::new, stamped with the time of the call, in UTC.                *)
New ==
    /\ stage = "idle"
    /\ stage' = "building"
    /\ \E level \in Levels, message \in Messages, l \in Locations :
          entry' = [level |-> level, message |-> message, file |-> l.file, line |-> l.line,
                    target |-> l.target, fields |-> <<>>,
                    timestamp |-> NowAt(OneStamp.clock, 0)]
    /\ UNCHANGED <<logger, line, given, context, logged_at>>

(* field() with one field; with_fields() and log! with a list of them.      *)
AddFields ==
    /\ stage = "building"
    /\ \E list \in GivenLists :
          /\ Len(given) + Len(list) <= MaxFields
          /\ given' = given \o list
          /\ entry' = [entry EXCEPT !.fields = @ \o NewFields(list)]
    /\ UNCHANGED <<stage, logger, line, context, logged_at>>

(* The part of Logger::log that changes the record, before it is queued.    *)
Plain == given = <<>> /\ entry.message = PlainMessage /\ entry.file = <<>>

Log ==
    /\ stage = "building"
    /\ stage' = "queued"
    /\ \E s \in Stamps, c \in Contexts :
          /\ (Plain /\ c = <<>>) \/ s = OneStamp
          /\ logged_at' = s
          /\ context' = c
          /\ entry' = [entry EXCEPT
                 !.timestamp = NowAt(s.clock, s.offset),
                 !.fields = merge_context(@, NewFields(c))]
    /\ UNCHANGED <<logger, line, given>>

(* handle_message formats the record for the sinks.                         *)
Write ==
    /\ stage = "queued"
    /\ stage' = "written"
    /\ line' = Formatted(entry, logger.json, logger.include_location)
    /\ UNCHANGED <<entry, logger, given, context, logged_at>>

(* emergency_write, in a call that finds the writer gone, formats it for    *)
(* standard error, without the location and below a note on a line of its   *)
(* own.                                                                     *)
EmergencyWrite ==
    /\ stage = "queued"
    /\ stage' = "emergency"
    /\ line' = Formatted(entry, logger.json, FALSE)
    /\ UNCHANGED <<entry, logger, given, context, logged_at>>

Done ==
    /\ stage \in {"written", "emergency"}
    /\ UNCHANGED vars

Next == New \/ AddFields \/ Log \/ Write \/ EmergencyWrite \/ Done

Spec == Init /\ [][Next]_vars

------------------------------------------------------------------------------
(* A reader of JSON lines: what any parser makes of a line.                 *)

Meaning ==      \* what a backslash and the chunk after it stand for
    [c \in {"\"", "\\", "n", "r", "t", "b", "f", "u0007"} |->
        CASE c = "n" -> "\n" [] c = "r" -> "\r" [] c = "t" -> "\t"
          [] c = "b" -> "backspace" [] c = "f" -> "formfeed" [] c = "u0007" -> "bell"
          [] OTHER -> c]
Controls == {"\n", "\r", "\t", "backspace", "formfeed", "bell"}

Token(kind, text) == [kind |-> kind, text |-> text]

ReadChunk(state, ch) ==
    CASE state.mode = "outside" /\ ch = Quote -> [state EXCEPT !.mode = "string", !.text = <<>>]
      [] state.mode = "outside" /\ ch # Quote ->
            [state EXCEPT !.tokens = Append(@, Token("bare", <<ch>>))]
      [] state.mode = "string" /\ ch = Quote ->
            [state EXCEPT !.mode = "outside", !.tokens = Append(@, Token("string", state.text))]
      [] state.mode = "string" /\ ch = Backslash -> [state EXCEPT !.mode = "escape"]
      [] state.mode = "string" /\ ch \notin Controls \cup {Quote, Backslash} ->
            [state EXCEPT !.text = Append(@, ch)]
      [] state.mode = "escape" /\ ch \in DOMAIN Meaning ->
            [state EXCEPT !.mode = "string", !.text = Append(@, Meaning[ch])]
      [] OTHER -> [state EXCEPT !.mode = "error"]

Read(chunks) ==
    FoldLeft(ReadChunk, [mode |-> "outside", text |-> <<>>, tokens |-> <<>>], chunks)

(* The tokens of an object on a line of its own: no comma before the first  *)
(* of its members.                                                          *)
Bare(ch) == Token("bare", <<ch>>)
Member(name, token) == <<Bare(","), Token("string", name), Bare(":"), token>>
Object(members) ==
    <<Bare("{")>> \o Tail(FlattenSeq(members)) \o <<Bare("}"), Bare("\n")>>

------------------------------------------------------------------------------
(* Properties.                                                              *)

Shaped == stage \in {"written", "emergency"}
HasLocation == stage = "written" /\ logger.include_location

(* What a reader finds for a value the caller gave: strings as they were;   *)
(* the digits of every integer, in a string when no i64 holds it, but for a *)
(* usize that large, which shows the negative number it wraps to; null for  *)
(* a float that JSON cannot write.                                          *)
Shown(v) ==
    CASE v.type \in StringTypes -> Token("string", v.text)
      [] v.type = "u64" /\ v.int > I64_MAX -> Token("string", <<ToString(v.int)>>)
      [] v.type = "usize" /\ v.int > I64_MAX -> Bare(ToString(v.int - 2 * I64_MAX - 2))
      [] v.type \in {"u64", "usize"} \cup SmallIntTypes /\ v.int <= I64_MAX ->
            Bare(ToString(v.int))
      [] \/ v.type \in {"f32", "f64"} /\ v.text \in NotFinite
         \/ v.type = "FieldValue::Null" -> Bare("null")
      [] OTHER -> Token("bare", v.text)

KeepNew(kept, g) == IF g.key \in KeysOf(given) THEN kept ELSE Append(kept, g)
FromContext == FoldLeft(KeepNew, <<>>, context)
Kept == given \o FromContext

Members ==
    <<Member(<<"ts">>, Token("string", Stamp(entry.timestamp))),
      Member(<<"level">>, Token("string", <<entry.level>>)),
      Member(<<"msg">>, Token("string", entry.message))>>
    \o (IF HasLocation
        THEN <<Member(<<"file">>, Token("string", entry.file)),
               Member(<<"line">>, Bare(ToString(entry.line))),
               Member(<<"target">>, Token("string", entry.target))>>
        ELSE <<>>)
    \o [i \in 1..Len(Kept) |-> Member(Kept[i].key, Shown(Kept[i].value))]

(* A JSON line reads back as one object that ends the line and has a raw    *)
(* newline nowhere else: the record's own members, then the caller's fields *)
(* in the order given, then the context's that the caller did not set, each *)
(* with the text or number it was given, whatever quotes, backslashes and   *)
(* control characters are in message, names and values (json.rs:9-10).      *)
JsonReadsBack ==
    Shaped /\ logger.json =>
        LET reading == Read(line)
        IN  reading.mode = "outside" /\ reading.tokens = Object(Members)

(* A JSON object names a member twice exactly when the caller gave a field  *)
(* twice, or a field of the caller or of the context has the name of one of *)
(* the record's own members in that layout; the context never repeats what  *)
(* the caller set (entry.rs:242-245).                                       *)
OwnNames == {<<"ts">>, <<"level">>, <<"msg">>}
              \cup (IF HasLocation THEN {<<"file">>, <<"line">>, <<"target">>} ELSE {})

NamesRead(tokens) ==    \* the names that a reader of the line finds, in order
    {<<tokens[i].text, i>> : i \in {j \in 1..Len(tokens) - 1 : tokens[j + 1] = Bare(":")}}

KeysOnce ==
    Shaped /\ logger.json =>
        LET names == NamesRead(Read(line).tokens)
        IN  (\A m, n \in names : m[1] = n[1] => m = n) <=>
              /\ Cardinality(KeysOf(given)) = Len(given)
              /\ (KeysOf(given) \cup KeysOf(context)) \cap OwnNames = {}

(* The timestamp at the head of a line, in either layout, is a date of the  *)
(* calendar and names the instant at which log was called, before or after  *)
(* 1970 and with an offset on either side of UTC; an offset's odd seconds,  *)
(* which the text leaves out, are all that is lost (time.rs:51-60).         *)
OddSeconds(offset) == IF offset < 0 THEN -((-offset) % 60) ELSE offset % 60

LineNamesInstant ==
    Shaped =>
        LET text == Display(entry.timestamp)
            shown == line[IF logger.json THEN 7 ELSE 1]     \* after {"ts":"
            clock == logged_at.clock
            sign == IF clock.before THEN -1 ELSE 1
        IN  /\ shown = ToString(text)
            /\ IsDate(text.date)
            /\ InstantNamed(text) =
                  Normal([day |-> sign * clock.day,
                          second |-> sign * clock.second + OddSeconds(logged_at.offset),
                          micro |-> sign * clock.micro])
==============================================================================
