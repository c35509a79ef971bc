--------------------------- MODULE MCRecordFormat ---------------------------
(* Instances of RecordFormat for TLC.                                       *)
EXTENDS RecordFormat

Value(type, text, int) == [type |-> type, text |-> text, int |-> int]
Given(key, value) == [key |-> key, value |-> value]

Text(c) == Value("&str", c, 0)

SomeMessages == {<<"hello">>, <<>>, <<"say ", "\"", "hi", "\"">>, <<"C:", "\\">>,
                 <<"\\", "\"">>, <<"a", "\n", "b">>, <<"\t", "\r">>,
                 <<"bell", "backspace", "formfeed", "\\", "n">>}
SomeLocations == {[file |-> <<>>, line |-> 0, target |-> <<>>],
                  [file |-> <<"src", "\\", "main.rs">>, line |-> 42, target |-> <<"app::db">>]}

(* Fields of every type, at the edges of its range when it has one that     *)
(* matters; names that need an escape, that the context also has, and that  *)
(* the record's own members have.                                           *)
Numbered(values) == [i \in 1..Len(values) |-> Given(<<ToString(i)>>, values[i])]

SomeLists == {
    Numbered(<<Value("i8", <<>>, -3), Value("i64", <<>>, -8), Value("i64", <<>>, 7),
               Value("u32", <<>>, 7)>>),
    Numbered(<<Value("u64", <<>>, 7), Value("u64", <<>>, 8), Value("u64", <<>>, 15)>>),
    Numbered(<<Value("usize", <<>>, 7), Value("usize", <<>>, 8), Value("usize", <<>>, 15)>>),
    Numbered(<<Value("f32", <<"1.5">>, 0), Value("f64", <<"NaN">>, 0),
               Value("FieldValue::Null", <<>>, 0), Value("bool", <<"true">>, 0)>>),
    <<Given(<<"user">>, Text(<<"\"">>)), Given(<<"ok">>, Value("bool", <<"false">>, 0))>>,
    <<Given(<<"user">>, Value("f64", <<"inf">>, 0)), Given(<<"level">>, Value("i16", <<>>, 0))>>,
    <<Given(<<"re", "\"", "q">>, Value("String", <<"\\">>, 0)),
      Given(<<"target">>, Value("char", <<"\n">>, 0))>>}
SomeContexts == {<<>>, <<Given(<<"user">>, Text(<<"ctx">>)), Given(<<"re", "\"", "q">>, Value("u64", <<>>, 9))>>,
                 <<Given(<<"msg">>, Value("bool", <<"true">>, 0))>>}

AllLoggers == [json : BOOLEAN, include_location : BOOLEAN]

(* Days around the epoch, the leap days of 1900 (no leap year), 2000, 2024  *)
(* and 2100 (none), the turns of the years, and the turn of an era before   *)
(* the year 0; the first, a middle and the last second of each.             *)
Days == -719475..-719460 \cup -25515..-25500 \cup -310..-300 \cup -20..90 \cup 355..370
          \cup 10950..11025 \cup 19720..19785 \cup 20080..20095 \cup 47535..47550
Seconds == {<<0, 0>>, <<45296, 789000>>, <<86399, 999999>>}
Offsets == {0, 19800, -12600, -1800, 45, -90}
Clock(day, second, micro) ==
    IF day >= 0 THEN [before |-> FALSE, day |-> day, second |-> second, micro |-> micro]
    ELSE [before |-> TRUE, day |-> -day - 1, second |-> second, micro |-> micro]
Noon == [clock |-> Clock(20000, 43200, 1), offset |-> 0]
SweptStamps == {Noon} \cup {[clock |-> Clock(d, s[1], s[2]), offset |-> o] :
                               d \in Days, s \in Seconds, o \in Offsets}
Hello == <<"hello">>
=============================================================================
