------------------------------ MODULE Calendar ------------------------------
(***************************************************************************)
(* Timestamps (time.rs): the clock's distance from the Unix epoch, shifted *)
(* by an offset, broken down into a civil date and a time of day, and the  *)
(* numbers that its text shows.                                            *)
(*                                                                         *)
(* A count of microseconds is kept as days, seconds and microseconds, each *)
(* of them signed; Normal carries them into the ranges of a clock face.    *)
(***************************************************************************)
EXTENDS Integers

SecondsPerDay == 86400
MicrosPerSecond == 1000000

(* div_euclid and rem_euclid by MICROS_PER_DAY.                             *)
Normal(t) ==
    LET seconds == t.second + t.micro \div MicrosPerSecond
    IN  [day |-> t.day + seconds \div SecondsPerDay,
         second |-> seconds % SecondsPerDay,
         micro |-> t.micro % MicrosPerSecond]

(* Integer division of Rust: the quotient is rounded towards zero.          *)
Quotient(a, b) == IF a >= 0 THEN a \div b ELSE -((-a) \div b)

(* unix_micros: the clock is a duration after the epoch, or before it.      *)
unix_micros(clock) ==
    IF clock.before
    THEN [day |-> -clock.day, second |-> -clock.second, micro |-> -clock.micro]
    ELSE [day |-> clock.day, second |-> clock.second, micro |-> clock.micro]

(* civil_from_days: the era of 400 years, then year, month and day in it.    *)
CivilInEra(z, era) ==
    LET doe == z - era * 146097         \* day of the era
        yoe == Quotient(doe - Quotient(doe, 1460) + Quotient(doe, 36524)
                          - Quotient(doe, 146096), 365)
        doy == doe - (365 * yoe + Quotient(yoe, 4) - Quotient(yoe, 100))
        mp == Quotient(5 * doy + 2, 153)    \* month, March = 0
        month == IF mp < 10 THEN mp + 3 ELSE mp - 9
    IN  [year |-> yoe + era * 400 + (IF month <= 2 THEN 1 ELSE 0),
         month |-> month,
         day |-> doy - Quotient(153 * mp + 2, 5) + 1]

DaysFromMarch0(days) == days + 719468
civil_from_days(days) ==
    LET z == DaysFromMarch0(days)
    IN  CivilInEra(z, Quotient(IF z >= 0 THEN z ELSE z - 146096, 146097))

(* from_unix_micros; hour, minute and second stay one number.               *)
from_unix_micros(micros, offset) ==
    LET t == Normal(micros)
    IN  [date |-> civil_from_days(t.day), second |-> t.second, micro |-> t.micro,
         offset |-> offset]

(* Timestamp::now                                                           *)
NowAt(clock, offset) ==
    LET micros == unix_micros(clock)
    IN  from_unix_micros([micros EXCEPT !.second = @ + offset], offset)

(* Display for Timestamp: the numbers and the sign that the text shows.     *)
ZoneOfHours(offset) ==
    LET abs == IF offset < 0 THEN -offset ELSE offset
    IN  [sign |-> IF offset = 0 THEN "Z" ELSE IF Quotient(offset, 3600) < 0 THEN "-" ELSE "+",
         hours |-> abs \div 3600, minutes |-> (abs % 3600) \div 60]
Zone(offset) ==
    LET abs == IF offset < 0 THEN -offset ELSE offset
    IN  [sign |-> IF offset = 0 THEN "Z" ELSE IF offset < 0 THEN "-" ELSE "+",
         hours |-> abs \div 3600, minutes |-> (abs % 3600) \div 60]

Display(ts) ==
    [date |-> ts.date, hour |-> ts.second \div 3600,
     minute |-> (ts.second % 3600) \div 60, second |-> ts.second % 60,
     micro |-> ts.micro, zone |-> Zone(ts.offset)]

------------------------------------------------------------------------------
(* The reference: what such a text says, by the rules of the calendar.      *)

Leap(year) == year % 4 = 0 /\ (year % 100 # 0 \/ year % 400 = 0)
MonthLengths(year) ==
    <<31, IF Leap(year) THEN 29 ELSE 28, 31, 30, 31, 30, 31, 31, 30, 31, 30, 31>>

(* Days from 1970-01-01 to the first of January of a year, and to a date.   *)
LeapsBefore(year) == (year - 1) \div 4 - (year - 1) \div 100 + (year - 1) \div 400
YearStart(year) == 365 * (year - 1970) + LeapsBefore(year) - LeapsBefore(1970)
MonthStart(year) ==
    LET starts[m \in 1..12] ==
            IF m = 1 THEN 0 ELSE starts[m - 1] + MonthLengths(year)[m - 1]
    IN  starts
DaysOf(date) == YearStart(date.year) + MonthStart(date.year)[date.month] + date.day - 1

IsDate(date) == date.month \in 1..12 /\ date.day \in 1..MonthLengths(date.year)[date.month]

(* The instant, as a count from the epoch, that a shown timestamp names.    *)
InstantNamed(text) ==
    LET zone == 3600 * text.zone.hours + 60 * text.zone.minutes
        local == 3600 * text.hour + 60 * text.minute + text.second
    IN  Normal([day |-> DaysOf(text.date),
                second |-> IF text.zone.sign = "-" THEN local + zone ELSE local - zone,
                micro |-> text.micro])
=============================================================================
