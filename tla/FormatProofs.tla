---------------------------- MODULE FormatProofs ----------------------------
(* Theorems about the formats of a record, for every clock reading and      *)
(* offset, every text, any number of fields and every context.  What the    *)
(* algorithm of civil_from_days computes is arithmetic; what a reader makes *)
(* of a JSON line is a fold, proved piece by piece of the line.             *)
EXTENDS RecordFormat, FoldTheorems, FiniteSetTheorems

------------------------------------------------------------------------------
(* The calendar.                                                            *)

(* Days from the first of March of the year 0 to that of a year: the        *)
(* algorithm counts years from March, so that the leap day is the last.     *)
MarchFirst(y) == 365 * y + y \div 4 - y \div 100 + y \div 400

(* The day of March 1 of a year of the era, by its century, group of four   *)
(* years and place in it.                                                   *)
LEMMA MarchFirsts ==
    ASSUME NEW b \in 0..3, NEW q \in 0..24, NEW j \in 0..3
    PROVE  MarchFirst(100 * b + 4 * q + j) = 36524 * b + 1461 * q + 365 * j
<1> DEFINE y == 100 * b + 4 * q + j
<1>1. y \div 4 = 25 * b + q
    OBVIOUS
<1>2. y \div 100 = b
    OBVIOUS
<1>3. y \div 400 = 0
    OBVIOUS
<1>4. y \in Nat
    OBVIOUS
<1> QED BY <1>1, <1>2, <1>3, <1>4 DEF MarchFirst

(* The day of the March 1 after it.                                         *)
LEMMA NextMarchFirst ==
    ASSUME NEW b \in 0..3, NEW q \in 0..24, NEW j \in 0..3
    PROVE  MarchFirst(100 * b + 4 * q + j + 1) =
              IF j < 3 THEN 36524 * b + 1461 * q + 365 * (j + 1)
              ELSE IF q < 24 THEN 36524 * b + 1461 * (q + 1)
              ELSE IF b < 3 THEN 36524 * (b + 1) ELSE 146097
<1>1. CASE j < 3
    <2>1. j + 1 \in 0..3 /\ 100 * b + 4 * q + j + 1 = 100 * b + 4 * q + (j + 1)
        BY <1>1
    <2> QED BY <1>1, <2>1, MarchFirsts
<1>2. CASE j = 3 /\ q < 24
    <2>1. q + 1 \in 0..24 /\ 100 * b + 4 * q + j + 1 = 100 * b + 4 * (q + 1) + 0 /\ 0 \in 0..3
        BY <1>2
    <2>2. MarchFirst(100 * b + 4 * (q + 1) + 0) = 36524 * b + 1461 * (q + 1) + 365 * 0
        BY <2>1, MarchFirsts
    <2> QED BY <1>2, <2>1, <2>2
<1>3. CASE j = 3 /\ q = 24 /\ b < 3
    <2>1. /\ b + 1 \in 0..3 /\ 0 \in 0..24 /\ 0 \in 0..3
          /\ 100 * b + 4 * q + j + 1 = 100 * (b + 1) + 4 * 0 + 0
        BY <1>3
    <2>2. MarchFirst(100 * (b + 1) + 4 * 0 + 0) = 36524 * (b + 1) + 1461 * 0 + 365 * 0
        BY <2>1, MarchFirsts
    <2> QED BY <1>3, <2>1, <2>2
<1>4. CASE j = 3 /\ q = 24 /\ b = 3
    <2>1. 100 * b + 4 * q + j + 1 = 400
        BY <1>4
    <2>2. MarchFirst(400) = 146097
        BY DEF MarchFirst
    <2> QED BY <1>4, <2>1, <2>2
<1> QED BY <1>1, <1>2, <1>3, <1>4

(* A day is one of the 146097 days of its era, before 1970 too.             *)
LEMMA EraOf ==
    ASSUME NEW z \in Int
    PROVE  LET era == Quotient(IF z >= 0 THEN z ELSE z - 146096, 146097)
           IN  /\ era \in Int
               /\ z - era * 146097 \in Nat /\ z - era * 146097 <= 146096
BY DEF Quotient

YearOfEra(doe) ==
    Quotient(doe - Quotient(doe, 1460) + Quotient(doe, 36524) - Quotient(doe, 146096), 365)

(* The year that civil_from_days computes for a day of an era is the one    *)
(* the day is in.                                                           *)
LEMMA YearInEra ==
    ASSUME NEW doe \in Nat, doe <= 146096
    PROVE  /\ YearOfEra(doe) \in Nat /\ YearOfEra(doe) <= 399
           /\ MarchFirst(YearOfEra(doe)) <= doe /\ doe < MarchFirst(YearOfEra(doe) + 1)
<1>1. CASE doe = 146096
    <2>1. YearOfEra(doe) = 399
        BY <1>1 DEF YearOfEra, Quotient
    <2>2. MarchFirst(399) = 145731 /\ MarchFirst(400) = 146097
        BY DEF MarchFirst
    <2> QED BY <1>1, <2>1, <2>2
<1>2. CASE doe < 146096
    <2>1. PICK b \in 0..3, r \in Nat : doe = 36524 * b + r /\ r < 36524
        <3>1. doe \div 36524 \in 0..3
            BY <1>2
        <3>2. doe - 36524 * (doe \div 36524) \in Nat /\ doe - 36524 * (doe \div 36524) < 36524
            OBVIOUS
        <3> QED BY <3>1, <3>2
    <2>2. Quotient(doe, 36524) = b /\ Quotient(doe, 146096) = 0
        BY <1>2, <2>1 DEF Quotient
    <2>3. PICK q \in 0..24, s \in Nat : r = 1461 * q + s /\ s < 1461
        <3>1. r \div 1461 \in 0..24
            BY <2>1
        <3>2. r - 1461 * (r \div 1461) \in Nat /\ r - 1461 * (r \div 1461) < 1461
            OBVIOUS
        <3> QED BY <3>1, <3>2
    <2>4. PICK e \in 0..1 : 0 <= q + s + 24 * b - 1460 * e /\ q + s + 24 * b - 1460 * e < 1460
        <3>1. CASE q + s + 24 * b >= 1460
            <4>1. 0 <= q + s + 24 * b - 1460 * 1 /\ q + s + 24 * b - 1460 * 1 < 1460
                BY <2>3, <3>1
            <4> QED BY <4>1
        <3>2. CASE q + s + 24 * b < 1460
            <4>1. 0 <= q + s + 24 * b - 1460 * 0 /\ q + s + 24 * b - 1460 * 0 < 1460
                BY <2>3, <3>2
            <4> QED BY <4>1
        <3> QED BY <3>1, <3>2
    <2>5. Quotient(doe, 1460) = 25 * b + q + e
        BY <2>1, <2>3, <2>4 DEF Quotient
    <2>6. PICK j \in 0..3 : /\ 0 <= s - e - 365 * j /\ s - e - 365 * j < 365
                            /\ j < 3 => s < 365 * (j + 1)
        <3>1. s - e \in Nat /\ s - e < 1460
            BY <2>3, <2>4
        <3>2. (s - e) \div 365 \in 0..3
            BY <3>1
        <3>3. /\ 0 <= s - e - 365 * ((s - e) \div 365)
              /\ s - e - 365 * ((s - e) \div 365) < 365
            BY <3>1
        <3>4. (s - e) \div 365 < 3 => s < 365 * ((s - e) \div 365 + 1)
            BY <2>3, <2>4, <3>1, <3>2, <3>3
        <3> QED BY <3>2, <3>3, <3>4
    <2>7. doe - Quotient(doe, 1460) + Quotient(doe, 36524) - Quotient(doe, 146096)
             = 365 * (100 * b + 4 * q + j) + (s - e - 365 * j)
        BY <2>1, <2>2, <2>3, <2>5
    <2>8. YearOfEra(doe) = 100 * b + 4 * q + j
        BY <2>6, <2>7 DEF YearOfEra, Quotient
    <2>9. MarchFirst(100 * b + 4 * q + j) <= doe
        BY <2>1, <2>3, <2>6, MarchFirsts
    <2>10. doe < MarchFirst(100 * b + 4 * q + j + 1)
        BY <1>2, <2>1, <2>3, <2>6, NextMarchFirst
    <2>11. 100 * b + 4 * q + j \in Nat /\ 100 * b + 4 * q + j <= 399
        OBVIOUS
    <2> QED BY <2>8, <2>9, <2>10, <2>11
<1> QED BY <1>1, <1>2

LeapDays(year) == IF Leap(year) THEN 1 ELSE 0

(* What a year that begins in March has to do with the calendar's.          *)
LEMMA YearLength ==
    ASSUME NEW y \in Int
    PROVE  /\ MarchFirst(y) \in Int /\ LeapDays(y) \in 0..1 /\ YearStart(y) \in Int
           /\ MarchFirst(y + 1) - MarchFirst(y) = 365 + LeapDays(y + 1)
           /\ YearStart(y) + 59 + LeapDays(y) = MarchFirst(y) - 719468
           /\ YearStart(y + 1) = MarchFirst(y) + 306 - 719468
<1>1. MarchFirst(y) \in Int /\ LeapDays(y) \in 0..1 /\ YearStart(y) \in Int
    BY DEF MarchFirst, LeapDays, YearStart, LeapsBefore
<1>2. LeapsBefore(1970) = 477
    BY DEF LeapsBefore
<1>3. MarchFirst(y + 1) - MarchFirst(y) = 365 + LeapDays(y + 1)
    <2>1. y + 1 \in Int /\ (y + 1) - 1 = y
        OBVIOUS
    <2>2. LeapDays(y + 1) = (y + 1) \div 4 - y \div 4 - ((y + 1) \div 100 - y \div 100)
                               + ((y + 1) \div 400 - y \div 400)
        BY DEF LeapDays, Leap
    <2> QED BY <2>1, <2>2 DEF MarchFirst
<1>5. YearStart(y) + 59 + LeapDays(y) = MarchFirst(y) - 719468
    <2>1. LeapDays(y) = y \div 4 - (y - 1) \div 4 - (y \div 100 - (y - 1) \div 100)
                           + (y \div 400 - (y - 1) \div 400)
        BY DEF LeapDays, Leap
    <2>2. YearStart(y) = 365 * (y - 1970) + ((y - 1) \div 4 - (y - 1) \div 100
                                             + (y - 1) \div 400) - 477
        BY <1>2 DEF YearStart, LeapsBefore
    <2> QED BY <2>1, <2>2 DEF MarchFirst
<1>6. YearStart(y + 1) = MarchFirst(y) + 306 - 719468
    BY <1>2 DEF MarchFirst, YearStart, LeapsBefore
<1> QED BY <1>1, <1>3, <1>5, <1>6

(* Every era of 400 years is as long as every other.                        *)
LEMMA ErasRepeat ==
    ASSUME NEW y \in Nat, y <= 399, NEW era \in Int
    PROVE  /\ MarchFirst(y + era * 400) = MarchFirst(y) + era * 146097
           /\ LeapDays(y + era * 400 + 1) = LeapDays(y + 1)
           /\ MarchFirst(y) = 365 * y + Quotient(y, 4) - Quotient(y, 100)
<1>1. /\ (y + era * 400) \div 4 = y \div 4 + 100 * era
      /\ (y + era * 400) \div 100 = y \div 100 + 4 * era
      /\ (y + era * 400) \div 400 = y \div 400 + era
    OBVIOUS
<1>2. MarchFirst(y + era * 400) = MarchFirst(y) + era * 146097
    BY <1>1 DEF MarchFirst
<1>3. LeapDays(y + era * 400 + 1) = LeapDays(y + 1)
    BY DEF LeapDays, Leap
<1>4. y \div 400 = 0
    OBVIOUS
<1> QED BY <1>2, <1>3, <1>4 DEF MarchFirst, Quotient

MonthTable(year) ==
    [m \in 1..12 |-> IF m = 1 THEN 0 ELSE IF m = 2 THEN 31
                     ELSE 59 + LeapDays(year) + Quotient(153 * (m - 3) + 2, 5)]
MonthSteps(starts, year) ==
    starts = [m \in 1..12 |-> IF m = 1 THEN 0 ELSE starts[m - 1] + MonthLengths(year)[m - 1]]

(* The table of first days satisfies the calendar's recurrence.             *)
LEMMA MonthTableSteps ==
    ASSUME NEW year \in Int
    PROVE  MonthSteps(MonthTable(year), year)
<1> DEFINE T == MonthTable(year)
           L == MonthLengths(year)
<1>1. LeapDays(year) \in 0..1
    BY YearLength
<1>2. /\ L[1] = 31 /\ L[2] = 28 + LeapDays(year) /\ L[3] = 31 /\ L[4] = 30
      /\ L[5] = 31 /\ L[6] = 30 /\ L[7] = 31 /\ L[8] = 31
      /\ L[9] = 30 /\ L[10] = 31 /\ L[11] = 30 /\ L[12] = 31
    BY DEF MonthLengths, LeapDays
<1>3. /\ T[1] = 0 /\ T[2] = 31
      /\ T[3] = 59 + LeapDays(year) /\ T[4] = 90 + LeapDays(year)
      /\ T[5] = 120 + LeapDays(year) /\ T[6] = 151 + LeapDays(year)
      /\ T[7] = 181 + LeapDays(year) /\ T[8] = 212 + LeapDays(year)
      /\ T[9] = 243 + LeapDays(year) /\ T[10] = 273 + LeapDays(year)
      /\ T[11] = 304 + LeapDays(year) /\ T[12] = 334 + LeapDays(year)
    BY <1>1 DEF MonthTable, Quotient
<1>4. T = [m \in 1..12 |-> T[m]]
    BY DEF MonthTable
<1> HIDE DEF T, L
<1>5. ASSUME NEW m \in 1..12
      PROVE  T[m] = IF m = 1 THEN 0 ELSE T[m - 1] + L[m - 1]
    <2>1. \/ m = 1 \/ m = 2 \/ m = 3 \/ m = 4 \/ m = 5 \/ m = 6
          \/ m = 7 \/ m = 8 \/ m = 9 \/ m = 10 \/ m = 11 \/ m = 12
        OBVIOUS
    <2> QED BY <1>1, <1>2, <1>3, <2>1
<1>6. T = [m \in 1..12 |-> IF m = 1 THEN 0 ELSE T[m - 1] + L[m - 1]]
    BY <1>4, <1>5
<1> QED BY <1>6 DEF MonthSteps, T, L

(* It is the calendar's own.                                                *)
LEMMA MonthStartIs ==
    ASSUME NEW year \in Int, NEW m \in 1..12
    PROVE  MonthStart(year)[m] = MonthTable(year)[m]
<1> DEFINE chosen == CHOOSE starts : MonthSteps(starts, year)
           T == MonthTable(year)
           L == MonthLengths(year)
           P == {k \in Nat : k = 0 \/ chosen[k] = T[k]}
<1>1. MonthStart(year) = chosen
    BY DEF MonthStart, MonthSteps
<1>2. MonthSteps(chosen, year)
    BY MonthTableSteps
<1> HIDE DEF chosen
<1>3. ASSUME NEW k \in 1..12
      PROVE  /\ chosen[k] = IF k = 1 THEN 0 ELSE chosen[k - 1] + L[k - 1]
             /\ T[k] = IF k = 1 THEN 0 ELSE T[k - 1] + L[k - 1]
    <2>1. MonthSteps(T, year)
        BY MonthTableSteps
    <2> HIDE DEF T
    <2> QED BY <1>2, <2>1 DEF MonthSteps
<1> HIDE DEF T, L
<1>4. 0 \in P
    OBVIOUS
<1>5. ASSUME NEW k \in 1..12, k - 1 \in P PROVE k \in P
    <2>1. CASE k = 1
        BY <1>3, <2>1
    <2>2. CASE k # 1
        <3>1. chosen[k - 1] = T[k - 1]
            BY <1>5, <2>2
        <3> QED BY <1>3, <2>2, <3>1
    <2> QED BY <2>1, <2>2
<1> HIDE DEF P
<1>6. \A k \in 0..12 : k \in P
    BY <1>4, <1>5, UpToInduction
<1>7. chosen[m] = T[m]
    BY <1>6 DEF P
<1> QED BY <1>1, <1>7 DEF T

(* A day counted from March 1 falls in the month that civil_from_days puts  *)
(* it in.                                                                   *)
LEMMA MonthCovers ==
    ASSUME NEW doy \in Nat, NEW mp \in 0..11, NEW first \in Nat,
           153 * mp <= 5 * doy + 2, 5 * doy + 2 < 153 * mp + 153,
           first = (153 * mp + 2) \div 5
    PROVE  /\ first <= doy /\ doy - first + 1 <= 31
           /\ mp = 1 \/ mp = 3 \/ mp = 6 \/ mp = 8 => doy - first + 1 <= 30
           /\ mp = 11 /\ doy <= 365 => doy - first + 1 <= 29
           /\ mp = 11 /\ doy < 365 => doy - first + 1 <= 28
OBVIOUS

(* The same of the quotients that civil_from_days computes.                 *)
LEMMA MonthOfDay ==
    ASSUME NEW doy \in Nat, doy <= 365
    PROVE  LET mp == Quotient(5 * doy + 2, 153)
               first == Quotient(153 * mp + 2, 5)
           IN  /\ mp \in 0..11
               /\ first <= doy
               /\ doy - first + 1 <= IF mp \in {1, 3, 6, 8} THEN 30 ELSE 31
               /\ mp = 11 => doy - first + 1 <= 29 /\ (doy < 365 => doy - first + 1 <= 28)
               /\ mp = 10 => first = 306
               /\ mp = 11 => first = 337
<1> DEFINE mp == Quotient(5 * doy + 2, 153)
           first == Quotient(153 * mp + 2, 5)
<1>1. mp \in 0..11 /\ 153 * mp <= 5 * doy + 2 /\ 5 * doy + 2 < 153 * mp + 153
    BY DEF Quotient
<1> HIDE DEF mp
<1>2. /\ mp = 0 => first = 0
      /\ mp = 1 => first = 31
      /\ mp = 2 => first = 61
      /\ mp = 3 => first = 92
      /\ mp = 4 => first = 122
      /\ mp = 5 => first = 153
      /\ mp = 6 => first = 184
      /\ mp = 7 => first = 214
      /\ mp = 8 => first = 245
      /\ mp = 9 => first = 275
      /\ mp = 10 => first = 306
      /\ mp = 11 => first = 337
    BY DEF Quotient
<1>3. first \in Nat /\ first = (153 * mp + 2) \div 5
    BY <1>1 DEF Quotient
<1> HIDE DEF first
<1>4. /\ first <= doy /\ doy - first + 1 <= 31
      /\ mp = 1 \/ mp = 3 \/ mp = 6 \/ mp = 8 => doy - first + 1 <= 30
      /\ mp = 11 /\ doy <= 365 => doy - first + 1 <= 29
      /\ mp = 11 /\ doy < 365 => doy - first + 1 <= 28
    BY <1>1, <1>3, MonthCovers
<1> QED BY <1>1, <1>2, <1>3, <1>4 DEF mp, first

(* The date of every day of the calendar, before and after 1970, is a date, *)
(* and names that day.                                                      *)
LEMMA CivilDates ==
    ASSUME NEW days \in Int
    PROVE  LET date == civil_from_days(days)
           IN  IsDate(date) /\ DaysOf(date) = days
<1> DEFINE z == days + 719468
           era == Quotient(IF z >= 0 THEN z ELSE z - 146096, 146097)
           doe == z - era * 146097
           yoe == YearOfEra(doe)
           doy == doe - (365 * yoe + Quotient(yoe, 4) - Quotient(yoe, 100))
           mp == Quotient(5 * doy + 2, 153)
           month == IF mp < 10 THEN mp + 3 ELSE mp - 9
           first == Quotient(153 * mp + 2, 5)
           y == yoe + era * 400
           year == y + (IF month <= 2 THEN 1 ELSE 0)
           date == [year |-> year, month |-> month, day |-> doy - first + 1]
<1>1. civil_from_days(days) = date
    BY DEF civil_from_days, DaysFromMarch0, CivilInEra, YearOfEra
<1>2. z \in Int
    OBVIOUS
<1>3. era \in Int /\ doe \in Nat /\ doe <= 146096
    <2> HIDE DEF z
    <2> QED BY <1>2, EraOf
<1>4. z = doe + era * 146097
    BY <1>3
<1> HIDE DEF era, doe
<1>5. yoe \in Nat /\ yoe <= 399 /\ MarchFirst(yoe) <= doe /\ doe < MarchFirst(yoe + 1)
    BY <1>3, YearInEra
<1> HIDE DEF yoe
<1>6. /\ MarchFirst(y) = MarchFirst(yoe) + era * 146097
      /\ LeapDays(y + 1) = LeapDays(yoe + 1)
      /\ MarchFirst(yoe) = 365 * yoe + Quotient(yoe, 4) - Quotient(yoe, 100)
    BY <1>3, <1>5, ErasRepeat
<1>7. y \in Int /\ yoe \in Int
    BY <1>3, <1>5
<1> HIDE DEF y
<1>8. /\ MarchFirst(yoe) \in Int /\ MarchFirst(yoe + 1) - MarchFirst(yoe) = 365 + LeapDays(yoe + 1)
      /\ LeapDays(yoe + 1) \in 0..1
    BY <1>7, YearLength
<1>9. /\ YearStart(y) + 59 + LeapDays(y) = MarchFirst(y) - 719468
      /\ YearStart(y + 1) = MarchFirst(y) + 306 - 719468
      /\ YearStart(y) \in Int /\ YearStart(y + 1) \in Int
      /\ LeapDays(y) \in 0..1 /\ MarchFirst(y) \in Int /\ MarchFirst(yoe + 1) \in Int
    BY <1>7, YearLength
<1>10. doy = doe - MarchFirst(yoe)
    BY <1>6
<1> HIDE DEF doy
<1>11. doy \in Nat /\ doy <= 364 + LeapDays(y + 1) /\ doy <= 365
    BY <1>3, <1>5, <1>6, <1>8, <1>9, <1>10
<1>12. /\ mp \in 0..11
       /\ first <= doy
       /\ doy - first + 1 <= IF mp \in {1, 3, 6, 8} THEN 30 ELSE 31
       /\ mp = 11 => doy - first + 1 <= 29 /\ (doy < 365 => doy - first + 1 <= 28)
       /\ mp = 10 => first = 306
       /\ mp = 11 => first = 337
    BY <1>11, MonthOfDay
<1>13. first \in Nat
    BY <1>12 DEF Quotient
<1> HIDE DEF mp, first
<1>14. days = doe + era * 146097 - 719468
    BY <1>3, <1>4
<1> HIDE DEF z
<1>15. MarchFirst(y) + doy = days + 719468
    BY <1>3, <1>6, <1>8, <1>10, <1>14
<1>16. CASE mp < 10
    <2>1. month = mp + 3 /\ year = y /\ month \in 3..12
        BY <1>7, <1>12, <1>16
    <2>2. MonthStart(year)[month] = 59 + LeapDays(y) + first
        <3>1. MonthTable(y)[mp + 3] = 59 + LeapDays(y) + first
            BY <1>12, <2>1 DEF MonthTable, first
        <3> QED BY <1>7, <2>1, <3>1, MonthStartIs
    <2>3. DaysOf(date) = YearStart(y) + (59 + LeapDays(y) + first) + (doy - first + 1) - 1
        BY <2>1, <2>2 DEF DaysOf
    <2>4. DaysOf(date) = days
        BY <1>9, <1>11, <1>13, <1>15, <2>3
    <2>5. /\ mp = 0 => MonthLengths(y)[mp + 3] = 31
          /\ mp = 1 => MonthLengths(y)[mp + 3] = 30
          /\ mp = 2 => MonthLengths(y)[mp + 3] = 31
          /\ mp = 3 => MonthLengths(y)[mp + 3] = 30
          /\ mp = 4 => MonthLengths(y)[mp + 3] = 31
          /\ mp = 5 => MonthLengths(y)[mp + 3] = 31
          /\ mp = 6 => MonthLengths(y)[mp + 3] = 30
          /\ mp = 7 => MonthLengths(y)[mp + 3] = 31
          /\ mp = 8 => MonthLengths(y)[mp + 3] = 30
          /\ mp = 9 => MonthLengths(y)[mp + 3] = 31
        BY DEF MonthLengths
    <2>6. MonthLengths(y)[mp + 3] = IF mp \in {1, 3, 6, 8} THEN 30 ELSE 31
        <3>1. \/ mp = 0 \/ mp = 1 \/ mp = 2 \/ mp = 3 \/ mp = 4
              \/ mp = 5 \/ mp = 6 \/ mp = 7 \/ mp = 8 \/ mp = 9
            BY <1>12, <1>16
        <3> HIDE DEF mp
        <3> QED BY <2>5, <3>1
    <2>7. date.month \in 1..12 /\ date.day \in 1..MonthLengths(date.year)[date.month]
        BY <1>11, <1>12, <1>13, <2>1, <2>6
    <2> QED BY <1>1, <2>4, <2>7 DEF IsDate
<1>17. CASE mp = 10 \/ mp = 11
    <2>1. month = mp - 9 /\ year = y + 1 /\ month \in 1..2 /\ y + 1 \in Int
        BY <1>7, <1>17
    <2>2. MonthStart(year)[month] = first - 306
        <3>1. MonthTable(y + 1)[mp - 9] = first - 306
            BY <1>12, <1>17 DEF MonthTable
        <3> QED BY <2>1, <3>1, MonthStartIs
    <2>3. DaysOf(date) = YearStart(y + 1) + (first - 306) + (doy - first + 1) - 1
        BY <2>1, <2>2 DEF DaysOf
    <2>4. DaysOf(date) = days
        BY <1>9, <1>11, <1>13, <1>15, <2>3
    <2>5. /\ mp = 10 => MonthLengths(y + 1)[mp - 9] = 31
          /\ mp = 11 => MonthLengths(y + 1)[mp - 9] = 28 + LeapDays(y + 1)
        BY DEF MonthLengths, LeapDays
    <2>6. date.month \in 1..12 /\ date.day \in 1..MonthLengths(date.year)[date.month]
        <3>1. CASE mp = 10
            BY <1>11, <1>12, <1>13, <2>1, <2>5, <3>1
        <3>2. CASE mp = 11
            BY <1>6, <1>8, <1>11, <1>12, <1>13, <2>1, <2>5, <3>2
        <3> QED BY <1>17, <3>1, <3>2
    <2> QED BY <1>1, <2>4, <2>6 DEF IsDate
<1> QED BY <1>12, <1>16, <1>17

(* Shifting an instant by an offset and back loses nothing but what odd     *)
(* keeps of it.                                                             *)
LEMMA CarriedBack ==
    ASSUME NEW D \in Int, NEW n \in Int, NEW offset \in Int, NEW odd \in Int,
           NEW v, v = (n + offset) % 86400
    PROVE  /\ (D + (n + offset) \div 86400) + (v - offset + odd) \div 86400
                = D + (n + odd) \div 86400
           /\ (v - offset + odd) % 86400 = (n + odd) % 86400
<1> DEFINE u == (n + offset) \div 86400
           m == n + odd
<1>1. u \in Int /\ m \in Int /\ v \in Int
    OBVIOUS
<1>2. (n + offset) - 86400 * u = v
    OBVIOUS
<1> HIDE DEF u
<1>3. v - offset + odd = m - 86400 * u
    BY <1>1, <1>2
<1> HIDE DEF m
<1>4. /\ (m - 86400 * u) \div 86400 = m \div 86400 - u
      /\ (m - 86400 * u) % 86400 = m % 86400
    BY <1>1
<1>5. /\ (v - offset + odd) \div 86400 = m \div 86400 - u
      /\ (v - offset + odd) % 86400 = m % 86400
    BY <1>3, <1>4
<1>6. (D + u) + (v - offset + odd) \div 86400 = D + m \div 86400
    <2> DEFINE x == (v - offset + odd) \div 86400
               y == m \div 86400
    <2>1. y \in Int /\ x = y - u
        BY <1>1, <1>5
    <2> HIDE DEF x, y
    <2>2. (D + u) + x = D + y
        BY <1>1, <2>1
    <2> QED BY <2>2 DEF x, y
<1> QED BY <1>5, <1>6 DEF u, m

(* Taking from a shifted instant its offset, but for the odd seconds, gives *)
(* back the instant with the odd seconds.                                   *)
LEMMA ShiftedBack ==
    ASSUME NEW D \in Int, NEW S \in Int, NEW M \in Int, NEW offset \in Int, NEW odd \in Int,
           NEW shifted \in Int, shifted = S + offset, NEW kept \in Int, kept = S + odd,
           NEW t, t = Normal([day |-> D, second |-> shifted, micro |-> M]),
           NEW second, second = t.second - offset + odd
    PROVE  Normal([day |-> t.day, second |-> second, micro |-> t.micro])
             = Normal([day |-> D, second |-> kept, micro |-> M])
<1> DEFINE k == M \div 1000000
           micro == M % 1000000
           n == S + k
           v == (n + offset) % 86400
           day == D + (n + offset) \div 86400
<1>1. k \in Int /\ micro \in Nat /\ micro < 1000000
    OBVIOUS
<1>2. t = [day |-> D + (shifted + k) \div 86400, second |-> (shifted + k) % 86400,
           micro |-> micro]
    BY DEF Normal, SecondsPerDay, MicrosPerSecond
<1>3. Normal([day |-> D, second |-> kept, micro |-> M])
        = [day |-> D + (kept + k) \div 86400, second |-> (kept + k) % 86400, micro |-> micro]
    BY DEF Normal, SecondsPerDay, MicrosPerSecond
<1> HIDE DEF k, micro
<1>4. shifted + k = n + offset /\ kept + k = n + odd /\ n \in Int
    BY <1>1
<1>5. t.day = day /\ t.second = v /\ t.micro = micro
    BY <1>2, <1>4
<1>6. v \in Int /\ day \in Int
    BY <1>4
<1> HIDE DEF n
<1>7. /\ day + (v - offset + odd) \div 86400 = D + (n + odd) \div 86400
      /\ (v - offset + odd) % 86400 = (n + odd) % 86400
    BY <1>4, CarriedBack
<1> HIDE DEF v, day
<1>8. second \in Int /\ second = v - offset + odd
    BY <1>5, <1>6
<1>9. Normal([day |-> t.day, second |-> second, micro |-> t.micro])
        = [day |-> day + second \div 86400, second |-> second % 86400, micro |-> micro]
    <2>1. micro \div 1000000 = 0 /\ micro % 1000000 = micro
        BY <1>1
    <2>2. second + 0 = second
        BY <1>8
    <2> QED BY <1>5, <2>1, <2>2 DEF Normal, SecondsPerDay, MicrosPerSecond
<1> QED BY <1>3, <1>4, <1>7, <1>8, <1>9

(* What hours and minutes leave out of an offset.                           *)
LEMMA WholeMinutes ==
    ASSUME NEW n \in Nat, NEW h, h = n \div 3600, NEW m, m = (n % 3600) \div 60,
           NEW s, s = n % 60
    PROVE  3600 * h + 60 * m \in Nat /\ 3600 * h + 60 * m = n - s
<1> DEFINE r == n % 3600
<1>1. h \in Nat /\ r \in Nat /\ s \in Nat /\ m \in Nat
    OBVIOUS
<1>2. n - 3600 * h = r
    OBVIOUS
<1>3. s = r % 60
    OBVIOUS
<1>4. r - 60 * m = r % 60
    OBVIOUS
<1> HIDE DEF r
<1> QED BY <1>1, <1>2, <1>3, <1>4

(* The zone that a line shows is the offset without its odd seconds.        *)
LEMMA ZoneIs ==
    ASSUME NEW offset \in Int
    PROVE  LET zone == Zone(offset)
               shift == 3600 * zone.hours + 60 * zone.minutes
           IN  /\ shift \in Nat
               /\ offset < 0 => zone.sign = "-" /\ shift = OddSeconds(offset) - offset
               /\ offset >= 0 => zone.sign # "-" /\ shift = offset - OddSeconds(offset)
<1> DEFINE abs == IF offset < 0 THEN -offset ELSE offset
           zone == Zone(offset)
           shift == 3600 * zone.hours + 60 * zone.minutes
           left == abs % 60
<1>1. /\ zone.hours = abs \div 3600 /\ zone.minutes = (abs % 3600) \div 60
      /\ zone.sign = (IF offset = 0 THEN "Z" ELSE IF offset < 0 THEN "-" ELSE "+")
    BY DEF Zone
<1>2. abs \in Nat /\ (offset < 0 => abs = -offset) /\ (offset >= 0 => abs = offset)
    OBVIOUS
<1>3. OddSeconds(offset) = (IF offset < 0 THEN -left ELSE left)
    BY DEF OddSeconds
<1> HIDE DEF zone, abs
<1>4. left \in Nat
    BY <1>2
<1>5. shift \in Nat /\ shift = abs - left
    <2> DEFINE h == zone.hours
               m == zone.minutes
    <2>1. h = abs \div 3600 /\ m = (abs % 3600) \div 60 /\ left = abs % 60
        BY <1>1
    <2> HIDE DEF h, m, left
    <2>2. 3600 * h + 60 * m \in Nat /\ 3600 * h + 60 * m = abs - left
        BY <1>2, <2>1, WholeMinutes
    <2> QED BY <2>2 DEF h, m
<1> HIDE DEF shift, left
<1>6. /\ offset < 0 => shift = OddSeconds(offset) - offset
      /\ offset >= 0 => shift = offset - OddSeconds(offset)
    BY <1>2, <1>3, <1>4, <1>5
<1>7. /\ offset < 0 => zone.sign = "-"
      /\ offset >= 0 => zone.sign # "-"
    BY <1>1
<1> QED BY <1>5, <1>6, <1>7 DEF shift, zone

(* The text of a timestamp names the clock's instant, whatever the offset.  *)
LEMMA DisplayedInstant ==
    ASSUME NEW clock, clock.before \in BOOLEAN, clock.day \in Nat, clock.second \in Nat,
           clock.micro \in Nat, NEW offset \in Int
    PROVE  LET text == Display(NowAt(clock, offset))
               sign == IF clock.before THEN -1 ELSE 1
           IN  /\ IsDate(text.date)
               /\ InstantNamed(text) =
                     Normal([day |-> sign * clock.day,
                             second |-> sign * clock.second + OddSeconds(offset),
                             micro |-> sign * clock.micro])
<1> DEFINE sign == IF clock.before THEN -1 ELSE 1
           D == sign * clock.day
           S == sign * clock.second
           M == sign * clock.micro
           text == Display(NowAt(clock, offset))
           t == Normal([day |-> D, second |-> S + offset, micro |-> M])
           zone == Zone(offset)
           shift == 3600 * zone.hours + 60 * zone.minutes
           local == 3600 * text.hour + 60 * text.minute + text.second
<1>1. /\ D \in Int /\ S \in Int /\ M \in Int
      /\ unix_micros(clock) = [day |-> D, second |-> S, micro |-> M]
    BY DEF unix_micros
<1> HIDE DEF D, S, M
<1>2. t.day \in Int /\ t.second \in Nat /\ t.micro \in Nat
    <2> DEFINE shifted == S + offset
               there == Normal([day |-> D, second |-> shifted, micro |-> M])
    <2>1. shifted \in Int
        BY <1>1
    <2> HIDE DEF shifted
    <2>2. /\ there.day = D + (shifted + M \div 1000000) \div 86400
          /\ there.second = (shifted + M \div 1000000) % 86400
          /\ there.micro = M % 1000000
        BY DEF Normal, SecondsPerDay, MicrosPerSecond
    <2> HIDE DEF there
    <2>3. there.day \in Int /\ there.second \in Nat /\ there.micro \in Nat
        BY <1>1, <2>1, <2>2
    <2> QED BY <2>3 DEF shifted, there
<1>3. NowAt(clock, offset) = [date |-> civil_from_days(t.day), second |-> t.second,
                              micro |-> t.micro, offset |-> offset]
    BY <1>1 DEF NowAt, from_unix_micros
<1> HIDE DEF t
<1>4. /\ text.date = civil_from_days(t.day) /\ text.micro = t.micro /\ text.zone = zone
      /\ text.hour = t.second \div 3600 /\ text.minute = (t.second % 3600) \div 60
      /\ text.second = t.second % 60
    BY <1>3 DEF Display
<1> HIDE DEF text
<1>5. local = t.second
    BY <1>2, <1>4
<1>6. IsDate(text.date) /\ DaysOf(text.date) = t.day
    BY <1>2, <1>4, CivilDates
<1>7. OddSeconds(offset) \in Int
    BY DEF OddSeconds
<1> DEFINE second == IF text.zone.sign = "-" THEN local + shift ELSE local - shift
<1>8. InstantNamed(text) = Normal([day |-> t.day, second |-> second, micro |-> t.micro])
    BY <1>4, <1>6 DEF InstantNamed
<1>9. second = t.second - offset + OddSeconds(offset)
    <2>1. /\ shift \in Nat
          /\ offset < 0 => zone.sign = "-" /\ shift = OddSeconds(offset) - offset
          /\ offset >= 0 => zone.sign # "-" /\ shift = offset - OddSeconds(offset)
        BY ZoneIs
    <2> HIDE DEF shift, zone, local
    <2> QED BY <1>2, <1>4, <1>5, <1>7, <2>1
<1> HIDE DEF second
<1>10. Normal([day |-> t.day, second |-> t.second - offset + OddSeconds(offset), micro |-> t.micro])
         = Normal([day |-> D, second |-> S + OddSeconds(offset), micro |-> M])
    <2> DEFINE odd == OddSeconds(offset)
    <2>1. odd \in Int
        BY <1>7
    <2> HIDE DEF odd
    <2> DEFINE shifted == S + offset
               kept == S + odd
               back == t.second - offset + odd
    <2>2. shifted \in Int /\ kept \in Int /\ t = Normal([day |-> D, second |-> shifted, micro |-> M])
        BY <1>1, <2>1 DEF t
    <2>3. shifted = S + offset /\ kept = S + odd /\ back = t.second - offset + odd
        OBVIOUS
    <2> HIDE DEF shifted, kept, back
    <2>4. Normal([day |-> t.day, second |-> back, micro |-> t.micro])
            = Normal([day |-> D, second |-> kept, micro |-> M])
        BY <1>1, <2>1, <2>2, <2>3, ShiftedBack
    <2> QED BY <2>4 DEF odd, kept, back
<1> QED BY <1>6, <1>8, <1>9, <1>10 DEF text, D, S, M

------------------------------------------------------------------------------
(* Reading a line.                                                          *)

(* The chunks of the lines, and what a reader has at a place in one.        *)
Numbers == {g.value.int : g \in Pairs} \cup {AsI64(g.value.int) : g \in Pairs}
             \cup {l.line : l \in Locations}
Times == {Display(NowAt(s.clock, s.offset)) : s \in Stamps}
Literals ==     \* those of the layouts; the provers know of no literal that it is a STRING
    {"{", "}", ":", ",", "\"", "\\", "\n", "\r", "\t", "backspace", "formfeed", "bell",
     "n", "r", "t", "b", "f", "u0007", "ts", "level", "msg", "file", "line", "target",
     "null", "true", "false", "TRACE", "DEBUG", "INFO", "WARN", "ERROR",
     " [", "] ", " (", ")", " @ "}
Chunk == STRING \cup Literals
           \cup {ToString(n) : n \in Numbers} \cup {ToString(t) : t \in Times}
Text == Seq(Chunk)
TokenSet == [kind : {"bare", "string"}, text : Text]
Tokens == Seq(TokenSet)
State == [mode : {"outside", "string", "escape", "error"}, text : Text, tokens : Tokens]

After(state, chunks) == FoldLeft(ReadChunk, state, chunks)

(* What a reader's tokens and states are.                                   *)
LEMMA TokenTyped ==
    ASSUME NEW text \in Text
    PROVE  Token("string", text) \in TokenSet /\ Token("bare", text) \in TokenSet
BY DEF Token, TokenSet

(* A chunk leaves the reader in a state.                                    *)
LEMMA ReadTyped ==
    ASSUME NEW state \in State, NEW ch \in Chunk
    PROVE  ReadChunk(state, ch) \in State
<1>1. state.text \in Text /\ state.tokens \in Tokens /\ <<>> \in Text /\ <<ch>> \in Text
    BY DEF State, Text
<1>2. Append(state.text, ch) \in Text
    BY <1>1 DEF Text
<1>3. /\ Append(state.tokens, Token("bare", <<ch>>)) \in Tokens
      /\ Append(state.tokens, Token("string", state.text)) \in Tokens
    BY <1>1, TokenTyped DEF Tokens
<1>4. ASSUME ch \in DOMAIN Meaning PROVE Append(state.text, Meaning[ch]) \in Text
    <2>1. Meaning[ch] \in Chunk
        <3>1. ch \in {"\"", "\\", "n", "r", "t", "b", "f", "u0007"}
            BY <1>4 DEF Meaning
        <3>2. Meaning[ch] \in {"\"", "\\", "\n", "\r", "\t", "backspace", "formfeed", "bell"}
            BY <3>1 DEF Meaning
        <3>3. Meaning[ch] \in Literals
            BY <3>2 DEF Literals
        <3> QED BY <3>3 DEF Chunk
    <2> QED BY <1>1, <2>1 DEF Text
<1> HIDE DEF Text, Tokens
<1> QED BY <1>1, <1>2, <1>3, <1>4 DEF ReadChunk, State

(* The fold of Read.                                                        *)
ReadAll(it, state, chunks) ==
    it = [s \in SUBSET (1..Len(chunks)) |->
             IF s = {} THEN state ELSE ReadChunk(it[s \ {Max(s)}], chunks[Max(s)])]

(* The reader's loop, chunk after chunk.                                    *)
LEMMA ReadSteps ==
    ASSUME NEW state \in State, NEW chunks \in Text
    PROVE  \E m : /\ m[0] = state
                  /\ \A k \in 1..Len(chunks) : m[k] = ReadChunk(m[k - 1], chunks[k])
                  /\ \A k \in 0..Len(chunks) : m[k] \in State
                  /\ After(state, chunks) = m[Len(chunks)]
<1> DEFINE n == Len(chunks)
           chosen == CHOOSE it : ReadAll(it, state, chunks)
           op == [x \in State \X Chunk |-> ReadChunk(x[1], x[2])]
<1>1. n \in Nat /\ DOMAIN chunks = 1..n /\ \A i \in 1..n : chunks[i] \in Chunk
    BY DEF Text
<1>2. After(state, chunks) = chosen[1..n]
    BY <1>1 DEF After, FoldLeft, MapThenFoldSet, ReadAll
<1>3. op \in [State \X Chunk -> State]
    BY ReadTyped
<1>4. \A v \in State, e \in Chunk : op[<<v, e>>] = ReadChunk(v, e)
    OBVIOUS
<1> HIDE DEF op
<1>5. PICK it \in [SUBSET (1..n) -> State] : FoldOf(it, op, state, chunks, n)
    BY <1>3, FoldExists DEF Text
<1>6. ReadAll(it, state, chunks)
    <2>1. ASSUME NEW s \in SUBSET (1..n), s # {}
          PROVE  op[<<it[s \ {Max(s)}], chunks[Max(s)]>>]
                   = ReadChunk(it[s \ {Max(s)}], chunks[Max(s)])
        <3>1. Max(s) \in 1..n
            <4>1. s \subseteq 0..n
                BY <1>1
            <4> QED BY <1>1, <2>1, <4>1, MaxOfBounded
        <3>2. it[s \ {Max(s)}] \in State /\ chunks[Max(s)] \in Chunk
            BY <1>1, <1>5, <3>1
        <3> QED BY <1>4, <3>2
    <2> QED BY <1>1, <1>5, <2>1 DEF FoldOf, ReadAll
<1>7. ReadAll(chosen, state, chunks)
    BY <1>6
<1> HIDE DEF chosen
<1>8. \A s \in SUBSET (1..n) : chosen[s] =
          IF s = {} THEN state ELSE ReadChunk(chosen[s \ {Max(s)}], chunks[Max(s)])
    BY <1>1, <1>7 DEF ReadAll
<1> DEFINE m == [k \in 0..n |-> chosen[1..k]]
<1>9. m[0] = state
    <2>1. 0 \in 0..n /\ 1..0 = {} /\ {} \in SUBSET (1..n)
        BY <1>1
    <2>2. m[0] = chosen[{}]
        BY <2>1
    <2> QED BY <1>8, <2>1, <2>2
<1>10. \A k \in 1..n : m[k] = ReadChunk(m[k - 1], chunks[k])
    <2> SUFFICES ASSUME NEW k \in 1..n PROVE m[k] = ReadChunk(m[k - 1], chunks[k])
        OBVIOUS
    <2>1. 1..k # {} /\ Max(1..k) = k /\ 1..k \ {k} = 1..k - 1 /\ 1..k \in SUBSET (1..n)
        BY <1>1, UpTo
    <2>2. chosen[1..k] = ReadChunk(chosen[1..k - 1], chunks[k])
        BY <1>8, <2>1
    <2> QED BY <1>1, <2>2
<1>11. m[n] = chosen[1..n]
    BY <1>1
<1> HIDE DEF m
<1> DEFINE P == {k \in Nat : m[k] \in State}
<1>12. 0 \in P
    BY <1>9
<1>13. ASSUME NEW k \in 1..n, k - 1 \in P PROVE k \in P
    BY <1>1, <1>10, <1>13, ReadTyped
<1> HIDE DEF P
<1>14. \A k \in 0..n : k \in P
    BY <1>1, <1>12, <1>13, UpToInduction
<1>15. \A k \in 0..n : m[k] \in State
    BY <1>14 DEF P
<1> QED BY <1>2, <1>9, <1>10, <1>11, <1>15

(* One more chunk is one more step.                                         *)
LEMMA AfterAppend ==
    ASSUME NEW state \in State, NEW chunks \in Text, NEW ch \in Chunk
    PROVE  /\ After(state, <<>>) = state
           /\ After(state, chunks) \in State
           /\ After(state, Append(chunks, ch)) = ReadChunk(After(state, chunks), ch)
<1> DEFINE n == Len(chunks)
           more == Append(chunks, ch)
<1>1. /\ n \in Nat /\ more \in Text /\ Len(more) = n + 1 /\ more[n + 1] = ch
      /\ \A i \in 1..n : more[i] = chunks[i]
    BY DEF Text
<1> HIDE DEF more
<1>2. PICK m : /\ m[0] = state
               /\ \A k \in 1..n : m[k] = ReadChunk(m[k - 1], chunks[k])
               /\ \A k \in 0..n : m[k] \in State
               /\ After(state, chunks) = m[n]
    BY ReadSteps
<1>3. PICK u : /\ u[0] = state
               /\ \A k \in 1..n + 1 : u[k] = ReadChunk(u[k - 1], more[k])
               /\ After(state, more) = u[n + 1]
    BY <1>1, ReadSteps
<1> DEFINE P == {k \in Nat : u[k] = m[k]}
<1>4. 0 \in P
    BY <1>2, <1>3
<1>5. ASSUME NEW k \in 1..n, k - 1 \in P PROVE k \in P
    <2>1. k \in 1..n + 1 /\ k - 1 \in Nat /\ k \in Nat
        BY <1>1
    <2>2. u[k] = ReadChunk(u[k - 1], more[k]) /\ m[k] = ReadChunk(m[k - 1], chunks[k])
        BY <1>2, <1>3, <2>1
    <2> QED BY <1>1, <1>5, <2>1, <2>2
<1> HIDE DEF P
<1>6. \A k \in 0..n : k \in P
    BY <1>1, <1>4, <1>5, UpToInduction
<1>7. u[n] = m[n]
    BY <1>1, <1>6 DEF P
<1>8. After(state, more) = ReadChunk(u[n], ch)
    <2>1. n + 1 \in 1..n + 1 /\ (n + 1) - 1 = n
        BY <1>1
    <2> QED BY <1>1, <1>3, <2>1
<1>9. After(state, <<>>) = state
    <2>1. <<>> \in Text /\ Len(<<>>) = 0
        BY DEF Text
    <2> QED BY <2>1, ReadSteps
<1>10. After(state, chunks) \in State
    BY <1>1, <1>2
<1> QED BY <1>2, <1>7, <1>8, <1>9, <1>10 DEF more

------------------------------------------------------------------------------
(* The two layouts.                                                         *)

(* Texts, and pieces of them.                                               *)
LEMMA TextTyped ==
    /\ Strings \subseteq Text /\ <<>> \in Text
    /\ \A ch \in Chunk : <<ch>> \in Text
    /\ \A a, b \in Chunk : <<a, b>> \in Text
    /\ \A a, b, c \in Chunk : <<a, b, c>> \in Text
    /\ \A s, t \in Text : s \o t \in Text
<1>1. STRING \subseteq Chunk
    BY DEF Chunk
<1>2. Strings \subseteq Text
    <2>1. \A s \in Seq(STRING) : s \in Seq(Chunk)
        BY <1>1, SeqMonotonic
    <2> QED BY <2>1 DEF Strings, Text
<1>3. \A s, t \in Text : s \o t \in Text
    BY ConcatProperties DEF Text
<1> QED BY <1>2, <1>3 DEF Text

(* The literals of the layouts are chunks.                                  *)
LEMMA LiteralChunks ==
    /\ \A ch \in Literals : ch \in Chunk /\ <<ch>> \in Text
    /\ \A s \in Stamps : Stamp(NowAt(s.clock, s.offset)) \in Text
<1>1. Literals \subseteq Chunk /\ {ToString(t) : t \in Times} \subseteq Chunk
    BY DEF Chunk
<1>2. \A s \in Stamps : Display(NowAt(s.clock, s.offset)) \in Times
    BY DEF Times
<1> QED BY <1>1, <1>2, TextTyped DEF Stamp

(* The pieces of a line are texts.                                          *)
LEMMA EscapedTyped ==
    ASSUME NEW ch \in Chunk
    PROVE  Escaped(ch) \in Text
<1>1. CASE ch \in DOMAIN Escapes
    <2>1. ch \in {"\"", "\\", "\n", "\r", "\t", "backspace", "formfeed", "bell"}
        BY <1>1 DEF Escapes
    <2>2. Escapes[ch] \in {"\"", "\\", "n", "r", "t", "b", "f", "u0007"}
        BY <2>1 DEF Escapes
    <2>3. Escapes[ch] \in Literals /\ Backslash \in Literals
        BY <2>2 DEF Literals, Backslash
    <2>4. <<Backslash>> \in Text /\ <<Escapes[ch]>> \in Text
        BY <2>3, LiteralChunks
    <2>5. <<Backslash, Escapes[ch]>> \in Text
        BY <2>4 DEF Text
    <2> QED BY <1>1, <2>5 DEF Escaped
<1>2. CASE ch \notin DOMAIN Escapes
    BY <1>2, TextTyped DEF Escaped
<1> QED BY <1>1, <1>2

(* A quoted string is a text.                                               *)
LEMMA PushStringTyped ==
    ASSUME NEW text \in Text
    PROVE  push_string(text) \in Text
<1> DEFINE pieces == [i \in 1..Len(text) |-> Escaped(text[i])]
<1>1. Len(text) \in Nat /\ \A i \in 1..Len(text) : Escaped(text[i]) \in Text
    BY EscapedTyped DEF Text
<1>2. pieces \in Seq(Text)
    BY <1>1
<1>3. FlattenSeq(pieces) \in Text
    BY <1>2, FlattenTyped DEF Text
<1>4. <<Quote>> \in Text
    BY LiteralChunks DEF Literals, Quote
<1> QED BY <1>3, <1>4, TextTyped DEF push_string

(* What a value becomes, type by type.                                      *)
LEMMA IntoIs ==
    ASSUME NEW v
    PROVE  /\ v.type \in StringTypes => Into(v) = AsStr(v.text)
           /\ v.type = "bool" => Into(v) = AsBool(v.text)
           /\ v.type \in SmallIntTypes => Into(v) = AsInt(v.int)
           /\ v.type = "u64" => Into(v) = IF v.int <= I64_MAX THEN AsInt(v.int)
                                          ELSE AsStr(<<ToString(v.int)>>)
           /\ v.type = "usize" => Into(v) = AsInt(AsI64(v.int))
           /\ v.type \in {"f32", "f64"} => Into(v) = AsFloat(v.text)
           /\ v.type = "FieldValue::Null" => Into(v) = Null
BY DEF Into, StringTypes, SmallIntTypes

(* push_value, by the kind of the value.                                    *)
LEMMA PushValueIs ==
    ASSUME NEW text, NEW n
    PROVE  /\ push_value(AsStr(text)) = push_string(text)
           /\ push_value(AsInt(n)) = <<ToString(n)>>
           /\ push_value(AsFloat(text)) = IF text \in NotFinite THEN <<"null">> ELSE text
           /\ push_value(AsBool(text)) = text
           /\ push_value(Null) = <<"null">>
BY DEF push_value, AsStr, AsInt, AsFloat, AsBool, Null

(* A value is a text.                                                       *)
LEMMA PushValueTyped ==
    ASSUME NEW g \in Pairs
    PROVE  push_value(Into(g.value)) \in Text
<1> DEFINE v == g.value
<1>1. IsValue(v)
    BY FormatAssumption
<1>2. ToString(v.int) \in Chunk /\ ToString(AsI64(v.int)) \in Chunk
    <2>1. v.int \in Numbers /\ AsI64(v.int) \in Numbers
        BY DEF Numbers
    <2> QED BY <2>1 DEF Chunk
<1>3. v.text \in Text
    BY <1>1, TextTyped DEF IsValue
<1>4. <<"null">> \in Text
    BY LiteralChunks DEF Literals
<1>5. <<ToString(v.int)>> \in Text /\ <<ToString(AsI64(v.int))>> \in Text
    BY <1>2, TextTyped
<1>6. push_string(v.text) \in Text /\ push_string(<<ToString(v.int)>>) \in Text
    BY <1>3, <1>5, PushStringTyped
<1> HIDE DEF v
<1>7. CASE v.type \in StringTypes
    BY <1>6, <1>7, IntoIs, PushValueIs DEF v
<1>8. CASE v.type = "bool"
    BY <1>3, <1>8, IntoIs, PushValueIs DEF v
<1>9. CASE v.type \in SmallIntTypes
    BY <1>5, <1>9, IntoIs, PushValueIs DEF v
<1>10. CASE v.type = "u64"
    BY <1>5, <1>6, <1>10, IntoIs, PushValueIs DEF v
<1>11. CASE v.type = "usize"
    BY <1>5, <1>11, IntoIs, PushValueIs DEF v
<1>12. CASE v.type \in {"f32", "f64"}
    <2>1. Into(v) = AsFloat(v.text)
        BY <1>12, IntoIs
    <2>2. CASE v.text \in NotFinite
        BY <1>4, <2>1, <2>2, PushValueIs DEF v
    <2>3. CASE v.text \notin NotFinite
        BY <1>3, <2>1, <2>3, PushValueIs DEF v
    <2> QED BY <2>2, <2>3
<1>13. CASE v.type = "FieldValue::Null"
    BY <1>4, <1>13, IntoIs, PushValueIs DEF v
<1> QED BY <1>1, <1>7, <1>8, <1>9, <1>10, <1>11, <1>12, <1>13 DEF IsValue

(* The fields of records.                                                   *)
Field == {NewField(g) : g \in Pairs}

(* The members of a list of fields are a text.                              *)
LEMMA FieldMembersTyped ==
    ASSUME NEW fields \in Seq(Field)
    PROVE  FlattenSeq([i \in 1..Len(fields) |-> FieldMember(fields[i])]) \in Text
<1> DEFINE piece(i) == FieldMember(fields[i])
           pieces == [i \in 1..Len(fields) |-> piece(i)]
<1>1. <<",">> \in Text /\ <<":">> \in Text
    BY LiteralChunks DEF Literals
<1>2. ASSUME NEW f \in Field PROVE FieldMember(f) \in Text
    <2>1. PICK g \in Pairs : f = NewField(g)
        BY DEF Field
    <2>2. f.key \in Text /\ f.value = Into(g.value)
        BY <2>1, FormatAssumption, TextTyped DEF NewField
    <2>3. push_string(f.key) \in Text /\ push_value(f.value) \in Text
        BY <2>2, PushStringTyped, PushValueTyped
    <2> QED BY <1>1, <2>3, TextTyped DEF FieldMember
<1>3. Len(fields) \in Nat /\ \A i \in 1..Len(fields) : fields[i] \in Field
    OBVIOUS
<1>4. \A i \in 1..Len(fields) : piece(i) \in Text
    BY <1>2, <1>3
<1> HIDE DEF piece
<1>5. pieces \in Seq(Text)
    BY <1>3, <1>4
<1>6. FlattenSeq(pieces) \in Text
    BY <1>5, FlattenTyped DEF Text
<1> QED BY <1>6 DEF piece

(* A line whose i-th chunk is x.                                            *)
Having(x, i) == {s \in Text : i \in 1..Len(s) /\ s[i] = x}

(* What stands at a place of a line still does when more follows.           *)
LEMMA StillHaving ==
    ASSUME NEW x, NEW i \in Nat, NEW s \in Having(x, i), NEW t \in Text
    PROVE  s \o t \in Having(x, i)
<1>1. s \in Seq(Chunk) /\ t \in Seq(Chunk) /\ i \in 1..Len(s) /\ s[i] = x
    BY DEF Having, Text
<1>2. s \o t \in Seq(Chunk) /\ i \in 1..Len(s \o t) /\ (s \o t)[i] = s[i]
    BY <1>1, ConcatProperties
<1> QED BY <1>1, <1>2 DEF Having, Text

(* It is moved by what is put before it.                                    *)
LEMMA HavingAfter ==
    ASSUME NEW x, NEW i \in Nat, NEW s \in Text, NEW t \in Having(x, i),
           NEW k, k = Len(s) + i
    PROVE  s \o t \in Having(x, k)
<1>1. s \in Seq(Chunk) /\ t \in Seq(Chunk) /\ i \in 1..Len(t) /\ t[i] = x
    BY DEF Having, Text
<1>2. s \o t \in Seq(Chunk) /\ k \in 1..Len(s \o t) /\ (s \o t)[k] = t[i]
    BY <1>1, ConcatProperties
<1> QED BY <1>1, <1>2 DEF Having, Text

(* What a record that is queued is made of.                                 *)
IsEntry(e) ==
    /\ e.level \in Levels
    /\ e.message \in Strings /\ e.file \in Strings /\ e.target \in Strings
    /\ e.line \in {l.line : l \in Locations}
    /\ e.fields \in Seq(Field)
    /\ e.timestamp \in {NowAt(s.clock, s.offset) : s \in Stamps}

(* The parts of a record are texts.                                         *)
LEMMA EntryTyped ==
    ASSUME NEW e, IsEntry(e)
    PROVE  /\ Stamp(e.timestamp) \in Text /\ <<e.level>> \in Text
           /\ e.message \in Text /\ e.file \in Text /\ e.target \in Text
           /\ <<ToString(e.line)>> \in Text
<1>1. e.level \in Literals
    BY FormatAssumption DEF IsEntry, Literals
<1>2. ToString(e.line) \in Chunk
    BY DEF IsEntry, Numbers, Chunk
<1> QED BY <1>1, <1>2, LiteralChunks, TextTyped DEF IsEntry

(* Quoted names are texts.                                                  *)
LEMMA QuotedTyped ==
    /\ \A text \in Text : Quoted(text) \in Text
    /\ \A name \in Literals : Named(name) \in Text
<1>1. <<Quote>> \in Text /\ <<":">> \in Text
    BY LiteralChunks DEF Literals, Quote
<1>2. \A text \in Text : Quoted(text) \in Text
    BY <1>1, TextTyped DEF Quoted
<1> QED BY <1>1, <1>2, LiteralChunks, TextTyped DEF Named

(* A named member is a text.                                                *)
LEMMA AlsoTyped ==
    \A name \in Literals, text \in Text : Also(name, text) \in Text
<1>1. <<",">> \in Text
    BY LiteralChunks DEF Literals
<1> QED BY <1>1, QuotedTyped, TextTyped DEF Also

(* The members that follow the three that every record has.                 *)
LocationMembers(e) ==
    Also("file", push_string(e.file)) \o Also("line", <<ToString(e.line)>>)
      \o Also("target", push_string(e.target))
FieldMembers(fields) ==
    FlattenSeq([i \in 1..Len(fields) |-> FieldMember(fields[i])])

(* The members of a record are texts.                                       *)
LEMMA MembersTyped ==
    ASSUME NEW e, IsEntry(e)
    PROVE  LocationMembers(e) \in Text /\ FieldMembers(e.fields) \in Text
<1>1. "file" \in Literals /\ "line" \in Literals /\ "target" \in Literals
    BY DEF Literals
<1>3. push_string(e.file) \in Text /\ push_string(e.target) \in Text
    BY EntryTyped, PushStringTyped
<1>4. LocationMembers(e) \in Text
    BY <1>1, <1>3, AlsoTyped, EntryTyped, TextTyped DEF LocationMembers
<1>5. FieldMembers(e.fields) \in Text
    BY FieldMembersTyped DEF FieldMembers, IsEntry
<1> QED BY <1>4, <1>5

(* The beginnings of a line, by their length.                               *)
Long(n) == {s \in Text : Len(s) = n}

LEMMA LongerBy ==
    ASSUME NEW n \in Nat, NEW s \in Long(n), NEW t \in Long(1)
    PROVE  s \o t \in Long(n + 1)
BY ConcatProperties DEF Long, Text

(* How far a place is moved by a beginning.                                 *)
LEMMA MovedBy ==
    ASSUME NEW x, NEW n \in Nat, NEW s \in Long(n)
    PROVE  /\ \A t \in Long(4) : n = 1 => s \o t \in Long(5)
           /\ \A t \in Having(x, 1) : n = 1 => s \o t \in Having(x, 2)
           /\ \A t \in Having(x, 2) : n = 5 => s \o t \in Having(x, 7)
           /\ \A t \in Having(x, 2) : n = 1 => t \o s \in Having(x, 2)
<1>1. s \in Text /\ Len(s) = n
    BY DEF Long
<1>2. ASSUME NEW t \in Long(4), n = 1 PROVE s \o t \in Long(5)
    <2>1. s \in Seq(Chunk) /\ t \in Seq(Chunk) /\ Len(s) = 1 /\ Len(t) = 4
        BY <1>1, <1>2 DEF Long, Text
    <2>2. s \o t \in Seq(Chunk) /\ Len(s \o t) = Len(s) + Len(t)
        BY <2>1, ConcatProperties
    <2> QED BY <2>1, <2>2 DEF Long, Text
<1>3. ASSUME NEW t \in Having(x, 1), n = 1 PROVE s \o t \in Having(x, 2)
    <2>1. 2 = Len(s) + 1
        BY <1>1, <1>3
    <2> QED BY <1>1, <2>1, HavingAfter
<1>4. ASSUME NEW t \in Having(x, 2), n = 5 PROVE s \o t \in Having(x, 7)
    <2>1. 7 = Len(s) + 2
        BY <1>1, <1>4
    <2> QED BY <1>1, <2>1, HavingAfter
<1>5. ASSUME NEW t \in Having(x, 2) PROVE t \o s \in Having(x, 2)
    BY <1>1, StillHaving
<1> QED BY <1>2, <1>3, <1>4, <1>5

(* What follows six chunks is the seventh.                                  *)
LEMMA SeventhOf ==
    ASSUME NEW a \in Long(1), NEW b \in Long(1), NEW c \in Long(1), NEW d \in Long(1),
           NEW x, NEW s \in Having(x, 1)
    PROVE  (a \o (b \o c \o b \o d)) \o (b \o s \o b) \in Having(x, 7)
<1>1. b \o c \in Long(2)
    BY LongerBy
<1>2. b \o c \o b \in Long(3)
    BY <1>1, LongerBy
<1>3. b \o c \o b \o d \in Long(4)
    BY <1>2, LongerBy
<1>4. a \o (b \o c \o b \o d) \in Long(5)
    BY <1>3, MovedBy
<1>5. b \o s \in Having(x, 2)
    BY MovedBy
<1>6. b \o s \o b \in Having(x, 2)
    BY <1>5, MovedBy
<1> QED BY <1>4, <1>6, MovedBy

(* The seventh chunk of a JSON line is the timestamp.                       *)
LEMMA JsonNamesTime ==
    ASSUME NEW e, IsEntry(e), NEW include_location
    PROVE  write_record(e, include_location) \in Having(ToString(Display(e.timestamp)), 7)
<1> DEFINE x == ToString(Display(e.timestamp))
           H == Having(x, 7)
           head == <<"{">> \o Named("ts") \o Quoted(Stamp(e.timestamp))
           level == Also("level", Quoted(<<e.level>>))
           message == Also("msg", push_string(e.message))
           middle == IF include_location THEN LocationMembers(e) ELSE <<>>
           fields == FieldMembers(e.fields)
           end == <<"}", "\n">>
<1>1. /\ level \in Text /\ message \in Text /\ middle \in Text
      /\ fields \in Text /\ end \in Text
    <2>1. "level" \in Literals /\ "msg" \in Literals
        BY DEF Literals
    <2>2. level \in Text /\ message \in Text
        BY <2>1, AlsoTyped, EntryTyped, QuotedTyped, PushStringTyped
    <2>3. middle \in Text /\ fields \in Text
        BY MembersTyped, TextTyped
    <2>4. "}" \in Chunk /\ "\n" \in Chunk
        BY LiteralChunks DEF Literals
    <2>5. end \in Text
        BY <2>4, TextTyped
    <2> QED BY <2>2, <2>3, <2>5
<1>2. head \in H
    <2> DEFINE q == <<Quote>>
               stamp == Stamp(e.timestamp)
    <2>1. /\ q \in Text /\ <<"{">> \in Text /\ <<"ts">> \in Text /\ <<":">> \in Text
          /\ stamp \in Text
        BY EntryTyped, LiteralChunks DEF Literals, Quote
    <2>2. Len(q) = 1 /\ Len(<<"{">>) = 1 /\ Len(<<"ts">>) = 1 /\ Len(<<":">>) = 1
        OBVIOUS
    <2>3. 1 \in 1..Len(stamp) /\ stamp[1] = x
        BY DEF Stamp
    <2>4. head = (<<"{">> \o (q \o <<"ts">> \o q \o <<":">>)) \o (q \o stamp \o q)
        BY DEF Named, Quoted
    <2> HIDE DEF q, stamp, head, H, x
    <2>5. stamp \in Having(x, 1)
        BY <2>1, <2>3 DEF Having
    <2>6. /\ q \in Long(1) /\ <<"{">> \in Long(1) /\ <<"ts">> \in Long(1)
          /\ <<":">> \in Long(1)
        BY <2>1, <2>2 DEF Long
    <2> QED BY <2>4, <2>5, <2>6, SeventhOf DEF H
<1>3. write_record(e, include_location) =
        head \o level \o message \o middle \o fields \o end
    BY DEF write_record, LocationMembers, FieldMembers
<1> HIDE DEF H, head, level, message, middle, fields, end
<1>4. \A s \in H, t \in Text : s \o t \in H
    BY StillHaving DEF H
<1> QED BY <1>1, <1>2, <1>3, <1>4 DEF H

(* The first chunk of a text line is the timestamp.                         *)
LEMMA TextNamesTime ==
    ASSUME NEW e, IsEntry(e), NEW include_location
    PROVE  format_record(e, include_location) \in Having(ToString(Display(e.timestamp)), 1)
<1> DEFINE x == ToString(Display(e.timestamp))
           H == Having(x, 1)
           head == Stamp(e.timestamp)
           level == <<" [", e.level, "] ">>
           place == IF include_location /\ location(e) # <<>>
                    THEN <<" (">> \o location(e) \o <<")">> ELSE <<>>
           message == e.message
           end == <<"\n">>
<1>1. level \in Text /\ message \in Text /\ place \in Text /\ end \in Text
    <2>1. " [" \in Chunk /\ e.level \in Chunk /\ "] " \in Chunk
        BY LiteralChunks, FormatAssumption DEF Literals, IsEntry
    <2>2. level \in Text
        BY <2>1, TextTyped
    <2>3. <<" (">> \in Text /\ <<")">> \in Text /\ end \in Text
        BY LiteralChunks DEF Literals
    <2>4. ":" \in Chunk /\ ToString(e.line) \in Chunk /\ " @ " \in Chunk
        BY LiteralChunks DEF Literals, IsEntry, Numbers, Chunk
    <2>5. <<":", ToString(e.line), " @ ">> \in Text
        BY <2>4, TextTyped
    <2>6. location(e) \in Text
        BY <2>5, EntryTyped, TextTyped DEF location
    <2>7. place \in Text
        BY <2>3, <2>6, TextTyped
    <2> QED BY <2>2, <2>3, <2>7, EntryTyped
<1>2. head \in H
    <2>1. 1 \in 1..Len(head) /\ head[1] = x
        BY DEF Stamp
    <2> QED BY <2>1, EntryTyped DEF Having
<1>3. format_record(e, include_location) = head \o level \o message \o place \o end
    BY DEF format_record
<1> HIDE DEF H, head, level, message, place, end
<1>4. \A s \in H, t \in Text : s \o t \in H
    BY StillHaving DEF H
<1> QED BY <1>1, <1>2, <1>3, <1>4 DEF H

------------------------------------------------------------------------------
(* The record on its way.                                                   *)

(* The fields of a list of pairs, one by one.                               *)
LEMMA NewFieldsIs ==
    ASSUME NEW list \in Seq(Pairs)
    PROVE  /\ NewFields(list) \in Seq(Field)
           /\ Len(NewFields(list)) = Len(list)
           /\ \A i \in 1..Len(list) : NewFields(list)[i] = NewField(list[i])
<1>1. Len(list) \in Nat /\ \A i \in 1..Len(list) : NewField(list[i]) \in Field
    BY DEF Field
<1> QED BY <1>1 DEF NewFields

(* The fields of two lists one after the other.                             *)
LEMMA NewFieldsConcat ==
    ASSUME NEW a \in Seq(Pairs), NEW b \in Seq(Pairs)
    PROVE  NewFields(a \o b) = NewFields(a) \o NewFields(b)
<1>1. /\ a \o b \in Seq(Pairs) /\ Len(a \o b) = Len(a) + Len(b)
      /\ Len(a) \in Nat /\ Len(b) \in Nat
      /\ \A i \in 1..Len(a) + Len(b) : (a \o b)[i] = IF i <= Len(a) THEN a[i] ELSE b[i - Len(a)]
    BY ConcatProperties
<1>2. /\ NewFields(a) \in Seq(Field) /\ NewFields(b) \in Seq(Field)
      /\ NewFields(a \o b) \in Seq(Field)
      /\ Len(NewFields(a)) = Len(a) /\ Len(NewFields(b)) = Len(b)
      /\ Len(NewFields(a \o b)) = Len(a) + Len(b)
    BY <1>1, NewFieldsIs
<1> DEFINE s == NewFields(a) \o NewFields(b)
<1>3. /\ s \in Seq(Field) /\ Len(s) = Len(a) + Len(b)
      /\ \A i \in 1..Len(a) + Len(b) :
            s[i] = IF i <= Len(a) THEN NewFields(a)[i] ELSE NewFields(b)[i - Len(a)]
    BY <1>2, ConcatProperties
<1> HIDE DEF s
<1>4. ASSUME NEW i \in 1..Len(a) + Len(b) PROVE NewFields(a \o b)[i] = s[i]
    <2>1. NewFields(a \o b)[i] = NewField((a \o b)[i])
        BY <1>1, NewFieldsIs
    <2>2. CASE i <= Len(a)
        <3>1. i \in 1..Len(a)
            BY <1>1, <2>2
        <3>2. NewFields(a)[i] = NewField(a[i])
            BY <3>1, NewFieldsIs
        <3> QED BY <1>1, <1>3, <2>1, <2>2, <3>2
    <2>3. CASE ~(i <= Len(a))
        <3>1. i - Len(a) \in 1..Len(b)
            BY <1>1, <2>3
        <3>2. NewFields(b)[i - Len(a)] = NewField(b[i - Len(a)])
            BY <3>1, NewFieldsIs
        <3> QED BY <1>1, <1>3, <2>1, <2>3, <3>2
    <2> QED BY <2>2, <2>3
<1>5. NewFields(a \o b) = s
    BY <1>2, <1>3, <1>4, SeqEqual
<1> QED BY <1>5 DEF s

(* merge_context returns fields.                                            *)
LEMMA MergedTyped ==
    ASSUME NEW own \in Seq(Pairs), NEW list \in Seq(Pairs)
    PROVE  merge_context(NewFields(own), NewFields(list)) \in Seq(Field)
<1> DEFINE a == NewFields(own)
           b == NewFields(list)
<1>1. a \in Seq(Field) /\ b \in Seq(Field)
    BY NewFieldsIs
<1> HIDE DEF a, b
<1>2. Len(b) \in Nat /\ Len(b) \in 0..Len(b)
    BY <1>1
<1>3. merge_context(a, b) \in Seq(Field)
    BY <1>1, <1>2, AddSteps
<1> QED BY <1>3 DEF a, b

Moments == {NowAt(s.clock, s.offset) : s \in Stamps}
Entries ==
    [level : Levels \cup {""}, message : Strings, file : Strings,
     line : {l.line : l \in Locations} \cup {0}, target : Strings,
     fields : Seq(Field), timestamp : Moments \cup {NowAt(OneStamp.clock, 0)}]

(* What the record holds at each stage: the caller's fields alone until it  *)
(* is logged, then the context's too and the time of the call; then the     *)
(* line is its text.                                                        *)
Begun == stage # "idle" => entry.level \in Levels /\ entry.line \in {l.line : l \in Locations}
Unlogged == stage \in {"idle", "building"} => entry.fields = NewFields(given)
Logged ==
    stage \in {"queued", "written", "emergency"} =>
        /\ context \in Contexts
        /\ logged_at \in Stamps
        /\ entry.timestamp = NowAt(logged_at.clock, logged_at.offset)
        /\ entry.fields = merge_context(NewFields(given), NewFields(context))
Laid == Shaped => line = Formatted(entry, logger.json, HasLocation)

RecordInv ==
    /\ stage \in {"idle", "building", "queued", "written", "emergency"}
    /\ logger \in Loggers
    /\ given \in Seq(Pairs) /\ (stage = "idle" => given = <<>>)
    /\ entry \in Entries
    /\ Begun /\ Unlogged /\ Logged /\ Laid

(* The invariant holds of the record at first.                              *)
LEMMA RecordInit == Init => RecordInv
<1> SUFFICES ASSUME Init PROVE RecordInv
    OBVIOUS
<1>1. stage = "idle" /\ logger \in Loggers /\ given = <<>> /\ entry = NoEntry
    BY DEF Init
<1>2. <<>> \in Seq(Pairs) /\ <<>> \in Seq(Field) /\ <<>> \in Strings
    BY DEF Strings
<1>3. NewFields(<<>>) = <<>>
    <2>1. Len(<<>>) = 0 /\ Len(NewFields(<<>>)) = 0 /\ NewFields(<<>>) \in Seq(Field)
        BY <1>2, NewFieldsIs
    <2> QED BY <2>1
<1>4. entry \in Entries
    BY <1>1, <1>2 DEF NoEntry, Entries
<1>5. entry.fields = <<>>
    BY <1>1 DEF NoEntry
<1> QED BY <1>1, <1>2, <1>3, <1>4, <1>5 DEF RecordInv, Begun, Unlogged, Logged, Laid, Shaped

(* LogEntry::new keeps the invariant.                                       *)
LEMMA NewRecords ==
    ASSUME RecordInv, New
    PROVE  RecordInv'
<1>1. PICK level \in Levels, message \in Messages, l \in Locations :
          entry' = [level |-> level, message |-> message, file |-> l.file, line |-> l.line,
                    target |-> l.target, fields |-> <<>>,
                    timestamp |-> NowAt(OneStamp.clock, 0)]
    BY DEF New
<1>2. stage' = "building" /\ given = <<>> /\ UNCHANGED <<logger, given>>
    BY DEF New, RecordInv
<1>3. message \in Strings /\ l.file \in Strings /\ l.target \in Strings /\ <<>> \in Seq(Field)
    BY FormatAssumption
<1>4. entry' \in Entries
    BY <1>1, <1>3 DEF Entries
<1>5. entry.fields' = NewFields(given)'
    <2>1. <<>> \in Seq(Pairs) /\ Len(<<>>) = 0
        OBVIOUS
    <2>2. NewFields(<<>>) \in Seq(Field) /\ Len(NewFields(<<>>)) = 0
        BY <2>1, NewFieldsIs
    <2> QED BY <1>1, <1>2, <2>2
<1>6. entry'.level \in Levels /\ entry'.line \in {x.line : x \in Locations}
    BY <1>1
<1> QED BY <1>2, <1>4, <1>5, <1>6 DEF RecordInv, Begun, Unlogged, Logged, Laid, Shaped

(* field and with_fields keep it.                                           *)
LEMMA FieldsAdded ==
    ASSUME RecordInv, AddFields
    PROVE  RecordInv'
<1>1. PICK list \in GivenLists :
          given' = given \o list /\ entry' = [entry EXCEPT !.fields = @ \o NewFields(list)]
    BY DEF AddFields
<1>2. stage = "building" /\ UNCHANGED <<stage, logger>>
    BY DEF AddFields
<1>3. given \in Seq(Pairs) /\ list \in Seq(Pairs) /\ entry \in Entries
    BY FormatAssumption DEF RecordInv
<1>4. entry.fields = NewFields(given)
    BY <1>2 DEF RecordInv, Unlogged
<1>5. given \o list \in Seq(Pairs) /\ NewFields(given \o list) \in Seq(Field)
    BY <1>3, NewFieldsIs, ConcatProperties
<1>6. entry' = [entry EXCEPT !.fields = NewFields(given \o list)]
    BY <1>1, <1>3, <1>4, NewFieldsConcat DEF Entries
<1>7. entry' \in Entries
    BY <1>3, <1>5, <1>6 DEF Entries
<1>8. /\ entry'.fields = NewFields(given')
      /\ entry'.level = entry.level /\ entry'.line = entry.line
    BY <1>1, <1>3, <1>6 DEF Entries
<1> QED BY <1>1, <1>2, <1>5, <1>7, <1>8 DEF RecordInv, Begun, Unlogged, Logged, Laid, Shaped

(* The part of Logger::log that changes the record keeps it.                *)
LEMMA RecordLogged ==
    ASSUME RecordInv, Log
    PROVE  RecordInv'
<1>1. PICK s \in Stamps, c \in Contexts :
          /\ logged_at' = s
          /\ context' = c
          /\ entry' = [entry EXCEPT !.timestamp = NowAt(s.clock, s.offset),
                                    !.fields = merge_context(@, NewFields(c))]
    BY DEF Log
<1>2. stage = "building" /\ stage' = "queued" /\ UNCHANGED <<logger, given>>
    BY DEF Log
<1>3. given \in Seq(Pairs) /\ c \in Seq(Pairs) /\ entry \in Entries
    BY FormatAssumption DEF RecordInv
<1>4. entry.fields = NewFields(given)
    BY <1>2 DEF RecordInv, Unlogged
<1> DEFINE merged == merge_context(NewFields(given), NewFields(c))
           time == NowAt(s.clock, s.offset)
<1>5. merged \in Seq(Field) /\ time \in Moments
    BY <1>3, MergedTyped DEF Moments
<1>6. entry' = [entry EXCEPT !.timestamp = time, !.fields = merged]
    BY <1>1, <1>3, <1>4 DEF Entries
<1> HIDE DEF time
<1>7. /\ entry' \in Entries
      /\ entry'.fields = merged /\ entry'.timestamp = time
      /\ entry'.level = entry.level /\ entry'.line = entry.line
    <2> HIDE DEF merged
    <2> QED BY <1>3, <1>5, <1>6 DEF Entries
<1> QED BY <1>1, <1>2, <1>3, <1>7 DEF RecordInv, Begun, Unlogged, Logged, Laid, Shaped, time

(* Formatting keeps it.                                                     *)
LEMMA RecordWritten ==
    ASSUME RecordInv, Write \/ EmergencyWrite
    PROVE  RecordInv'
<1>1. /\ stage = "queued" /\ stage' \in {"written", "emergency"}
      /\ UNCHANGED <<entry, logger, given, context, logged_at>>
    BY DEF Write, EmergencyWrite
<1>2. logger.include_location \in BOOLEAN
    BY FormatAssumption DEF RecordInv
<1>3. Shaped' /\ line' = Formatted(entry, logger.json, HasLocation')
    BY <1>1, <1>2 DEF Write, EmergencyWrite, HasLocation, Shaped
<1> QED BY <1>1, <1>3 DEF RecordInv, Begun, Unlogged, Logged, Laid

(* Every step keeps it.                                                     *)
LEMMA RecordStep == RecordInv /\ [Next]_vars => RecordInv'
<1> SUFFICES ASSUME RecordInv, [Next]_vars PROVE RecordInv'
    OBVIOUS
<1>1. CASE New
    BY <1>1, NewRecords
<1>2. CASE AddFields
    BY <1>2, FieldsAdded
<1>3. CASE Log
    BY <1>3, RecordLogged
<1>4. CASE Write \/ EmergencyWrite
    BY <1>4, RecordWritten
<1>5. CASE Done \/ UNCHANGED vars
    BY <1>5 DEF Done, vars, RecordInv, Begun, Unlogged, Logged, Laid, Shaped, HasLocation
<1> QED BY <1>1, <1>2, <1>3, <1>4, <1>5 DEF Next

(* It holds throughout.                                                     *)
LEMMA RecordInvariant == Spec => []RecordInv
BY RecordInit, RecordStep, PTL DEF Spec

(* A record that is written is one that was logged.                         *)
LEMMA WrittenEntry ==
    ASSUME RecordInv, Shaped
    PROVE  IsEntry(entry)
<1>1. stage # "idle" /\ stage \in {"queued", "written", "emergency"}
    BY DEF Shaped
<1>2. entry \in Entries /\ Begun /\ Logged
    BY DEF RecordInv
<1>3. entry.timestamp \in Moments
    BY <1>1, <1>2 DEF Logged, Moments
<1> QED BY <1>1, <1>2, <1>3 DEF Begun, Entries, IsEntry, Moments

(* The text at the head of every line is a date of the calendar and the     *)
(* instant of the call, whatever clock and offset: a line that shows a date  *)
(* of a wrong year, or a time of another offset than it says, cannot be.    *)
THEOREM LinesNameInstants == Spec => []LineNamesInstant
<1>1. RecordInv => LineNamesInstant
    <2> SUFFICES ASSUME RecordInv, Shaped PROVE LineNamesInstant
        BY DEF LineNamesInstant
    <2> DEFINE text == Display(entry.timestamp)
               i == IF logger.json THEN 7 ELSE 1
    <2>1. IsEntry(entry)
        BY WrittenEntry
    <2>2. line = Formatted(entry, logger.json, HasLocation)
        BY DEF RecordInv, Laid
    <2>3. line \in Having(ToString(text), i)
        <3>1. CASE logger.json
            BY <2>1, <2>2, <3>1, JsonNamesTime DEF Formatted
        <3>2. CASE ~logger.json
            BY <2>1, <2>2, <3>2, TextNamesTime DEF Formatted
        <3> QED BY <3>1, <3>2
    <2>4. line[i] = ToString(text)
        BY <2>3 DEF Having
    <2>5. logged_at \in Stamps /\ entry.timestamp = NowAt(logged_at.clock, logged_at.offset)
        BY DEF RecordInv, Logged, Shaped
    <2>6. /\ logged_at.clock.before \in BOOLEAN /\ logged_at.offset \in Int
          /\ logged_at.clock.day \in Nat /\ logged_at.clock.second \in Nat
          /\ logged_at.clock.micro \in Nat
        BY <2>5, FormatAssumption
    <2> QED BY <2>4, <2>5, <2>6, DisplayedInstant DEF LineNamesInstant
<1> QED BY <1>1, RecordInvariant, PTL

------------------------------------------------------------------------------
(* What a reader makes of each piece.                                       *)

(* A sequence of two is a pair.                                             *)
LEMMA TwoIs == ASSUME NEW C, NEW s \in Seq(C), Len(s) = 2 PROVE s = <<s[1], s[2]>>
OBVIOUS

(* One chunk after another is a pair.                                       *)
LEMMA PairIs ==
    ASSUME NEW C, NEW a \in C, NEW b \in C
    PROVE  Append(<<a>>, b) = <<a, b>>
<1> DEFINE s == Append(<<a>>, b)
<1>1. <<a>> \in Seq(C) /\ Len(<<a>>) = 1 /\ <<a>>[1] = a
    OBVIOUS
<1>2. s \in Seq(C) /\ Len(s) = 2 /\ s[1] = a /\ s[2] = b
    BY <1>1, AppendProperties
<1> QED BY <1>2, TwoIs

(* Reading leaves the reader in a state.                                    *)
LEMMA AfterTyped ==
    ASSUME NEW state \in State, NEW chunks \in Text
    PROVE  After(state, <<>>) = state /\ After(state, chunks) \in State
<1>1. "n" \in Chunk
    BY DEF Chunk, Literals
<1> QED BY <1>1, AfterAppend

(* Reading two pieces is reading the one, then the other.                   *)
LEMMA AfterConcat ==
    ASSUME NEW state \in State, NEW a \in Text, NEW b \in Text
    PROVE  After(state, a \o b) = After(After(state, a), b)
<1> DEFINE s == a \o b
           k == Len(a)
           n == Len(b)
           mid == After(state, a)
<1>1. /\ s \in Text /\ k \in Nat /\ n \in Nat /\ Len(s) = k + n
      /\ \A i \in 1..k : s[i] = a[i]
      /\ \A i \in 1..n : s[k + i] = b[i]
    BY ConcatProperties DEF Text
<1>2. mid \in State
    BY AfterTyped
<1> HIDE DEF s, mid
<1>3. PICK u : /\ u[0] = state
               /\ \A j \in 1..k : u[j] = ReadChunk(u[j - 1], a[j])
               /\ mid = u[k]
    BY ReadSteps DEF mid
<1>4. PICK w : /\ w[0] = mid
               /\ \A j \in 1..n : w[j] = ReadChunk(w[j - 1], b[j])
               /\ After(mid, b) = w[n]
    BY <1>2, ReadSteps
<1>10. s \in Text
    BY <1>1
<1> HIDE DEF k, n
<1>5. PICK m : /\ m[0] = state
               /\ \A j \in 1..Len(s) : m[j] = ReadChunk(m[j - 1], s[j])
               /\ After(state, s) = m[Len(s)]
    BY <1>10, ReadSteps
<1> DEFINE P == {j \in Nat : m[j] = u[j]}
           Q == {j \in Nat : m[k + j] = w[j]}
<1>6. \A j \in 0..k : j \in P
    <2>1. 0 \in P
        BY <1>3, <1>5
    <2>2. ASSUME NEW j \in 1..k, j - 1 \in P PROVE j \in P
        <3>1. j \in 1..k + n /\ j \in Nat
            BY <1>1
        <3> QED BY <1>1, <1>3, <1>5, <2>2, <3>1
    <2> HIDE DEF P
    <2> QED BY <1>1, <2>1, <2>2, UpToInduction
<1>7. m[k] = mid
    BY <1>1, <1>3, <1>6
<1>8. \A j \in 0..n : j \in Q
    <2>1. 0 \in Q
        BY <1>1, <1>4, <1>7
    <2>2. ASSUME NEW j \in 1..n, j - 1 \in Q PROVE j \in Q
        <3>1. k + j \in 1..k + n /\ k + j - 1 = k + (j - 1) /\ j \in Nat
            BY <1>1
        <3>2. m[k + j] = ReadChunk(m[k + j - 1], s[k + j])
            BY <1>1, <1>5, <3>1
        <3> QED BY <1>1, <1>4, <2>2, <3>1, <3>2
    <2> HIDE DEF Q
    <2> QED BY <1>1, <2>1, <2>2, UpToInduction
<1>9. m[k + n] = w[n]
    BY <1>1, <1>8
<1> QED BY <1>1, <1>4, <1>5, <1>9 DEF s, mid

(* Reading a single chunk is one step.                                      *)
LEMMA AfterOne ==
    ASSUME NEW state \in State, NEW ch \in Chunk
    PROVE  After(state, <<ch>>) = ReadChunk(state, ch)
<1>1. <<>> \in Text /\ Append(<<>>, ch) = <<ch>>
    BY TextTyped
<1>2. After(state, Append(<<>>, ch)) = ReadChunk(After(state, <<>>), ch)
    BY <1>1, AfterAppend
<1>3. After(state, <<>>) = state
    BY <1>1, AfterTyped
<1> QED BY <1>1, <1>2, <1>3

(* Between two strings a reader has read these tokens more.                 *)
Says(chunks, tokens) ==
    \A state \in State : state.mode = "outside" =>
        LET then == After(state, chunks)
        IN  then.mode = "outside" /\ then.tokens = state.tokens \o tokens

(* Two pieces say what the one says, then what the other says.              *)
LEMMA SaysConcat ==
    ASSUME NEW a \in Text, NEW b \in Text, NEW s \in Tokens, NEW t \in Tokens,
           Says(a, s), Says(b, t)
    PROVE  a \o b \in Text /\ s \o t \in Tokens /\ Says(a \o b, s \o t)
<1>1. a \o b \in Text
    BY TextTyped
<1>2. s \o t \in Tokens
    BY ConcatProperties DEF Tokens
<1>3. ASSUME NEW state \in State, state.mode = "outside"
      PROVE  /\ After(state, a \o b).mode = "outside"
             /\ After(state, a \o b).tokens = state.tokens \o (s \o t)
    <2> DEFINE mid == After(state, a)
    <2>1. mid \in State /\ mid.mode = "outside" /\ mid.tokens = state.tokens \o s
        BY <1>3, AfterTyped DEF Says
    <2>2. After(state, a \o b) = After(mid, b)
        BY AfterConcat
    <2> HIDE DEF mid
    <2>3. /\ After(mid, b).mode = "outside"
          /\ After(mid, b).tokens = (state.tokens \o s) \o t
        BY <2>1 DEF Says
    <2>4. state.tokens \in Tokens
        BY DEF State
    <2>5. \A r \in Tokens : (r \o s) \o t = r \o (s \o t)
        BY ConcatAssociative DEF Tokens
    <2> QED BY <2>2, <2>3, <2>4, <2>5
<1> QED BY <1>1, <1>2, <1>3 DEF Says

(* No text says nothing.                                                    *)
LEMMA SaysNothing == <<>> \in Tokens /\ Says(<<>>, <<>>)
<1>1. <<>> \in Text /\ <<>> \in Tokens
    BY TextTyped DEF Tokens
<1>2. ASSUME NEW state \in State
      PROVE  After(state, <<>>) = state /\ state.tokens \o <<>> = state.tokens
    <2>1. state.tokens \in Tokens
        BY DEF State
    <2> QED BY <1>1, <2>1, AfterTyped, ConcatEmptySeq DEF Tokens
<1> QED BY <1>1, <1>2 DEF Says

(* A chunk that is no quote says itself.                                    *)
LEMMA SaysBare ==
    ASSUME NEW ch \in Chunk, ch # Quote
    PROVE  <<Bare(ch)>> \in Tokens /\ Says(<<ch>>, <<Bare(ch)>>)
<1>1. <<ch>> \in Text /\ Bare(ch) \in TokenSet
    BY TextTyped, TokenTyped DEF Bare, Token
<1>2. <<Bare(ch)>> \in Tokens
    BY <1>1 DEF Tokens
<1>3. ASSUME NEW state \in State, state.mode = "outside"
      PROVE  /\ After(state, <<ch>>).mode = "outside"
             /\ After(state, <<ch>>).tokens = state.tokens \o <<Bare(ch)>>
    <2>1. After(state, <<ch>>) = [state EXCEPT !.tokens = Append(@, Bare(ch))]
        BY <1>3, AfterOne DEF ReadChunk, Bare
    <2>2. state.tokens \in Tokens
        BY DEF State
    <2>3. Append(state.tokens, Bare(ch)) = state.tokens \o <<Bare(ch)>>
        BY <1>1, <2>2, AppendIsConcat DEF Tokens
    <2> QED BY <1>3, <2>1, <2>3 DEF State
<1> QED BY <1>2, <1>3 DEF Says

(* What Escaped makes of a chunk, a reader in a string makes that chunk of. *)
LEMMA SaysEscaped ==
    ASSUME NEW state \in State, state.mode = "string", NEW ch \in Chunk
    PROVE  After(state, Escaped(ch)) = [state EXCEPT !.text = Append(@, ch)]
<1>1. CASE ch \in DOMAIN Escapes
    <2>1. ch \in {"\"", "\\", "\n", "\r", "\t", "backspace", "formfeed", "bell"}
        BY <1>1 DEF Escapes
    <2> DEFINE e == Escapes[ch]
    <2>2. e \in {"\"", "\\", "n", "r", "t", "b", "f", "u0007"} /\ Meaning[e] = ch
        BY <2>1 DEF Escapes, Meaning
    <2>3. e \in DOMAIN Meaning
        BY <2>2 DEF Meaning
    <2>4. e \in Chunk /\ Backslash \in Chunk
        <3>1. e \in Literals /\ Backslash \in Literals
            BY <2>2 DEF Literals, Backslash
        <3> QED BY <3>1, LiteralChunks
    <2>5. Escaped(ch) = <<Backslash, e>>
        BY <1>1 DEF Escaped
    <2> HIDE DEF e
    <2> DEFINE mid == [state EXCEPT !.mode = "escape"]
    <2>6. Backslash # Quote
        BY DEF Backslash, Quote
    <2>7. ReadChunk(state, Backslash) = mid
        BY <2>6 DEF ReadChunk
    <2> DEFINE slash == <<Backslash>>
    <2>8. slash \in Text /\ Append(slash, e) = <<Backslash, e>> /\ After(state, slash) = mid
        BY <2>4, <2>7, TextTyped, PairIs, AfterOne
    <2> HIDE DEF slash
    <2>9. After(state, Append(slash, e)) = ReadChunk(After(state, slash), e)
        BY <2>4, <2>8, AfterAppend
    <2>13. After(state, Escaped(ch)) = ReadChunk(mid, e)
        BY <2>5, <2>8, <2>9
    <2>10. mid.mode = "escape" /\ mid.text = state.text
        BY DEF State
    <2>11. ReadChunk(mid, e) = [mid EXCEPT !.mode = "string", !.text = Append(@, ch)]
        BY <2>2, <2>3, <2>10 DEF ReadChunk
    <2>12. [mid EXCEPT !.mode = "string", !.text = Append(@, ch)]
             = [state EXCEPT !.text = Append(@, ch)]
        BY DEF State
    <2> QED BY <2>11, <2>12, <2>13
<1>2. CASE ch \notin DOMAIN Escapes
    <2>1. ch \notin Controls \cup {Quote, Backslash}
        BY <1>2 DEF Escapes, Controls, Quote, Backslash
    <2>2. ReadChunk(state, ch) = [state EXCEPT !.text = Append(@, ch)]
        BY <2>1 DEF ReadChunk
    <2> QED BY <1>2, <2>2, AfterOne DEF Escaped
<1> QED BY <1>1, <1>2

(* Inside a string a reader gets back the chunks that were escaped.         *)
LEMMA BodyReads ==
    ASSUME NEW state \in State, state.mode = "string", state.text = <<>>, NEW text \in Text
    PROVE  LET body == FlattenSeq([i \in 1..Len(text) |-> Escaped(text[i])])
           IN  body \in Text /\ After(state, body) = [state EXCEPT !.text = text]
<1> DEFINE n == Len(text)
           pieces == [i \in 1..n |-> Escaped(text[i])]
           body == FlattenSeq(pieces)
<1>1. n \in Nat /\ (\A i \in 1..n : text[i] \in Chunk) /\ Len(pieces) = n
    BY DEF Text
<1>2. \A i \in 1..n : pieces[i] = Escaped(text[i]) /\ pieces[i] \in Text
    BY <1>1, EscapedTyped
<1>3. pieces \in Seq(Text)
    BY <1>1, <1>2
<1> HIDE DEF pieces
<1> HIDE DEF n
<1>4. PICK m : /\ m[0] = <<>>
               /\ \A k \in 1..n : m[k] = m[k - 1] \o pieces[k]
               /\ \A k \in 0..n : m[k] \in Text
               /\ body = m[n]
    <2>1. PICK m : /\ m[0] = <<>>
                   /\ \A k \in 1..Len(pieces) : m[k] = m[k - 1] \o pieces[k]
                   /\ \A k \in 0..Len(pieces) : m[k] \in Text
                   /\ body = m[Len(pieces)]
        BY <1>3, FlattenSteps DEF Text
    <2> QED BY <1>1, <2>1
<1> HIDE DEF body
(* the first k chunks, once the reader has read the escapes of k of them    *)
<1> DEFINE Got(k) == /\ After(state, m[k]) = [state EXCEPT !.text = After(state, m[k]).text]
                     /\ After(state, m[k]).text \in Text
                     /\ Len(After(state, m[k]).text) = k
                     /\ \A i \in 1..k : After(state, m[k]).text[i] = text[i]
           P == {k \in Nat : Got(k)}
<1>5. 0 \in P
    <2>1. After(state, m[0]) = state
        BY <1>4, TextTyped, AfterTyped
    <2>2. state = [state EXCEPT !.text = state.text] /\ state.text \in Text /\ Len(state.text) = 0
        BY DEF State
    <2> QED BY <2>1, <2>2
<1>6. ASSUME NEW k \in 1..n, k - 1 \in P PROVE k \in P
    <2> DEFINE old == After(state, m[k - 1])
               new == After(state, m[k])
    <2>1. /\ k \in Nat /\ k - 1 \in Nat /\ text[k] \in Chunk
          /\ m[k - 1] \in Text /\ pieces[k] \in Text
          /\ m[k] = m[k - 1] \o pieces[k] /\ pieces[k] = Escaped(text[k])
        <3>1. k \in Nat /\ k - 1 \in Nat /\ k - 1 \in 0..n /\ k \in 1..n
            BY <1>1
        <3> QED BY <1>1, <1>2, <1>4, <3>1
    <2>2. /\ old = [state EXCEPT !.text = old.text] /\ old.text \in Text
          /\ Len(old.text) = k - 1 /\ \A i \in 1..k - 1 : old.text[i] = text[i]
        BY <1>6
    <2>3. old \in State
        BY <2>1, AfterTyped
    <2>4. new = After(old, Escaped(text[k]))
        BY <2>1, AfterConcat
    <2> HIDE DEF old, new, P
    <2>5. old.mode = "string" /\ new = [old EXCEPT !.text = Append(@, text[k])]
        <3>1. old.mode = "string"
            BY <2>2 DEF State
        <3> QED BY <2>1, <2>3, <2>4, <3>1, SaysEscaped
    <2>6. new.text = Append(old.text, text[k])
        BY <2>3, <2>5 DEF State
    <2>7. new = [state EXCEPT !.text = new.text]
        BY <2>2, <2>3, <2>5, <2>6 DEF State
    <2>8. /\ new.text \in Text /\ Len(new.text) = k
          /\ \A i \in 1..k - 1 : new.text[i] = old.text[i]
          /\ new.text[k] = text[k]
        <3> DEFINE t == old.text
                   c == text[k]
        <3>1. t \in Seq(Chunk) /\ Len(t) = k - 1 /\ c \in Chunk
            BY <2>1, <2>2 DEF Text
        <3> HIDE DEF t, c
        <3>2. /\ Append(t, c) \in Seq(Chunk) /\ Len(Append(t, c)) = k
              /\ \A i \in 1..k - 1 : Append(t, c)[i] = t[i]
              /\ Append(t, c)[k] = c
            BY <2>1, <3>1, AppendProperties
        <3> QED BY <2>6, <3>2 DEF t, c, Text
    <2>9. \A i \in 1..k : new.text[i] = text[i]
        BY <2>1, <2>2, <2>8
    <2>10. Got(k)
        BY <2>7, <2>8, <2>9 DEF new
    <2> QED BY <2>1, <2>10 DEF P
<1> HIDE DEF P
<1>7. \A k \in 0..n : k \in P
    BY <1>1, <1>5, <1>6, UpToInduction
<1>8. Got(n)
    <2>1. n \in P
        BY <1>1, <1>7
    <2> QED BY <2>1 DEF P
<1>9. After(state, body).text = text
    BY <1>1, <1>4, <1>8, SeqEqual DEF Text, n
<1>10. body \in Text
    BY <1>1, <1>4
<1> QED BY <1>4, <1>8, <1>9, <1>10 DEF body, pieces, n

(* push_string says the string it was given.                                *)
LEMMA SaysString ==
    ASSUME NEW text \in Text
    PROVE  /\ <<Token("string", text)>> \in Tokens
           /\ Says(push_string(text), <<Token("string", text)>>)
<1> DEFINE body == FlattenSeq([i \in 1..Len(text) |-> Escaped(text[i])])
           q == <<Quote>>
           token == Token("string", text)
<1>1. token \in TokenSet /\ <<token>> \in Tokens
    BY TokenTyped DEF Tokens
<1>2. Quote \in Chunk /\ q \in Text
    BY LiteralChunks DEF Literals, Quote
<1>3. "string" # "outside"
    OBVIOUS
<1>4. ASSUME NEW state \in State, state.mode = "outside"
      PROVE  /\ After(state, push_string(text)).mode = "outside"
             /\ After(state, push_string(text)).tokens = state.tokens \o <<token>>
    <2> DEFINE opened == [state EXCEPT !.mode = "string", !.text = <<>>]
               full == [opened EXCEPT !.text = text]
    <2>1. After(state, q) = opened
        BY <1>2, <1>4, AfterOne DEF ReadChunk
    <2>2. opened \in State /\ opened.mode = "string" /\ opened.text = <<>>
        BY TextTyped DEF State
    <2>3. body \in Text /\ After(opened, body) = full
        BY <2>2, BodyReads
    <2>4. full.mode = "string" /\ full.text = text /\ full.tokens = state.tokens /\ full \in State
        BY DEF State
    <2>5. After(full, q) = ReadChunk(full, Quote)
        BY <1>2, <2>4, AfterOne
    <2> HIDE DEF full
    <2>6. ReadChunk(full, Quote)
            = [full EXCEPT !.mode = "outside", !.tokens = Append(@, Token("string", full.text))]
        <3>1. ~(full.mode = "outside")
            BY <1>3, <2>4
        <3>2. Quote # Backslash
            BY DEF Quote, Backslash
        <3>3. full.mode = "string"
            BY <2>4
        <3> QED BY <3>1, <3>2, <3>3 DEF ReadChunk
    <2>7. After(state, q \o body) = full
        BY <1>2, <2>1, <2>3, AfterConcat
    <2>8. After(state, q \o body \o q) = After(full, q)
        <3>1. q \o body \in Text
            BY <1>2, <2>3, TextTyped
        <3> HIDE DEF body, q
        <3> QED BY <1>2, <2>7, <3>1, AfterConcat
    <2>9. Append(state.tokens, token) = state.tokens \o <<token>>
        <3>1. state.tokens \in Tokens
            BY DEF State
        <3> QED BY <1>1, <3>1, AppendIsConcat DEF Tokens
    <2>10. push_string(text) = q \o body \o q
        BY DEF push_string
    <2> HIDE DEF body, q, token
    <2>11. After(state, push_string(text))
             = [full EXCEPT !.mode = "outside", !.tokens = Append(@, token)]
        BY <2>4, <2>5, <2>6, <2>8, <2>10 DEF token
    <2> QED BY <2>4, <2>9, <2>11 DEF State
<1> QED BY <1>1, <1>4 DEF Says

(* What the reader should find for a value, type by type.                   *)
LEMMA ShownIs ==
    ASSUME NEW v, IsValue(v)
    PROVE  /\ v.type \in StringTypes => Shown(v) = Token("string", v.text)
           /\ v.type \in SmallIntTypes => Shown(v) = Bare(ToString(v.int))
           /\ v.type = "u64" => Shown(v) = IF v.int <= I64_MAX THEN Bare(ToString(v.int))
                                           ELSE Token("string", <<ToString(v.int)>>)
           /\ v.type = "usize" => Shown(v) = Bare(ToString(AsI64(v.int)))
           /\ v.type \in {"f32", "f64"} => Shown(v) = IF v.text \in NotFinite THEN Bare("null")
                                                      ELSE Token("bare", v.text)
           /\ v.type = "bool" => Shown(v) = Token("bare", v.text)
           /\ v.type = "FieldValue::Null" => Shown(v) = Bare("null")
<1>1. v.int \in Int /\ I64_MAX \in Nat
    BY FormatAssumption DEF IsValue
<1>2. v.type \in SmallIntTypes => v.int <= I64_MAX
    BY <1>1 DEF IsValue, SmallIntTypes, StringTypes
<1>3. v.type \in StringTypes => Shown(v) = Token("string", v.text)
    BY DEF Shown, StringTypes, SmallIntTypes
<1>4. v.type \in SmallIntTypes => Shown(v) = Bare(ToString(v.int))
    BY <1>2 DEF Shown, StringTypes, SmallIntTypes
<1>5. v.type = "u64" => Shown(v) = IF v.int <= I64_MAX THEN Bare(ToString(v.int))
                                   ELSE Token("string", <<ToString(v.int)>>)
    <2>1. v.int <= I64_MAX <=> ~(v.int > I64_MAX)
        BY <1>1
    <2> QED BY <2>1 DEF Shown, StringTypes, SmallIntTypes
<1>6. v.type = "usize" => Shown(v) = Bare(ToString(AsI64(v.int)))
    <2>1. v.int <= I64_MAX <=> ~(v.int > I64_MAX)
        BY <1>1
    <2>2. v.int > I64_MAX => AsI64(v.int) = v.int - 2 * I64_MAX - 2
        BY <1>1 DEF AsI64
    <2>3. v.int <= I64_MAX => AsI64(v.int) = v.int
        BY <2>1 DEF AsI64
    <2>4. v.type = "usize" => Shown(v) = IF v.int <= I64_MAX THEN Bare(ToString(v.int))
                                         ELSE Bare(ToString(v.int - 2 * I64_MAX - 2))
        BY <2>1 DEF Shown, StringTypes, SmallIntTypes
    <2> QED BY <2>1, <2>2, <2>3, <2>4
<1>7. v.type \in {"f32", "f64"} => Shown(v) = IF v.text \in NotFinite THEN Bare("null")
                                              ELSE Token("bare", v.text)
    BY DEF Shown, StringTypes, SmallIntTypes
<1>8. v.type = "bool" => Shown(v) = Token("bare", v.text)
    BY DEF Shown, StringTypes, SmallIntTypes
<1>9. v.type = "FieldValue::Null" => Shown(v) = Bare("null")
    BY DEF Shown, StringTypes, SmallIntTypes
<1> QED BY <1>3, <1>4, <1>5, <1>6, <1>7, <1>8, <1>9

(* push_value says what is shown for the value that was given.              *)
LEMMA SaysValue ==
    ASSUME NEW g \in Pairs
    PROVE  /\ Shown(g.value) \in TokenSet /\ Shown(g.value) # Bare(":")
           /\ Says(push_value(Into(g.value)), <<Shown(g.value)>>)
<1> DEFINE v == g.value
           Right(chunks, token) ==
               token \in TokenSet /\ token # Bare(":") /\ Says(chunks, <<token>>)
<1>1. IsValue(v)
    BY FormatAssumption
<1>2. \A text \in Text : Right(push_string(text), Token("string", text))
    <2>1. "string" # "bare"
        OBVIOUS
    <2> QED BY <2>1, SaysString, TokenTyped DEF Token, Bare
<1>3. \A ch \in Chunk : Plainly(ch) => Right(<<ch>>, Bare(ch))
    <2> SUFFICES ASSUME NEW ch \in Chunk, Plainly(ch) PROVE Right(<<ch>>, Bare(ch))
        OBVIOUS
    <2>1. ch # Quote /\ ch # ":"
        BY DEF Plainly, Escapes, Quote
    <2>2. Bare(ch) # Bare(":")
        <3>1. Bare(ch).text[1] = ch /\ Bare(":").text[1] = ":"
            BY DEF Bare, Token
        <3> QED BY <2>1, <3>1
    <2>3. Bare(ch) \in TokenSet
        BY TextTyped, TokenTyped DEF Bare
    <2> QED BY <2>1, <2>2, <2>3, SaysBare
<1>4. /\ ToString(v.int) \in Chunk /\ ToString(AsI64(v.int)) \in Chunk
      /\ Plainly(ToString(v.int)) /\ Plainly(ToString(AsI64(v.int)))
      /\ v.text \in Text
    <2>1. v.int \in Numbers /\ AsI64(v.int) \in Numbers
        BY DEF Numbers
    <2> QED BY <1>1, <2>1, TextTyped DEF Chunk, IsValue
<1>5. Right(<<"null">>, Bare("null")) /\ Right(<<"true">>, Bare("true")) /\ Right(<<"false">>, Bare("false"))
    <2>1. "null" \in Chunk /\ "true" \in Chunk /\ "false" \in Chunk
        BY DEF Chunk, Literals
    <2>2. Plainly("null") /\ Plainly("true") /\ Plainly("false")
        BY DEF Plainly, Escapes
    <2> HIDE DEF Right
    <2> QED BY <1>3, <2>1, <2>2
<1>6. <<ToString(v.int)>> \in Text
    BY <1>4, TextTyped
<1> HIDE DEF v, Right
<1> SUFFICES Right(push_value(Into(v)), Shown(v))
    BY DEF Right, v
<1>7. CASE v.type \in StringTypes
    BY <1>1, <1>2, <1>4, <1>7, IntoIs, PushValueIs, ShownIs
<1>8. CASE v.type = "bool"
    <2>1. v.text \in {<<"true">>, <<"false">>}
        BY <1>1, <1>8 DEF IsValue, StringTypes, SmallIntTypes
    <2>2. push_value(Into(v)) = v.text /\ Shown(v) = Token("bare", v.text)
        BY <1>1, <1>8, IntoIs, PushValueIs, ShownIs
    <2> QED BY <1>5, <2>1, <2>2 DEF Bare
<1>9. CASE v.type \in SmallIntTypes
    BY <1>1, <1>3, <1>4, <1>9, IntoIs, PushValueIs, ShownIs
<1>10. CASE v.type = "u64"
    <2>1. CASE v.int <= I64_MAX
        BY <1>1, <1>3, <1>4, <1>10, <2>1, IntoIs, PushValueIs, ShownIs
    <2>2. CASE ~(v.int <= I64_MAX)
        BY <1>1, <1>2, <1>6, <1>10, <2>2, IntoIs, PushValueIs, ShownIs
    <2> QED BY <2>1, <2>2
<1>11. CASE v.type = "usize"
    BY <1>1, <1>3, <1>4, <1>11, IntoIs, PushValueIs, ShownIs
<1>12. CASE v.type \in {"f32", "f64"}
    <2>1. Into(v) = AsFloat(v.text)
        BY <1>12, IntoIs
    <2>2. CASE v.text \in NotFinite
        BY <1>1, <1>5, <1>12, <2>1, <2>2, PushValueIs, ShownIs
    <2>3. CASE v.text \notin NotFinite
        <3>1. Len(v.text) = 1 /\ Plainly(v.text[1])
            BY <1>1, <1>12 DEF IsValue, StringTypes, SmallIntTypes
        <3>2. v.text[1] \in Chunk /\ v.text = <<v.text[1]>>
            BY <1>4, <3>1 DEF Text
        <3>3. Right(v.text, Bare(v.text[1])) /\ Bare(v.text[1]) = Token("bare", v.text)
            BY <1>3, <3>1, <3>2 DEF Bare
        <3> QED BY <1>1, <1>12, <2>1, <2>3, <3>3, PushValueIs, ShownIs
    <2> QED BY <2>2, <2>3
<1>13. CASE v.type = "FieldValue::Null"
    BY <1>1, <1>5, <1>13, IntoIs, PushValueIs, ShownIs
<1> QED BY <1>1, <1>7, <1>8, <1>9, <1>10, <1>11, <1>12, <1>13 DEF IsValue

(* Sequences of pieces.                                                     *)
LEMMA SaysFlatten ==
    ASSUME NEW n \in Nat, NEW a \in Seq(Text), NEW t \in Seq(Tokens), Len(a) = n, Len(t) = n,
           \A i \in 1..n : Says(a[i], t[i])
    PROVE  FlattenSeq(t) \in Tokens /\ Says(FlattenSeq(a), FlattenSeq(t))
<1>1. PICK u : /\ u[0] = <<>>
               /\ \A k \in 1..n : u[k] = u[k - 1] \o a[k]
               /\ \A k \in 0..n : u[k] \in Text
               /\ FlattenSeq(a) = u[n]
    <2>1. PICK u : /\ u[0] = <<>>
                   /\ \A k \in 1..Len(a) : u[k] = u[k - 1] \o a[k]
                   /\ \A k \in 0..Len(a) : u[k] \in Text
                   /\ FlattenSeq(a) = u[Len(a)]
        BY FlattenSteps DEF Text
    <2> QED BY <2>1
<1>2. PICK w : /\ w[0] = <<>>
               /\ \A k \in 1..n : w[k] = w[k - 1] \o t[k]
               /\ \A k \in 0..n : w[k] \in Tokens
               /\ FlattenSeq(t) = w[n]
    <2>1. PICK w : /\ w[0] = <<>>
                   /\ \A k \in 1..Len(t) : w[k] = w[k - 1] \o t[k]
                   /\ \A k \in 0..Len(t) : w[k] \in Tokens
                   /\ FlattenSeq(t) = w[Len(t)]
        BY FlattenSteps DEF Tokens
    <2> QED BY <2>1
<1> DEFINE P == {k \in Nat : Says(u[k], w[k])}
<1>3. 0 \in P
    BY <1>1, <1>2, SaysNothing
<1>4. ASSUME NEW k \in 1..n, k - 1 \in P PROVE k \in P
    <2>1. k - 1 \in 0..n /\ k \in Nat /\ a[k] \in Text /\ t[k] \in Tokens
        OBVIOUS
    <2>2. Says(u[k - 1] \o a[k], w[k - 1] \o t[k])
        BY <1>1, <1>2, <1>4, <2>1, SaysConcat
    <2> QED BY <1>1, <1>2, <2>1, <2>2
<1> HIDE DEF P
<1>5. \A k \in 0..n : k \in P
    BY <1>3, <1>4, UpToInduction
<1>6. Says(u[n], w[n])
    BY <1>5 DEF P
<1> QED BY <1>1, <1>2, <1>6

(* The members of an object.                                                *)
LEMMA FourLong ==
    ASSUME NEW C, NEW s \in Seq(C), Len(s) = 4
    PROVE  s = <<s[1], s[2], s[3], s[4]>>
OBVIOUS

(* Four in a row, however they are put together.                            *)
LEMMA FourOf ==
    ASSUME NEW C, NEW a \in C, NEW b \in C, NEW c \in C, NEW d \in C
    PROVE  /\ <<a>> \o (<<b>> \o <<c>>) \o <<d>> = <<a, b, c, d>>
           /\ <<a>> \o <<b>> \o <<c>> \o <<d>> = <<a, b, c, d>>
<1> DEFINE A == <<a>>
           B == <<b>>
           X == <<c>>
           D == <<d>>
<1>1. /\ A \in Seq(C) /\ Len(A) = 1 /\ A[1] = a
      /\ B \in Seq(C) /\ Len(B) = 1 /\ B[1] = b
      /\ X \in Seq(C) /\ Len(X) = 1 /\ X[1] = c
      /\ D \in Seq(C) /\ Len(D) = 1 /\ D[1] = d
    OBVIOUS
<1> HIDE DEF A, B, X, D
<1>2. /\ B \o X \in Seq(C) /\ Len(B \o X) = 2 /\ (B \o X)[1] = b /\ (B \o X)[2] = c
      /\ A \o B \in Seq(C) /\ Len(A \o B) = 2 /\ (A \o B)[1] = a /\ (A \o B)[2] = b
    BY <1>1, ConcatProperties
<1> DEFINE S == A \o (B \o X)
           T == A \o B \o X
<1>3. /\ S \in Seq(C) /\ Len(S) = 3 /\ S[1] = a /\ S[2] = b /\ S[3] = c
      /\ T \in Seq(C) /\ Len(T) = 3 /\ T[1] = a /\ T[2] = b /\ T[3] = c
    BY <1>1, <1>2, ConcatProperties
<1> HIDE DEF S, T
<1>4. ASSUME NEW s \in Seq(C), Len(s) = 3, s[1] = a, s[2] = b, s[3] = c
      PROVE  s \o D = <<a, b, c, d>>
    <2>1. s \o D = Append(s, d)
        BY AppendIsConcat DEF D
    <2> DEFINE z == Append(s, d)
    <2>2. z \in Seq(C) /\ Len(z) = 4 /\ z[1] = a /\ z[2] = b /\ z[3] = c /\ z[4] = d
        <3>1. /\ z \in Seq(C) /\ Len(z) = Len(s) + 1 /\ z[Len(s) + 1] = d
              /\ \A i \in 1..Len(s) : z[i] = s[i]
            BY AppendProperties
        <3> HIDE DEF z
        <3> QED BY <1>4, <3>1
    <2>3. z = <<z[1], z[2], z[3], z[4]>>
        BY <2>2, FourLong
    <2> HIDE DEF z
    <2> QED BY <2>1, <2>2, <2>3, Zenon DEF z
<1>5. S \o D = <<a, b, c, d>> /\ T \o D = <<a, b, c, d>>
    BY <1>3, <1>4
<1> QED BY <1>5 DEF S, T, A, B, X, D

LEMMA FourIs ==
    ASSUME NEW a, NEW b, NEW c, NEW d
    PROVE  /\ <<a>> \o (<<b>> \o <<c>>) \o <<d>> = <<a, b, c, d>>
           /\ <<a>> \o <<b>> \o <<c>> \o <<d>> = <<a, b, c, d>>
<1> DEFINE C == {a, b, c, d}
<1>1. a \in C /\ b \in C /\ c \in C /\ d \in C
    OBVIOUS
<1> HIDE DEF C
<1> QED BY <1>1, FourOf

(* A quoted text without special characters says itself.                    *)
LEMMA SaysQuoted ==
    ASSUME NEW ch \in Chunk, ch \notin DOMAIN Escapes
    PROVE  Says(Quoted(<<ch>>), <<Token("string", <<ch>>)>>)
<1> DEFINE text == <<ch>>
           pieces == [i \in 1..Len(text) |-> Escaped(text[i])]
<1>1. text \in Text /\ Len(text) = 1 /\ text[1] = ch
    BY TextTyped
<1>2. pieces \in Seq(Text) /\ Len(pieces) = 1 /\ pieces[1] = text
    BY <1>1 DEF Escaped
<1> HIDE DEF text, pieces
<1>3. PICK m : /\ m[0] = <<>>
               /\ \A k \in 1..Len(pieces) : m[k] = m[k - 1] \o pieces[k]
               /\ FlattenSeq(pieces) = m[Len(pieces)]
    BY <1>2, FlattenSteps DEF Text
<1>4. m[1] = m[0] \o pieces[1]
    <2>1. 1 - 1 = 0 /\ 1 \in 1..Len(pieces)
        BY <1>2
    <2> QED BY <1>3, <2>1
<1>5. <<>> \o text = text
    BY <1>1, ConcatEmptySeq DEF Text
<1>6. FlattenSeq(pieces) = text
    BY <1>2, <1>3, <1>4, <1>5
<1>7. push_string(text) = Quoted(text)
    BY <1>6 DEF push_string, Quoted, pieces
<1>8. Says(push_string(text), <<Token("string", text)>>)
    BY <1>1, SaysString
<1> QED BY <1>7, <1>8 DEF text

Names == {"ts", "level", "msg", "file", "line", "target"}

(* The names of the members have none.                                      *)
LEMMA NamesPlain ==
    \A name \in Names : name \in Chunk /\ name \in Literals /\ name \notin DOMAIN Escapes
<1>1. \A name \in Names : name \in Literals
    BY DEF Names, Literals
<1>2. \A name \in Literals : name \in Chunk
    BY DEF Chunk
<1>3. DOMAIN Escapes = {"\"", "\\", "\n", "\r", "\t", "backspace", "formfeed", "bell"}
    BY DEF Escapes
<1>4. \A name \in Names : name \notin DOMAIN Escapes
    BY <1>3 DEF Names
<1> QED BY <1>1, <1>2, <1>4

(* What braces, commas and colons say.                                      *)
LEMMA SaysMark ==
    \A ch \in {":", ",", "{", "}", "\n"} :
        /\ <<ch>> \in Text /\ <<Bare(ch)>> \in Tokens /\ Bare(ch) \in TokenSet
        /\ Says(<<ch>>, <<Bare(ch)>>)
<1> SUFFICES ASSUME NEW ch \in {":", ",", "{", "}", "\n"}
             PROVE  /\ <<ch>> \in Text /\ <<Bare(ch)>> \in Tokens /\ Bare(ch) \in TokenSet
                    /\ Says(<<ch>>, <<Bare(ch)>>)
    OBVIOUS
<1>1. ch \in Chunk
    BY DEF Literals, Chunk
<1>2. ch # Quote
    BY DEF Quote
<1> QED BY <1>1, <1>2, SaysBare, TextTyped, TokenTyped DEF Bare

(* A name and its colon.                                                    *)
LEMMA SaysNamed ==
    ASSUME NEW name \in Names
    PROVE  /\ Named(name) \in Text
           /\ <<Token("string", <<name>>)>> \o <<Bare(":")>> \in Tokens
           /\ Says(Named(name), <<Token("string", <<name>>)>> \o <<Bare(":")>>)
<1>1. <<name>> \in Text /\ Quoted(<<name>>) \in Text
    BY NamesPlain, QuotedTyped, TextTyped
<1>2. Says(Quoted(<<name>>), <<Token("string", <<name>>)>>)
    BY NamesPlain, SaysQuoted
<1>3. <<Token("string", <<name>>)>> \in Tokens
    BY <1>1, TokenTyped DEF Tokens
<1>4. <<":">> \in Text /\ <<Bare(":")>> \in Tokens /\ Says(<<":">>, <<Bare(":")>>)
    BY SaysMark
<1> QED BY <1>1, <1>2, <1>3, <1>4, SaysConcat DEF Named

(* A member joined from its mark and name, its colon and its value.         *)
Joined(a, b, c, d) == <<a>> \o (<<b>> \o <<c>>) \o <<d>>

LEMMA JoinedIs ==
    \A a, b, c, d : Joined(a, b, c, d) = <<a, b, c, d>>
BY FourIs, Zenon DEF Joined

(* A comma, a name and a value say a member.                                *)
LEMMA SaysAlso ==
    ASSUME NEW name \in Names, NEW value \in Text, NEW token \in TokenSet,
           Says(value, <<token>>)
    PROVE  /\ Also(name, value) \in Text /\ Member(<<name>>, token) \in Tokens
           /\ Says(Also(name, value), Member(<<name>>, token))
<1> DEFINE comma == <<",">>
           string == Token("string", <<name>>)
           named == <<string>> \o <<Bare(":")>>
<1>1. comma \in Text /\ <<Bare(",")>> \in Tokens /\ Says(comma, <<Bare(",")>>)
    BY SaysMark
<1>2. Named(name) \in Text /\ named \in Tokens /\ Says(Named(name), named)
    BY SaysNamed
<1>3. string \in TokenSet /\ Bare(",") \in TokenSet /\ Bare(":") \in TokenSet
    BY NamesPlain, TextTyped, TokenTyped, SaysMark
<1>4. <<token>> \in Tokens
    BY DEF Tokens
<1>5. <<Bare(",")>> \o named \o <<token>> = Member(<<name>>, token)
    <2> DEFINE mark == Bare(",")
               colon == Bare(":")
    <2> HIDE DEF mark, colon, string
    <2>2. Joined(mark, string, colon, token) = <<mark, string, colon, token>>
        BY JoinedIs, Zenon
    <2>3. Member(<<name>>, token) = <<mark, string, colon, token>>
        BY Zenon DEF mark, colon, string, Member
    <2>4. named = <<string>> \o <<colon>>
        BY Zenon DEF colon
    <2>5. <<Bare(",")>> = <<mark>>
        BY Zenon DEF mark
    <2> HIDE DEF named
    <2> QED BY <2>2, <2>3, <2>4, <2>5, Zenon DEF Joined
<1> HIDE DEF comma, named
<1>6. /\ comma \o Named(name) \in Text /\ <<Bare(",")>> \o named \in Tokens
      /\ Says(comma \o Named(name), <<Bare(",")>> \o named)
    BY <1>1, <1>2, SaysConcat
<1>7. /\ comma \o Named(name) \o value \in Text
      /\ <<Bare(",")>> \o named \o <<token>> \in Tokens
      /\ Says(comma \o Named(name) \o value, <<Bare(",")>> \o named \o <<token>>)
    BY <1>4, <1>6, SaysConcat
<1> QED BY <1>5, <1>7 DEF Also, comma

(* The member of a field says the key and the value that were given.        *)
LEMMA SaysFieldMember ==
    ASSUME NEW g \in Pairs
    PROVE  /\ FieldMember(NewField(g)) \in Text
           /\ Member(g.key, Shown(g.value)) \in Tokens
           /\ Says(FieldMember(NewField(g)), Member(g.key, Shown(g.value)))
<1> DEFINE comma == <<",">>
           colon == <<":">>
           key == push_string(g.key)
           value == push_value(Into(g.value))
           string == Token("string", g.key)
           shown == Shown(g.value)
<1>1. /\ comma \in Text /\ <<Bare(",")>> \in Tokens /\ Says(comma, <<Bare(",")>>)
      /\ colon \in Text /\ <<Bare(":")>> \in Tokens /\ Says(colon, <<Bare(":")>>)
      /\ Bare(",") \in TokenSet /\ Bare(":") \in TokenSet
    BY SaysMark
<1>2. g.key \in Text
    BY FormatAssumption, TextTyped
<1>3. key \in Text /\ string \in TokenSet /\ <<string>> \in Tokens /\ Says(key, <<string>>)
    BY <1>2, PushStringTyped, SaysString, TokenTyped
<1>4. value \in Text /\ shown \in TokenSet /\ Says(value, <<shown>>)
    BY PushValueTyped, SaysValue
<1>5. <<shown>> \in Tokens
    BY <1>4 DEF Tokens
<1>6. <<Bare(",")>> \o <<string>> \o <<Bare(":")>> \o <<shown>> = Member(g.key, shown)
    <2> HIDE DEF string, shown
    <2>1. <<Bare(",")>> \o <<string>> \o <<Bare(":")>> \o <<shown>>
            = <<Bare(","), string, Bare(":"), shown>>
        <3> DEFINE c == Bare(",")
                   d == Bare(":")
        <3>1. c \in TokenSet /\ d \in TokenSet /\ string \in TokenSet /\ shown \in TokenSet
            BY <1>1, <1>3, <1>4
        <3> HIDE DEF c, d
        <3>2. <<c>> \o <<string>> \o <<d>> \o <<shown>> = <<c, string, d, shown>>
            BY <3>1, FourIs
        <3> QED BY <3>2 DEF c, d
    <2> QED BY <2>1 DEF Member, string
<1>7. FieldMember(NewField(g)) = comma \o key \o colon \o value
    BY DEF FieldMember, NewField
<1> HIDE DEF comma, colon, key, value, string, shown
<1>8. /\ comma \o key \in Text /\ <<Bare(",")>> \o <<string>> \in Tokens
      /\ Says(comma \o key, <<Bare(",")>> \o <<string>>)
    BY <1>1, <1>3, SaysConcat
<1>9. /\ comma \o key \o colon \in Text /\ <<Bare(",")>> \o <<string>> \o <<Bare(":")>> \in Tokens
      /\ Says(comma \o key \o colon, <<Bare(",")>> \o <<string>> \o <<Bare(":")>>)
    BY <1>1, <1>8, SaysConcat
<1>10. /\ comma \o key \o colon \o value \in Text
       /\ <<Bare(",")>> \o <<string>> \o <<Bare(":")>> \o <<shown>> \in Tokens
       /\ Says(comma \o key \o colon \o value, <<Bare(",")>> \o <<string>> \o <<Bare(":")>> \o <<shown>>)
    BY <1>4, <1>5, <1>9, SaysConcat
<1> QED BY <1>6, <1>7, <1>10 DEF shown

(* A line.                                                                  *)
(* The members that the reader should find in a record whose fields are the *)
(* pairs of a list.                                                         *)
OwnMembers(e) ==
    <<Member(<<"ts">>, Token("string", Stamp(e.timestamp))),
      Member(<<"level">>, Token("string", <<e.level>>)),
      Member(<<"msg">>, Token("string", e.message))>>
PlaceMembers(e, include_location) ==
    IF include_location
    THEN <<Member(<<"file">>, Token("string", e.file)),
           Member(<<"line">>, Bare(ToString(e.line))),
           Member(<<"target">>, Token("string", e.target))>>
    ELSE <<>>
ListMembers(list) == [i \in 1..Len(list) |-> Member(list[i].key, Shown(list[i].value))]

(* The members of a list of fields say those of its pairs.                  *)
LEMMA SaysList ==
    ASSUME NEW list \in Seq(Pairs)
    PROVE  /\ FieldMembers(NewFields(list)) \in Text
           /\ ListMembers(list) \in Seq(Tokens)
           /\ FlattenSeq(ListMembers(list)) \in Tokens
           /\ Says(FieldMembers(NewFields(list)), FlattenSeq(ListMembers(list)))
<1> DEFINE n == Len(list)
           fields == NewFields(list)
           piece(i) == FieldMember(fields[i])
           member(i) == Member(list[i].key, Shown(list[i].value))
           a == [i \in 1..Len(fields) |-> piece(i)]
           t == [i \in 1..n |-> member(i)]
<1>1. n \in Nat /\ Len(fields) = n /\ \A i \in 1..n : list[i] \in Pairs /\ fields[i] = NewField(list[i])
    BY NewFieldsIs
<1> HIDE DEF fields
<1>2. \A i \in 1..n : piece(i) \in Text /\ member(i) \in Tokens /\ Says(piece(i), member(i))
    BY <1>1, SaysFieldMember
<1> HIDE DEF piece, member
<1>3. /\ a \in Seq(Text) /\ Len(a) = n /\ t \in Seq(Tokens) /\ Len(t) = n
      /\ \A i \in 1..n : a[i] = piece(i) /\ t[i] = member(i)
    BY <1>1, <1>2
<1> HIDE DEF a, t
<1>4. \A i \in 1..n : Says(a[i], t[i])
    BY <1>2, <1>3
<1>5. FlattenSeq(t) \in Tokens /\ Says(FlattenSeq(a), FlattenSeq(t))
    BY <1>1, <1>3, <1>4, SaysFlatten
<1>6. FlattenSeq(a) \in Text
    BY <1>3, FlattenTyped DEF Text
<1> QED BY <1>3, <1>5, <1>6 DEF a, t, piece, member, fields, FieldMembers, ListMembers

(* The same of tokens.                                                      *)
LEMMA FourTokens ==
    ASSUME NEW a \in TokenSet, NEW b \in TokenSet, NEW c \in TokenSet, NEW d \in TokenSet
    PROVE  /\ <<a>> \in Tokens /\ <<a, b, c, d>> \in Tokens
           /\ <<a>> \o (<<b>> \o <<c>>) \o <<d>> = <<a, b, c, d>>
<1>1. <<a>> \in Tokens /\ <<a, b, c, d>> \in Tokens
    BY DEF Tokens
<1> QED BY <1>1, FourIs

(* Three members flattened.                                                 *)
LEMMA ThreeOfTokens ==
    ASSUME NEW x \in Tokens, NEW y \in Tokens, NEW z \in Tokens
    PROVE  <<x, y, z>> \in Seq(Tokens) /\ FlattenSeq(<<x, y, z>>) = x \o y \o z
<1> DEFINE s == <<x, y, z>>
<1>1. s \in Seq(Tokens) /\ Len(s) = 3 /\ s[1] = x /\ s[2] = y /\ s[3] = z
    OBVIOUS
<1>2. <<>> \o x = x
    BY ConcatEmptySeq DEF Tokens
<1> HIDE DEF s
<1>3. PICK m : /\ m[0] = <<>>
               /\ \A j \in 1..Len(s) : m[j] = m[j - 1] \o s[j]
               /\ FlattenSeq(s) = m[Len(s)]
    BY <1>1, FlattenSteps DEF Tokens
<1>4. m[1] = m[0] \o x /\ m[2] = m[1] \o y /\ m[3] = m[2] \o z
    <2>1. 1 \in 1..3 /\ 2 \in 1..3 /\ 3 \in 1..3 /\ 1 - 1 = 0 /\ 2 - 1 = 1 /\ 3 - 1 = 2
        OBVIOUS
    <2> QED BY <1>1, <1>3, <2>1
<1> QED BY <1>1, <1>2, <1>3, <1>4 DEF s

(* The tail of a sequence that is not empty, when more follows.             *)
LEMMA TailOfConcat ==
    ASSUME NEW f \in Tokens, f # <<>>, NEW x \in Tokens
    PROVE  /\ f \o x \in Tokens /\ f \o x # <<>> /\ Tail(f) \in Tokens
           /\ Tail(f \o x) = Tail(f) \o x
<1> DEFINE s == f \o x
           u == Tail(f)
           v == u \o x
<1> USE DEF Tokens
<1>1. PICK n \in Nat : n = Len(f) - 1
    OBVIOUS
<1>2. PICK k \in Nat : k = Len(x)
    OBVIOUS
<1>3. /\ s \in Tokens /\ Len(s) = n + 1 + k /\ s # <<>>
      /\ \A i \in 1..n + 1 + k : s[i] = IF i <= n + 1 THEN f[i] ELSE x[i - (n + 1)]
    <2>1. /\ s \in Tokens /\ Len(s) = Len(f) + Len(x)
          /\ \A i \in 1..Len(f) + Len(x) : s[i] = IF i <= Len(f) THEN f[i] ELSE x[i - Len(f)]
        BY ConcatProperties
    <2>2. Len(f) = n + 1 /\ Len(f) \in Nat
        BY <1>1
    <2> QED BY <1>1, <1>2, <2>1, <2>2
<1>4. u \in Tokens /\ Len(u) = n /\ \A i \in 1..n : u[i] = f[i + 1]
    BY <1>1, HeadTailProperties
<1> HIDE DEF s, u
<1>5. /\ v \in Tokens /\ Len(v) = n + k
      /\ \A i \in 1..n + k : v[i] = IF i <= n THEN u[i] ELSE x[i - n]
    <2>1. /\ v \in Tokens /\ Len(v) = Len(u) + Len(x)
          /\ \A i \in 1..Len(u) + Len(x) : v[i] = IF i <= Len(u) THEN u[i] ELSE x[i - Len(u)]
        BY <1>4, ConcatProperties
    <2> QED BY <1>2, <1>4, <2>1
<1>6. Tail(s) \in Tokens /\ Len(Tail(s)) = n + k /\ \A i \in 1..n + k : Tail(s)[i] = s[i + 1]
    BY <1>1, <1>2, <1>3, HeadTailProperties
<1> HIDE DEF v
<1> DEFINE w == Tail(s)
<1>7. w \in Tokens /\ Len(w) = n + k /\ \A i \in 1..n + k : w[i] = s[i + 1]
    BY <1>6
<1> HIDE DEF w
<1>8. ASSUME NEW i \in 1..n + k PROVE w[i] = v[i]
    <2>1. i + 1 \in 1..n + 1 + k /\ (i <= n => i \in 1..n) /\ (i + 1 <= n + 1 <=> i <= n)
          /\ i + 1 - (n + 1) = i - n
        BY <1>1, <1>2
    <2>2. w[i] = IF i <= n THEN f[i + 1] ELSE x[i - n]
        BY <1>3, <1>7, <2>1
    <2>3. i <= n => u[i] = f[i + 1]
        BY <1>4, <2>1
    <2> QED BY <1>5, <2>2, <2>3
<1>9. w = v
    BY <1>5, <1>7, <1>8, SeqEqual
<1> QED BY <1>3, <1>4, <1>9 DEF s, u, v, w

(* The tokens of an object so far: those of its members, with a brace for   *)
(* the first comma.                                                         *)
Opens(h, f) == f \in Tokens /\ f # <<>> /\ h = <<Bare("{")>> \o Tail(f)

(* The first member opens an object.                                        *)
LEMMA OpensMember ==
    ASSUME NEW name, NEW token,
           Token("string", name) \in TokenSet, token \in TokenSet
    PROVE  Opens(<<Bare("{"), Token("string", name), Bare(":"), token>>, Member(name, token))
<1>6. PICK o \in TokenSet : o = Bare("{")
    BY SaysMark
<1>7. PICK c \in TokenSet : c = Bare(",")
    BY SaysMark
<1>8. PICK y \in TokenSet : y = Bare(":")
    BY SaysMark
<1>9. PICK x \in TokenSet : x = Token("string", name)
    OBVIOUS
<1>10. PICK z \in TokenSet : z = token
    OBVIOUS
<1> DEFINE F == <<c, x, y, z>>
           G == <<o, x, y, z>>
           H == <<o>>
           u == H \o Tail(F)
<1> USE DEF Tokens
<1>1. /\ F \in Tokens /\ Len(F) = 4 /\ F[2] = x /\ F[3] = y /\ F[4] = z /\ F # <<>>
      /\ G \in Tokens /\ Len(G) = 4 /\ G[1] = o /\ G[2] = x /\ G[3] = y /\ G[4] = z
      /\ H \in Tokens /\ Len(H) = 1 /\ H[1] = o
    OBVIOUS
<1> HIDE DEF F, G, H
<1>2. /\ Tail(F) \in Tokens /\ Len(Tail(F)) = 3
      /\ \A i \in 1..3 : Tail(F)[i] = F[i + 1]
    <2>1. /\ Tail(F) \in Seq(TokenSet) /\ Len(Tail(F)) = Len(F) - 1
          /\ \A i \in 1..Len(Tail(F)) : Tail(F)[i] = F[i + 1]
        BY <1>1, HeadTailProperties
    <2>2. Len(Tail(F)) = 3
        BY <1>1, <2>1
    <2> QED BY <2>1, <2>2
<1> DEFINE T == Tail(F)
<1> HIDE DEF T
<1>3. u \in Tokens /\ Len(u) = 4 /\ \A i \in 1..4 : u[i] = IF i <= 1 THEN H[i] ELSE T[i - 1]
    <2>1. T \in Seq(TokenSet) /\ Len(T) = 3
        BY <1>2 DEF T
    <2>2. /\ H \o T \in Seq(TokenSet) /\ Len(H \o T) = Len(H) + Len(T)
          /\ \A i \in 1..Len(H) + Len(T) :
                (H \o T)[i] = IF i <= Len(H) THEN H[i] ELSE T[i - Len(H)]
        BY <1>1, <2>1, ConcatProperties
    <2>3. u = H \o T
        BY DEF T
    <2> HIDE DEF u
    <2> QED BY <1>1, <2>1, <2>2, <2>3
<1> HIDE DEF u
<1>4. ASSUME NEW i \in 1..4 PROVE u[i] = G[i]
    <2>1. \A j \in 1..3 : T[j] = F[j + 1]
        BY <1>2 DEF T
    <2> QED BY <1>1, <1>3, <2>1
<1>5. u = G
    BY <1>1, <1>3, <1>4, SeqEqual
<1>11. Opens(G, F)
    BY <1>1, <1>5, <1>6 DEF Opens, u, H
<1>12. /\ G = <<Bare("{"), Token("string", name), Bare(":"), token>>
       /\ F = Member(name, token)
    BY <1>6, <1>7, <1>8, <1>9, <1>10 DEF F, G, Member
<1> QED BY <1>11, <1>12

(* An object that is open takes more members.                               *)
LEMMA OpensOn ==
    ASSUME NEW h, NEW f, Opens(h, f), NEW x \in Tokens
    PROVE  Opens(h \o x, f \o x)
<1>1. /\ f \o x \in Tokens /\ f \o x # <<>> /\ Tail(f) \in Tokens
      /\ Tail(f \o x) = Tail(f) \o x
    BY TailOfConcat DEF Opens
<1>2. PICK t : t = Tail(f)
    OBVIOUS
<1>3. PICK b : b = <<Bare("{")>>
    OBVIOUS
<1>4. b \in Tokens
    BY <1>3, SaysMark
<1>5. b \o t \o x = b \o (t \o x)
    BY <1>1, <1>2, <1>4, ConcatAssociative DEF Tokens
<1> QED BY <1>1, <1>2, <1>3, <1>5 DEF Opens

(* What the members that every record has are made of.                      *)
LEMMA SaysOwn ==
    ASSUME NEW e, IsEntry(e)
    PROVE  /\ Token("string", Stamp(e.timestamp)) \in TokenSet
           /\ Says(Quoted(Stamp(e.timestamp)), <<Token("string", Stamp(e.timestamp))>>)
           /\ Token("string", <<e.level>>) \in TokenSet
           /\ Says(Quoted(<<e.level>>), <<Token("string", <<e.level>>)>>)
           /\ Bare(ToString(e.line)) \in TokenSet
           /\ Says(<<ToString(e.line)>>, <<Bare(ToString(e.line))>>)
<1>1. PICK s \in Stamps : e.timestamp = NowAt(s.clock, s.offset)
    BY DEF IsEntry
<1> DEFINE x == ToString(Display(e.timestamp))
<1>2. x \in Chunk /\ x \notin DOMAIN Escapes
    <2>1. Display(e.timestamp) \in Times
        BY <1>1 DEF Times
    <2> QED BY <1>1, <2>1, FormatAssumption DEF Chunk, Plainly
<1>3. Stamp(e.timestamp) = <<x>>
    BY DEF Stamp
<1>4. e.level \in {"TRACE", "DEBUG", "INFO", "WARN", "ERROR"}
    BY FormatAssumption DEF IsEntry
<1>5. e.level \in Chunk /\ e.level \notin DOMAIN Escapes
    BY <1>4 DEF Chunk, Literals, Escapes
<1>6. ToString(e.line) \in Chunk /\ ToString(e.line) # Quote
    <2>1. PICK l \in Locations : e.line = l.line
        BY DEF IsEntry
    <2>2. ToString(e.line) \in Chunk /\ Plainly(ToString(e.line))
        BY <2>1, FormatAssumption DEF Numbers, Chunk
    <2> QED BY <2>2 DEF Plainly, Escapes, Quote
<1> HIDE DEF x
<1>7. <<x>> \in Text /\ <<e.level>> \in Text /\ <<ToString(e.line)>> \in Text
    BY <1>2, <1>5, <1>6, TextTyped
<1> QED BY <1>2, <1>3, <1>5, <1>6, <1>7, SaysQuoted, SaysBare, TokenTyped DEF Bare

(* The members of the location, where the layout has them.                  *)
LEMMA SaysPlace ==
    ASSUME NEW e, IsEntry(e), NEW include_location
    PROVE  LET chunks == IF include_location THEN LocationMembers(e) ELSE <<>>
               members == PlaceMembers(e, include_location)
           IN  /\ chunks \in Text /\ members \in Seq(Tokens)
               /\ FlattenSeq(members) \in Tokens
               /\ Says(chunks, FlattenSeq(members))
<1>1. CASE include_location
    <2> DEFINE a == Also("file", push_string(e.file))
               b == Also("line", <<ToString(e.line)>>)
               c == Also("target", push_string(e.target))
               s == Member(<<"file">>, Token("string", e.file))
               t == Member(<<"line">>, Bare(ToString(e.line)))
               u == Member(<<"target">>, Token("string", e.target))
    <2>1. "file" \in Names /\ "line" \in Names /\ "target" \in Names
        BY DEF Names
    <2>2. a \in Text /\ s \in Tokens /\ Says(a, s)
        BY <2>1, EntryTyped, PushStringTyped, SaysString, SaysAlso, TokenTyped
    <2>3. b \in Text /\ t \in Tokens /\ Says(b, t)
        BY <2>1, EntryTyped, SaysOwn, SaysAlso
    <2>4. c \in Text /\ u \in Tokens /\ Says(c, u)
        BY <2>1, EntryTyped, PushStringTyped, SaysString, SaysAlso, TokenTyped
    <2>5. LocationMembers(e) = a \o b \o c
        BY DEF LocationMembers
    <2>6. PlaceMembers(e, include_location) = <<s, t, u>>
        BY <1>1 DEF PlaceMembers
    <2> HIDE DEF a, b, c, s, t, u
    <2>7. a \o b \in Text /\ s \o t \in Tokens /\ Says(a \o b, s \o t)
        BY <2>2, <2>3, SaysConcat
    <2>8. a \o b \o c \in Text /\ s \o t \o u \in Tokens /\ Says(a \o b \o c, s \o t \o u)
        BY <2>4, <2>7, SaysConcat
    <2>9. <<s, t, u>> \in Seq(Tokens) /\ FlattenSeq(<<s, t, u>>) = s \o t \o u
        BY <2>2, <2>3, <2>4, ThreeOfTokens
    <2> QED BY <1>1, <2>5, <2>6, <2>8, <2>9
<1>2. CASE ~include_location
    <2>1. <<>> \in Seq(Tokens) /\ <<>> \in Text
        BY TextTyped
    <2> QED BY <1>2, <2>1, SaysNothing, FlattenNone DEF PlaceMembers
<1> QED BY <1>1, <1>2

(* The line of a record is the object of its members.                       *)
LEMMA SaysObject ==
    ASSUME NEW e, IsEntry(e), NEW include_location, NEW list \in Seq(Pairs),
           e.fields = NewFields(list)
    PROVE  LET members == OwnMembers(e) \o PlaceMembers(e, include_location) \o ListMembers(list)
           IN  /\ write_record(e, include_location) \in Text
               /\ Object(members) \in Tokens
               /\ Says(write_record(e, include_location), Object(members))
<1> DEFINE stamp == Token("string", Stamp(e.timestamp))
           ts == Token("string", <<"ts">>)
           first == Member(<<"ts">>, stamp)
           level == Member(<<"level">>, Token("string", <<e.level>>))
           message == Member(<<"msg">>, Token("string", e.message))
           place == PlaceMembers(e, include_location)
           others == ListMembers(list)
           own == OwnMembers(e)
           end == <<Bare("}"), Bare("\n")>>
           head == <<Bare("{"), ts, Bare(":"), stamp>>
           a == <<"{">> \o Named("ts") \o Quoted(Stamp(e.timestamp))
           b == Also("level", Quoted(<<e.level>>))
           c == Also("msg", push_string(e.message))
           d == IF include_location THEN LocationMembers(e) ELSE <<>>
           f == FieldMembers(e.fields)
           g == <<"}", "\n">>
<1>1. write_record(e, include_location) = a \o b \o c \o d \o f \o g
    BY DEF write_record, LocationMembers, FieldMembers
<1>2. own = <<first, level, message>>
    BY DEF OwnMembers
<1>3. /\ stamp \in TokenSet /\ ts \in TokenSet
      /\ Bare("{") \in TokenSet /\ Bare(":") \in TokenSet /\ Bare(",") \in TokenSet
    <2>1. <<"ts">> \in Text
        BY NamesPlain, TextTyped DEF Names
    <2> QED BY <2>1, SaysOwn, SaysMark, TokenTyped
<1>4. a \in Text /\ head \in Tokens /\ Says(a, head)
    <2> DEFINE p == <<"{">>
               q == Named("ts")
               r == Quoted(Stamp(e.timestamp))
               o == <<Bare("{")>>
               n == <<ts>> \o <<Bare(":")>>
               z == <<stamp>>
    <2>1. p \in Text /\ o \in Tokens /\ Says(p, o)
        BY SaysMark
    <2>2. q \in Text /\ n \in Tokens /\ Says(q, n)
        BY SaysNamed DEF Names
    <2>3. r \in Text /\ z \in Tokens /\ Says(r, z)
        BY <1>3, EntryTyped, QuotedTyped, SaysOwn, FourTokens
    <2>4. o \o n \o z = head
        <3> DEFINE brace == Bare("{")
                   colon == Bare(":")
        <3> HIDE DEF brace, colon, ts, stamp
        <3>2. Joined(brace, ts, colon, stamp) = <<brace, ts, colon, stamp>>
            BY JoinedIs, Zenon
        <3> QED BY <3>2, Zenon DEF brace, colon, Joined
    <2> HIDE DEF p, q, r, o, n, z, head
    <2>5. p \o q \in Text /\ o \o n \in Tokens /\ Says(p \o q, o \o n)
        BY <2>1, <2>2, SaysConcat
    <2>6. p \o q \o r \in Text /\ o \o n \o z \in Tokens /\ Says(p \o q \o r, o \o n \o z)
        BY <2>3, <2>5, SaysConcat
    <2> QED BY <2>4, <2>6 DEF p, q, r
<1>5. b \in Text /\ level \in Tokens /\ Says(b, level)
    BY EntryTyped, QuotedTyped, SaysOwn, SaysAlso DEF Names
<1>6. c \in Text /\ message \in Tokens /\ Says(c, message)
    BY EntryTyped, PushStringTyped, SaysString, SaysAlso, TokenTyped DEF Names
<1>7. d \in Text /\ place \in Seq(Tokens) /\ FlattenSeq(place) \in Tokens /\ Says(d, FlattenSeq(place))
    BY SaysPlace
<1>8. f \in Text /\ others \in Seq(Tokens) /\ FlattenSeq(others) \in Tokens /\ Says(f, FlattenSeq(others))
    BY SaysList
<1>9. g \in Text /\ end \in Tokens /\ Says(g, end)
    <2> DEFINE x == <<"}">>
               y == <<"\n">>
               s == <<Bare("}")>>
               t == <<Bare("\n")>>
    <2>1. /\ x \in Text /\ y \in Text /\ s \in Tokens /\ t \in Tokens /\ Says(x, s) /\ Says(y, t)
          /\ Bare("}") \in TokenSet /\ Bare("\n") \in TokenSet
        BY SaysMark
    <2>2. "}" \in Chunk /\ "\n" \in Chunk
        BY DEF Chunk, Literals
    <2>3. x \o y = g
        BY <2>1, <2>2, AppendIsConcat, PairIs DEF Text
    <2>4. s \o t = end
        BY <2>1, AppendIsConcat, PairIs DEF Tokens
    <2> HIDE DEF x, y, s, t, g, end
    <2> QED BY <2>1, <2>3, <2>4, SaysConcat
<1>10. first \in Tokens
    BY <1>3, FourTokens DEF Member
<1>11. own \in Seq(Tokens) /\ FlattenSeq(own) = first \o level \o message
    <2> HIDE DEF own, first, level, message
    <2> QED BY <1>2, <1>5, <1>6, <1>10, ThreeOfTokens
<1>12. Opens(head, first)
    <2> HIDE DEF stamp
    <2> QED BY <1>3, OpensMember
<1> DEFINE P == FlattenSeq(place)
           O == FlattenSeq(others)
<1>13. FlattenSeq(own \o place \o others) = first \o level \o message \o P \o O
    <2> HIDE DEF own, place, others, first, level, message
    <2>1. own \o place \in Seq(Tokens)
        BY <1>7, <1>11, ConcatProperties
    <2>2. FlattenSeq(own \o place) = FlattenSeq(own) \o FlattenSeq(place)
        BY <1>7, <1>11, FlattenConcat DEF Tokens
    <2>3. FlattenSeq(own \o place \o others) = FlattenSeq(own \o place) \o FlattenSeq(others)
        BY <1>8, <2>1, FlattenConcat DEF Tokens
    <2> QED BY <1>11, <2>2, <2>3
<1> HIDE DEF a, b, c, d, f, g, head, first, level, message, end, P, O
<1>14. Opens(head \o level \o message \o P \o O, first \o level \o message \o P \o O)
    <2>1. P \in Tokens /\ O \in Tokens
        BY <1>7, <1>8 DEF P, O
    <2>2. Opens(head \o level, first \o level)
        BY <1>5, <1>12, OpensOn
    <2>3. Opens(head \o level \o message, first \o level \o message)
        BY <1>6, <2>2, OpensOn
    <2>4. Opens(head \o level \o message \o P, first \o level \o message \o P)
        BY <2>1, <2>3, OpensOn
    <2> QED BY <2>1, <2>4, OpensOn
<1>15. a \o b \in Text /\ head \o level \in Tokens /\ Says(a \o b, head \o level)
    BY <1>4, <1>5, SaysConcat
<1>16. /\ a \o b \o c \in Text /\ head \o level \o message \in Tokens
       /\ Says(a \o b \o c, head \o level \o message)
    BY <1>6, <1>15, SaysConcat
<1>17. /\ a \o b \o c \o d \in Text /\ head \o level \o message \o P \in Tokens
       /\ Says(a \o b \o c \o d, head \o level \o message \o P)
    BY <1>7, <1>16, SaysConcat DEF P
<1>18. /\ a \o b \o c \o d \o f \in Text /\ head \o level \o message \o P \o O \in Tokens
       /\ Says(a \o b \o c \o d \o f, head \o level \o message \o P \o O)
    BY <1>8, <1>17, SaysConcat DEF O
<1>19. /\ a \o b \o c \o d \o f \o g \in Text
       /\ head \o level \o message \o P \o O \o end \in Tokens
       /\ Says(a \o b \o c \o d \o f \o g, head \o level \o message \o P \o O \o end)
    BY <1>9, <1>18, SaysConcat
<1>20. head \o level \o message \o P \o O \o end = Object(own \o place \o others)
    BY <1>13, <1>14 DEF Object, Opens, end
<1> QED BY <1>1, <1>19, <1>20

------------------------------------------------------------------------------
(* The fields of a record: the caller's, then the context's new ones.       *)

Distinct(list) == \A i, j \in 1..Len(list) : list[i].key = list[j].key => i = j

(* The fields of a list have the list's keys.                               *)
LEMMA KeysOfNew ==
    ASSUME NEW list \in Seq(Pairs)
    PROVE  KeysOf(NewFields(list)) = KeysOf(list)
<1>1. /\ Len(NewFields(list)) = Len(list)
      /\ \A i \in 1..Len(list) : NewFields(list)[i].key = list[i].key
    <2>1. \A g : NewField(g).key = g.key
        BY DEF NewField
    <2> QED BY <2>1, NewFieldsIs
<1> QED BY <1>1 DEF KeysOf

(* The keys of two lists one after the other.                               *)
LEMMA KeysOfConcat ==
    ASSUME NEW C, NEW a \in Seq(C), NEW b \in Seq(C)
    PROVE  KeysOf(a \o b) = KeysOf(a) \cup KeysOf(b)
<1> DEFINE s == a \o b
<1>1. PICK m \in Nat : m = Len(a)
    OBVIOUS
<1>2. PICK n \in Nat : n = Len(b)
    OBVIOUS
<1>3. Len(s) = m + n /\ \A i \in 1..m + n : s[i] = IF i <= m THEN a[i] ELSE b[i - m]
    BY <1>1, <1>2, ConcatProperties
<1> HIDE DEF s
<1>4. ASSUME NEW key \in KeysOf(s) PROVE key \in KeysOf(a) \cup KeysOf(b)
    <2>1. PICK i \in 1..m + n : key = s[i].key
        BY <1>3 DEF KeysOf
    <2>2. (i <= m => i \in 1..m) /\ (~(i <= m) => i - m \in 1..n)
        BY <1>1, <1>2
    <2> QED BY <1>1, <1>2, <1>3, <2>1, <2>2 DEF KeysOf
<1>5. ASSUME NEW key \in KeysOf(a) PROVE key \in KeysOf(s)
    <2>1. PICK i \in 1..m : key = a[i].key
        BY <1>1 DEF KeysOf
    <2>2. i \in 1..m + n /\ i <= m
        BY <1>1, <1>2
    <2> QED BY <1>3, <2>1, <2>2 DEF KeysOf
<1>6. ASSUME NEW key \in KeysOf(b) PROVE key \in KeysOf(s)
    <2>1. PICK i \in 1..n : key = b[i].key
        BY <1>2 DEF KeysOf
    <2>2. m + i \in 1..m + n /\ ~(m + i <= m) /\ m + i - m = i
        BY <1>1, <1>2
    <2>3. s[m + i] = b[i]
        BY <1>3, <2>2
    <2> QED BY <1>3, <2>1, <2>2, <2>3 DEF KeysOf
<1> QED BY <1>4, <1>5, <1>6 DEF s

(* What the two loops have after the first fields of the context, the one   *)
(* of merge_context and that of what the reader expects.                    *)
Carried(k, kept, merged) ==
    /\ kept \in Seq(Pairs)
    /\ merged = NewFields(given \o kept)
    /\ \A j \in 1..Len(kept) : \E h \in 1..k : kept[j] = context[h]
    /\ Distinct(kept) /\ KeysOf(kept) \cap KeysOf(given) = {}
    /\ \A h \in 1..k : context[h].key \in KeysOf(given) \cup KeysOf(kept)

(* One more field of the context.                                           *)
LEMMA CarriedOn ==
    ASSUME given \in Seq(Pairs), context \in Seq(Pairs), Distinct(context),
           NEW k \in 1..Len(context), NEW kept, NEW merged, Carried(k - 1, kept, merged)
    PROVE  Carried(k, KeepNew(kept, context[k]), AddMissing(merged, NewField(context[k])))
<1> DEFINE c == context[k]
           f == NewField(c)
           n == Len(context)
<1>1. /\ c \in Pairs /\ f.key = c.key /\ n \in Nat /\ k \in 1..n /\ k \in Nat
      /\ \A h \in 1..k - 1 : h \in 1..k
    BY DEF NewField
<1>2. kept \in Seq(Pairs) /\ given \o kept \in Seq(Pairs)
    BY ConcatProperties DEF Carried
<1>3. KeysOf(merged) = KeysOf(given) \cup KeysOf(kept)
    <2>1. KeysOf(merged) = KeysOf(given \o kept)
        BY <1>2, KeysOfNew DEF Carried
    <2> QED BY <1>2, <2>1, KeysOfConcat
<1>4. CASE c.key \in KeysOf(given)
    <2>1. KeepNew(kept, c) = kept
        BY <1>4 DEF KeepNew
    <2>2. AddMissing(merged, f) = merged
        BY <1>1, <1>3, <1>4 DEF AddMissing
    <2>3. \A j \in 1..Len(kept) : \E h \in 1..k : kept[j] = context[h]
        BY <1>1 DEF Carried
    <2>4. \A h \in 1..k : context[h].key \in KeysOf(given) \cup KeysOf(kept)
        <3>1. \A h \in 1..k : h = k \/ h \in 1..k - 1
            BY <1>1
        <3> QED BY <1>4, <3>1 DEF Carried
    <2>5. Carried(k, kept, merged)
        BY <2>3, <2>4 DEF Carried
    <2> QED BY <2>1, <2>2, <2>5
<1>5. CASE c.key \notin KeysOf(given)
    <2>1. c.key \notin KeysOf(kept)
        <3> SUFFICES ASSUME NEW j \in 1..Len(kept), kept[j].key = c.key PROVE FALSE
            BY DEF KeysOf
        <3>1. PICK h \in 1..k - 1 : kept[j] = context[h]
            BY DEF Carried
        <3>2. h \in 1..n /\ h # k
            BY <1>1
        <3> QED BY <1>1, <3>1, <3>2 DEF Distinct
    <2> DEFINE more == Append(kept, c)
    <2>2. KeepNew(kept, c) = more
        BY <1>5 DEF KeepNew
    <2>3. PICK m \in Nat : m = Len(kept)
        BY <1>2
    <2>4. /\ more \in Seq(Pairs) /\ Len(more) = m + 1 /\ more[m + 1] = c
          /\ \A i \in 1..m : more[i] = kept[i]
        BY <1>1, <1>2, <2>3, AppendProperties
    <2>5. AddMissing(merged, f) = NewFields(given \o more)
        <3>1. AddMissing(merged, f) = Append(merged, f)
            BY <1>1, <1>3, <1>5, <2>1 DEF AddMissing
        <3>2. more = kept \o <<c>> /\ <<c>> \in Seq(Pairs)
            BY <1>1, <1>2, AppendIsConcat
        <3>3. NewFields(given \o more) = NewFields(given) \o NewFields(more)
            BY <2>4, NewFieldsConcat
        <3>4. NewFields(more) = NewFields(kept) \o NewFields(<<c>>)
            BY <1>2, <3>2, NewFieldsConcat
        <3>5. NewFields(<<c>>) = <<f>>
            BY DEF NewFields
        <3>6. merged = NewFields(given) \o NewFields(kept)
            BY <1>2, NewFieldsConcat DEF Carried
        <3> DEFINE a == NewFields(given)
                   b == NewFields(kept)
        <3>7. a \in Seq(Field) /\ b \in Seq(Field) /\ f \in Field
            BY <1>1, <1>2, NewFieldsIs DEF Field
        <3> HIDE DEF a, b, f
        <3>8. Append(a \o b, f) = a \o (b \o <<f>>)
            <4>1. a \o b \in Seq(Field) /\ <<f>> \in Seq(Field)
                BY <3>7, ConcatProperties
            <4>2. Append(a \o b, f) = (a \o b) \o <<f>>
                BY <3>7, <4>1, AppendIsConcat
            <4> DEFINE g == <<f>>
            <4>3. g \in Seq(Field)
                BY <4>1
            <4> HIDE DEF g
            <4>4. (a \o b) \o g = a \o (b \o g)
                BY <3>7, <4>3, ConcatAssociative
            <4> QED BY <4>2, <4>4 DEF g
        <3> HIDE DEF more
        <3> QED BY <3>1, <3>3, <3>4, <3>5, <3>6, <3>8 DEF a, b
    <2> HIDE DEF more, f, c
    <2>6. KeysOf(more) = KeysOf(kept) \cup {c.key}
        <3>1. \A i \in 1..m + 1 : i \in 1..m \/ i = m + 1
            BY <2>3
        <3>2. m + 1 \in 1..m + 1 /\ \A i \in 1..m : i \in 1..m + 1
            BY <2>3
        <3> QED BY <2>3, <2>4, <3>1, <3>2 DEF KeysOf
    <2>7. \A j \in 1..Len(more) : \E h \in 1..k : more[j] = context[h]
        <3> SUFFICES ASSUME NEW j \in 1..m + 1 PROVE \E h \in 1..k : more[j] = context[h]
            BY <2>4
        <3>1. CASE j = m + 1
            <4>1. k \in 1..k
                BY <1>1
            <4> QED BY <2>4, <3>1, <4>1 DEF c
        <3>2. CASE j # m + 1
            <4>1. j \in 1..m
                BY <2>3, <3>2
            <4>2. PICK h \in 1..k - 1 : kept[j] = context[h]
                BY <2>3, <4>1 DEF Carried
            <4> QED BY <1>1, <2>4, <4>1, <4>2
        <3> QED BY <3>1, <3>2
    <2>8. Distinct(more)
        <3> SUFFICES ASSUME NEW i \in 1..m + 1, NEW j \in 1..m + 1, more[i].key = more[j].key
                     PROVE  i = j
            BY <2>4 DEF Distinct
        <3>1. \A h \in 1..m + 1 : h # m + 1 => h \in 1..m /\ more[h].key \in KeysOf(kept)
            <4>1. \A h \in 1..m + 1 : h # m + 1 => h \in 1..m
                BY <2>3
            <4> QED BY <2>3, <2>4, <4>1 DEF KeysOf
        <3>2. i = m + 1 <=> j = m + 1
            BY <2>1, <2>4, <3>1
        <3>3. CASE i # m + 1
            BY <2>3, <2>4, <3>1, <3>2, <3>3 DEF Carried, Distinct
        <3> QED BY <3>2, <3>3
    <2>9. \A h \in 1..k : context[h].key \in KeysOf(given) \cup KeysOf(more)
        <3>1. \A h \in 1..k : h = k \/ h \in 1..k - 1
            BY <1>1
        <3> QED BY <2>6, <3>1 DEF Carried, c
    <2>10. KeysOf(more) \cap KeysOf(given) = {}
        BY <1>5, <2>6 DEF Carried
    <2>11. Carried(k, more, NewFields(given \o more))
        BY <2>4, <2>7, <2>8, <2>9, <2>10 DEF Carried
    <2> QED BY <2>2, <2>5, <2>11 DEF c, f
<1> QED BY <1>4, <1>5

KeepAll(it) ==
    it = [s \in SUBSET DOMAIN context |->
             IF s = {} THEN <<>> ELSE KeepNew(it[s \ {Max(s)}], context[Max(s)])]

(* The loop over the context that the reader expects, field after field.    *)
LEMMA KeepSteps ==
    ASSUME context \in Seq(Pairs)
    PROVE  \E u : /\ u[0] = <<>>
                  /\ \A k \in 1..Len(context) : u[k] = KeepNew(u[k - 1], context[k])
                  /\ FromContext = u[Len(context)]
<1> DEFINE n == Len(context)
           chosen == CHOOSE it : KeepAll(it)
           List == Seq(Pairs)
           op == [x \in List \X Pairs |-> KeepNew(x[1], x[2])]
<1>1. n \in Nat /\ DOMAIN context = 1..n /\ \A i \in 1..n : context[i] \in Pairs
    OBVIOUS
<1>2. FromContext = chosen[1..n]
    BY <1>1 DEF FromContext, FoldLeft, MapThenFoldSet, KeepAll
<1>3. op \in [List \X Pairs -> List]
    <2>1. ASSUME NEW v \in List, NEW e \in Pairs PROVE KeepNew(v, e) \in List
        BY AppendProperties DEF KeepNew
    <2> QED BY <2>1
<1>4. \A v \in List, e \in Pairs : op[<<v, e>>] = KeepNew(v, e)
    OBVIOUS
<1>5. <<>> \in List
    OBVIOUS
<1> HIDE DEF op, List
<1>6. PICK it \in [SUBSET (1..n) -> List] : FoldOf(it, op, <<>>, context, n)
    BY <1>1, <1>3, <1>5, FoldExists
<1>7. KeepAll(it)
    <2>1. ASSUME NEW s \in SUBSET (1..n), s # {}
          PROVE  op[<<it[s \ {Max(s)}], context[Max(s)]>>] = KeepNew(it[s \ {Max(s)}], context[Max(s)])
        <3>1. Max(s) \in 1..n
            <4>1. s \subseteq 0..n
                BY <1>1
            <4> QED BY <1>1, <2>1, <4>1, MaxOfBounded
        <3>2. it[s \ {Max(s)}] \in List /\ context[Max(s)] \in Pairs
            BY <1>1, <1>6, <3>1
        <3> QED BY <1>4, <3>2
    <2> QED BY <1>1, <1>6, <2>1 DEF FoldOf, KeepAll
<1>8. KeepAll(chosen)
    BY <1>7
<1> HIDE DEF chosen
<1>9. \A s \in SUBSET (1..n) : chosen[s] =
          IF s = {} THEN <<>> ELSE KeepNew(chosen[s \ {Max(s)}], context[Max(s)])
    BY <1>1, <1>8 DEF KeepAll
<1> DEFINE u == [k \in 0..n |-> chosen[1..k]]
<1>10. u[0] = <<>>
    <2>1. 0 \in 0..n /\ 1..0 = {} /\ {} \in SUBSET (1..n)
        BY <1>1
    <2>2. u[0] = chosen[{}]
        BY <2>1
    <2> QED BY <1>9, <2>1, <2>2
<1>11. \A k \in 1..n : u[k] = KeepNew(u[k - 1], context[k])
    <2> SUFFICES ASSUME NEW k \in 1..n PROVE u[k] = KeepNew(u[k - 1], context[k])
        OBVIOUS
    <2>1. 1..k # {} /\ Max(1..k) = k /\ 1..k \ {k} = 1..k - 1 /\ 1..k \in SUBSET (1..n)
        BY <1>1, UpTo
    <2>2. chosen[1..k] = KeepNew(chosen[1..k - 1], context[k])
        BY <1>9, <2>1
    <2> QED BY <1>1, <2>2
<1>12. u[n] = chosen[1..n]
    BY <1>1
<1> HIDE DEF u
<1> QED BY <1>2, <1>10, <1>11, <1>12

(* The loop of merge_context over fields.                                   *)
LEMMA MergeSteps ==
    ASSUME NEW own \in Seq(Field), NEW more \in Seq(Field)
    PROVE  \E m : /\ m[0] = own
                  /\ \A k \in 1..Len(more) : m[k] = AddMissing(m[k - 1], more[k])
                  /\ merge_context(own, more) = m[Len(more)]
BY AddSteps

(* What a record's fields are, of which the reader of JSON is told.         *)
LEMMA FieldsKept ==
    ASSUME given \in Seq(Pairs), context \in Seq(Pairs), Distinct(context)
    PROVE  Carried(Len(context), FromContext, merge_context(NewFields(given), NewFields(context)))
<1> DEFINE own == NewFields(given)
           more == NewFields(context)
           n == Len(context)
<1>1. /\ own \in Seq(Field) /\ more \in Seq(Field) /\ Len(more) = n /\ n \in Nat
      /\ \A k \in 1..n : more[k] = NewField(context[k])
    BY NewFieldsIs
<1>2. PICK u : /\ u[0] = <<>>
               /\ \A k \in 1..n : u[k] = KeepNew(u[k - 1], context[k])
               /\ FromContext = u[n]
    BY KeepSteps
<1> HIDE DEF more
<1>3. PICK m : /\ m[0] = own
               /\ \A k \in 1..n : m[k] = AddMissing(m[k - 1], more[k])
               /\ merge_context(own, more) = m[n]
    <2> HIDE DEF own, n
    <2>1. own \in Seq(Field) /\ more \in Seq(Field)
        BY <1>1
    <2>2. \E m : /\ m[0] = own
                 /\ \A k \in 1..Len(more) : m[k] = AddMissing(m[k - 1], more[k])
                 /\ merge_context(own, more) = m[Len(more)]
        BY <2>1, MergeSteps
    <2> QED BY <1>1, <2>2
<1> DEFINE Q == {k \in Nat : Carried(k, u[k], m[k])}
<1>4. 0 \in Q
    <2>1. <<>> \in Seq(Pairs) /\ Len(<<>>) = 0 /\ given \o <<>> = given
        BY ConcatEmptySeq
    <2>2. KeysOf(<<>>) = {} /\ Distinct(<<>>)
        BY <2>1 DEF KeysOf, Distinct
    <2>3. Carried(0, <<>>, own)
        BY <2>1, <2>2 DEF Carried
    <2> QED BY <1>2, <1>3, <2>3
<1>5. ASSUME NEW k \in 1..n, k - 1 \in Q PROVE k \in Q
    <2>1. Carried(k - 1, u[k - 1], m[k - 1])
        BY <1>5
    <2>2. Carried(k, KeepNew(u[k - 1], context[k]), AddMissing(m[k - 1], NewField(context[k])))
        BY <2>1, CarriedOn
    <2> QED BY <1>1, <1>2, <1>3, <2>2
<1> HIDE DEF Q
<1>6. n \in Q
    <2> HIDE DEF n
    <2>1. \A k \in 1..n : k - 1 \in Q => k \in Q
        BY <1>5
    <2>2. \A k \in 0..n : k \in Q
        BY <1>1, <1>4, <2>1, UpToInduction
    <2> QED BY <1>1, <2>2
<1> QED BY <1>2, <1>3, <1>6 DEF Q, more

------------------------------------------------------------------------------
(* The lines.                                                               *)

(* The fields of a record that is written.                                  *)
LEMMA WrittenFields ==
    ASSUME RecordInv, Shaped
    PROVE  /\ given \in Seq(Pairs) /\ context \in Seq(Pairs) /\ context \in Contexts
           /\ FromContext \in Seq(Pairs) /\ Kept \in Seq(Pairs)
           /\ entry.fields = NewFields(Kept)
           /\ Carried(Len(context), FromContext, entry.fields)
<1>1. /\ given \in Seq(Pairs) /\ context \in Contexts
      /\ entry.fields = merge_context(NewFields(given), NewFields(context))
    BY DEF RecordInv, Logged, Shaped
<1>2. context \in Seq(Pairs)
    BY <1>1, FormatAssumption
<1>3. Distinct(context)
    BY <1>1, FormatAssumption DEF Distinct
<1>4. Carried(Len(context), FromContext, entry.fields)
    BY <1>1, <1>2, <1>3, FieldsKept
<1>5. FromContext \in Seq(Pairs) /\ entry.fields = NewFields(Kept)
    BY <1>4 DEF Carried, Kept
<1>6. Kept \in Seq(Pairs)
    BY <1>1, <1>5, ConcatProperties DEF Kept
<1> QED BY <1>1, <1>2, <1>4, <1>5, <1>6

(* What a reader makes of a JSON line.                                      *)
LEMMA LineReads ==
    ASSUME RecordInv, Shaped, logger.json
    PROVE  /\ Read(line).mode = "outside"
           /\ Read(line).tokens = Object(Members) /\ Object(Members) \in Tokens
<1>1. line = write_record(entry, HasLocation) /\ IsEntry(entry)
    BY WrittenEntry DEF RecordInv, Laid, Formatted
<1>2. Members = OwnMembers(entry) \o PlaceMembers(entry, HasLocation) \o ListMembers(Kept)
    BY DEF Members, OwnMembers, PlaceMembers, ListMembers
<1>3. Kept \in Seq(Pairs) /\ entry.fields = NewFields(Kept)
    BY WrittenFields
<1>4. Says(line, Object(Members)) /\ Object(Members) \in Tokens
    BY <1>1, <1>2, <1>3, SaysObject
<1> DEFINE start == [mode |-> "outside", text |-> <<>>, tokens |-> <<>>]
<1>5. start \in State /\ start.mode = "outside" /\ start.tokens = <<>>
    <2>1. <<>> \in Text /\ <<>> \in Tokens
        BY TextTyped, SaysNothing
    <2> QED BY <2>1 DEF State
<1>6. Read(line) = After(start, line)
    BY DEF Read, After
<1> HIDE DEF start
<1>7. Read(line).mode = "outside" /\ Read(line).tokens = <<>> \o Object(Members)
    BY <1>4, <1>5, <1>6 DEF Says
<1>8. <<>> \o Object(Members) = Object(Members)
    BY <1>4, ConcatEmptySeq DEF Tokens
<1> QED BY <1>4, <1>7, <1>8

(* A JSON line reads back as the record: whatever quotes, backslashes and   *)
(* control characters there are in the message and in the keys and values   *)
(* of the fields, and however many fields there are, a reader finds one     *)
(* object that ends the line, with the record's own members, the caller's   *)
(* fields and the context's new ones, in that order and with the texts and  *)
(* numbers that were given.  An escape that a reader would not undo, or a   *)
(* key that merge_context took or dropped wrongly, cannot be.               *)
THEOREM JsonLinesReadBack == Spec => []JsonReadsBack
<1>1. RecordInv => JsonReadsBack
    BY LineReads DEF JsonReadsBack
<1> QED BY <1>1, RecordInvariant, PTL

------------------------------------------------------------------------------
(* The names that a reader finds.                                           *)

(* A sequence of fours flattened, place by place.                           *)
LEMMA FlattenFours ==
    ASSUME NEW E, NEW members \in Seq(Seq(E)), \A i \in 1..Len(members) : Len(members[i]) = 4
    PROVE  LET flat == FlattenSeq(members)
               n == Len(members)
           IN  /\ flat \in Seq(E) /\ Len(flat) = 4 * n
               /\ \A i \in 1..n, j \in 1..4 : flat[4 * (i - 1) + j] = members[i][j]
<1> DEFINE n == Len(members)
           V == Seq(E)
<1>1. n \in Nat /\ \A i \in 1..n : members[i] \in V /\ Len(members[i]) = 4
    OBVIOUS
<1>2. PICK m : /\ m[0] = <<>>
               /\ \A k \in 1..n : m[k] = m[k - 1] \o members[k]
               /\ \A k \in 0..n : m[k] \in V
               /\ FlattenSeq(members) = m[n]
    BY FlattenSteps
<1> HIDE DEF n
<1> DEFINE Q == {k \in Nat : /\ Len(m[k]) = 4 * k
                             /\ \A i \in 1..k, j \in 1..4 : m[k][4 * (i - 1) + j] = members[i][j]}
<1>3. 0 \in Q
    BY <1>2
<1>4. ASSUME NEW k \in 1..n, k - 1 \in Q PROVE k \in Q
    <2> DEFINE s == m[k - 1]
               t == members[k]
               l == 4 * (k - 1)
    <2>1. s \in V /\ t \in V /\ Len(t) = 4 /\ k \in Nat /\ l \in Nat /\ l + 4 = 4 * k
        <3>1. k - 1 \in 0..n /\ k \in Nat
            BY <1>1
        <3> QED BY <1>1, <1>2, <3>1
    <2>2. Len(s) = l /\ \A i \in 1..k - 1, j \in 1..4 : s[4 * (i - 1) + j] = members[i][j]
        BY <1>4
    <2>3. m[k] = s \o t
        BY <1>2
    <2> HIDE DEF s, t
    <2>4. Len(m[k]) = l + 4 /\ \A i \in 1..l + 4 : m[k][i] = IF i <= l THEN s[i] ELSE t[i - l]
        <3>1. /\ Len(s \o t) = Len(s) + Len(t)
              /\ \A i \in 1..Len(s) + Len(t) : (s \o t)[i] = IF i <= Len(s) THEN s[i] ELSE t[i - Len(s)]
            BY <2>1, ConcatProperties
        <3> HIDE DEF l
        <3> QED BY <2>1, <2>2, <2>3, <3>1
    <2>5. ASSUME NEW i \in 1..k, NEW j \in 1..4 PROVE m[k][4 * (i - 1) + j] = members[i][j]
        <3>1. CASE i = k
            <4>1. l + j \in 1..l + 4 /\ ~(l + j <= l) /\ l + j - l = j
                BY <2>1
            <4> QED BY <2>4, <3>1, <4>1 DEF t
        <3>2. CASE i # k
            <4>1. i \in 1..k - 1
                BY <2>1, <3>2
            <4>2. 4 * (i - 1) + j \in 1..l + 4 /\ 4 * (i - 1) + j <= l
                BY <2>1, <4>1
            <4> QED BY <2>2, <2>4, <4>1, <4>2
        <3> QED BY <3>1, <3>2
    <2> QED BY <2>1, <2>4, <2>5
<1> HIDE DEF Q
<1>5. n \in Q
    <2>1. \A k \in 1..n : k - 1 \in Q => k \in Q
        BY <1>4
    <2>2. \A k \in 0..n : k \in Q
        BY <1>1, <1>3, <2>1, UpToInduction
    <2> QED BY <1>1, <2>2
<1>6. n \in 0..n
    BY <1>1
<1> QED BY <1>2, <1>5, <1>6 DEF Q, n, V

(* The tokens of an object of members of four tokens each.                  *)
LEMMA ObjectTokens ==
    ASSUME NEW members \in Seq(Tokens), NEW n \in Nat, n >= 1, Len(members) = n,
           \A i \in 1..n : Len(members[i]) = 4
    PROVE  LET tokens == Object(members)
           IN  /\ tokens \in Tokens /\ Len(tokens) = 4 * n + 2
               /\ tokens[1] = Bare("{")
               /\ \A i \in 1..n, j \in 1..4 :
                     4 * (i - 1) + j # 1 => tokens[4 * (i - 1) + j] = members[i][j]
               /\ tokens[4 * n + 1] = Bare("}") /\ tokens[4 * n + 2] = Bare("\n")
<1> DEFINE F == FlattenSeq(members)
           H == <<Bare("{")>>
           E == <<Bare("}"), Bare("\n")>>
           T == Tail(F)
           l == 4 * n
<1>1. /\ F \in Tokens /\ Len(F) = l /\ l \in Nat /\ l >= 4
      /\ \A i \in 1..n, j \in 1..4 : F[4 * (i - 1) + j] = members[i][j]
    <2>1. members \in Seq(Seq(TokenSet)) /\ \A i \in 1..Len(members) : Len(members[i]) = 4
        BY DEF Tokens
    <2>2. /\ F \in Seq(TokenSet) /\ Len(F) = 4 * Len(members)
          /\ \A i \in 1..Len(members), j \in 1..4 : F[4 * (i - 1) + j] = members[i][j]
        BY <2>1, FlattenFours
    <2> HIDE DEF F
    <2> QED BY <2>2 DEF Tokens
<1>2. /\ H \in Tokens /\ Len(H) = 1 /\ H[1] = Bare("{")
      /\ E \in Tokens /\ Len(E) = 2 /\ E[1] = Bare("}") /\ E[2] = Bare("\n")
    <2>1. PICK o \in TokenSet : o = Bare("{")
        BY SaysMark
    <2>2. PICK c \in TokenSet : c = Bare("}")
        BY SaysMark
    <2>3. PICK e \in TokenSet : e = Bare("\n")
        BY SaysMark
    <2>4. /\ <<o>> \in Seq(TokenSet) /\ Len(<<o>>) = 1 /\ <<o>>[1] = o
          /\ <<c, e>> \in Seq(TokenSet) /\ Len(<<c, e>>) = 2 /\ <<c, e>>[1] = c /\ <<c, e>>[2] = e
        OBVIOUS
    <2>5. H = <<o>> /\ E = <<c, e>>
        BY <2>1, <2>2, <2>3
    <2> HIDE DEF H, E
    <2> QED BY <2>1, <2>2, <2>3, <2>4, <2>5 DEF Tokens
<1> HIDE DEF F, H, E
<1>3. T \in Tokens /\ Len(T) = l - 1 /\ \A i \in 1..l - 1 : T[i] = F[i + 1]
    <2>1. F # <<>>
        BY <1>1
    <2>2. /\ T \in Tokens /\ Len(T) = Len(F) - 1 /\ \A i \in 1..Len(T) : T[i] = F[i + 1]
        BY <1>1, <2>1, HeadTailProperties DEF Tokens
    <2> QED BY <1>1, <2>2
<1> HIDE DEF T
<1> DEFINE S == H \o T
<1>4. S \in Tokens /\ Len(S) = l /\ \A i \in 1..l : S[i] = IF i <= 1 THEN H[i] ELSE T[i - 1]
    <2>1. H \in Seq(TokenSet) /\ T \in Seq(TokenSet)
        BY <1>2, <1>3 DEF Tokens
    <2>2. /\ S \in Seq(TokenSet) /\ Len(S) = Len(H) + Len(T)
          /\ \A i \in 1..Len(H) + Len(T) : S[i] = IF i <= Len(H) THEN H[i] ELSE T[i - Len(H)]
        BY <2>1, ConcatProperties
    <2> HIDE DEF l, S
    <2>3. Len(H) = 1 /\ Len(T) = l - 1 /\ l \in Nat
        BY <1>1, <1>2, <1>3
    <2>4. Len(H) + Len(T) = l
        BY <2>3
    <2> QED BY <2>2, <2>3, <2>4 DEF Tokens
<1> HIDE DEF S
<1> DEFINE O == S \o E
<1>5. O \in Tokens /\ Len(O) = l + 2 /\ \A i \in 1..l + 2 : O[i] = IF i <= l THEN S[i] ELSE E[i - l]
    <2>1. S \in Seq(TokenSet) /\ E \in Seq(TokenSet)
        BY <1>2, <1>4 DEF Tokens
    <2>2. /\ O \in Seq(TokenSet) /\ Len(O) = Len(S) + Len(E)
          /\ \A i \in 1..Len(S) + Len(E) : O[i] = IF i <= Len(S) THEN S[i] ELSE E[i - Len(S)]
        BY <2>1, ConcatProperties
    <2> HIDE DEF l, O
    <2>3. Len(S) = l /\ Len(E) = 2
        BY <1>1, <1>2, <1>4
    <2> QED BY <2>2, <2>3 DEF Tokens
<1>6. Object(members) = O
    BY DEF Object, O, S, T, H, E, F
<1> HIDE DEF O
<1>7. O[1] = Bare("{")
    <2> HIDE DEF l
    <2>1. 1 \in 1..l /\ 1 \in 1..l + 2 /\ 1 <= l
        BY <1>1
    <2>2. O[1] = S[1] /\ S[1] = H[1]
        BY <1>4, <1>5, <2>1
    <2> QED BY <1>2, <2>2
<1>8. O[l + 1] = Bare("}") /\ O[l + 2] = Bare("\n")
    <2> HIDE DEF l
    <2>1. l \in Nat
        BY <1>1
    <2>2. PICK q \in 1..l + 2 : q = l + 1 /\ ~(q <= l) /\ q - l = 1
        BY <2>1
    <2>3. PICK r \in 1..l + 2 : r = l + 2 /\ ~(r <= l) /\ r - l = 2
        BY <2>1
    <2>4. O[q] = E[1] /\ O[r] = E[2]
        BY <1>5, <2>2, <2>3
    <2> QED BY <1>2, <2>2, <2>3, <2>4
<1>9. ASSUME NEW i \in 1..n, NEW j \in 1..4, 4 * (i - 1) + j # 1
      PROVE  O[4 * (i - 1) + j] = members[i][j]
    <2> DEFINE q == 4 * (i - 1) + j
    <2>1. q \in 2..l
        BY <1>9
    <2>2. F[q] = members[i][j]
        BY <1>1
    <2> HIDE DEF q, l
    <2>3. q \in 1..l + 2 /\ q <= l /\ q \in 1..l /\ ~(q <= 1) /\ q - 1 \in 1..l - 1 /\ q - 1 + 1 = q
        BY <1>1, <2>1
    <2> QED BY <1>3, <1>4, <1>5, <2>2, <2>3 DEF q
<1> QED BY <1>5, <1>6, <1>7, <1>8, <1>9

(* A member with a name, whose value is not a lone colon.                   *)
MemberOf(m, name) ==
    /\ m \in Tokens /\ Len(m) = 4
    /\ m[1] = Bare(",") /\ m[2] = Token("string", name) /\ m[3] = Bare(":")
    /\ m[4] # Bare(":")

(* No name is found twice exactly when no two members have the same.        *)
LEMMA NamesFound ==
    ASSUME NEW members \in Seq(Tokens), NEW n \in Nat, n >= 1, Len(members) = n, NEW names,
           \A i \in 1..n : MemberOf(members[i], names[i])
    PROVE  (\A a, b \in NamesRead(Object(members)) : a[1] = b[1] => a = b)
             <=> \A i, j \in 1..n : names[i] = names[j] => i = j
<1> DEFINE T == Object(members)
           l == 4 * n
           at(i) == 4 * (i - 1) + 2
<1>1. /\ T \in Tokens /\ Len(T) = l + 2 /\ l \in Nat
      /\ \A i \in 1..n, r \in 1..4 : 4 * (i - 1) + r # 1 => T[4 * (i - 1) + r] = members[i][r]
      /\ T[l + 1] = Bare("}") /\ T[l + 2] = Bare("\n")
    <2>1. \A i \in 1..n : Len(members[i]) = 4
        BY DEF MemberOf
    <2>2. /\ Object(members) \in Tokens /\ Len(Object(members)) = 4 * n + 2
          /\ \A i \in 1..n, r \in 1..4 :
                4 * (i - 1) + r # 1 => Object(members)[4 * (i - 1) + r] = members[i][r]
          /\ Object(members)[4 * n + 1] = Bare("}") /\ Object(members)[4 * n + 2] = Bare("\n")
        BY <2>1, ObjectTokens
    <2>3. l \in Nat
        OBVIOUS
    <2> QED BY <2>2, <2>3
<1> HIDE DEF T
<1> DEFINE spot(i, r) == 4 * (i - 1) + r
<1>0. \A i \in 1..n, r \in 1..4 : spot(i, r) # 1 => T[spot(i, r)] = members[i][r]
    BY <1>1
<1>2. /\ Bare(",") # Bare(":") /\ Bare("}") # Bare(":") /\ Bare("\n") # Bare(":")
      /\ \A name : Token("string", name) # Bare(":") /\ Token("string", name).text = name
    BY DEF Bare, Token
<1>3. ASSUME NEW i \in 1..n
      PROVE  /\ at(i) \in 1..l + 1 /\ T[at(i) + 1] = Bare(":") /\ T[at(i)].text = names[i]
    <2>1. /\ at(i) \in 1..l + 1 /\ at(i) # 1 /\ at(i) + 1 # 1 /\ at(i) + 1 = 4 * (i - 1) + 3
        OBVIOUS
    <2>2. spot(i, 2) = at(i) /\ spot(i, 3) = at(i) + 1
        OBVIOUS
    <2>3. T[at(i)] = members[i][2] /\ T[4 * (i - 1) + 3] = members[i][3]
        <3> HIDE DEF spot, at
        <3>1. T[spot(i, 2)] = members[i][2] /\ T[spot(i, 3)] = members[i][3]
            BY <1>0, <2>1, <2>2
        <3> QED BY <2>1, <2>2, <3>1
    <2>4. members[i][2] = Token("string", names[i]) /\ members[i][3] = Bare(":")
        BY DEF MemberOf
    <2>5. T[at(i) + 1] = T[4 * (i - 1) + 3]
        BY <2>1
    <2> HIDE DEF at
    <2> QED BY <1>2, <2>1, <2>3, <2>4, <2>5
<1>4. ASSUME NEW j \in 1..l + 1, T[j + 1] = Bare(":")
      PROVE  \E i \in 1..n : j = at(i)
    <2>1. CASE j + 1 > l
        <3>1. j + 1 = l + 1 \/ j + 1 = l + 2
            BY <2>1
        <3> QED BY <1>1, <1>2, <1>4, <3>1
    <2>2. CASE ~(j + 1 > l)
        <3>1. PICK i \in 1..n, r \in 1..4 : j + 1 = 4 * (i - 1) + r
            <4> DEFINE i == ((j \div 4) + 1)
            <4>1. i \in 1..n /\ j + 1 - 4 * (i - 1) \in 1..4
                BY <2>2
            <4>2. j + 1 = 4 * (i - 1) + (j + 1 - 4 * (i - 1))
                OBVIOUS
            <4> QED BY <4>1, <4>2
        <3>2. Bare(":") = members[i][r]
            <4>1. 4 * (i - 1) + r # 1
                BY <3>1
            <4> QED BY <1>1, <1>4, <3>1, <4>1
        <3>3. r = 3
            <4>1. MemberOf(members[i], names[i])
                OBVIOUS
            <4>2. r = 1 \/ r = 2 \/ r = 3 \/ r = 4
                OBVIOUS
            <4> QED BY <1>2, <3>2, <4>1, <4>2 DEF MemberOf
        <3>4. j = at(i)
            BY <3>1, <3>3
        <3> QED BY <3>4
    <2> QED BY <2>1, <2>2
<1>5. \A i, j \in 1..n : at(i) = at(j) => i = j
    OBVIOUS
<1>6. Len(T) - 1 = l + 1
    <2>1. Len(T) = l + 2 /\ l \in Nat
        BY <1>1
    <2> HIDE DEF l
    <2> QED BY <2>1
<1> HIDE DEF l, at
<1>7. NamesRead(T) = {<<names[i], at(i)>> : i \in 1..n}
    <2>1. NamesRead(T) = {<<T[j].text, j>> : j \in {q \in 1..l + 1 : T[q + 1] = Bare(":")}}
        BY <1>6 DEF NamesRead
    <2>2. {q \in 1..l + 1 : T[q + 1] = Bare(":")} = {at(i) : i \in 1..n}
        BY <1>3, <1>4
    <2>3. {<<T[j].text, j>> : j \in {at(i) : i \in 1..n}} = {<<T[at(i)].text, at(i)>> : i \in 1..n}
        OBVIOUS
    <2>4. {<<T[at(i)].text, at(i)>> : i \in 1..n} = {<<names[i], at(i)>> : i \in 1..n}
        BY <1>3
    <2> QED BY <2>1, <2>2, <2>3, <2>4
<1>8. ASSUME \A a, b \in NamesRead(T) : a[1] = b[1] => a = b,
             NEW i \in 1..n, NEW j \in 1..n, names[i] = names[j]
      PROVE  i = j
    <2>1. <<names[i], at(i)>> \in NamesRead(T) /\ <<names[j], at(j)>> \in NamesRead(T)
        BY <1>7
    <2>2. <<names[i], at(i)>> = <<names[j], at(j)>>
        BY <1>8, <2>1
    <2> QED BY <1>5, <2>2
<1>9. ASSUME \A i, j \in 1..n : names[i] = names[j] => i = j,
             NEW a \in NamesRead(T), NEW b \in NamesRead(T), a[1] = b[1]
      PROVE  a = b
    <2>1. PICK i \in 1..n : a = <<names[i], at(i)>>
        BY <1>7
    <2>2. PICK j \in 1..n : b = <<names[j], at(j)>>
        BY <1>7
    <2> QED BY <1>9, <2>1, <2>2
<1> QED BY <1>8, <1>9 DEF T

(* No key twice among as many as there are fields.                          *)
LEMMA DistinctKeys ==
    ASSUME NEW C, NEW list \in Seq(C)
    PROVE  Cardinality(KeysOf(list)) = Len(list) <=> Distinct(list)
<1> DEFINE n == Len(list)
           S == 1..n
           K == KeysOf(list)
           f == [i \in S |-> list[i].key]
<1>1. n \in Nat /\ IsFiniteSet(S) /\ Cardinality(S) = n
    <2>1. n \in Nat /\ 1 \in Int /\ n \in Int
        OBVIOUS
    <2> HIDE DEF n
    <2>2. IsFiniteSet(1..n) /\ Cardinality(1..n) = IF 1 > n THEN 0 ELSE n - 1 + 1
        BY <2>1, FS_Interval
    <2> QED BY <2>1, <2>2
<1>2. f \in Surjection(S, K)
    BY DEF KeysOf, Surjection
<1>3. Cardinality(K) = Cardinality(S) <=> f \in Injection(S, K)
    <2> HIDE DEF S, K, f
    <2> QED BY <1>1, <1>2, FS_Surjection
<1>4. f \in Injection(S, K) <=> Distinct(list)
    BY DEF Injection, IsInjective, KeysOf, Distinct
<1> QED BY <1>1, <1>3, <1>4

(* A member is a member of its name.                                        *)
LEMMA MemberIs ==
    ASSUME NEW name \in Text, NEW token \in TokenSet, token # Bare(":")
    PROVE  MemberOf(Member(name, token), name)
<1>1. PICK c \in TokenSet : c = Bare(",")
    BY SaysMark
<1>2. PICK d \in TokenSet : d = Bare(":")
    BY SaysMark
<1>3. PICK x \in TokenSet : x = Token("string", name)
    BY TokenTyped
<1> DEFINE m == <<c, x, d, token>>
<1>4. m \in Seq(TokenSet) /\ Len(m) = 4 /\ m[1] = c /\ m[2] = x /\ m[3] = d /\ m[4] = token
    OBVIOUS
<1>5. Member(name, token) = m
    BY <1>1, <1>2, <1>3 DEF Member
<1> HIDE DEF m
<1> QED BY <1>1, <1>2, <1>3, <1>4, <1>5 DEF MemberOf, Tokens

(* The names of a record's own members, in order.                           *)
NameList(include_location) ==
    IF include_location
    THEN <<<<"ts">>, <<"level">>, <<"msg">>, <<"file">>, <<"line">>, <<"target">>>>
    ELSE <<<<"ts">>, <<"level">>, <<"msg">>>>

(* A record's own names differ, and are those of the property.              *)
LEMMA NameListIs ==
    /\ Len(NameList(HasLocation)) \in {3, 6}
    /\ \A i, j \in 1..Len(NameList(HasLocation)) :
          NameList(HasLocation)[i] = NameList(HasLocation)[j] => i = j
    /\ OwnNames = {NameList(HasLocation)[i] : i \in 1..Len(NameList(HasLocation))}
<1>1. CASE HasLocation
    <2> DEFINE s == <<<<"ts">>, <<"level">>, <<"msg">>, <<"file">>, <<"line">>, <<"target">>>>
    <2>1. /\ Len(s) = 6 /\ s[1] = <<"ts">> /\ s[2] = <<"level">> /\ s[3] = <<"msg">>
          /\ s[4] = <<"file">> /\ s[5] = <<"line">> /\ s[6] = <<"target">>
        OBVIOUS
    <2>2. NameList(HasLocation) = s
        BY <1>1 DEF NameList
    <2>3. OwnNames = {<<"ts">>, <<"level">>, <<"msg">>, <<"file">>, <<"line">>, <<"target">>}
        BY <1>1 DEF OwnNames
    <2> HIDE DEF s
    <2>4. 1..6 = {1, 2, 3, 4, 5, 6}
        OBVIOUS
    <2>5. \A i, j \in {1, 2, 3, 4, 5, 6} : s[i] = s[j] => i = j
        BY <2>1
    <2>6. OwnNames = {s[i] : i \in {1, 2, 3, 4, 5, 6}}
        BY <2>1, <2>3
    <2>7. 1..Len(s) = {1, 2, 3, 4, 5, 6} /\ Len(s) \in {3, 6}
        BY <2>1, <2>4
    <2> QED BY <2>2, <2>5, <2>6, <2>7
<1>2. CASE ~HasLocation
    <2> DEFINE s == <<<<"ts">>, <<"level">>, <<"msg">>>>
    <2>1. Len(s) = 3 /\ s[1] = <<"ts">> /\ s[2] = <<"level">> /\ s[3] = <<"msg">>
        OBVIOUS
    <2>2. NameList(HasLocation) = s
        BY <1>2 DEF NameList
    <2>3. OwnNames = {<<"ts">>, <<"level">>, <<"msg">>}
        BY <1>2 DEF OwnNames
    <2> HIDE DEF s
    <2>4. 1..3 = {1, 2, 3}
        OBVIOUS
    <2>5. \A i, j \in {1, 2, 3} : s[i] = s[j] => i = j
        BY <2>1
    <2>6. OwnNames = {s[i] : i \in {1, 2, 3}}
        BY <2>1, <2>3
    <2>7. 1..Len(s) = {1, 2, 3} /\ Len(s) \in {3, 6}
        BY <2>1, <2>4
    <2> QED BY <2>2, <2>5, <2>6, <2>7
<1> QED BY <1>1, <1>2

(* A record's own members have these names.                                 *)
LEMMA OwnMembersNamed ==
    ASSUME NEW e, IsEntry(e), NEW include_location
    PROVE  LET own == OwnMembers(e) \o PlaceMembers(e, include_location)
               names == NameList(include_location)
           IN  /\ own \in Seq(Tokens) /\ Len(own) = Len(names)
               /\ \A i \in 1..Len(names) : MemberOf(own[i], names[i])
<1> DEFINE s1 == Member(<<"ts">>, Token("string", Stamp(e.timestamp)))
           s2 == Member(<<"level">>, Token("string", <<e.level>>))
           s3 == Member(<<"msg">>, Token("string", e.message))
           s4 == Member(<<"file">>, Token("string", e.file))
           s5 == Member(<<"line">>, Bare(ToString(e.line)))
           s6 == Member(<<"target">>, Token("string", e.target))
<1>1. \A name \in Names : <<name>> \in Text
    BY NamesPlain, TextTyped
<1>2. \A text : Token("string", text) # Bare(":")
    BY DEF Token, Bare
<1>3. /\ Token("string", e.message) \in TokenSet /\ Token("string", e.file) \in TokenSet
      /\ Token("string", e.target) \in TokenSet
    BY EntryTyped, TokenTyped
<1>4. Bare(ToString(e.line)) # Bare(":")
    <2>1. PICK l \in Locations : e.line = l.line
        BY DEF IsEntry
    <2>2. ToString(e.line) # ":"
        BY <2>1, FormatAssumption DEF Plainly
    <2> QED BY <2>2 DEF Bare, Token
<1>5. /\ MemberOf(s1, <<"ts">>) /\ MemberOf(s2, <<"level">>) /\ MemberOf(s3, <<"msg">>)
      /\ MemberOf(s4, <<"file">>) /\ MemberOf(s5, <<"line">>) /\ MemberOf(s6, <<"target">>)
    BY <1>1, <1>2, <1>3, <1>4, SaysOwn, MemberIs DEF Names
<1>6. /\ OwnMembers(e) = <<s1, s2, s3>>
      /\ PlaceMembers(e, include_location) = IF include_location THEN <<s4, s5, s6>> ELSE <<>>
    BY DEF OwnMembers, PlaceMembers
<1> HIDE DEF s1, s2, s3, s4, s5, s6
<1>7. /\ s1 \in Tokens /\ s2 \in Tokens /\ s3 \in Tokens
      /\ s4 \in Tokens /\ s5 \in Tokens /\ s6 \in Tokens
    BY <1>5 DEF MemberOf
<1> DEFINE a == <<s1, s2, s3>>
           b == <<s4, s5, s6>>
<1>8. /\ a \in Seq(Tokens) /\ Len(a) = 3 /\ a[1] = s1 /\ a[2] = s2 /\ a[3] = s3
      /\ b \in Seq(Tokens) /\ Len(b) = 3 /\ b[1] = s4 /\ b[2] = s5 /\ b[3] = s6
    BY <1>7
<1> HIDE DEF a, b
<1>9. CASE include_location
    <2> DEFINE names == NameList(include_location)
    <2>1. /\ Len(names) = 6 /\ names[1] = <<"ts">> /\ names[2] = <<"level">>
          /\ names[3] = <<"msg">> /\ names[4] = <<"file">> /\ names[5] = <<"line">>
          /\ names[6] = <<"target">>
        BY <1>9 DEF NameList
    <2> HIDE DEF names
    <2>2. /\ a \o b \in Seq(Tokens) /\ Len(a \o b) = 6
          /\ \A i \in 1..6 : (a \o b)[i] = IF i <= 3 THEN a[i] ELSE b[i - 3]
        <3> DEFINE c == a \o b
        <3>1. a \in Seq(Tokens) /\ b \in Seq(Tokens) /\ Len(a) = 3 /\ Len(b) = 3
            BY <1>8
        <3>2. /\ c \in Seq(Tokens) /\ Len(c) = Len(a) + Len(b)
              /\ \A i \in 1..Len(a) + Len(b) : c[i] = IF i <= Len(a) THEN a[i] ELSE b[i - Len(a)]
            BY <3>1, ConcatProperties
        <3> HIDE DEF c
        <3>3. c \in Seq(Tokens) /\ Len(c) = 6 /\ \A i \in 1..6 : c[i] = IF i <= 3 THEN a[i] ELSE b[i - 3]
            BY <3>1, <3>2
        <3> QED BY <3>3 DEF c
    <2>3. \A i \in 1..6 : MemberOf((a \o b)[i], names[i])
        <3> SUFFICES ASSUME NEW i \in 1..6 PROVE MemberOf((a \o b)[i], names[i])
            OBVIOUS
        <3>1. i = 1 \/ i = 2 \/ i = 3 \/ i = 4 \/ i = 5 \/ i = 6
            OBVIOUS
        <3>2. /\ (a \o b)[1] = s1 /\ (a \o b)[2] = s2 /\ (a \o b)[3] = s3
              /\ (a \o b)[4] = s4 /\ (a \o b)[5] = s5 /\ (a \o b)[6] = s6
            <4> DEFINE c == a \o b
            <4>1. \A q \in 1..6 : c[q] = IF q <= 3 THEN a[q] ELSE b[q - 3]
                BY <2>2
            <4>2. /\ a[1] = s1 /\ a[2] = s2 /\ a[3] = s3 /\ b[1] = s4 /\ b[2] = s5 /\ b[3] = s6
                BY <1>8
            <4> HIDE DEF c
            <4>3. c[1] = s1 /\ c[2] = s2 /\ c[3] = s3
                BY <4>1, <4>2
            <4>4. c[4] = s4 /\ c[5] = s5 /\ c[6] = s6
                BY <4>1, <4>2
            <4> QED BY <4>3, <4>4 DEF c
        <3> QED BY <1>5, <2>1, <3>1, <3>2
    <2>4. OwnMembers(e) \o PlaceMembers(e, include_location) = a \o b
        BY <1>6, <1>9 DEF a, b
    <2> QED BY <2>1, <2>2, <2>3, <2>4 DEF names
<1>10. CASE ~include_location
    <2> DEFINE names == NameList(include_location)
    <2>1. /\ Len(names) = 3 /\ names[1] = <<"ts">> /\ names[2] = <<"level">> /\ names[3] = <<"msg">>
        BY <1>10 DEF NameList
    <2> HIDE DEF names
    <2>2. \A i \in 1..3 : MemberOf(a[i], names[i])
        <3> SUFFICES ASSUME NEW i \in 1..3 PROVE MemberOf(a[i], names[i])
            OBVIOUS
        <3>1. i = 1 \/ i = 2 \/ i = 3
            OBVIOUS
        <3> QED BY <1>5, <1>8, <2>1, <3>1
    <2>3. OwnMembers(e) \o PlaceMembers(e, include_location) = a
        <3>1. a \o <<>> = a
            BY <1>8, ConcatEmptySeq
        <3> QED BY <1>6, <1>10, <3>1 DEF a
    <2> QED BY <1>8, <2>1, <2>2, <2>3 DEF names
<1> QED BY <1>9, <1>10

(* Whether a list repeats a key, when what follows it repeats none.         *)
LEMMA DistinctConcat ==
    ASSUME NEW C, NEW a \in Seq(C), NEW b \in Seq(C), Distinct(b),
           KeysOf(b) \cap KeysOf(a) = {}
    PROVE  Distinct(a \o b) <=> Distinct(a)
<1> DEFINE s == a \o b
<1>1. PICK m \in Nat : m = Len(a)
    OBVIOUS
<1>2. PICK n \in Nat : n = Len(b)
    OBVIOUS
<1>3. Len(s) = m + n /\ \A i \in 1..m + n : s[i] = IF i <= m THEN a[i] ELSE b[i - m]
    BY <1>1, <1>2, ConcatProperties
<1> HIDE DEF s
<1>4. \A i \in 1..m : i \in 1..m + n /\ s[i] = a[i] /\ a[i].key \in KeysOf(a)
    <2>1. \A i \in 1..m : i \in 1..m + n /\ i <= m
        BY <1>1, <1>2
    <2> QED BY <1>1, <1>3, <2>1 DEF KeysOf
<1>5. ASSUME NEW i \in 1..m + n, i \notin 1..m
      PROVE  i - m \in 1..n /\ s[i] = b[i - m] /\ b[i - m].key \in KeysOf(b)
    <2>1. i - m \in 1..n /\ ~(i <= m)
        BY <1>1, <1>2, <1>5
    <2> QED BY <1>2, <1>3, <2>1 DEF KeysOf
<1>6. ASSUME Distinct(s) PROVE Distinct(a)
    BY <1>1, <1>3, <1>4, <1>6 DEF Distinct
<1>7. ASSUME Distinct(a), NEW i \in 1..m + n, NEW j \in 1..m + n, s[i].key = s[j].key
      PROVE  i = j
    <2>1. CASE i \in 1..m
        <3>1. j \in 1..m
            BY <1>4, <1>5, <1>7, <2>1
        <3> QED BY <1>1, <1>4, <1>7, <2>1, <3>1 DEF Distinct
    <2>2. CASE i \notin 1..m
        <3>1. j \notin 1..m
            BY <1>4, <1>5, <1>7, <2>2
        <3>2. PICK p \in 1..n : p = i - m /\ s[i] = b[p]
            BY <1>5, <2>2
        <3>3. PICK q \in 1..n : q = j - m /\ s[j] = b[q]
            BY <1>5, <3>1
        <3>4. p = q
            BY <1>2, <1>7, <3>2, <3>3 DEF Distinct
        <3> QED BY <1>1, <1>2, <3>2, <3>3, <3>4
    <2> QED BY <2>1, <2>2
<1> QED BY <1>3, <1>6, <1>7 DEF s, Distinct

(* What keys a record that is written has, and when it has one twice.       *)
LEMMA KeptKeys ==
    ASSUME RecordInv, Shaped
    PROVE  /\ KeysOf(Kept) = KeysOf(given) \cup KeysOf(context)
           /\ Distinct(Kept) <=> Cardinality(KeysOf(given)) = Len(given)
<1>1. /\ given \in Seq(Pairs) /\ FromContext \in Seq(Pairs) /\ context \in Seq(Pairs)
      /\ Carried(Len(context), FromContext, entry.fields)
    BY WrittenFields
<1>2. /\ Distinct(FromContext) /\ KeysOf(FromContext) \cap KeysOf(given) = {}
      /\ \A j \in 1..Len(FromContext) : \E h \in 1..Len(context) : FromContext[j] = context[h]
      /\ \A h \in 1..Len(context) : context[h].key \in KeysOf(given) \cup KeysOf(FromContext)
    BY <1>1 DEF Carried
<1>3. KeysOf(Kept) = KeysOf(given) \cup KeysOf(FromContext)
    BY <1>1, KeysOfConcat DEF Kept
<1>4. KeysOf(FromContext) \subseteq KeysOf(context)
    BY <1>2 DEF KeysOf
<1>5. KeysOf(context) \subseteq KeysOf(given) \cup KeysOf(FromContext)
    <2>1. \A key \in KeysOf(context) : \E h \in 1..Len(context) : key = context[h].key
        BY DEF KeysOf
    <2> QED BY <1>2, <2>1
<1>6. Distinct(Kept) <=> Distinct(given)
    BY <1>1, <1>2, DistinctConcat DEF Kept
<1>7. Cardinality(KeysOf(given)) = Len(given) <=> Distinct(given)
    BY <1>1, DistinctKeys
<1> QED BY <1>3, <1>4, <1>5, <1>6, <1>7

(* The members of a list have its keys.                                     *)
LEMMA ListMembersNamed ==
    ASSUME NEW list \in Seq(Pairs)
    PROVE  /\ ListMembers(list) \in Seq(Tokens) /\ Len(ListMembers(list)) = Len(list)
           /\ \A i \in 1..Len(list) : MemberOf(ListMembers(list)[i], list[i].key)
<1> DEFINE member(i) == Member(list[i].key, Shown(list[i].value))
<1>1. ASSUME NEW i \in 1..Len(list)
      PROVE  MemberOf(member(i), list[i].key)
    <2>1. PICK g \in Pairs : g = list[i]
        OBVIOUS
    <2>2. g.key \in Text
        BY FormatAssumption, TextTyped
    <2>3. MemberOf(Member(g.key, Shown(g.value)), g.key)
        BY <2>2, SaysValue, MemberIs
    <2> QED BY <2>1, <2>3
<1> HIDE DEF member
<1>2. \A i \in 1..Len(list) : member(i) \in Tokens
    BY <1>1 DEF MemberOf
<1>3. Len(list) \in Nat
    OBVIOUS
<1> DEFINE s == [i \in 1..Len(list) |-> member(i)]
<1>4. s \in Seq(Tokens) /\ Len(s) = Len(list) /\ \A i \in 1..Len(list) : s[i] = member(i)
    BY <1>2, <1>3
<1>5. ListMembers(list) = s
    BY DEF ListMembers, member
<1> HIDE DEF s
<1> QED BY <1>1, <1>4, <1>5

(* The names of all members: a record's own, then those of a list.          *)
AllNames(own, list) ==
    [i \in 1..Len(own) + Len(list) |->
        IF i <= Len(own) THEN own[i] ELSE list[i - Len(own)].key]

(* When no name is there twice among a record's own and a list's.           *)
LEMMA AllNamesOnce ==
    ASSUME NEW b \in Nat, NEW n \in Nat, NEW own, NEW list, Len(own) = b, Len(list) = n,
           \A i, j \in 1..b : own[i] = own[j] => i = j
    PROVE  (\A i, j \in 1..b + n : AllNames(own, list)[i] = AllNames(own, list)[j] => i = j)
             <=> Distinct(list) /\ KeysOf(list) \cap {own[i] : i \in 1..b} = {}
<1> DEFINE names == AllNames(own, list)
           O == {own[i] : i \in 1..b}
<1>1. \A i \in 1..b + n : names[i] = IF i <= b THEN own[i] ELSE list[i - b].key
    BY DEF AllNames
<1> HIDE DEF names
<1>2. \A i \in 1..b : i \in 1..b + n /\ names[i] = own[i] /\ names[i] \in O
    <2>1. \A i \in 1..b : i \in 1..b + n /\ i <= b
        OBVIOUS
    <2> QED BY <1>1, <2>1
<1>3. ASSUME NEW i \in 1..b + n, i \notin 1..b
      PROVE  /\ i - b \in 1..n /\ names[i] = list[i - b].key
             /\ names[i] \in KeysOf(list)
    <2>1. i - b \in 1..n /\ ~(i <= b)
        BY <1>3
    <2> QED BY <1>1, <2>1 DEF KeysOf
<1>4. ASSUME NEW j \in 1..n
      PROVE  b + j \in 1..b + n /\ b + j \notin 1..b /\ names[b + j] = list[j].key
    <2>1. b + j \in 1..b + n /\ b + j \notin 1..b /\ ~(b + j <= b) /\ b + j - b = j
        OBVIOUS
    <2> QED BY <1>1, <2>1
<1>5. ASSUME \A i, j \in 1..b + n : names[i] = names[j] => i = j
      PROVE  Distinct(list) /\ KeysOf(list) \cap O = {}
    <2>1. ASSUME NEW i \in 1..n, NEW j \in 1..n, list[i].key = list[j].key
          PROVE  i = j
        <3>1. b + i = b + j
            BY <1>4, <1>5, <2>1
        <3> QED BY <3>1
    <2>2. ASSUME NEW key \in KeysOf(list), key \in O PROVE FALSE
        <3>1. PICK j \in 1..n : key = list[j].key
            BY DEF KeysOf
        <3>2. PICK i \in 1..b : key = own[i]
            BY <2>2
        <3>3. PICK q \in 1..b + n : q = b + j /\ names[q] = key
            BY <1>4, <3>1
        <3>4. i \in 1..b + n /\ names[i] = key
            BY <1>2, <3>2
        <3>5. i = q
            BY <1>5, <3>3, <3>4
        <3> QED BY <3>3, <3>5
    <2> HIDE DEF O
    <2> QED BY <2>1, <2>2 DEF Distinct
<1>6. ASSUME Distinct(list), KeysOf(list) \cap O = {},
             NEW i \in 1..b + n, NEW j \in 1..b + n, names[i] = names[j]
      PROVE  i = j
    <2>1. CASE i \in 1..b
        <3>1. j \in 1..b
            BY <1>2, <1>3, <1>6, <2>1
        <3> QED BY <1>2, <1>6, <2>1, <3>1
    <2>2. CASE i \notin 1..b
        <3>1. j \notin 1..b
            BY <1>2, <1>3, <1>6, <2>2
        <3>2. i - b = j - b
            BY <1>3, <1>6, <2>2, <3>1 DEF Distinct
        <3> QED BY <3>2
    <2> QED BY <2>1, <2>2
<1> QED BY <1>5, <1>6 DEF names

(* When a reader of a JSON line finds no name twice.                        *)
LEMMA NamesOnce ==
    ASSUME RecordInv, Shaped, logger.json
    PROVE  (\A m, n \in NamesRead(Read(line).tokens) : m[1] = n[1] => m = n)
             <=> Distinct(Kept) /\ KeysOf(Kept) \cap OwnNames = {}
<1> DEFINE own == OwnMembers(entry) \o PlaceMembers(entry, HasLocation)
           base == NameList(HasLocation)
           others == ListMembers(Kept)
           b == Len(base)
           k == Len(Kept)
           names == AllNames(base, Kept)
<1>1. Kept \in Seq(Pairs) /\ k \in Nat
    BY WrittenFields
<1>2. b \in {3, 6} /\ b \in Nat
    BY NameListIs
<1>3. own \in Seq(Tokens) /\ Len(own) = b /\ \A i \in 1..b : MemberOf(own[i], base[i])
    BY WrittenEntry, OwnMembersNamed
<1>4. others \in Seq(Tokens) /\ Len(others) = k /\ \A i \in 1..k : MemberOf(others[i], Kept[i].key)
    BY <1>1, ListMembersNamed
<1>5. Read(line).tokens = Object(own \o others)
    BY LineReads DEF Members, OwnMembers, PlaceMembers, ListMembers
<1>6. \A i \in 1..b + k : names[i] = IF i <= b THEN base[i] ELSE Kept[i - b].key
    BY DEF AllNames
<1>7. /\ \A i, j \in 1..b : base[i] = base[j] => i = j
      /\ OwnNames = {base[i] : i \in 1..b}
    BY NameListIs
<1> HIDE DEF own, others, names
<1> DEFINE all == own \o others
<1>8. /\ all \in Seq(Tokens) /\ Len(all) = b + k
      /\ \A i \in 1..b + k : all[i] = IF i <= b THEN own[i] ELSE others[i - b]
    <2>1. own \in Seq(Tokens) /\ others \in Seq(Tokens) /\ Len(own) = b /\ Len(others) = k
        BY <1>3, <1>4
    <2> HIDE DEF b, k
    <2>2. /\ all \in Seq(Tokens) /\ Len(all) = Len(own) + Len(others)
          /\ \A i \in 1..Len(own) + Len(others) :
                all[i] = IF i <= Len(own) THEN own[i] ELSE others[i - Len(own)]
        BY <2>1, ConcatProperties
    <2> HIDE DEF all
    <2> QED BY <2>1, <2>2
<1> HIDE DEF all, base, b, k
<1>9. ASSUME NEW i \in 1..b + k PROVE MemberOf(all[i], names[i])
    <2>1. CASE i <= b
        <3>1. i \in 1..b
            BY <1>1, <1>2, <2>1
        <3> QED BY <1>3, <1>6, <1>8, <2>1, <3>1
    <2>2. CASE ~(i <= b)
        <3>1. i - b \in 1..k
            BY <1>1, <1>2, <2>2
        <3> QED BY <1>4, <1>6, <1>8, <2>2, <3>1
    <2> QED BY <2>1, <2>2
<1>10. PICK n \in Nat : n = b + k /\ n >= 1
    BY <1>1, <1>2
<1>11. (\A x, y \in NamesRead(Object(all)) : x[1] = y[1] => x = y)
         <=> \A i, j \in 1..n : names[i] = names[j] => i = j
    BY <1>8, <1>9, <1>10, NamesFound
<1>12. (\A i, j \in 1..b + k : names[i] = names[j] => i = j)
         <=> Distinct(Kept) /\ KeysOf(Kept) \cap OwnNames = {}
    <2>1. b \in Nat /\ k \in Nat /\ Len(base) = b /\ Len(Kept) = k
        BY <1>1, <1>2 DEF b, k
    <2>2. (\A i, j \in 1..b + k : AllNames(base, Kept)[i] = AllNames(base, Kept)[j] => i = j)
            <=> Distinct(Kept) /\ KeysOf(Kept) \cap {base[i] : i \in 1..b} = {}
        BY <1>7, <2>1, AllNamesOnce
    <2> QED BY <1>7, <2>2 DEF names
<1> QED BY <1>5, <1>10, <1>11, <1>12 DEF all

(* A JSON object names a member twice exactly when the caller did: it gave  *)
(* a key twice, or it or the context used the name of one of the record's   *)
(* own members.  A field of the context that the caller has set, or one     *)
(* that merge_context pushed twice, is in no line.                          *)
THEOREM NamesComeOnce == Spec => []KeysOnce
<1>1. RecordInv => KeysOnce
    BY NamesOnce, KeptKeys DEF KeysOnce
<1> QED BY <1>1, RecordInvariant, PTL
=============================================================================
