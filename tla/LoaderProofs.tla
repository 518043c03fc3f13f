---------------------------- MODULE LoaderProofs ----------------------------
(***************************************************************************)
(* Proofs about the loaders, for any window, files, times, property lists  *)
(* and bounds: the paths of the drivers, what lies behind the boot         *)
(* arguments, the segments of the kernel and its displacement, the fall    *)
(* back from cache to kernel, and the age of a cache that is used.         *)
(***************************************************************************)
EXTENDS LoadDrivers, TLAPS

\* A leaf is Zenon's unless it names the SMT solver, which is for arithmetic.
USE ZenonT(40), SMTT(15), Z3T(15)

-----------------------------------------------------------------------------
(* Times. A second is counted from the start of its year, the days of a    *)
(* year from its months.                                                   *)

LeapDay(y) == IF IsLeapYear(y) THEN 1 ELSE 0
YearStart(y) == (y - Epoch) * 365 + LeapYearsBefore(y)
MonthStart(y, m) == DaysBefore[m] + (IF m > 2 THEN LeapDay(y) ELSE 0)
MonthLength(y, m) == IF m = 2 THEN 28 + LeapDay(y)
                     ELSE IF m \in {1, 3, 5, 7, 8, 10, 12} THEN 31 ELSE 30
Clock(d, h, m, s) == ((d * 24 + h) * 60 + m) * 60 + s

\* A year starts where the one before it ends.
LEMMA YearStarts ==
    ASSUME NEW y \in Nat
    PROVE  /\ YearStart(y) \in Int /\ LeapDay(y) \in {0, 1}
           /\ LeapYearsBefore(y) \in Int /\ LeapYearsBefore(y + 1) = LeapYearsBefore(y) + LeapDay(y)
           /\ YearStart(y + 1) = YearStart(y) + 365 + LeapDay(y)
           /\ \A z \in Nat : y < z => YearStart(y) + 365 + LeapDay(y) <= YearStart(z)
  <1>1. LeapDay(y) \in {0, 1} /\ \A x \in Nat : LeapYearsBefore(x) \in Int
    BY SMTT(20) DEF LeapDay, LeapYearsBefore
  <1>2. LeapYearsBefore(y + 1) = LeapYearsBefore(y) + LeapDay(y)
    BY SMTT(20) DEF LeapDay, LeapYearsBefore, IsLeapYear
  <1>3. Epoch \in Nat BY TimesAssumption
  <1>4. YearStart(y) \in Int BY <1>1, <1>3, SMTT(20) DEF YearStart
  <1>5. YearStart(y + 1) = YearStart(y) + 365 + LeapDay(y)
    BY <1>1, <1>2, <1>3, SMTT(20) DEF YearStart
  <1>6. ASSUME NEW z \in Nat, y < z
        PROVE  YearStart(y + 1) <= YearStart(z)
    <2>1. LeapYearsBefore(y + 1) <= LeapYearsBefore(z) + 365 * (z - (y + 1))
      BY <1>6, SMTT(20) DEF LeapYearsBefore
    <2>2. y + 1 \in Nat BY <1>6, SMTT(20)
    <2> QED BY <1>1, <1>3, <2>1, <2>2, SMTT(20) DEF YearStart
  <1> QED BY <1>1, <1>2, <1>4, <1>5, <1>6, SMTT(20)

\* The months of a year follow each other and fill it.
LEMMA MonthStarts ==
    ASSUME NEW y, LeapDay(y) \in {0, 1}, NEW m \in 1 .. 12
    PROVE  /\ MonthStart(y, m) \in Nat /\ MonthLength(y, m) \in 28 .. 31
           /\ m < 12 => MonthStart(y, m + 1) = MonthStart(y, m) + MonthLength(y, m)
           /\ m = 12 => MonthStart(y, m) + MonthLength(y, m) = 365 + LeapDay(y)
           /\ MonthStart(y, m) + MonthLength(y, m) <= 365 + LeapDay(y)
           /\ \A k \in 1 .. 12 : m < k => MonthStart(y, m) + MonthLength(y, m) <= MonthStart(y, k)
  <1> DEFINE b(k) == DaysBefore[k]
  <1>1. /\ b(1) = 0 /\ b(2) = 31 /\ b(3) = 59 /\ b(4) = 90 /\ b(5) = 120 /\ b(6) = 151
        /\ b(7) = 181 /\ b(8) = 212 /\ b(9) = 243 /\ b(10) = 273 /\ b(11) = 304 /\ b(12) = 334
    BY DEF DaysBefore
  <1>2. \A k \in 1 .. 12 : \/ k = 1 \/ k = 2 \/ k = 3 \/ k = 4 \/ k = 5 \/ k = 6
                           \/ k = 7 \/ k = 8 \/ k = 9 \/ k = 10 \/ k = 11 \/ k = 12
    BY SMTT(20)
  <1> HIDE DEF b
  <1>3. MonthStart(y, m) \in Nat /\ MonthLength(y, m) \in 28 .. 31
    BY <1>1, <1>2, SMTT(20) DEF MonthStart, MonthLength, b
  <1>4. m < 12 => MonthStart(y, m + 1) = MonthStart(y, m) + MonthLength(y, m)
    BY <1>1, <1>2, SMTT(20) DEF MonthStart, MonthLength, b
  <1>5. /\ m = 12 => MonthStart(y, m) + MonthLength(y, m) = 365 + LeapDay(y)
        /\ MonthStart(y, m) + MonthLength(y, m) <= 365 + LeapDay(y)
    BY <1>1, <1>2, SMTT(20) DEF MonthStart, MonthLength, b
  <1>6. ASSUME NEW k \in 1 .. 12, m < k
        PROVE  MonthStart(y, m) + MonthLength(y, m) <= MonthStart(y, k)
    BY <1>1, <1>2, <1>6, SMTT(20) DEF MonthStart, MonthLength, b
  <1> QED BY <1>3, <1>4, <1>5, <1>6

\* What Seconds counts.
Day(t) == YearStart(t.Year) + MonthStart(t.Year, t.Month) + t.Day - 1

\* A year, a month, and the rest as it comes: the times of the files, and those a
\* second later.
Moments == [Year : Nat, Month : 1 .. 12, Day : Nat, Hour : Nat, Minute : Nat, Second : Nat]

\* The fields of a valid time.
LEMMA StampFacts ==
    ASSUME NEW t \in ValidTimes
    PROVE  /\ t \in Moments /\ t.Year \in Nat /\ t.Month \in 1 .. 12
           /\ t.Day \in 1 .. MonthLength(t.Year, t.Month)
           /\ t.Hour \in 0 .. 23 /\ t.Minute \in 0 .. 59 /\ t.Second \in 0 .. 59
           /\ DaysOfMonth(t) = MonthLength(t.Year, t.Month)
  <1>1. DaysOfMonth(t) = MonthLength(t.Year, t.Month)
    BY SMTT(20) DEF DaysOfMonth, MonthLength, LeapDay
  <1>2. /\ t \in [Year : Nat, Month : 1 .. 12, Day : 1 .. 31, Hour : 0 .. 23,
                  Minute : 0 .. 59, Second : 0 .. 59]
        /\ t.Day <= DaysOfMonth(t)
    BY DEF ValidTimes
  <1>3. t.Day \in 1 .. DaysOfMonth(t) BY <1>2, SMTT(20) DEF DaysOfMonth
  <1> QED BY <1>1, <1>2, <1>3, SMTT(20) DEF Moments

\* A clock.
LEMMA ClockOrder ==
    ASSUME NEW d \in Int, NEW h \in 0 .. 23, NEW m \in 0 .. 59, NEW s \in 0 .. 59,
           NEW e \in Int, NEW i \in 0 .. 23, NEW n \in 0 .. 59, NEW t \in 0 .. 59,
           \/ d < e
           \/ d = e /\ h < i
           \/ d = e /\ h = i /\ m < n
           \/ d = e /\ h = i /\ m = n /\ s < t
    PROVE  Clock(d, h, m, s) < Clock(e, i, n, t)
  BY SMTT(20) DEF Clock

\* A second later, at the end of a minute, an hour and a day.
LEMMA ClockTick ==
    ASSUME NEW d \in Int, NEW h \in 0 .. 23, NEW m \in 0 .. 59, NEW s \in 0 .. 59
    PROVE  /\ Clock(d, h, m, s + 1) = Clock(d, h, m, s) + 1
           /\ s = 59 => Clock(d, h, m + 1, 0) = Clock(d, h, m, s) + 1
           /\ s = 59 /\ m = 59 => Clock(d, h + 1, 0, 0) = Clock(d, h, m, s) + 1
           /\ s = 59 /\ m = 59 /\ h = 23 => Clock(d + 1, 0, 0, 0) = Clock(d, h, m, s) + 1
  BY SMTT(20) DEF Clock

\* Seconds is the clock on the day.
LEMMA SecondsOf ==
    ASSUME NEW t \in Moments
    PROVE  Seconds(t) = Clock(Day(t), t.Hour, t.Minute, t.Second) /\ Day(t) \in Int
  <1> DEFINE y == t.Year
             leapDays == LeapYearsBefore(IF t.Month > 2 THEN y + 1 ELSE y)
             days == (y - Epoch) * 365 + leapDays + DaysBefore[t.Month] + t.Day - 1
  <1>1. y \in Nat /\ t.Month \in 1 .. 12 /\ t.Day \in Nat /\ Epoch \in Nat
    BY TimesAssumption DEF Moments
  <1>2. /\ LeapYearsBefore(y) \in Int /\ LeapDay(y) \in {0, 1}
        /\ LeapYearsBefore(y + 1) = LeapYearsBefore(y) + LeapDay(y)
    BY <1>1, YearStarts, SMTT(20)
  <1>3. leapDays = LeapYearsBefore(y) + (IF t.Month > 2 THEN LeapDay(y) ELSE 0)
    BY <1>2, SMTT(20)
  <1>4. DaysBefore[t.Month] \in Nat BY <1>1, SMTT(20) DEF DaysBefore
  <1>5. Seconds(t) = ((days * 24 + t.Hour) * 60 + t.Minute) * 60 + t.Second
    BY DEF Seconds
  <1> HIDE DEF leapDays
  <1>6. days = Day(t) /\ Day(t) \in Int
    BY <1>1, <1>2, <1>3, <1>4, SMTT(20) DEF Day, YearStart, MonthStart
  <1> HIDE DEF days, y
  <1> QED BY <1>5, <1>6 DEF Clock

\* The calendar's order is that of the seconds.
LEMMA DayOrder ==
    ASSUME NEW s \in ValidTimes, NEW t \in ValidTimes,
           \/ s.Year < t.Year
           \/ s.Year = t.Year /\ s.Month < t.Month
           \/ s.Year = t.Year /\ s.Month = t.Month /\ s.Day < t.Day
    PROVE  Day(s) < Day(t)
  <1>1. /\ s.Year \in Nat /\ s.Month \in 1 .. 12
        /\ s.Day \in 1 .. MonthLength(s.Year, s.Month)
        /\ t.Year \in Nat /\ t.Month \in 1 .. 12
        /\ t.Day \in 1 .. MonthLength(t.Year, t.Month)
    BY StampFacts
  <1>2. /\ YearStart(s.Year) \in Int /\ YearStart(t.Year) \in Int
        /\ LeapDay(s.Year) \in {0, 1} /\ LeapDay(t.Year) \in {0, 1}
        /\ s.Year < t.Year => YearStart(s.Year) + 365 + LeapDay(s.Year) <= YearStart(t.Year)
    BY <1>1, YearStarts, SMTT(20)
  <1>3. /\ MonthStart(s.Year, s.Month) \in Nat /\ MonthLength(s.Year, s.Month) \in Nat
        /\ MonthStart(s.Year, s.Month) + MonthLength(s.Year, s.Month) <= 365 + LeapDay(s.Year)
        /\ s.Month < t.Month =>
             MonthStart(s.Year, s.Month) + MonthLength(s.Year, s.Month) <= MonthStart(s.Year, t.Month)
    BY <1>1, <1>2, MonthStarts, SMTT(20)
  <1>4. MonthStart(t.Year, t.Month) \in Nat /\ MonthLength(t.Year, t.Month) \in Nat
    BY <1>1, <1>2, MonthStarts, SMTT(20)
  <1>5. CASE s.Year < t.Year BY <1>1, <1>2, <1>3, <1>4, <1>5, SMTT(20) DEF Day
  <1>6. CASE s.Year = t.Year /\ s.Month < t.Month
    BY <1>1, <1>2, <1>3, <1>4, <1>6, SMTT(20) DEF Day
  <1>7. CASE s.Year = t.Year /\ s.Month = t.Month /\ s.Day < t.Day
    BY <1>1, <1>2, <1>3, <1>4, <1>7, SMTT(20) DEF Day
  <1> QED BY <1>5, <1>6, <1>7

\* The first field that differs tells which time is earlier.
LEMMA SecondsOrder ==
    ASSUME NEW s \in ValidTimes, NEW t \in ValidTimes,
           NEW f \in 1 .. 6, TimeFields(s)[f] < TimeFields(t)[f],
           \A g \in 1 .. 6 : g < f => TimeFields(s)[g] = TimeFields(t)[g]
    PROVE  Seconds(s) < Seconds(t)
  <1>1. /\ TimeFields(s)[1] = s.Year /\ TimeFields(s)[2] = s.Month /\ TimeFields(s)[3] = s.Day
        /\ TimeFields(s)[4] = s.Hour /\ TimeFields(s)[5] = s.Minute /\ TimeFields(s)[6] = s.Second
        /\ TimeFields(t)[1] = t.Year /\ TimeFields(t)[2] = t.Month /\ TimeFields(t)[3] = t.Day
        /\ TimeFields(t)[4] = t.Hour /\ TimeFields(t)[5] = t.Minute /\ TimeFields(t)[6] = t.Second
    BY DEF TimeFields
  <1>2. /\ s.Hour \in 0 .. 23 /\ s.Minute \in 0 .. 59 /\ s.Second \in 0 .. 59
        /\ t.Hour \in 0 .. 23 /\ t.Minute \in 0 .. 59 /\ t.Second \in 0 .. 59
        /\ s \in Moments /\ t \in Moments
    BY StampFacts
  <1>3. /\ Seconds(s) = Clock(Day(s), s.Hour, s.Minute, s.Second) /\ Day(s) \in Int
        /\ Seconds(t) = Clock(Day(t), t.Hour, t.Minute, t.Second) /\ Day(t) \in Int
    BY <1>2, SecondsOf
  <1>4. CASE f \in 1 .. 3
    <2>1. Day(s) < Day(t) BY <1>1, <1>4, DayOrder, SMTT(20)
    <2>2. Clock(Day(s), s.Hour, s.Minute, s.Second) < Clock(Day(t), t.Hour, t.Minute, t.Second)
      BY <1>2, <1>3, <2>1, ClockOrder
    <2> QED BY <1>3, <2>2
  <1>5. CASE f \in 4 .. 6
    <2>1. s.Year = t.Year /\ s.Month = t.Month /\ s.Day = t.Day BY <1>1, <1>5, SMTT(20)
    <2>2. Day(s) = Day(t) BY <2>1 DEF Day
    <2>3. \/ Day(s) = Day(t) /\ s.Hour < t.Hour
          \/ Day(s) = Day(t) /\ s.Hour = t.Hour /\ s.Minute < t.Minute
          \/ Day(s) = Day(t) /\ s.Hour = t.Hour /\ s.Minute = t.Minute /\ s.Second < t.Second
      BY <1>1, <1>5, <2>2, SMTT(20)
    <2>4. PICK d, h, m, k, i, n, l :
            /\ d = Day(s) /\ d = Day(t)
            /\ h = s.Hour /\ m = s.Minute /\ k = s.Second
            /\ i = t.Hour /\ n = t.Minute /\ l = t.Second
      BY <2>2
    <2>5. \/ h < i
          \/ h = i /\ m < n
          \/ h = i /\ m = n /\ k < l
      BY <2>3, <2>4
    <2>6. /\ d \in Int /\ h \in 0 .. 23 /\ m \in 0 .. 59 /\ k \in 0 .. 59
          /\ i \in 0 .. 23 /\ n \in 0 .. 59 /\ l \in 0 .. 59
      BY <1>2, <1>3, <2>4
    <2>7. Clock(d, h, m, k) < Clock(d, i, n, l) BY ONLY <2>5, <2>6, SMTT(20) DEF Clock
    <2> QED BY <1>3, <2>4, <2>7
  <1> QED BY <1>4, <1>5, SMTT(20)

\* Seconds are a number.
LEMMA SecondsType ==
    ASSUME NEW t \in ValidTimes
    PROVE  Seconds(t) \in Int
  <1>1. t \in Moments /\ t.Hour \in Nat /\ t.Minute \in Nat /\ t.Second \in Nat
    BY StampFacts, SMTT(20)
  <1>2. Seconds(t) = Clock(Day(t), t.Hour, t.Minute, t.Second) /\ Day(t) \in Int
    BY <1>1, SecondsOf
  <1> QED BY <1>1, <1>2, SMTT(20) DEF Clock

\* The first field that differs decides, and it decides as the seconds do.
LEMMA CompareOrder ==
    ASSUME NEW s \in ValidTimes, NEW t \in ValidTimes
    PROVE  /\ BlCompareTime(s, t) < 0 => Seconds(s) < Seconds(t)
           /\ ~(BlCompareTime(s, t) < 0) => Seconds(t) <= Seconds(s)
  <1> DEFINE a == TimeFields(s)
             b == TimeFields(t)
             differ == {f \in 1 .. 6 : a[f] # b[f]}
  <1>1. \A f \in 1 .. 6 : a[f] \in Nat /\ b[f] \in Nat
    BY StampFacts, SMTT(20) DEF TimeFields
  <1>2. Seconds(s) \in Int /\ Seconds(t) \in Int BY SecondsType
  <1>3. CASE differ = {}
    <2>1. BlCompareTime(s, t) = 0 BY <1>3 DEF BlCompareTime
    <2>2. \A f \in 1 .. 6 : a[f] = b[f] BY <1>3
    <2>3. /\ s.Year = t.Year /\ s.Month = t.Month /\ s.Day = t.Day
          /\ s.Hour = t.Hour /\ s.Minute = t.Minute /\ s.Second = t.Second
      BY <2>2, SMTT(20) DEF TimeFields
    <2>4. s \in Moments /\ t \in Moments BY StampFacts
    <2>5. Seconds(s) = Seconds(t) BY <2>3, <2>4, SecondsOf DEF Day
    <2> QED BY <1>2, <2>1, <2>5, SMTT(20)
  <1>4. CASE differ # {}
    <2> DEFINE First(f) == f \in differ /\ \A g \in differ : f <= g
    <2>1. \E f : First(f)
      <3>1. differ \subseteq 1 .. 6 OBVIOUS
      <3> HIDE DEF differ
      <3>2. \A f \in 1 .. 6 : f = 1 \/ f = 2 \/ f = 3 \/ f = 4 \/ f = 5 \/ f = 6 BY SMTT(20)
      <3>3. CASE 1 \in differ BY <3>1, <3>3, SMTT(20)
      <3>4. CASE 1 \notin differ /\ 2 \in differ BY <3>1, <3>2, <3>4, SMTT(20)
      <3>5. CASE 1 \notin differ /\ 2 \notin differ /\ 3 \in differ
        BY <3>1, <3>2, <3>5, SMTT(20)
      <3>6. CASE 1 \notin differ /\ 2 \notin differ /\ 3 \notin differ /\ 4 \in differ
        BY <3>1, <3>2, <3>6, SMTT(20)
      <3>7. CASE /\ 1 \notin differ /\ 2 \notin differ /\ 3 \notin differ /\ 4 \notin differ
                 /\ 5 \in differ
        BY <3>1, <3>2, <3>7, SMTT(20)
      <3>8. CASE /\ 1 \notin differ /\ 2 \notin differ /\ 3 \notin differ /\ 4 \notin differ
                 /\ 5 \notin differ
        BY <1>4, <3>1, <3>2, <3>8, SMTT(20)
      <3> QED BY <3>3, <3>4, <3>5, <3>6, <3>7, <3>8
    <2> DEFINE f == CHOOSE f \in differ : \A g \in differ : f <= g
    <2>2. f \in differ /\ \A g \in differ : f <= g BY <2>1
    <2>3. BlCompareTime(s, t) = IF a[f] < b[f] THEN -1 ELSE 1
      BY <1>4 DEF BlCompareTime
    <2>4. f \in 1 .. 6 /\ a[f] # b[f] /\ \A g \in 1 .. 6 : g < f => a[g] = b[g]
      BY <2>2, SMTT(20)
    <2> HIDE DEF f
    <2>5. CASE a[f] < b[f]
      <3>1. Seconds(s) < Seconds(t) BY <2>4, <2>5, SecondsOrder
      <3> QED BY <2>3, <2>5, <3>1, SMTT(20)
    <2>6. CASE ~(a[f] < b[f])
      <3>1. b[f] < a[f] BY <1>1, <2>4, <2>6, SMTT(20)
      <3>2. Seconds(t) < Seconds(s) BY <2>4, <3>1, SecondsOrder
      <3> QED BY <1>2, <2>3, <2>6, <3>2, SMTT(20)
    <2> QED BY <2>5, <2>6
  <1> QED BY <1>3, <1>4

\* BlAddOneSecond carries into minutes, hours, days, months and years as they are.
LEMMA OneSecond ==
    ASSUME NEW t \in ValidTimes
    PROVE  Seconds(BlAddOneSecond(t)) = Seconds(t) + 1
  <1> DEFINE u == BlAddOneSecond(t)
             n == MonthLength(t.Year, t.Month)
  <1>1. /\ t \in Moments /\ t.Year \in Nat /\ t.Month \in 1 .. 12
        /\ t.Day \in 1 .. n /\ t.Hour \in 0 .. 23 /\ t.Minute \in 0 .. 59 /\ t.Second \in 0 .. 59
        /\ DaysOfMonth(t) = n
    BY StampFacts
  <1>2. /\ YearStart(t.Year) \in Int /\ LeapDay(t.Year) \in {0, 1}
        /\ YearStart(t.Year + 1) = YearStart(t.Year) + 365 + LeapDay(t.Year)
    BY <1>1, YearStarts, SMTT(20)
  <1>3. /\ MonthStart(t.Year, t.Month) \in Nat /\ n \in 28 .. 31
        /\ t.Month < 12 => MonthStart(t.Year, t.Month + 1) = MonthStart(t.Year, t.Month) + n
        /\ t.Month = 12 => MonthStart(t.Year, t.Month) + n = 365 + LeapDay(t.Year)
    BY <1>1, <1>2, MonthStarts, SMTT(20)
  <1>4. Seconds(t) = Clock(Day(t), t.Hour, t.Minute, t.Second) /\ Day(t) \in Int
    BY <1>1, SecondsOf
  <1>5. MonthStart(t.Year + 1, 1) = 0 BY SMTT(20) DEF MonthStart, DaysBefore
  <1> HIDE DEF n
  <1>6. /\ u \in Moments
        /\ \/ /\ t.Second < 59 /\ u.Second = t.Second + 1 /\ u.Minute = t.Minute
              /\ u.Hour = t.Hour /\ Day(u) = Day(t)
           \/ /\ t.Second = 59 /\ t.Minute < 59 /\ u.Second = 0 /\ u.Minute = t.Minute + 1
              /\ u.Hour = t.Hour /\ Day(u) = Day(t)
           \/ /\ t.Second = 59 /\ t.Minute = 59 /\ t.Hour < 23 /\ u.Second = 0 /\ u.Minute = 0
              /\ u.Hour = t.Hour + 1 /\ Day(u) = Day(t)
           \/ /\ t.Second = 59 /\ t.Minute = 59 /\ t.Hour = 23 /\ u.Second = 0 /\ u.Minute = 0
              /\ u.Hour = 0 /\ Day(u) = Day(t) + 1
    <2> DEFINE d == [t EXCEPT !.Second = 0, !.Minute = 0, !.Hour = 0]
    <2> HIDE DEF u
    <2>1. CASE t.Second < 59
      <3>1. u = [t EXCEPT !.Second = t.Second + 1] BY <2>1 DEF BlAddOneSecond, u
      <3>2. /\ u.Second = t.Second + 1 /\ u.Minute = t.Minute /\ u.Hour = t.Hour
            /\ u.Year = t.Year /\ u.Month = t.Month /\ u.Day = t.Day
        BY <1>1, <3>1, SMTT(20)
      <3>3. t.Second + 1 \in Nat BY <1>1, SMTT(20)
      <3>4. u \in Moments BY <1>1, <3>1, <3>3 DEF Moments
      <3>5. Day(u) = Day(t) BY <3>2 DEF Day
      <3> QED BY <2>1, <3>2, <3>4, <3>5
    <2>2. CASE ~(t.Second < 59) /\ t.Minute < 59
      <3>1. u = [t EXCEPT !.Second = 0, !.Minute = t.Minute + 1] BY <2>2 DEF BlAddOneSecond, u
      <3>2. /\ u.Second = 0 /\ u.Minute = t.Minute + 1 /\ u.Hour = t.Hour
            /\ u.Year = t.Year /\ u.Month = t.Month /\ u.Day = t.Day
        BY <1>1, <3>1, SMTT(20)
      <3>3. t.Minute + 1 \in Nat /\ t.Second = 59 BY <1>1, <2>2, SMTT(20)
      <3>4. u \in Moments BY <1>1, <3>1, <3>3 DEF Moments
      <3>5. Day(u) = Day(t) BY <3>2 DEF Day
      <3> QED BY <2>2, <3>2, <3>3, <3>4, <3>5
    <2>3. CASE ~(t.Second < 59) /\ ~(t.Minute < 59) /\ t.Hour < 23
      <3>1. u = [t EXCEPT !.Second = 0, !.Minute = 0, !.Hour = t.Hour + 1]
        BY <2>3 DEF BlAddOneSecond, u
      <3>2. /\ u.Second = 0 /\ u.Minute = 0 /\ u.Hour = t.Hour + 1
            /\ u.Year = t.Year /\ u.Month = t.Month /\ u.Day = t.Day
        BY <1>1, <3>1, SMTT(20)
      <3>3. t.Hour + 1 \in Nat /\ t.Second = 59 /\ t.Minute = 59 BY <1>1, <2>3, SMTT(20)
      <3>4. u \in Moments BY <1>1, <3>1, <3>3 DEF Moments
      <3>5. Day(u) = Day(t) BY <3>2 DEF Day
      <3> QED BY <2>3, <3>2, <3>3, <3>4, <3>5
    <2>4. CASE ~(t.Second < 59) /\ ~(t.Minute < 59) /\ ~(t.Hour < 23)
      <3>1. t.Second = 59 /\ t.Minute = 59 /\ t.Hour = 23 BY <1>1, <2>4, SMTT(20)
      <3>2. u = IF t.Day < n THEN [d EXCEPT !.Day = t.Day + 1]
                ELSE IF t.Month < 12 THEN [d EXCEPT !.Day = 1, !.Month = t.Month + 1]
                ELSE [d EXCEPT !.Day = 1, !.Month = 1, !.Year = t.Year + 1]
        BY <1>1, <2>4 DEF BlAddOneSecond, u
      <3>3. /\ d \in Moments /\ d.Second = 0 /\ d.Minute = 0 /\ d.Hour = 0
            /\ d.Year = t.Year /\ d.Month = t.Month
        BY <1>1 DEF Moments
      <3> HIDE DEF d
      <3>4. CASE t.Day < n
        <4>1. u = [d EXCEPT !.Day = t.Day + 1] BY <3>2, <3>4
        <4>2. /\ u.Second = 0 /\ u.Minute = 0 /\ u.Hour = 0
              /\ u.Year = t.Year /\ u.Month = t.Month /\ u.Day = t.Day + 1
          BY <3>3, <4>1, SMTT(20)
        <4>3. t.Day + 1 \in Nat BY <1>1, <1>3, SMTT(20)
        <4>4. u \in Moments BY <3>3, <4>1, <4>3 DEF Moments
        <4>5. Day(u) = Day(t) + 1 BY <1>1, <1>2, <1>3, <4>2, SMTT(20) DEF Day
        <4> QED BY <3>1, <4>2, <4>4, <4>5
      <3>5. CASE ~(t.Day < n) /\ t.Month < 12
        <4>1. u = [d EXCEPT !.Day = 1, !.Month = t.Month + 1] BY <3>2, <3>5
        <4>2. /\ u.Second = 0 /\ u.Minute = 0 /\ u.Hour = 0
              /\ u.Year = t.Year /\ u.Month = t.Month + 1 /\ u.Day = 1
          BY <3>3, <4>1, SMTT(20)
        <4>3. t.Month + 1 \in 1 .. 12 /\ t.Day = n BY <1>1, <1>3, <3>5, SMTT(20)
        <4>4. u \in Moments BY <3>3, <4>1, <4>3 DEF Moments
        <4>5. Day(u) = Day(t) + 1 BY <1>2, <1>3, <3>5, <4>2, <4>3, SMTT(20) DEF Day
        <4> QED BY <3>1, <4>2, <4>4, <4>5
      <3>6. CASE ~(t.Day < n) /\ ~(t.Month < 12)
        <4>1. u = [d EXCEPT !.Day = 1, !.Month = 1, !.Year = t.Year + 1] BY <3>2, <3>6
        <4>2. /\ u.Second = 0 /\ u.Minute = 0 /\ u.Hour = 0
              /\ u.Year = t.Year + 1 /\ u.Month = 1 /\ u.Day = 1
          BY <3>3, <4>1, SMTT(20)
        <4>3. t.Year + 1 \in Nat /\ t.Day = n /\ t.Month = 12 BY <1>1, <1>3, <3>6, SMTT(20)
        <4>4. u \in Moments
          <5>1. 1 \in Nat /\ 1 \in 1 .. 12 BY SMTT(20)
          <5> QED BY <3>3, <4>1, <4>3, <5>1 DEF Moments
        <4>5. Day(u) = Day(t) + 1 BY <1>2, <1>3, <1>5, <4>2, <4>3, SMTT(20) DEF Day
        <4> QED BY <3>1, <4>2, <4>4, <4>5
      <3> QED BY <3>4, <3>5, <3>6
    <2> QED BY <2>1, <2>2, <2>3, <2>4
  <1> HIDE DEF u
  <1>7. Seconds(u) = Clock(Day(u), u.Hour, u.Minute, u.Second) BY <1>6, SecondsOf
  <1>8. Clock(Day(u), u.Hour, u.Minute, u.Second) = Clock(Day(t), t.Hour, t.Minute, t.Second) + 1
    <2>1. PICK d, h, m, k : d = Day(t) /\ h = t.Hour /\ m = t.Minute /\ k = t.Second OBVIOUS
    <2>2. /\ Clock(d, h, m, k + 1) = Clock(d, h, m, k) + 1
          /\ k = 59 => Clock(d, h, m + 1, 0) = Clock(d, h, m, k) + 1
          /\ k = 59 /\ m = 59 => Clock(d, h + 1, 0, 0) = Clock(d, h, m, k) + 1
          /\ k = 59 /\ m = 59 /\ h = 23 => Clock(d + 1, 0, 0, 0) = Clock(d, h, m, k) + 1
      BY <1>1, <1>4, <2>1, ClockTick
    <2> QED BY <1>6, <2>1, <2>2
  <1>9. Seconds(u) = Seconds(t) + 1 BY <1>4, <1>7, <1>8
  <1> QED BY <1>9 DEF u

\* The file the cache is compared with exists when one of the two does, and no
\* existing one is later.
LEMMA NewerIsLatest ==
    ASSUME NEW kernel \in FileInfo, NEW extensions \in FileInfo,
           NEW f \in {kernel, extensions}, f.kind # "missing"
    PROVE  /\ Newer(kernel, extensions) \in {kernel, extensions}
           /\ Newer(kernel, extensions).kind # "missing"
           /\ Newer(kernel, extensions).time \in ValidTimes
           /\ Seconds(f.time) <= Seconds(Newer(kernel, extensions).time)
           /\ Seconds(f.time) \in Int
  <1>1. ASSUME NEW e \in FileInfo, e.kind # "missing"
        PROVE  e.time \in ValidTimes /\ Seconds(e.time) \in Int
    <2>1. e \in [kind : {"noinfo", "file", "directory"}, time : Times]
      BY <1>1, SMTT(20) DEF FileInfo, NoFile
    <2>2. e.time \in ValidTimes BY <2>1, TimesAssumption
    <2> QED BY <2>2, SecondsType
  <1> DEFINE n == Newer(kernel, extensions)
  <1>2. n \in {kernel, extensions} /\ n.kind # "missing" BY SMTT(20) DEF Newer
  <1>3. CASE kernel.kind = "missing" \/ extensions.kind = "missing"
    <2>1. n = f BY <1>2, <1>3, SMTT(20)
    <2> QED BY <1>1, <1>2, <2>1, SMTT(20)
  <1>4. CASE ~(kernel.kind = "missing") /\ ~(extensions.kind = "missing")
    <2>1. /\ kernel.time \in ValidTimes /\ Seconds(kernel.time) \in Int
          /\ extensions.time \in ValidTimes /\ Seconds(extensions.time) \in Int
      BY <1>1, <1>4
    <2>2. CASE BlCompareTime(kernel.time, extensions.time) < 0
      <3>1. n = extensions BY <1>4, <2>2 DEF Newer
      <3>2. Seconds(kernel.time) < Seconds(extensions.time) BY <2>1, <2>2, CompareOrder
      <3> QED BY <1>2, <2>1, <3>1, <3>2, SMTT(20)
    <2>3. CASE ~(BlCompareTime(kernel.time, extensions.time) < 0)
      <3>1. n = kernel BY <1>4, <2>3 DEF Newer
      <3>2. Seconds(extensions.time) <= Seconds(kernel.time) BY <2>1, <2>3, CompareOrder
      <3> QED BY <1>2, <2>1, <3>1, <3>2, SMTT(20)
    <2> QED BY <2>2, <2>3
  <1> QED BY <1>3, <1>4

\* What LdrpKernelCacheValid accepts without being told to is a second later than
\* the file it is compared with.
LEMMA ValidIsFresh ==
    ASSUME NEW cache \in FileInfo, NEW kernel \in FileInfo, NEW extensions \in FileInfo,
           LdrpKernelCacheValid(cache, kernel, extensions) = "valid", ~boot.override,
           NEW f \in {kernel, extensions}, f.kind # "missing"
    PROVE  /\ Seconds(f.time) < Seconds(cache.time)
           /\ \E g \in {kernel, extensions} :
                /\ g.kind # "missing"
                /\ Seconds(cache.time) = Seconds(g.time) + 1
  <1> DEFINE n == Newer(kernel, extensions)
  <1>1. /\ n \in {kernel, extensions} /\ n.kind # "missing" /\ n.time \in ValidTimes
        /\ Seconds(f.time) <= Seconds(n.time) /\ Seconds(f.time) \in Int
    BY NewerIsLatest
  <1> HIDE DEF n
  <1>2. cache.time = BlAddOneSecond(n.time)
    BY <1>1 DEF LdrpKernelCacheValid, n
  <1>3. Seconds(cache.time) = Seconds(n.time) + 1 BY <1>1, <1>2, OneSecond
  <1>4. Seconds(n.time) \in Int BY <1>1, SecondsType
  <1>5. Seconds(f.time) < Seconds(cache.time) BY <1>1, <1>3, <1>4, SMTT(20)
  <1> QED BY <1>1, <1>3, <1>5

-----------------------------------------------------------------------------
(* The loader's part of a step.                                            *)

Loading == {"cache", "open", "kernel", "header", "command", "loaded"}

\* Sequences: a larger set of elements, and one element more.
LEMMA SeqLarger ==
    ASSUME NEW S, NEW T, S \subseteq T, NEW s \in Seq(S)
    PROVE  s \in Seq(T)
  <1>1. Len(s) \in Nat /\ s \in [1 .. Len(s) -> T] BY SMTT(20)
  <1> QED BY <1>1, SMTT(20)

\* What Append does.
LEMMA SeqAppend ==
    ASSUME NEW S, NEW s \in Seq(S), NEW e \in S
    PROVE  /\ Append(s, e) \in Seq(S) /\ Len(s) \in Nat /\ Len(Append(s, e)) = Len(s) + 1
           /\ \A i \in 1 .. Len(s) : Append(s, e)[i] = s[i]
           /\ Append(s, e)[Len(s) + 1] = e
  BY SMTT(20)

\* How one turn over the cache paths can end.
LEMMA CandidateCases ==
    ASSUME TryCandidate
    PROVE  /\ pc = "cache" /\ UNCHANGED <<displacement, faults, memory>>
           /\ \/ UNCHANGED <<pc, boot, accepted, source, local, segments, adjusted, entry>>
              \/ LoadFails
              \/ /\ pc' = "open"
                 /\ \E cache, kernel, extensions \in FileInfo :
                      /\ LdrpKernelCacheValid(cache, kernel, extensions) = "valid"
                      /\ accepted' = <<cache, kernel, extensions>>
                 /\ UNCHANGED <<boot, candidate, source, local, segments, adjusted, entry>>
  <1> DEFINE Turn(cache, kernel, extensions) ==
               CASE LdrpKernelCacheValid(cache, kernel, extensions) = "valid" ->
                      /\ accepted' = <<cache, kernel, extensions>>
                      /\ pc' = "open"
                      /\ UNCHANGED <<boot, candidate, source, local, segments,
                                     adjusted, entry>>
                 [] LdrpKernelCacheValid(cache, kernel, extensions) = "invalid" ->
                      /\ candidate' = candidate + 1
                      /\ UNCHANGED <<pc, boot, accepted, source, local, segments,
                                     adjusted, entry>>
                 [] OTHER -> LoadFails
  <1>1. CASE candidate = 0 /\ ~boot.configured /\ candidate' = 1
             /\ UNCHANGED <<pc, boot, accepted, source, local, segments, adjusted, entry>>
    BY <1>1 DEF TryCandidate
  <1>2. CASE candidate = 4 /\ LoadFails
    BY <1>2 DEF TryCandidate
  <1>3. ASSUME NEW cache \in FileInfo, NEW kernel \in FileInfo, NEW extensions \in FileInfo,
               Turn(cache, kernel, extensions)
        PROVE  \/ UNCHANGED <<pc, boot, accepted, source, local, segments, adjusted, entry>>
               \/ LoadFails
               \/ /\ LdrpKernelCacheValid(cache, kernel, extensions) = "valid"
                  /\ accepted' = <<cache, kernel, extensions>>
                  /\ pc' = "open"
                  /\ UNCHANGED <<boot, candidate, source, local, segments, adjusted, entry>>
    BY <1>3
  <1>4. CASE \E cache, kernel, extensions \in FileInfo : Turn(cache, kernel, extensions)
    <2>1. pc = "cache" /\ UNCHANGED <<displacement, faults, memory>> BY DEF TryCandidate
    <2> QED BY <1>3, <1>4, <2>1
  <1> QED BY <1>1, <1>2, <1>4 DEF TryCandidate

\* The kernel's loader runs before the drivers' and hands over only when loaded.
LEMMA LdrPc ==
    ASSUME LdrNext
    PROVE  pc \in Loading \ {"loaded"} /\ pc' \in Loading \cup {"failed", "wild"}
  <1> USE DEF Loading
  <1>1. CASE TryCandidate BY <1>1, CandidateCases DEF LoadFails
  <1>2. CASE AltKernel \/ NetBoot \/ OpenCache \/ CorruptCache \/ OpenCacheFaults \/ LdrLoadKernel
    BY <1>2 DEF AltKernel, NetBoot, OpenCache, CorruptCache, OpenCacheFaults, LdrLoadKernel,
                LoadFails
  <1>3. CASE MachHeader \/ MachHeaderFaults \/ NoRoom \/ SegmentFaults \/ MachLoaded
    BY <1>3 DEF MachHeader, MachHeaderFaults, NoRoom, SegmentFaults, MachLoaded, AtCommand,
                LoadFails
  <1>4. CASE LoadSegment \/ Relocate \/ AdjustSymbols \/ SetEntry
    BY <1>4 DEF LoadSegment, Relocate, AdjustSymbols, SetEntry, AtCommand, Advance, LoadFails
  <1> QED BY <1>1, <1>2, <1>3, <1>4 DEF LdrNext

-----------------------------------------------------------------------------
(* Paths. A path is a folder and the numbers of bundles.                   *)

Paths == Seq({"system"} \cup Nat)
Frames == [path : Paths, plugin : BOOLEAN]
Bundles == [path : Paths, at : Paths, plist : Plists \cup {None}]

\* Modules whose property lists have the tags T.
Modules(T) == [DriverPath : Paths, at : Paths, plist : Plists \cup {None}, InfoPlistTag : T,
               WillLoad : 0 .. 2]

\* There are at most two open directories, a folder and the plugins of one of its
\* bundles, and the second is what pluginBuffer holds.
PathInv ==
    /\ bundles \in Nat /\ pluginBuffer \in Paths
    /\ bundle \in Bundles /\ bundle.path = bundle.at
    /\ \E T : modules \in Seq(Modules(T))
    /\ PathsAreTrue
    /\ walk \in Seq(Frames)
    /\ pc \in {"walk", "parse"} =>
         /\ Len(walk) \in 1 .. 2 /\ ~walk[1].plugin
         /\ Len(walk) = 2 => walk[2].plugin /\ walk[2].path = pluginBuffer

\* What only the walk changes.
LEMMA PathSame ==
    ASSUME PathInv, UNCHANGED <<walkVars, modules>>,
           pc' \in {"walk", "parse"} => pc \in {"walk", "parse"}
    PROVE  PathInv'
  BY DEF PathInv, PathsAreTrue, walkVars

\* The directory the innermost call reads; a plugin's bundle gets a path that
\* begins with it because pluginBuffer is not written for plugins.
LEMMA FrameFacts ==
    ASSUME PathInv, pc \in {"walk", "parse"}, NEW n \in Nat
    PROVE  /\ Frame \in Frames /\ Frame.path \in Paths /\ Frame.plugin \in BOOLEAN
           /\ Frame.plugin <=> Len(walk) = 2
           /\ Frame.plugin => Frame.path = pluginBuffer
           /\ PluginDirectory(n) \in Paths
           /\ Frame.plugin => PluginDirectory(n) = pluginBuffer
           /\ Append(Frame.path, n) \in Paths
  <1>1. /\ walk \in Seq(Frames) /\ Len(walk) \in 1 .. 2 /\ ~walk[1].plugin
        /\ Len(walk) = 2 => walk[2].plugin /\ walk[2].path = pluginBuffer
        /\ pluginBuffer \in Paths
    BY DEF PathInv
  <1>2. walk[Len(walk)] \in Frames BY <1>1, SMTT(20)
  <1>3. Frame \in Frames /\ Frame.path \in Paths /\ Frame.plugin \in BOOLEAN
    BY <1>2 DEF Frame, Frames
  <1>4. (Frame.plugin <=> Len(walk) = 2) /\ (Frame.plugin => Frame.path = pluginBuffer)
    BY <1>1, SMTT(20) DEF Frame
  <1>5. Append(Frame.path, n) \in Paths BY <1>3, SMTT(20) DEF Paths
  <1> QED BY <1>1, <1>3, <1>4, <1>5 DEF PluginDirectory

\* A bundle is left, for its plugins or for the next entry of the directory.
LEMMA PathPlugins ==
    ASSUME PathInv, pc \in {"walk", "parse"}, Plugins,
           pluginBuffer' \in Paths, Frame.plugin => pluginBuffer' = pluginBuffer,
           bundles' \in Nat, \E T : modules' \in Seq(Modules(T)), PathsAreTrue'
    PROVE  PathInv'
  <1>1. /\ walk \in Seq(Frames) /\ Len(walk) \in 1 .. 2 /\ ~walk[1].plugin
        /\ Len(walk) = 2 => walk[2].plugin /\ walk[2].path = pluginBuffer
    BY DEF PathInv
  <1>2. Frame.plugin <=> Len(walk) = 2 BY FrameFacts
  <1>3. bundle' \in Bundles /\ bundle'.path = bundle'.at
    BY SMTT(20) DEF Plugins, NoBundle, Bundles, Paths
  <1>4. CASE UNCHANGED walk
    BY <1>1, <1>2, <1>3, <1>4 DEF PathInv
  <1>5. CASE ~Frame.plugin /\ walk' = Append(walk, [path |-> pluginBuffer', plugin |-> TRUE])
    <2>1. Len(walk) = 1 BY <1>1, <1>2, <1>5, SMTT(20)
    <2>2. [path |-> pluginBuffer', plugin |-> TRUE] \in Frames BY DEF Frames
    <2>3. /\ walk' \in Seq(Frames) /\ Len(walk') = 2 /\ walk'[1] = walk[1]
          /\ walk'[2] = [path |-> pluginBuffer', plugin |-> TRUE]
      <3> DEFINE e == [path |-> pluginBuffer', plugin |-> TRUE]
      <3> HIDE DEF e
      <3>1. walk' = Append(walk, e) /\ e \in Frames BY <1>5, <2>2 DEF e
      <3>2. /\ walk' \in Seq(Frames) /\ Len(walk') = Len(walk) + 1
            /\ \A i \in 1 .. Len(walk) : walk'[i] = walk[i]
            /\ walk'[Len(walk) + 1] = e
        BY ONLY <1>1, <3>1, SeqAppend, SMTT(20)
      <3> QED BY <2>1, <3>2, SMTT(20) DEF e
    <2> QED BY <1>1, <1>3, <2>3, SMTT(20) DEF PathInv
  <1> QED BY <1>4, <1>5 DEF Plugins

\* A module is added with its bundle's path.
LEMMA PathAdd ==
    ASSUME PathInv, NEW tag,
           modules' = Append(modules, [DriverPath |-> bundle.path, at |-> bundle.at,
                               plist |-> bundle.plist, InfoPlistTag |-> tag, WillLoad |-> 1])
    PROVE  (\E T : modules' \in Seq(Modules(T))) /\ PathsAreTrue'
  <1> DEFINE m == [DriverPath |-> bundle.path, at |-> bundle.at, plist |-> bundle.plist,
                   InfoPlistTag |-> tag, WillLoad |-> 1]
  <1>1. PICK T : modules \in Seq(Modules(T)) BY DEF PathInv
  <1>2. bundle \in Bundles /\ bundle.path = bundle.at BY DEF PathInv
  <1>3. m \in Modules(T \cup {tag}) /\ m.DriverPath = m.at
    BY <1>2, SMTT(20) DEF Modules, Bundles
  <1>4. Modules(T) \subseteq Modules(T \cup {tag}) BY DEF Modules
  <1>5. modules \in Seq(Modules(T \cup {tag})) BY <1>1, <1>4, SeqLarger
  <1> HIDE DEF m
  <1>6. modules' = Append(modules, m) BY DEF m
  <1>7. modules' \in Seq(Modules(T \cup {tag})) BY <1>3, <1>5, <1>6, SMTT(20)
  <1>8. PathsAreTrue' BY <1>3, <1>5, <1>6, SMTT(20) DEF PathInv, PathsAreTrue
  <1> QED BY <1>7, <1>8

\* Matching the libraries changes WillLoad only.
LEMMA PathMatch ==
    ASSUME PathInv, LdrpMatchLibraries
    PROVE  PathInv'
  <1>1. PICK T : modules \in Seq(Modules(T)) BY DEF PathInv
  <1>2. CASE UNCHANGED modules
    BY <1>2, PathSame DEF LdrpMatchLibraries
  <1>3. CASE modules' = [m \in 1 .. Len(modules) |->
               IF modules[m].WillLoad = 1 THEN [modules[m] EXCEPT !.WillLoad = 2]
               ELSE modules[m]]
    <2>1. ASSUME NEW m \in 1 .. Len(modules)
          PROVE  modules'[m] \in Modules(T) /\ modules'[m].DriverPath = modules'[m].at
      <3>1. modules[m] \in Modules(T) /\ modules[m].DriverPath = modules[m].at
        BY <1>1, SMTT(20) DEF PathInv, PathsAreTrue
      <3> QED BY <1>3, <3>1, SMTT(20) DEF Modules
    <2>2. modules' \in [1 .. Len(modules) -> Modules(T)] BY <1>3, <2>1
    <2>3. Len(modules) \in Nat BY <1>1, SMTT(20)
    <2>4. modules' \in Seq(Modules(T)) /\ Len(modules') = Len(modules) BY <2>2, <2>3, SMTT(20)
    <2>5. PathsAreTrue' BY <2>1, <2>4 DEF PathsAreTrue
    <2>6. UNCHANGED walkVars /\ pc' \notin {"walk", "parse"} BY DEF LdrpMatchLibraries
    <2> QED BY <2>4, <2>5, <2>6 DEF PathInv, walkVars
  <1> QED BY <1>2, <1>3 DEF LdrpMatchLibraries
\* Every step keeps the paths true.
LEMMA PathStep ==
    ASSUME PathInv, [Next]_allVars
    PROVE  PathInv'
  <1> USE DEF walkVars, driverVars
  <1>1. CASE LdrNext /\ UNCHANGED <<configVars, bootArgs, driverVars>>
    <2>1. pc' \notin {"walk", "parse"} BY <1>1, LdrPc DEF Loading
    <2> QED BY <1>1, <2>1, PathSame
  <1>2. CASE BlInitializeBootArgs \/ LoadModule \/ ModuleWithoutRange \/ LeaveModules
             \/ LdrLoadRamDisk
    BY <1>2, PathSame DEF BlInitializeBootArgs, LoadModule, ModuleWithoutRange, LeaveModules,
                          LdrLoadRamDisk, AtModule
  <1>3. CASE ParsePlist
    BY <1>3, PathSame DEF ParsePlist
  <1>4. CASE LdrpMatchLibraries BY <1>4, PathMatch
  <1>5. CASE OpenFolder
    <2>1. CASE UNCHANGED walk /\ pc' = "match"
      BY <1>5, <2>1, PathSame DEF OpenFolder
    <2>2. CASE walk' = <<[path |-> <<pc>>, plugin |-> FALSE]>>
      <3>1. pc = "system" BY <1>5 DEF OpenFolder
      <3>2. <<pc>> \in Paths BY <3>1, SMTT(20) DEF Paths
      <3>3. [path |-> <<pc>>, plugin |-> FALSE] \in Frames BY <3>2 DEF Frames
      <3>4. walk' \in Seq(Frames) /\ Len(walk') = 1 /\ ~walk'[1].plugin BY <2>2, <3>3, SMTT(20)
      <3>5. UNCHANGED <<pluginBuffer, bundles, bundle, modules>> BY <1>5 DEF OpenFolder
      <3> QED BY <3>4, <3>5, SMTT(20) DEF PathInv, PathsAreTrue
    <2> QED BY <1>5, <2>1, <2>2 DEF OpenFolder
  <1>6. CASE LeaveFolder
    <2>1. /\ walk \in Seq(Frames) /\ Len(walk) \in 1 .. 2 /\ ~walk[1].plugin
          /\ walk' = SubSeq(walk, 1, Len(walk) - 1)
          /\ UNCHANGED <<pluginBuffer, bundles, bundle, modules>>
      BY <1>6 DEF PathInv, LeaveFolder
    <2>2. walk' \in Seq(Frames) /\ Len(walk') = Len(walk) - 1
      <3> DEFINE n == Len(walk) - 1
      <3>1. n \in 0 .. Len(walk) /\ walk' = SubSeq(walk, 1, n) BY <2>1, SMTT(20)
      <3> HIDE DEF n
      <3>2. walk' \in Seq(Frames) /\ Len(walk') = n BY ONLY <2>1, <3>1, SMTT(20)
      <3> QED BY <3>2 DEF n
    <2>3. pc' \in {"walk", "parse"} => Len(walk) > 1 BY <1>6, <2>1 DEF LeaveFolder
    <2>4. Len(walk) = 2 => Len(walk') = 1 /\ walk'[1] = walk[1] BY <2>1, <2>2, SMTT(20)
    <2>5. Len(walk) > 1 => Len(walk) = 2 BY <2>1, SMTT(20)
    <2>6. pc' \in {"walk", "parse"} => Len(walk') = 1 /\ ~walk'[1].plugin
      BY <2>1, <2>3, <2>4, <2>5
    <2>7. /\ bundles' \in Nat /\ pluginBuffer' \in Paths /\ PathsAreTrue'
          /\ bundle' \in Bundles /\ bundle'.path = bundle'.at
          /\ \E T : modules' \in Seq(Modules(T))
      BY <2>1 DEF PathInv, PathsAreTrue
    <2>8. pc' \in {"walk", "parse"} => Len(walk') \in 1 .. 2 /\ Len(walk') # 2
      BY <2>6, SMTT(20)
    <2> QED BY <2>2, <2>6, <2>7, <2>8 DEF PathInv
  <1>7. CASE LoadBundle
    <2>1. pc = "walk" /\ pc' = "parse" /\ bundles' = bundles + 1 /\ UNCHANGED <<walk, modules>>
      BY <1>7 DEF LoadBundle
    <2>2. bundles' \in Nat BY <2>1, SMTT(20) DEF PathInv
    <2>3. pluginBuffer' = PluginDirectory(bundles') BY <1>7 DEF LoadBundle
    <2>4. /\ pluginBuffer' \in Paths /\ (Frame.plugin => pluginBuffer' = pluginBuffer)
          /\ (Frame.plugin => Frame.path = pluginBuffer) /\ Append(Frame.path, bundles') \in Paths
          /\ (Frame.plugin <=> Len(walk) = 2)
      BY <2>1, <2>2, <2>3, FrameFacts
    <2>5. bundle' \in Bundles /\ bundle'.path = bundle'.at
      <3>1. PICK plist \in Plists :
              bundle' = [path |-> Append(IF Frame.plugin THEN pluginBuffer' ELSE Frame.path,
                                         bundles'),
                         at |-> Append(Frame.path, bundles'), plist |-> plist]
        BY <1>7 DEF LoadBundle
      <3>2. (IF Frame.plugin THEN pluginBuffer' ELSE Frame.path) = Frame.path BY <2>4
      <3> QED BY <2>4, <3>1, <3>2 DEF Bundles
    <2> QED BY <2>1, <2>2, <2>4, <2>5 DEF PathInv, PathsAreTrue
  <1>8. CASE BundleFaults
    <2>1. pc = "walk" /\ Plugins /\ bundles' = bundles + 1 /\ UNCHANGED modules
      BY <1>8 DEF BundleFaults
    <2>2. bundles' \in Nat BY <2>1, SMTT(20) DEF PathInv
    <2>3. pluginBuffer' = PluginDirectory(bundles') BY <1>8 DEF BundleFaults
    <2>4. pluginBuffer' \in Paths /\ (Frame.plugin => pluginBuffer' = pluginBuffer)
      BY <2>1, <2>2, <2>3, FrameFacts
    <2> QED BY <2>1, <2>2, <2>4, PathPlugins DEF PathInv, PathsAreTrue
  <1>9. CASE BundleParsed
    <2>1. pc = "parse" /\ UNCHANGED <<pluginBuffer, bundles>> BY <1>9 DEF BundleParsed
    <2>2. CASE pc' = "corrupt" /\ UNCHANGED <<modules, bundle, walk>>
      BY <2>1, <2>2, PathSame
    <2>3. CASE Plugins /\ UNCHANGED modules
      BY <2>1, <2>3, PathPlugins DEF PathInv, PathsAreTrue
    <2>4. CASE /\ modules' = Append(modules, [DriverPath |-> bundle.path, at |-> bundle.at,
                                plist |-> bundle.plist, InfoPlistTag |-> rootTag, WillLoad |-> 1])
               /\ Plugins
      <3>1. (\E T : modules' \in Seq(Modules(T))) /\ PathsAreTrue' BY <2>4, PathAdd
      <3>2. pluginBuffer' \in Paths /\ bundles' \in Nat BY <2>1 DEF PathInv
      <3> QED BY <2>1, <2>4, <3>1, <3>2, PathPlugins
    <2> HIDE DEF walkVars, driverVars
    <2> QED BY <1>9, <2>2, <2>3, <2>4 DEF BundleParsed
  <1>10. CASE UNCHANGED allVars BY <1>10, PathSame DEF allVars, vars
  <1> QED BY <1>1, <1>2, <1>3, <1>4, <1>5, <1>6, <1>7, <1>8, <1>9, <1>10 DEF Next

\* Each driver is handed over with the path of the directory it was found in,
\* however deep the calls that share pluginBuffer are (LdrpLoadDrivers).
THEOREM DriverPathsAreTrue == Spec => []PathsAreTrue
  <1>1. Init => PathInv
    <2> SUFFICES ASSUME Init PROVE PathInv OBVIOUS
    <2>1. modules = <<>> /\ walk = <<>> /\ bundles = 0 /\ pluginBuffer = <<>> /\ bundle = NoBundle
          /\ pc = "cache"
      BY DEF Init, LdrInit
    <2>2. bundle \in Bundles /\ bundle.path = bundle.at
      BY <2>1, SMTT(20) DEF Bundles, NoBundle, Paths
    <2>3. modules \in Seq(Modules({})) BY <2>1, SMTT(20)
    <2> QED BY <2>1, <2>2, <2>3, SMTT(20) DEF PathInv, PathsAreTrue, Paths
  <1>2. PathInv /\ [Next]_allVars => PathInv' BY PathStep
  <1>3. PathInv => PathsAreTrue BY DEF PathInv
  <1> QED BY <1>1, <1>2, <1>3, PTL DEF Spec
-----------------------------------------------------------------------------
(* Types of what the kernel's loader works on, and the window: a block has *)
(* pages, and the range ends behind all blocks.                            *)

Files == Caches \cup Kernels
Boots == [net : BOOLEAN, configured : BOOLEAN, override : BOOLEAN, altKernel : BOOLEAN]

Blocks == [va : Int, pa : Int, n : Nat \ {0}]
WindowInv ==
    /\ blocks \subseteq Blocks /\ begin \in Int /\ end \in Int
    /\ \A b \in blocks : b.pa = b.va - KernelBase /\ b.va + b.n <= end

\* The image that is loaded, and how far.
ImageInv ==
    /\ image \in Files /\ (source = "kernel" => image \in Kernels)
    /\ next \in 1 .. Len(image.commands) + 1 /\ readLength \in Nat

LoadTypes ==
    /\ WindowInv
    /\ displacement \in Slides \cup {0}
    /\ pc \in Loading =>
         /\ source \in {"cache", "kernel"} /\ boot \in Boots /\ faults \in Nat
         /\ adjusted \in [header : Nat, data : Nat, symbols : Nat]
         /\ pc \in {"cache", "open", "kernel"} => source = "cache"
         /\ pc = "header" => image \in Files /\ (source = "kernel" => image \in Kernels)
         /\ pc \in {"command", "loaded"} => ImageInv

\* A new block does not meet an older one and is the last one if nobody asked for
\* a place.
LEMMA NewBlock ==
    ASSUME WindowInv, NEW n \in Nat \ {0}, NEW requested \in Nat, KM!Allocate(n, requested)
    PROVE  /\ WindowInv'
           /\ KM!Block(KM!Place(requested), n) \in Blocks
           /\ KM!Place(requested) > KernelBase /\ KM!Place(requested) \in Int
           /\ blocks' = blocks \cup {KM!Block(KM!Place(requested), n)}
           /\ \A b \in blocks : \/ KM!Place(requested) + n <= b.va
                                \/ b.va + b.n <= KM!Place(requested)
           /\ end' >= end /\ end' >= KM!Place(requested) + n
  <1> DEFINE va == KM!Place(requested)
             new == KM!Block(va, n)
  <1>1. va \in Int BY SMTT(20) DEF KM!Place, WindowInv
  <1> HIDE DEF va
  <1>2. /\ va > KernelBase /\ blocks' = blocks \cup {new}
        /\ \A b \in blocks : va + n <= b.va \/ b.va + b.n <= va
        /\ begin' = IF va < begin THEN va ELSE begin
        /\ end' = IF va + n > end THEN va + n ELSE end
    BY DEF KM!Allocate, KM!CanAllocate, KM!Fits, va
  <1>3. new \in Blocks /\ new.va = va /\ new.n = n /\ new.pa = va - KernelBase
    BY <1>1, SizesAssumption, SMTT(20) DEF KM!Block, Blocks
  <1> HIDE DEF new
  <1>4. begin' \in Int /\ end' \in Int /\ end' >= end /\ end' >= va + n
    BY <1>1, <1>2, SMTT(20) DEF WindowInv
  <1>5. \A b \in blocks' : b.pa = b.va - KernelBase /\ b.va + b.n <= end'
    <2> TAKE b \in blocks'
    <2>1. CASE b = new BY <1>3, <1>4, <2>1
    <2>2. CASE b \in blocks BY <1>4, <2>2, SMTT(20) DEF WindowInv, Blocks
    <2> QED BY <1>2, <2>1, <2>2
  <1>6. WindowInv' BY <1>2, <1>3, <1>4, <1>5 DEF WindowInv
  <1> QED BY <1>1, <1>2, <1>3, <1>4, <1>6 DEF va, new

\* The command the loader is at.
LEMMA AtCommandFacts ==
    ASSUME LoadTypes, NEW kind, AtCommand(kind)
    PROVE  /\ ImageInv /\ next \in 1 .. Len(image.commands) /\ Len(image.commands) \in Nat
           /\ Command \in LoadCommands /\ Command.kind = kind
  <1>1. ImageInv BY DEF AtCommand, LoadTypes, Loading
  <1>2. image.commands \in Seq(LoadCommands)
    BY <1>1, FilesAssumption DEF ImageInv, Files, IsKernel
  <1>3. next \in 1 .. Len(image.commands) BY <1>1, <1>2, SMTT(20) DEF ImageInv, AtCommand
  <1> QED BY <1>1, <1>2, <1>3, SMTT(20) DEF AtCommand, Command

\* A segment command, and where it goes.
LEMMA SegmentFacts ==
    ASSUME LoadTypes, AtCommand("segment")
    PROVE  /\ Command \in SegmentCommands
           /\ Command.va \in Nat \ {0} /\ Command.vsize \in Nat /\ Command.fsize \in Nat
           /\ displacement \in Nat /\ Command.va + displacement \in Nat \ {0}
           /\ FileLength(Command) \in Nat
  <1>1. Command \in LoadCommands /\ Command.kind = "segment" BY AtCommandFacts
  <1>2. Command \in SegmentCommands BY <1>1 DEF LoadCommands
  <1>3. Command.va \in Nat \ {0} /\ Command.vsize \in Nat /\ Command.fsize \in Nat
    BY <1>2 DEF SegmentCommands
  <1>4. displacement \in Nat BY SizesAssumption, SMTT(20) DEF LoadTypes
  <1>5. Command.va + displacement \in Nat \ {0} BY <1>3, <1>4, SMTT(20)
  <1> QED BY <1>2, <1>3, <1>4, <1>5 DEF FileLength
\* An error: EfiMain goes on to the kernel, or stops.
LEMMA FailTypes ==
    ASSUME LoadTypes, pc \in Loading, LoadFails, WindowInv', faults' \in Nat,
           displacement' \in Slides \cup {0}
    PROVE  LoadTypes'
  <1>1. /\ pc' \in {"kernel", "failed"} /\ (pc' = "kernel" => source = "cache")
        /\ UNCHANGED <<boot, source, adjusted>>
    BY DEF LoadFails
  <1> QED BY <1>1 DEF LoadTypes, Loading

\* LdrSetupASLR(FALSE, 0) leaves a displacement there is, or none.
LEMMA WithoutASLRType ==
    ASSUME LoadTypes, NEW off
    PROVE  WithoutASLR(off) \in Slides \cup {0}
  BY DEF LoadTypes, WithoutASLR

\* Going on to the next command.
LEMMA AdvanceTypes ==
    ASSUME LoadTypes, NEW kind, AtCommand(kind), Advance, WindowInv', faults' \in Nat,
           UNCHANGED displacement, readLength' \in Nat,
           adjusted' \in [header : Nat, data : Nat, symbols : Nat]
    PROVE  LoadTypes'
  <1>1. ImageInv /\ next \in 1 .. Len(image.commands) /\ Len(image.commands) \in Nat
    BY AtCommandFacts
  <1>2. pc = "command" /\ UNCHANGED <<pc, boot, source, image>> BY DEF Advance, AtCommand
  <1>3. ImageInv' BY <1>1, <1>2, SMTT(20) DEF Advance, ImageInv
  <1> QED BY <1>2, <1>3 DEF LoadTypes, Loading

\* A segment takes its pages.
LEMMA LoadSegmentBlocks ==
    ASSUME LoadTypes, AtCommand("segment"), Command.vsize # 0,
           KM!Allocate(Command.vsize, Command.va + displacement)
    PROVE  /\ WindowInv'
           /\ KM!Block(Command.va + displacement, Command.vsize) \in Blocks
           /\ blocks' = blocks \cup {KM!Block(Command.va + displacement, Command.vsize)}
           /\ \A b \in blocks : \/ Command.va + displacement + Command.vsize <= b.va
                                \/ b.va + b.n <= Command.va + displacement
  <1> DEFINE n == Command.vsize
             requested == Command.va + displacement
  <1>1. n \in Nat \ {0} /\ requested \in Nat /\ requested # 0 BY SegmentFacts
  <1>2. WindowInv /\ KM!Allocate(n, requested) BY DEF LoadTypes
  <1> HIDE DEF n, requested
  <1>3. KM!Place(requested) = requested BY <1>1 DEF KM!Place
  <1>4. /\ WindowInv' /\ KM!Block(requested, n) \in Blocks
        /\ blocks' = blocks \cup {KM!Block(requested, n)}
        /\ \A b \in blocks : requested + n <= b.va \/ b.va + b.n <= requested
    BY <1>1, <1>2, <1>3, NewBlock
  <1> QED BY <1>4 DEF n, requested

\* The segment's share of a step.
LEMMA ReadLengthType ==
    ASSUME LoadTypes, AtCommand("segment"), NEW short \in 0 .. FileLength(Command)
    PROVE  ReadLength(Command, short) \in Nat
  <1>1. FileLength(Command) \in Nat BY SegmentFacts
  <1>2. readLength \in Nat BY AtCommandFacts DEF ImageInv
  <1> QED BY <1>1, <1>2, SMTT(20) DEF ReadLength

\* A segment that is loaded keeps the types.
LEMMA LoadSegmentTypes ==
    ASSUME LoadTypes, LoadSegment
    PROVE  LoadTypes'
  <1>1. AtCommand("segment") /\ pc = "command" /\ UNCHANGED displacement
    BY DEF LoadSegment, AtCommand
  <1>2. ImageInv BY <1>1, AtCommandFacts
  <1>3. faults \in Nat /\ adjusted \in [header : Nat, data : Nat, symbols : Nat]
    BY <1>1 DEF LoadTypes, Loading
  <1>4. CASE Command.vsize = 0
    <2>1. Advance /\ UNCHANGED <<readLength, adjusted, faults, memory>>
      BY <1>4 DEF LoadSegment
    <2>2. WindowInv' BY <2>1 DEF memory, WindowInv, LoadTypes
    <2>3. readLength' \in Nat BY <1>2, <2>1 DEF ImageInv
    <2> QED BY <1>1, <1>2, <1>3, <2>1, <2>2, <2>3, AdvanceTypes
  <1>5. CASE Command.vsize # 0
    <2>1. WindowInv' BY <1>1, <1>5, LoadSegmentBlocks DEF LoadSegment
    <2>2. PICK short \in 0 .. FileLength(Command) :
             /\ readLength' = ReadLength(Command, short)
             /\ IF short = 0 THEN UNCHANGED faults ELSE Fault
      BY <1>5 DEF LoadSegment
    <2>3. readLength' \in Nat BY <1>1, <2>2, ReadLengthType
    <2>4. faults' \in Nat BY <1>3, <2>2, SMTT(20) DEF Fault
    <2>5. displacement \in Nat BY <1>1, SegmentFacts
    <2>6. adjusted' \in [header : Nat, data : Nat, symbols : Nat]
      BY <1>3, <1>5, <2>5 DEF LoadSegment
    <2>7. CASE Advance BY <1>1, <1>2, <2>1, <2>3, <2>4, <2>6, <2>7, AdvanceTypes
    <2>8. CASE pc' = "wild" BY <1>1, <2>1, <2>8 DEF LoadTypes, Loading
    <2> QED BY <1>5, <2>7, <2>8 DEF LoadSegment
  <1> QED BY <1>4, <1>5
\* The steps of the loader, one by one.
LEMMA LdrTypes ==
    ASSUME LoadTypes, LdrNext
    PROVE  LoadTypes'
  <1>1. pc \in Loading BY LdrPc
  <1>2. /\ source \in {"cache", "kernel"} /\ boot \in Boots /\ faults \in Nat
        /\ adjusted \in [header : Nat, data : Nat, symbols : Nat]
        /\ displacement \in Slides \cup {0} /\ displacement \in Nat /\ WindowInv
    BY <1>1, SizesAssumption, SMTT(20) DEF LoadTypes
  <1>3. UNCHANGED memory => WindowInv' BY <1>2 DEF memory, WindowInv
  <1>4. Fault => faults' \in Nat BY <1>2, SMTT(20) DEF Fault
  <1>5. CASE AltKernel
    BY <1>1, <1>2, <1>3, <1>5, FailTypes DEF AltKernel
  <1>6. CASE TryCandidate
    <2>1. pc = "cache" /\ UNCHANGED <<displacement, faults, memory>> BY <1>6, CandidateCases
    <2>2. CASE LoadFails BY <1>1, <1>2, <1>3, <2>1, <2>2, FailTypes
    <2>3. CASE pc' \in {"cache", "open"} /\ UNCHANGED <<boot, source, adjusted>>
      BY <1>2, <1>3, <2>1, <2>3 DEF LoadTypes, Loading
    <2> QED BY <1>6, <2>1, <2>2, <2>3, CandidateCases
  <1>7. CASE NetBoot
    <2>1. CASE LoadFails BY <1>1, <1>2, <1>3, <1>7, <2>1, FailTypes DEF NetBoot
    <2>2. CASE pc' = "open" /\ UNCHANGED <<boot, source, adjusted>>
      BY <1>2, <1>3, <1>7, <2>2 DEF NetBoot, LoadTypes, Loading
    <2> QED BY <1>7, <2>1, <2>2 DEF NetBoot
  <1>8. CASE OpenCache
    <2>1. PICK f \in Caches :
             /\ displacement' = WithoutASLR(f.compressed = "lz" /\ ~f.supportASLR)
             /\ IF Refused(f)
                  THEN LoadFails
                  ELSE /\ pc' = "header"
                       /\ image' = f
                       /\ accepted' = None
                       /\ UNCHANGED <<boot, candidate, source, next, readLength,
                                      segments, adjusted, entry>>
      BY <1>8 DEF OpenCache
    <2>2. displacement' \in Slides \cup {0} BY <2>1, WithoutASLRType
    <2>3. UNCHANGED <<faults, memory>> BY <1>8 DEF OpenCache
    <2>4. CASE LoadFails BY <1>1, <1>2, <1>3, <2>2, <2>3, <2>4, FailTypes
    <2>5. CASE pc' = "header" /\ image' = f /\ UNCHANGED <<boot, source, adjusted>>
      <3>1. source = "cache" BY <1>8 DEF OpenCache, LoadTypes, Loading
      <3> QED BY <1>2, <1>3, <2>2, <2>3, <2>5, <3>1 DEF LoadTypes, Loading, Files
    <2> QED BY <2>1, <2>4, <2>5
  <1>9. CASE CorruptCache \/ OpenCacheFaults
    <2>1. displacement' \in Slides \cup {0}
      BY <1>2, <1>9, WithoutASLRType DEF CorruptCache, OpenCacheFaults
    <2>2. faults' \in Nat /\ UNCHANGED memory /\ LoadFails
      BY <1>2, <1>4, <1>9 DEF CorruptCache, OpenCacheFaults
    <2> QED BY <1>1, <1>3, <2>1, <2>2, FailTypes
  <1>10. CASE LdrLoadKernel
    <2>1. source' = "kernel" /\ faults' \in Nat /\ UNCHANGED <<boot, displacement, adjusted, memory>>
      BY <1>2, <1>4, <1>10 DEF LdrLoadKernel
    <2>2. (pc' = "header" /\ image' \in Kernels) \/ pc' = "failed" BY <1>10 DEF LdrLoadKernel
    <2> QED BY <1>2, <1>3, <2>1, <2>2 DEF LoadTypes, Loading, Files
  <1>11. CASE MachHeader
    <2>1. displacement' \in Slides \cup {0} BY <1>11, WithoutASLRType DEF MachHeader
    <2>2. adjusted' \in [header : Nat, data : Nat, symbols : Nat]
      BY <1>11 DEF MachHeader, Unadjusted
    <2>3. image \in Files /\ (source = "kernel" => image \in Kernels)
      BY <1>11 DEF MachHeader, LoadTypes, Loading
    <2>4. ImageInv'
      <3>1. Len(image.commands) \in Nat BY <2>3, FilesAssumption, SMTT(20) DEF Files, IsKernel
      <3> QED BY <1>11, <2>3, <3>1, SizesAssumption, SMTT(20) DEF MachHeader, ImageInv
    <2>5. pc' = "command" /\ UNCHANGED <<boot, source, faults, memory>> BY <1>11 DEF MachHeader
    <2> QED BY <1>2, <1>3, <2>1, <2>2, <2>4, <2>5 DEF LoadTypes, Loading
  <1>12. CASE MachHeaderFaults
    <2>1. displacement' \in Slides \cup {0} BY <1>12, WithoutASLRType DEF MachHeaderFaults
    <2>2. faults' \in Nat /\ UNCHANGED memory /\ LoadFails
      BY <1>2, <1>4, <1>12 DEF MachHeaderFaults
    <2> QED BY <1>1, <1>3, <2>1, <2>2, FailTypes
  <1>13. CASE LoadSegment BY <1>13, LoadSegmentTypes
  <1>14. CASE NoRoom
    BY <1>1, <1>2, <1>3, <1>14, FailTypes DEF NoRoom
  <1>15. CASE SegmentFaults
    <2>1. WindowInv' BY <1>3, <1>15, LoadSegmentBlocks DEF SegmentFaults
    <2> QED BY <1>1, <1>2, <1>4, <1>15, <2>1, FailTypes DEF SegmentFaults
  <1>16. CASE Relocate \/ AdjustSymbols \/ SetEntry
    <2>1. PICK kind : AtCommand(kind) BY <1>16 DEF Relocate, AdjustSymbols, SetEntry
    <2>2. UNCHANGED <<displacement, faults, memory>>
      BY <1>16 DEF Relocate, AdjustSymbols, SetEntry
    <2>3. CASE LoadFails BY <1>1, <1>2, <1>3, <2>2, <2>3, FailTypes
    <2>4. CASE pc' = "wild" BY <1>2, <1>3, <2>2, <2>4 DEF LoadTypes, Loading
    <2>5. CASE Advance /\ UNCHANGED readLength /\ adjusted' \in {adjusted,
               [adjusted EXCEPT !.data = displacement], [adjusted EXCEPT !.symbols = displacement]}
      <3>1. adjusted' \in [header : Nat, data : Nat, symbols : Nat] BY <1>2, <2>5
      <3>2. readLength' \in Nat BY <2>1, <2>5, AtCommandFacts DEF ImageInv
      <3> QED BY <1>2, <1>3, <2>1, <2>2, <2>5, <3>1, <3>2, AdvanceTypes
    <2> QED BY <1>16, <2>3, <2>4, <2>5 DEF Relocate, AdjustSymbols, SetEntry
  <1>17. CASE MachLoaded
    <2>1. pc = "command" /\ ImageInv BY <1>17 DEF MachLoaded, LoadTypes, Loading
    <2> QED BY <1>2, <1>3, <1>17, <2>1 DEF MachLoaded, LoadTypes, Loading, ImageInv, local
  <1> QED
    BY <1>5, <1>6, <1>7, <1>8, <1>9, <1>10, <1>11, <1>12, <1>13, <1>14, <1>15, <1>16, <1>17
          DEF LdrNext
-----------------------------------------------------------------------------
(* What lies behind the boot arguments.                                    *)

\* What follows the kernel's loader in EfiMain.
Driving == {"system", "walk", "parse", "match", "modules", "ramdisk"}

DriverStep ==
    \/ BlInitializeBootArgs \/ OpenFolder \/ LeaveFolder \/ LoadBundle \/ BundleFaults
    \/ ParsePlist \/ BundleParsed \/ LdrpMatchLibraries \/ LoadModule \/ ModuleWithoutRange
    \/ LeaveModules \/ LdrLoadRamDisk

\* None of them goes back to the kernel's loader; most leave the window alone, the
\* others take the pages behind everything else.
LEMMA DriverCases ==
    ASSUME DriverStep
    PROVE  /\ pc' \notin Loading /\ UNCHANGED displacement
           /\ \/ pc = "loaded" /\ BlInitializeBootArgs
              \/ /\ UNCHANGED bootArgs
                 /\ pc \in Driving
                 /\ \/ UNCHANGED <<memory, ranges>>
                    \/ \E n \in FileSizes, name \in {"Driver", "RAMDisk"} : \E read \in 0 .. n :
                         /\ KM!Allocate(n, 0) /\ AddRange(name, read)
                         /\ name = "Driver" => read = n
  <1> USE DEF Loading, Driving, driverVars, walkVars, kernelVars
  <1>1. CASE BlInitializeBootArgs BY <1>1 DEF BlInitializeBootArgs
  <1>2. CASE OpenFolder \/ LeaveFolder \/ LoadBundle \/ BundleFaults \/ LdrpMatchLibraries
    BY <1>2 DEF OpenFolder, LeaveFolder, LoadBundle, BundleFaults, LdrpMatchLibraries, Plugins
  <1>3. CASE ParsePlist BY <1>3 DEF ParsePlist
  <1>4. CASE BundleParsed
    <2>1. pc = "parse" /\ UNCHANGED <<bootArgs, memory, ranges, displacement>>
      BY <1>4 DEF BundleParsed
    <2>2. pc' \in {"walk", "corrupt"} BY <1>4 DEF BundleParsed, Plugins
    <2> QED BY <2>1, <2>2
  <1>5. CASE LoadModule
    <2>1. PICK n \in FileSizes : KM!Allocate(n, 0) /\ AddRange("Driver", n)
      BY <1>5 DEF LoadModule
    <2>2. n \in 0 .. n BY FileSizesAssumption, SMTT(20)
    <2>3. pc = "modules" /\ UNCHANGED <<pc, bootArgs, displacement>>
      BY <1>5 DEF LoadModule, AtModule
    <2> QED BY <2>1, <2>2, <2>3
  <1>6. CASE ModuleWithoutRange \/ LeaveModules
    BY <1>6 DEF ModuleWithoutRange, LeaveModules, AtModule
  <1>7. CASE LdrLoadRamDisk BY <1>7 DEF LdrLoadRamDisk
  <1> QED BY <1>1, <1>2, <1>3, <1>4, <1>5, <1>6, <1>7 DEF DriverStep

\* Every step is one of the kernel's loader or one after it.
LEMMA NextCases ==
    ASSUME [Next]_allVars
    PROVE  \/ LdrNext /\ UNCHANGED <<configVars, bootArgs, driverVars>>
           \/ DriverStep
           \/ UNCHANGED allVars
  BY DEF Next, DriverStep

\* The window and the displacement keep their types.
LEMMA TypesStep ==
    ASSUME LoadTypes, [Next]_allVars
    PROVE  LoadTypes'
  <1>1. CASE LdrNext BY <1>1, LdrTypes
  <1>2. CASE DriverStep
    <2>1. pc' \notin Loading /\ UNCHANGED displacement BY <1>2, DriverCases
    <2>2. CASE UNCHANGED memory
      BY <2>1, <2>2 DEF LoadTypes, WindowInv, memory
    <2>3. CASE \E n \in Nat \ {0} : KM!Allocate(n, 0)
      <3>1. PICK n \in Nat \ {0} : KM!Allocate(n, 0) BY <2>3
      <3>2. WindowInv' BY <3>1, NewBlock, SMTT(20) DEF LoadTypes
      <3> QED BY <2>1, <3>2 DEF LoadTypes
    <2>4. CASE BlInitializeBootArgs
      <3>1. 1 \in Nat \ {0} BY SMTT(20)
      <3> QED BY <2>2, <2>3, <2>4, <3>1 DEF BlInitializeBootArgs
    <2> QED BY <1>2, <2>2, <2>3, <2>4, DriverCases, FileSizesAssumption
  <1>3. CASE UNCHANGED allVars
    BY <1>3 DEF allVars, vars, memory, LoadTypes, WindowInv, ImageInv
  <1> QED BY <1>1, <1>2, <1>3, NextCases

\* The window is empty at first.
LEMMA TypesInit == Init => LoadTypes
  <1> SUFFICES ASSUME Init PROVE LoadTypes OBVIOUS
  <1>1. LdrInit BY DEF Init
  <1>2. WindowInv
    BY <1>1, SizesAssumption, SMTT(20) DEF LdrInit, KM!Init, KM!MinusOne, WindowInv
  <1>3. adjusted \in [header : Nat, data : Nat, symbols : Nat] BY <1>1 DEF LdrInit, Unadjusted
  <1> QED BY <1>1, <1>2, <1>3 DEF LdrInit, LoadTypes, Loading, Boots

\* Until the boot arguments are placed nothing is in the memory map; from then on
\* every block is taken behind them.
RangesInv ==
    /\ RangesAreAllocated
    /\ pc \in Loading => bootArgs.va = 0 /\ ranges = {}
    /\ bootArgs.va \in Int /\ (bootArgs.va # 0 => bootArgs.va < end)

\* A block with a range behind the boot arguments.
LEMMA RangesAdd ==
    ASSUME LoadTypes, RangesInv, UNCHANGED bootArgs, bootArgs.va # 0, NEW n \in Nat \ {0},
           NEW name, NEW read \in 0 .. n, name = "Driver" => read = n,
           KM!Allocate(n, 0), AddRange(name, read)
    PROVE  RangesAreAllocated' /\ bootArgs.va < end'
  <1> DEFINE new == KM!Block(end, n)
             r == [name |-> name, pa |-> end - KernelBase, n |-> read]
             Behind == {b \in blocks : b.va > bootArgs.va}
  <1>1. KM!Place(0) = end BY DEF KM!Place
  <1>2. WindowInv /\ end \in Int /\ bootArgs.va < end /\ bootArgs.va \in Int
    BY DEF LoadTypes, WindowInv, RangesInv
  <1>3. blocks' = blocks \cup {new} /\ end' >= end /\ end' \in Int
    BY <1>1, <1>2, NewBlock DEF WindowInv
  <1>4. ranges' = ranges \cup {r} BY DEF AddRange
  <1>5. /\ new.va = end /\ new.pa = r.pa /\ r.pa = end - KernelBase
        /\ r.n <= new.n /\ (r.name = "Driver" => r.n = new.n)
    BY SMTT(20) DEF KM!Block
  <1>6. /\ \A b \in Behind : \E q \in ranges : q.pa = b.pa
        /\ \A q \in ranges : \E b \in Behind :
             q.pa = b.pa /\ q.n <= b.n /\ (q.name = "Driver" => q.n = b.n)
        /\ \A p, q \in ranges : p.pa = q.pa => p = q
    BY DEF RangesInv, RangesAreAllocated
  <1> HIDE DEF new, r
  <1>7. {b \in blocks' : b.va > bootArgs.va} = Behind \cup {new}
    BY <1>2, <1>3, <1>5
  <1>8. \A b \in Behind : b.pa # r.pa
    BY <1>2, <1>5, SizesAssumption, SMTT(20) DEF WindowInv, Blocks
  <1> HIDE DEF Behind
  <1>9. \A q \in ranges : q.pa # r.pa BY <1>6, <1>8
  <1>10. \A b \in Behind \cup {new} : \E q \in ranges' : q.pa = b.pa
    BY <1>4, <1>5, <1>6
  <1>11. \A q \in ranges' : \E b \in Behind \cup {new} :
            q.pa = b.pa /\ q.n <= b.n /\ (q.name = "Driver" => q.n = b.n)
    BY <1>4, <1>5, <1>6
  <1>12. \A p, q \in ranges' : p.pa = q.pa => p = q BY <1>4, <1>6, <1>9
  <1>13. RangesAreAllocated' BY <1>7, <1>10, <1>11, <1>12 DEF RangesAreAllocated
  <1> QED BY <1>2, <1>3, <1>13, SMTT(20)
\* Every step keeps the ranges and the blocks the same.
LEMMA RangesStep ==
    ASSUME LoadTypes, RangesInv, [Next]_allVars
    PROVE  RangesInv'
  <1>1. CASE LdrNext /\ UNCHANGED <<configVars, bootArgs, driverVars>>
    <2>1. pc \in Loading /\ UNCHANGED <<bootArgs, ranges>> BY <1>1, LdrPc DEF driverVars
    <2> QED BY <2>1 DEF RangesInv, RangesAreAllocated
  <1>2. CASE DriverStep
    <2>1. pc' \notin Loading BY <1>2, DriverCases
    <2>2. CASE UNCHANGED <<bootArgs, memory, ranges>>
      BY <2>1, <2>2 DEF RangesInv, RangesAreAllocated, memory
    <2>3. CASE /\ UNCHANGED bootArgs
               /\ \E n \in FileSizes, name \in {"Driver", "RAMDisk"} : \E read \in 0 .. n :
                    /\ KM!Allocate(n, 0) /\ AddRange(name, read)
                    /\ name = "Driver" => read = n
      <3>1. PICK n \in FileSizes, name \in {"Driver", "RAMDisk"} : \E read \in 0 .. n :
              /\ KM!Allocate(n, 0) /\ AddRange(name, read)
              /\ name = "Driver" => read = n
        BY <2>3
      <3>4. n \in Nat \ {0} BY FileSizesAssumption
      <3>2. CASE bootArgs.va = 0 BY <2>1, <2>3, <3>2 DEF RangesInv, RangesAreAllocated
      <3>3. CASE bootArgs.va # 0
        <4>1. RangesAreAllocated' /\ bootArgs.va < end' BY <2>3, <3>1, <3>3, <3>4, RangesAdd
        <4> QED BY <2>1, <2>3, <4>1 DEF RangesInv
      <3> QED BY <3>2, <3>3
    <2>4. CASE pc = "loaded" /\ BlInitializeBootArgs
      <3>1. ranges = {} /\ bootArgs.va = 0 /\ UNCHANGED ranges
        BY <2>4 DEF RangesInv, Loading, BlInitializeBootArgs, driverVars
      <3>2. CASE UNCHANGED bootArgs BY <2>1, <3>1, <3>2 DEF RangesInv, RangesAreAllocated
      <3>3. CASE KM!Allocate(1, 0) /\ bootArgs' = [va |-> end, displacement |-> displacement]
        <4>1. WindowInv /\ KM!Place(0) = end BY DEF LoadTypes, KM!Place
        <4>2. /\ WindowInv' /\ blocks' = blocks \cup {KM!Block(end, 1)}
              /\ end > KernelBase /\ end \in Int /\ end' >= end + 1
          BY <3>3, <4>1, NewBlock, SMTT(20)
        <4>3. bootArgs'.va = end BY <3>3
        <4>4. \A b \in blocks' : ~(b.va > end)
          BY <4>1, <4>2, SMTT(20) DEF WindowInv, Blocks, KM!Block
        <4>5. RangesAreAllocated' BY <3>1, <4>3, <4>4 DEF RangesAreAllocated
        <4>6. end' \in Int BY <4>2 DEF WindowInv
        <4> QED BY <2>1, <4>2, <4>3, <4>5, <4>6, SMTT(20) DEF RangesInv
      <3> QED BY <2>4, <3>2, <3>3 DEF BlInitializeBootArgs
    <2> QED BY <1>2, <2>2, <2>3, <2>4, DriverCases
  <1>3. CASE UNCHANGED allVars
    BY <1>3 DEF allVars, vars, memory, driverVars, RangesInv, RangesAreAllocated
  <1> QED BY <1>1, <1>2, <1>3, NextCases

\* Each block behind the boot arguments has one range in the memory map, which
\* begins where the block does and lies in it, and is all of it for a driver, for
\* every number and size of drivers and of the ramdisk, whichever of them fail on
\* the way and however short the ramdisk is read (LdrpLoadMatchedModules,
\* LdrLoadRamDisk).
THEOREM LoaderRangesAreAllocated == Spec => []RangesAreAllocated
  <1>1. Init => RangesInv
    BY SMTT(20) DEF Init, LdrInit, RangesInv, RangesAreAllocated, NoBootArgs
  <1>2. LoadTypes /\ RangesInv /\ [Next]_allVars => LoadTypes' /\ RangesInv'
    BY TypesStep, RangesStep
  <1>3. RangesInv => RangesAreAllocated BY DEF RangesInv
  <1> QED BY <1>1, <1>2, <1>3, TypesInit, PTL DEF Spec
-----------------------------------------------------------------------------
(* What the kernel's loader has done when it is at command next.           *)

Past == 1 .. next - 1

HasText == \E j \in Past : TakesPages(image, j) /\ image.commands[j].name = "__TEXT"
HasThread == \E j \in Past : image.commands[j].kind = "thread"
HasSymtab == \E j \in Past : image.commands[j].kind = "symtab"
HasRelocations ==
    \E j \in Past : image.commands[j].kind = "dysymtab" /\ image.commands[j].relocations # "none"

\* Everything that was looked at has moved by the displacement, the rest not yet.
Moved ==
    /\ displacement # 0 => image.pie
    /\ HasText => adjusted.header = displacement
    /\ HasThread => entry = [of |-> source, displacement |-> displacement]
    /\ adjusted.symbols = IF HasSymtab THEN displacement ELSE 0
    /\ adjusted.data = IF HasRelocations THEN displacement ELSE 0

\* s is what the command c asks for: at its address, the file's part and then zero.
Exact(s, c) ==
    /\ s.of = source /\ s.command = c /\ s.va = c.va + displacement
    /\ c.fsize # 0 =>
         \E r \in 0 .. FileLength(c) :
           /\ s.contents = [p \in 1 .. c.vsize |-> IF p <= r THEN "file" ELSE "zero"]
           /\ faults = 0 => r = FileLength(c)
    /\ c.fsize = 0 =>
         \E r \in 0 .. c.vsize :
           s.contents = [p \in 1 .. c.vsize |-> IF p <= r THEN "old" ELSE "zero"]

\* The segments of this image are those of the commands that were looked at.
SegmentsFilled ==
    /\ \A j \in Past : TakesPages(image, j) => \E s \in segments : Exact(s, image.commands[j])
    /\ \A s \in segments : s.of = source =>
         /\ s.va = s.command.va + displacement
         /\ \E j \in Past : TakesPages(image, j) /\ s.command = image.commands[j]

SegmentBlock(s) == KM!Block(s.va, s.command.vsize)

\* A segment that is in memory has a block of its own.
Housed(s) ==
    /\ s.of \in {"cache", source}
    /\ s.va \in Nat /\ s.command \in SegmentCommands /\ s.command.vsize # 0
    /\ SegmentBlock(s) \in blocks

Apart(s, t) == t.va + t.command.vsize <= s.va \/ s.va + s.command.vsize <= t.va

PlacedInv ==
    /\ \A s \in segments : Housed(s)
    /\ \A s, t \in segments : s # t => Apart(s, t)
    /\ faults = 0 => blocks = {SegmentBlock(s) : s \in segments}
    /\ pc \in {"cache", "open"} => segments = {}
    /\ pc = "header" => \A s \in segments : s.of # source
    /\ pc \in {"command", "loaded"} => Moved /\ SegmentsFilled
    /\ pc = "loaded" => next = Len(image.commands) + 1

LoadInv == (pc \in Loading => PlacedInv) /\ FallBackLoads
\* One command further.
LEMMA PastStep ==
    ASSUME LoadTypes, NEW kind, AtCommand(kind), Advance
    PROVE  /\ UNCHANGED <<pc, boot, source, image>> /\ Past' = Past \cup {next}
           /\ TakesPages(image, next) <=> Command.kind = "segment" /\ Command.vsize # 0
           /\ HasText' <=> HasText \/ (TakesPages(image, next) /\ Command.name = "__TEXT")
           /\ HasThread' <=> HasThread \/ Command.kind = "thread"
           /\ HasSymtab' <=> HasSymtab \/ Command.kind = "symtab"
           /\ HasRelocations' <=> \/ HasRelocations
                                  \/ Command.kind = "dysymtab" /\ Command.relocations # "none"
  <1>1. next \in Nat \ {0} /\ next' = next + 1 /\ UNCHANGED <<pc, boot, source, image>>
    BY AtCommandFacts, SMTT(20) DEF ImageInv, Advance
  <1>2. Past' = Past \cup {next} BY <1>1, SMTT(20) DEF Past
  <1>3. TakesPages(image, next) <=> Command.kind = "segment" /\ Command.vsize # 0
    BY DEF TakesPages, Command
  <1>4. image.commands[next] = Command BY DEF Command
  <1>5. HasText' <=> HasText \/ (TakesPages(image, next) /\ Command.name = "__TEXT")
    BY <1>1, <1>2, <1>4 DEF HasText, TakesPages
  <1>6. /\ HasThread' <=> HasThread \/ Command.kind = "thread"
        /\ HasSymtab' <=> HasSymtab \/ Command.kind = "symtab"
    BY <1>1, <1>2, <1>4 DEF HasThread, HasSymtab
  <1>7. HasRelocations' <=> \/ HasRelocations
                            \/ Command.kind = "dysymtab" /\ Command.relocations # "none"
    BY <1>1, <1>2, <1>4 DEF HasRelocations
  <1> QED BY <1>1, <1>2, <1>3, <1>5, <1>6, <1>7

\* Going on keeps Moved when what this command moves has moved.
LEMMA MovedStep ==
    ASSUME LoadTypes, NEW kind, AtCommand(kind), Advance, Moved, UNCHANGED displacement,
           adjusted'.header = IF TakesPages(image, next) /\ Command.name = "__TEXT"
                              THEN displacement ELSE adjusted.header,
           entry' = IF kind = "thread" THEN [of |-> source, displacement |-> displacement]
                    ELSE entry,
           adjusted'.symbols = IF kind = "symtab" THEN displacement ELSE adjusted.symbols,
           adjusted'.data = IF kind = "dysymtab" /\ Command.relocations # "none"
                            THEN displacement ELSE adjusted.data
    PROVE  Moved'
  <1>1. Command.kind = kind BY AtCommandFacts
  <1>2. /\ UNCHANGED <<source, image>>
        /\ HasText' <=> HasText \/ (TakesPages(image, next) /\ Command.name = "__TEXT")
        /\ HasThread' <=> HasThread \/ kind = "thread"
        /\ HasSymtab' <=> HasSymtab \/ kind = "symtab"
        /\ HasRelocations' <=> HasRelocations \/ (kind = "dysymtab" /\ Command.relocations # "none")
    BY <1>1, PastStep
  <1>3. (displacement # 0 => image.pie)' BY <1>2 DEF Moved
  <1>4. (HasText => adjusted.header = displacement)' BY <1>2 DEF Moved
  <1>5. (HasThread => entry = [of |-> source, displacement |-> displacement])'
    BY <1>2 DEF Moved
  <1>6. (adjusted.symbols = IF HasSymtab THEN displacement ELSE 0)' BY <1>2 DEF Moved
  <1>7. (adjusted.data = IF HasRelocations THEN displacement ELSE 0)'
    BY <1>2 DEF Moved
  <1> QED BY <1>3, <1>4, <1>5, <1>6, <1>7 DEF Moved

\* What Moved and SegmentsFilled are about.
LEMMA ProgressSame ==
    ASSUME UNCHANGED <<displacement, source, image, next, segments, adjusted, entry, faults>>
    PROVE  (Moved => Moved') /\ (SegmentsFilled => SegmentsFilled')
  <1>1. Past' = Past /\ \A j : TakesPages(image, j)' = TakesPages(image, j)
    BY DEF Past, TakesPages
  <1>2. Moved => Moved' BY <1>1 DEF Moved, HasText, HasThread, HasSymtab, HasRelocations
  <1>3. ASSUME SegmentsFilled, NEW j \in Past', TakesPages(image, j)'
        PROVE  \E s \in segments' : Exact(s, image.commands[j])'
    <2>1. PICK s \in segments : Exact(s, image.commands[j])
      BY <1>1, <1>3 DEF SegmentsFilled
    <2>2. Exact(s, image.commands[j])' BY <2>1 DEF Exact
    <2> QED BY <2>2
  <1>4. SegmentsFilled => (\A s \in segments : s.of = source =>
           /\ s.va = s.command.va + displacement
           /\ \E j \in Past : TakesPages(image, j) /\ s.command = image.commands[j])'
    BY <1>1 DEF SegmentsFilled
  <1> QED BY <1>2, <1>3, <1>4 DEF SegmentsFilled

\* A command that takes no pages leaves the segments as they are.
LEMMA FilledSame ==
    ASSUME LoadTypes, NEW kind, AtCommand(kind), Advance, SegmentsFilled,
           UNCHANGED <<displacement, segments, faults>>, ~TakesPages(image, next)
    PROVE  SegmentsFilled'
  <1>1. UNCHANGED <<source, image>> /\ Past' = Past \cup {next} BY PastStep
  <1>3. (\A j \in Past : TakesPages(image, j) => \E s \in segments : Exact(s, image.commands[j]))'
    <2> SUFFICES ASSUME NEW j \in Past', TakesPages(image, j)'
                 PROVE  \E s \in segments' : Exact(s, image.commands[j])'
      OBVIOUS
    <2>1. j \in Past /\ TakesPages(image, j) BY <1>1 DEF TakesPages
    <2>2. PICK s \in segments : Exact(s, image.commands[j]) BY <2>1 DEF SegmentsFilled
    <2>3. Exact(s, image.commands[j])' BY <1>1, <2>2 DEF Exact
    <2> QED BY <2>3
  <1>4. (\A s \in segments : s.of = source =>
           /\ s.va = s.command.va + displacement
           /\ \E j \in Past : TakesPages(image, j) /\ s.command = image.commands[j])'
    BY <1>1 DEF SegmentsFilled, TakesPages
  <1> QED BY <1>3, <1>4 DEF SegmentsFilled
\* The segment LoadSegment adds.
NewSegment == [of |-> source, command |-> Command, va |-> Command.va + displacement,
               contents |-> Contents(Command, readLength')]

\* A segment that is read: faults are not forgotten, and its contents are exact.
LEMMA SegmentRead ==
    ASSUME LoadTypes, AtCommand("segment"), Command.vsize # 0, LoadSegment
    PROVE  /\ segments' = segments \cup {NewSegment}
           /\ NewSegment.of = source /\ NewSegment.command = Command
           /\ NewSegment.va = Command.va + displacement
           /\ faults' = 0 => faults = 0
           /\ Command.fsize # 0 =>
                \E r \in 0 .. FileLength(Command) :
                  /\ NewSegment.contents =
                       [p \in 1 .. Command.vsize |-> IF p <= r THEN "file" ELSE "zero"]
                  /\ faults' = 0 => r = FileLength(Command)
           /\ Command.fsize = 0 /\ ~(readLength' > Command.vsize) =>
                \E r \in 0 .. Command.vsize :
                  NewSegment.contents =
                    [p \in 1 .. Command.vsize |-> IF p <= r THEN "old" ELSE "zero"]
  <1>1. segments' = segments \cup {NewSegment} BY DEF LoadSegment, NewSegment
  <1>2. PICK short \in 0 .. FileLength(Command) :
           /\ readLength' = ReadLength(Command, short)
           /\ IF short = 0 THEN UNCHANGED faults ELSE Fault
    BY DEF LoadSegment
  <1>3. /\ FileLength(Command) \in Nat /\ Command.vsize \in Nat /\ Command.fsize \in Nat
        /\ faults \in Nat
    BY SegmentFacts DEF LoadTypes, Loading, AtCommand
  <1>4. faults' = 0 => faults = 0 /\ short = 0 BY <1>2, <1>3, SMTT(20) DEF Fault
  <1>5. ASSUME Command.fsize # 0
        PROVE  \E r \in 0 .. FileLength(Command) :
                  /\ NewSegment.contents =
                       [p \in 1 .. Command.vsize |-> IF p <= r THEN "file" ELSE "zero"]
                  /\ faults' = 0 => r = FileLength(Command)
    <2> DEFINE r == FileLength(Command) - short
    <2>1. FileLength(Command) # 0 BY <1>5 DEF FileLength
    <2>2. readLength' = r /\ r \in 0 .. FileLength(Command)
      BY <1>2, <1>3, <2>1, SMTT(20) DEF ReadLength
    <2>3. faults' = 0 => r = FileLength(Command) BY <1>3, <1>4, SMTT(20)
    <2> HIDE DEF r
    <2>4. NewSegment.contents = [p \in 1 .. Command.vsize |-> IF p > r THEN "zero" ELSE "file"]
      BY <2>1, <2>2 DEF NewSegment, Contents
    <2>5. \A p \in 1 .. Command.vsize : (p > r) <=> ~(p <= r) BY <1>3, <2>2, SMTT(20)
    <2>6. [p \in 1 .. Command.vsize |-> IF p > r THEN "zero" ELSE "file"]
             = [p \in 1 .. Command.vsize |-> IF p <= r THEN "file" ELSE "zero"]
      BY <2>5
    <2> QED BY <2>2, <2>3, <2>4, <2>6
  <1>6. ASSUME Command.fsize = 0, ~(readLength' > Command.vsize)
        PROVE  \E r \in 0 .. Command.vsize :
                  NewSegment.contents =
                    [p \in 1 .. Command.vsize |-> IF p <= r THEN "old" ELSE "zero"]
    <2>1. FileLength(Command) = 0 BY <1>3, <1>6, SMTT(20) DEF FileLength
    <2>2. readLength' \in Nat BY <1>2, ReadLengthType
    <2>3. PICK r : r = readLength' OBVIOUS
    <2>4. r \in 0 .. Command.vsize BY <1>3, <1>6, <2>2, <2>3, SMTT(20)
    <2>5. NewSegment.contents = [p \in 1 .. Command.vsize |-> IF p > r THEN "zero" ELSE "old"]
      BY <2>1, <2>3 DEF NewSegment, Contents
    <2>6. \A p \in 1 .. Command.vsize : (p > r) <=> ~(p <= r) BY <1>3, <2>4, SMTT(20)
    <2>7. [p \in 1 .. Command.vsize |-> IF p > r THEN "zero" ELSE "old"]
             = [p \in 1 .. Command.vsize |-> IF p <= r THEN "old" ELSE "zero"]
      BY <2>6
    <2> QED BY <2>4, <2>5, <2>7
  <1> QED BY <1>1, <1>4, <1>5, <1>6 DEF NewSegment

\* It has a block of its own, away from all others.
LEMMA SegmentHoused ==
    ASSUME LoadTypes, AtCommand("segment"), Command.vsize # 0, LoadSegment, PlacedInv,
           UNCHANGED source
    PROVE  /\ \A s \in segments' : Housed(s)'
           /\ \A s, t \in segments' : s # t => Apart(s, t)
           /\ faults' = 0 => blocks' = {SegmentBlock(s) : s \in segments'}
  <1> DEFINE va == Command.va + displacement
             n == Command.vsize
  <1> PICK e : e = NewSegment OBVIOUS
  <1>1. /\ segments' = segments \cup {e} /\ e.of = source /\ e.command = Command /\ e.va = va
        /\ faults' = 0 => faults = 0
    BY SegmentRead
  <1>2. /\ blocks' = blocks \cup {KM!Block(va, n)}
        /\ \A b \in blocks : va + n <= b.va \/ b.va + b.n <= va
    BY LoadSegmentBlocks DEF LoadSegment
  <1>3. /\ va \in Nat /\ n \in Nat /\ n # 0 /\ source \in {"cache", "kernel"}
        /\ Command \in SegmentCommands
    BY SegmentFacts DEF LoadTypes, Loading, AtCommand
  <1> HIDE DEF va
  <1>4. e.command.vsize = n BY <1>1
  <1>5. \A s \in segments : Housed(s) BY DEF PlacedInv
  <1>6. SegmentBlock(e) = KM!Block(va, n) BY <1>1, <1>4 DEF SegmentBlock
  <1>7. Housed(e)'
    <2>1. SegmentBlock(e)' = SegmentBlock(e) BY DEF SegmentBlock, KM!Block
    <2>2. SegmentBlock(e)' \in blocks' BY <1>2, <1>6, <2>1
    <2> QED BY <1>1, <1>3, <1>4, <2>2 DEF Housed
  <1>8. \A s \in segments : Housed(s)' BY <1>2, <1>5 DEF Housed, SegmentBlock
  <1>9. ASSUME NEW s \in segments
        PROVE  Apart(s, e) /\ Apart(e, s)
    <2>1. /\ SegmentBlock(s) \in blocks /\ SegmentBlock(s).va = s.va
          /\ SegmentBlock(s).n = s.command.vsize
      BY <1>5 DEF Housed, SegmentBlock, KM!Block
    <2>2. va + n <= s.va \/ s.va + s.command.vsize <= va BY <1>2, <2>1
    <2> QED BY <1>1, <1>4, <2>2 DEF Apart
  <1>10. \A s, t \in segments' : s # t => Apart(s, t)
    <2>1. \A s, t \in segments : s # t => Apart(s, t) BY DEF PlacedInv
    <2> SUFFICES ASSUME NEW s \in segments', NEW t \in segments', s # t PROVE Apart(s, t)
      OBVIOUS
    <2>2. (s \in segments \/ s = e) /\ (t \in segments \/ t = e) BY <1>1
    <2>3. CASE s \in segments /\ t \in segments BY <2>1, <2>3
    <2>4. CASE s = e /\ t \in segments BY <1>9, <2>4
    <2>5. CASE s \in segments /\ t = e BY <1>9, <2>5
    <2> QED BY <2>2, <2>3, <2>4, <2>5
  <1>11. ASSUME faults' = 0 PROVE blocks' = {SegmentBlock(s) : s \in segments'}
    <2>1. blocks = {SegmentBlock(s) : s \in segments} BY <1>1, <1>11 DEF PlacedInv
    <2> QED BY <1>1, <1>2, <1>6, <2>1
  <1> QED BY <1>1, <1>7, <1>8, <1>10, <1>11
\* The segments up to and including this one have been filled.
LEMMA SegmentFilled ==
    ASSUME LoadTypes, AtCommand("segment"), Command.vsize # 0, LoadSegment, Advance,
           SegmentsFilled
    PROVE  SegmentsFilled'
  <1> PICK e : e = NewSegment OBVIOUS
  <1>1. /\ UNCHANGED <<source, image>> /\ Past' = Past \cup {next}
        /\ TakesPages(image, next)
    BY AtCommandFacts, PastStep
  <1>2. UNCHANGED displacement /\ image.commands[next] = Command BY DEF LoadSegment, Command
  <1>3. /\ segments' = segments \cup {e} /\ e.of = source /\ e.command = Command
        /\ e.va = Command.va + displacement /\ (faults' = 0 => faults = 0)
    BY SegmentRead
  <1>4. PICK c : c = Command OBVIOUS
  <1>5. Exact(e, c)'
    <2>1. c.fsize # 0 =>
            \E r \in 0 .. FileLength(c) :
              /\ e.contents = [p \in 1 .. c.vsize |-> IF p <= r THEN "file" ELSE "zero"]
              /\ faults' = 0 => r = FileLength(c)
      BY <1>4, SegmentRead
    <2>2. ~(readLength' > Command.vsize)
      BY DEF LoadSegment, Advance, AtCommand
    <2>3. c.fsize = 0 =>
            \E r \in 0 .. c.vsize :
              e.contents = [p \in 1 .. c.vsize |-> IF p <= r THEN "old" ELSE "zero"]
      BY <1>4, <2>2, SegmentRead
    <2>4. FileLength(c)' = FileLength(c) BY DEF FileLength
    <2> QED BY <1>1, <1>2, <1>3, <1>4, <2>1, <2>3, <2>4 DEF Exact
  <1>6. (\A j \in Past : TakesPages(image, j) => \E s \in segments : Exact(s, image.commands[j]))'
    <2> SUFFICES ASSUME NEW j \in Past', TakesPages(image, j)'
                 PROVE  \E s \in segments' : Exact(s, image.commands[j])'
      OBVIOUS
    <2>1. CASE j = next
      <3>1. (image.commands[j])' = c BY <1>1, <1>2, <1>4, <2>1
      <3>2. Exact(e, image.commands[j])' BY <1>5, <3>1 DEF Exact, FileLength
      <3> QED BY <1>3, <3>2
    <2>2. CASE j \in Past
      <3>1. PICK s \in segments : Exact(s, image.commands[j])
        BY <1>1, <2>2 DEF SegmentsFilled, TakesPages
      <3>2. Exact(s, image.commands[j])'
        BY <1>1, <1>2, <1>3, <3>1 DEF Exact, FileLength
      <3> QED BY <1>3, <3>2
    <2> QED BY <1>1, <2>1, <2>2
  <1>7. (\A s \in segments : s.of = source =>
           /\ s.va = s.command.va + displacement
           /\ \E j \in Past : TakesPages(image, j) /\ s.command = image.commands[j])'
    <2> SUFFICES ASSUME NEW s \in segments', s.of = source
                 PROVE  /\ s.va = s.command.va + displacement
                        /\ \E j \in Past' : TakesPages(image, j) /\ s.command = image.commands[j]
      BY <1>1, <1>2 DEF TakesPages
    <2>1. CASE s = e BY <1>1, <1>2, <1>3, <2>1
    <2>2. CASE s \in segments BY <1>1, <2>2 DEF SegmentsFilled
    <2> QED BY <1>3, <2>1, <2>2
  <1> QED BY <1>6, <1>7 DEF SegmentsFilled

\* A segment that is loaded keeps the progress.
LEMMA LoadSegmentInv ==
    ASSUME LoadTypes, LoadSegment, PlacedInv
    PROVE  pc' # "wild" => PlacedInv' /\ pc' = "command"
  <1>1. AtCommand("segment") /\ pc = "command" /\ UNCHANGED <<displacement, entry>>
    BY DEF LoadSegment, AtCommand
  <1>2. Moved /\ SegmentsFilled /\ Command.kind = "segment"
    BY <1>1, AtCommandFacts DEF PlacedInv
  <1>3. adjusted \in [header : Nat, data : Nat, symbols : Nat] BY <1>1 DEF LoadTypes, Loading
  <1>4. CASE Command.vsize = 0
    <2>1. Advance /\ UNCHANGED <<adjusted, segments, faults, memory>> BY <1>4 DEF LoadSegment
    <2>2. UNCHANGED <<pc, source>> /\ ~TakesPages(image, next) BY <1>1, <1>4, <2>1, PastStep
    <2>3. Moved' BY <1>1, <1>2, <2>1, <2>2, MovedStep
    <2>4. SegmentsFilled' BY <1>1, <1>2, <2>1, <2>2, FilledSame
    <2> QED BY <1>1, <2>1, <2>2, <2>3, <2>4
            DEF PlacedInv, memory, Housed, Apart, SegmentBlock
  <1>5. CASE Command.vsize # 0 /\ pc' # "wild"
    <2>1. Advance BY <1>5 DEF LoadSegment
    <2>2. UNCHANGED <<pc, source>> /\ TakesPages(image, next)
      BY <1>1, <1>2, <1>5, <2>1, PastStep
    <2>3. adjusted' = IF Command.name = "__TEXT"
                      THEN [adjusted EXCEPT !.header = displacement] ELSE adjusted
      BY <1>5 DEF LoadSegment
    <2>4. /\ adjusted'.header = (IF Command.name = "__TEXT" THEN displacement ELSE adjusted.header)
          /\ adjusted'.symbols = adjusted.symbols /\ adjusted'.data = adjusted.data
      BY <1>3, <2>3
    <2>5. Moved' BY <1>1, <1>2, <2>1, <2>2, <2>4, MovedStep
    <2>6. SegmentsFilled' BY <1>1, <1>2, <1>5, <2>1, SegmentFilled
    <2>7. /\ \A s \in segments' : Housed(s)'
          /\ \A s, t \in segments' : s # t => Apart(s, t)
          /\ faults' = 0 => blocks' = {SegmentBlock(s) : s \in segments'}
      BY <1>1, <1>5, <2>2, SegmentHoused
    <2>8. (\A s, t \in segments : s # t => Apart(s, t))' BY <2>7 DEF Apart
    <2>9. (faults = 0 => blocks = {SegmentBlock(s) : s \in segments})'
      BY <2>7 DEF SegmentBlock
    <2> QED BY <1>1, <2>2, <2>5, <2>6, <2>7, <2>8, <2>9 DEF PlacedInv
  <1> QED BY <1>4, <1>5
\* Symbols, relocations and the entry point.
LEMMA CommandInv ==
    ASSUME LoadTypes, Relocate \/ AdjustSymbols \/ SetEntry, Advance, PlacedInv
    PROVE  PlacedInv' /\ pc' = "command"
  <1>1. PICK kind \in {"dysymtab", "symtab", "thread"} : AtCommand(kind)
    BY DEF Relocate, AdjustSymbols, SetEntry
  <1>2. /\ pc = "command" /\ UNCHANGED <<pc, boot, source, image>> /\ Command.kind = kind
        /\ ~TakesPages(image, next)
    BY <1>1, AtCommandFacts, PastStep DEF AtCommand
  <1>3. UNCHANGED <<displacement, faults, memory, segments>>
    BY <1>2 DEF Relocate, AdjustSymbols, SetEntry, LoadFails
  <1>4. Moved /\ SegmentsFilled BY <1>2 DEF PlacedInv
  <1>5. /\ adjusted \in [header : Nat, data : Nat, symbols : Nat]
        /\ displacement = 0 => adjusted.data = 0
    BY <1>2, <1>4 DEF LoadTypes, Loading, Moved
  <1>6. /\ adjusted'.header = adjusted.header
        /\ entry' = IF kind = "thread" THEN [of |-> source, displacement |-> displacement]
                    ELSE entry
        /\ adjusted'.symbols = IF kind = "symtab" THEN displacement ELSE adjusted.symbols
        /\ adjusted'.data = IF kind = "dysymtab" /\ Command.relocations # "none"
                            THEN displacement ELSE adjusted.data
    <2>1. CASE Relocate
      <3>1. kind = "dysymtab" BY <1>2, <2>1 DEF Relocate, AtCommand
      <3>2. CASE Command.relocations = "none" \/ displacement = 0
        BY <1>5, <2>1, <3>1, <3>2 DEF Relocate
      <3>3. CASE ~(Command.relocations = "none" \/ displacement = 0)
        <4>1. pc' # "kernel" /\ pc' # "failed" BY <1>2
        <4>2. adjusted' = [adjusted EXCEPT !.data = displacement] /\ UNCHANGED entry
          BY <2>1, <3>3, <4>1 DEF Relocate, LoadFails
        <4> QED BY <1>5, <3>1, <3>3, <4>2
      <3> QED BY <3>2, <3>3
    <2>2. CASE AdjustSymbols
      <3>1. kind = "symtab" BY <1>2, <2>2 DEF AdjustSymbols, AtCommand
      <3>2. adjusted' = [adjusted EXCEPT !.symbols = displacement] /\ UNCHANGED entry
        BY <1>2, <2>2 DEF AdjustSymbols
      <3> QED BY <1>5, <3>1, <3>2
    <2>3. CASE SetEntry
      <3>1. kind = "thread" BY <1>2, <2>3 DEF SetEntry, AtCommand
      <3>2. entry' = [of |-> source, displacement |-> displacement] /\ UNCHANGED adjusted
        BY <1>2, <2>3 DEF SetEntry, LoadFails
      <3> QED BY <3>1, <3>2
    <2> QED BY <2>1, <2>2, <2>3
  <1>7. Moved' BY <1>1, <1>2, <1>3, <1>4, <1>6, MovedStep
  <1>8. SegmentsFilled' BY <1>1, <1>2, <1>3, <1>4, FilledSame
  <1> QED BY <1>2, <1>3, <1>7, <1>8 DEF PlacedInv, memory, Housed, Apart, SegmentBlock

\* After an error what was placed stays.
LEMMA FailInv ==
    ASSUME LoadTypes, PlacedInv, pc \in Loading, LoadFails, blocks \subseteq blocks',
           faults' = 0 => faults = 0 /\ blocks' = blocks
    PROVE  pc' \in Loading => PlacedInv'
  <1>1. pc' \in {"kernel", "failed"} /\ UNCHANGED <<source, segments>> BY DEF LoadFails
  <1>2. \A s \in segments : Housed(s)' BY <1>1 DEF PlacedInv, Housed, SegmentBlock
  <1>3. (\A s, t \in segments : s # t => Apart(s, t))' BY <1>1 DEF PlacedInv, Apart
  <1>4. (faults = 0 => blocks = {SegmentBlock(s) : s \in segments})'
    BY <1>1 DEF PlacedInv, SegmentBlock
  <1> QED BY <1>1, <1>2, <1>3, <1>4 DEF PlacedInv, Loading
\* A kernel that was built for this window, loaded without a fault into memory
\* that no segment of a cache is in, always finds its pages free ...
LEMMA KernelHasRoom ==
    ASSUME LoadTypes, PlacedInv, source = "kernel", faults = 0,
           \A s \in segments : s.of # "cache",
           AtCommand("segment"), Command.vsize # 0
    PROVE  KM!CanAllocate(Command.vsize, Command.va + displacement)
  <1> DEFINE va == Command.va + displacement
             n == Command.vsize
             c == image.commands
  <1>1. /\ Command.va \in Nat \ {0} /\ n \in Nat /\ displacement \in Nat /\ va \in Nat \ {0}
        /\ Command.kind = "segment"
    BY SegmentFacts, AtCommandFacts
  <1>2. /\ image \in Kernels /\ next \in 1 .. Len(c) /\ c \in Seq(LoadCommands)
        /\ c[next] = Command
    BY AtCommandFacts, FilesAssumption DEF ImageInv, IsKernel, Command
  <1>3. IsLoadable(image) /\ TakesPages(image, next)
    BY <1>1, <1>2, KernelsAssumption DEF TakesPages
  <1>4. displacement \in Slides \cup {0} BY DEF LoadTypes
  <1>5. va > KernelBase /\ va + n <= KernelBase + Window
    BY <1>2, <1>3, <1>4 DEF IsLoadable
  <1>6. ASSUME NEW k \in blocks
        PROVE  va + n <= k.va \/ k.va + k.n <= va
    <2>1. PICK s \in segments : k = SegmentBlock(s) BY <1>6 DEF PlacedInv
    <2>2. /\ k.va = s.va /\ k.n = s.command.vsize /\ s.command \in SegmentCommands
          /\ s.of = source
      BY <2>1 DEF SegmentBlock, KM!Block, PlacedInv, Housed
    <2>3. pc = "command" /\ SegmentsFilled BY DEF AtCommand, PlacedInv
    <2>4. PICK j \in Past : TakesPages(image, j) /\ s.command = c[j]
      BY <2>2, <2>3 DEF SegmentsFilled
    <2>5. s.va = c[j].va + displacement BY <2>2, <2>3, <2>4 DEF SegmentsFilled
    <2>6. j \in 1 .. Len(c) /\ j < next BY <1>2, <2>4, SMTT(20) DEF Past
    <2>7. c[j].va + c[j].vsize <= c[next].va \/ c[next].va + c[next].vsize <= c[j].va
      BY <1>2, <1>3, <2>4, <2>6 DEF IsLoadable
    <2>8. c[j].va \in Nat /\ c[j].vsize \in Nat BY <2>2, <2>4 DEF SegmentCommands
    <2>9. k.va = c[j].va + displacement /\ k.n = c[j].vsize BY <2>2, <2>4, <2>5
    <2>10. Command.va + n <= c[j].va \/ c[j].va + c[j].vsize <= Command.va BY <1>2, <2>7
    <2> HIDE DEF c
    <2> QED BY <1>1, <2>8, <2>9, <2>10, SMTT(20)
  <1>7. KM!Place(va) = va BY <1>1 DEF KM!Place
  <1> HIDE DEF va
  <1>8. KM!CanAllocate(n, va) BY <1>1, <1>5, <1>6, <1>7 DEF KM!CanAllocate, KM!Fits
  <1> QED BY <1>8 DEF va

\* ... and is refused nothing else.
LEMMA KernelIsTaken ==
    ASSUME LoadTypes, PlacedInv, source = "kernel", Relocate \/ SetEntry
    PROVE  ~LoadFails
  <1> SUFFICES ASSUME LoadFails PROVE FALSE OBVIOUS
  <1> DEFINE c == image.commands
  <1>1. PICK kind \in {"dysymtab", "thread"} : AtCommand(kind) BY DEF Relocate, SetEntry
  <1>2. /\ image \in Kernels /\ next \in 1 .. Len(c) /\ c[next] = Command /\ Command.kind = kind
    BY <1>1, AtCommandFacts DEF ImageInv, Command
  <1>3. IsLoadable(image) BY <1>2, KernelsAssumption
  <1>4. pc = "command" /\ pc' \in {"kernel", "failed"} BY <1>1 DEF AtCommand, LoadFails
  <1>5. CASE SetEntry
    <2>1. kind = "thread" /\ ~Command.x64
      BY <1>2, <1>4, <1>5 DEF SetEntry, AtCommand, Advance
    <2> QED BY <1>2, <1>3, <2>1 DEF IsLoadable
  <1>6. CASE Relocate
    <2>1. kind = "dysymtab" BY <1>2, <1>6 DEF Relocate, AtCommand
    <2>2. /\ Command.relocations # "none"
          /\ Command.relocations = "bad" \/ ~Placed("__DATA") \/ ~Placed("__LINKEDIT")
      BY <1>4, <1>6 DEF Relocate, Advance
    <2>3. /\ Command.relocations = "good"
          /\ \A name \in {"__DATA", "__LINKEDIT"} :
               \E i \in 1 .. next - 1 : TakesPages(image, i) /\ c[i].name = name
      BY <1>2, <1>3, <2>1, <2>2 DEF IsLoadable
    <2>4. ASSUME NEW name \in {"__DATA", "__LINKEDIT"} PROVE Placed(name)
      <3>1. PICK i \in Past : TakesPages(image, i) /\ c[i].name = name
        BY <2>3 DEF Past
      <3>2. PICK s \in segments : Exact(s, c[i])
        BY <1>4, <3>1 DEF PlacedInv, SegmentsFilled
      <3> QED BY <3>1, <3>2 DEF Exact, Placed
    <2> QED BY <2>2, <2>3, <2>4
  <1> QED BY <1>5, <1>6
\* An error without a fault ends the attempt to load only as FallBackLoads says.
LEMMA FallBackStep ==
    ASSUME LoadTypes, pc \in Loading, LoadFails, source = "cache" \/ faults' # 0
    PROVE  FallBackLoads'
  BY DEF LoadFails, FallBackLoads

\* Every step of the kernel's loader keeps the progress.
LEMMA LdrInv ==
    ASSUME LoadTypes, LoadInv, LdrNext
    PROVE  LoadInv'
  <1>1. pc \in Loading /\ PlacedInv /\ faults \in Nat BY LdrPc DEF LoadInv, LoadTypes
  <1>2. Fault => faults' # 0 BY <1>1, SMTT(20) DEF Fault
  <1>3. UNCHANGED memory => blocks' = blocks /\ blocks \subseteq blocks' BY DEF memory
  <1>4. pc \in {"cache", "open", "kernel"} => source = "cache" BY <1>1 DEF LoadTypes
  <1>5. pc' # "failed" => FallBackLoads' BY DEF FallBackLoads
  <1>6. pc \in {"cache", "open"} => segments = {} BY <1>1 DEF PlacedInv
  <1>7. CASE AltKernel
    BY <1>1, <1>3, <1>4, <1>7, FailInv, FallBackStep DEF AltKernel, LoadInv
  <1>8. CASE TryCandidate \/ NetBoot
    <2>1. pc = "cache" /\ UNCHANGED <<faults, memory>> BY <1>8, CandidateCases DEF NetBoot
    <2>2. CASE LoadFails
      BY <1>1, <1>3, <1>4, <2>1, <2>2, FailInv, FallBackStep DEF LoadInv
    <2>3. CASE pc' \in {"cache", "open"} /\ UNCHANGED <<source, segments>>
      <3>1. segments' = {} /\ (faults' = 0 => blocks' = {})
        BY <1>1, <1>3, <1>6, <2>1, <2>3 DEF PlacedInv
      <3>2. PlacedInv' BY <2>3, <3>1 DEF PlacedInv
      <3> QED BY <1>5, <2>3, <3>2 DEF LoadInv
    <2> QED BY <1>8, <2>1, <2>2, <2>3, CandidateCases DEF NetBoot
  <1>9. CASE OpenCache
    <2>1. pc = "open" /\ UNCHANGED <<faults, memory>> BY <1>9 DEF OpenCache
    <2>2. CASE LoadFails
      BY <1>1, <1>3, <1>4, <2>1, <2>2, FailInv, FallBackStep DEF LoadInv
    <2>3. CASE pc' = "header" /\ UNCHANGED <<source, segments>>
      <3>1. segments' = {} /\ (faults' = 0 => blocks' = {})
        BY <1>1, <1>3, <1>6, <2>1, <2>3 DEF PlacedInv
      <3>2. PlacedInv' BY <2>3, <3>1 DEF PlacedInv
      <3> QED BY <1>5, <2>3, <3>2 DEF LoadInv
    <2> QED BY <1>9, <2>2, <2>3 DEF OpenCache
  <1>10. CASE CorruptCache \/ OpenCacheFaults \/ MachHeaderFaults
    <2>1. /\ LoadFails /\ UNCHANGED memory
          /\ faults' # 0 \/ (source = "cache" /\ UNCHANGED faults)
      BY <1>2, <1>4, <1>10 DEF CorruptCache, OpenCacheFaults, MachHeaderFaults
    <2>2. faults' = 0 => faults = 0 /\ blocks' = blocks BY <1>3, <2>1
    <2> QED BY <1>1, <1>3, <2>1, <2>2, FailInv, FallBackStep DEF LoadInv
  <1>11. CASE LdrLoadKernel
    <2>1. pc = "kernel" /\ source' = "kernel" /\ UNCHANGED <<segments, memory>>
      BY <1>11 DEF LdrLoadKernel
    <2>2. \A s \in segments : Housed(s)' /\ s.of # source'
      BY <1>1, <1>3, <1>4, <2>1 DEF PlacedInv, Housed, SegmentBlock
    <2>3. CASE pc' = "header" /\ UNCHANGED faults
      <3>1. PlacedInv'
        BY <1>1, <1>3, <2>1, <2>2, <2>3 DEF PlacedInv, Apart, SegmentBlock
      <3> QED BY <1>5, <2>3, <3>1 DEF LoadInv
    <2>4. CASE Fault /\ pc' = "failed"
      BY <1>2, <2>4 DEF LoadInv, Loading, FallBackLoads
    <2> QED BY <1>11, <2>3, <2>4 DEF LdrLoadKernel
  <1>12. CASE MachHeader
    <2>1. /\ pc = "header" /\ pc' = "command" /\ next' = 1 /\ adjusted' = Unadjusted
          /\ displacement' = WithoutASLR(~image.pie)
          /\ UNCHANGED <<source, image, segments, faults, memory>>
      BY <1>12 DEF MachHeader
    <2>2. Past' = {} BY <2>1, SMTT(20) DEF Past
    <2>3. displacement' # 0 => image.pie BY <2>1 DEF WithoutASLR
    <2>4. Moved'
      BY <2>1, <2>2, <2>3
        DEF Moved, HasText, HasThread, HasSymtab, HasRelocations, Unadjusted
    <2>5. \A s \in segments : s.of # source BY <1>1, <2>1 DEF PlacedInv
    <2>6. SegmentsFilled' BY <2>1, <2>2, <2>5 DEF SegmentsFilled
    <2>7. PlacedInv'
      BY <1>1, <1>3, <2>1, <2>4, <2>6 DEF PlacedInv, Housed, Apart, SegmentBlock
    <2> QED BY <1>5, <2>1, <2>7 DEF LoadInv
  <1>13. CASE LoadSegment
    <2>1. pc' # "wild" => PlacedInv' /\ pc' = "command" BY <1>1, <1>13, LoadSegmentInv
    <2> QED BY <1>5, <2>1 DEF LoadInv, Loading
  <1>14. CASE NoRoom
    <2>1. LoadFails /\ UNCHANGED <<faults, memory>> BY <1>14 DEF NoRoom
    <2>2. pc' \in Loading => PlacedInv' BY <1>1, <1>3, <2>1, FailInv
    <2>3. source = "kernel" /\ faults = 0 => \E s \in segments : s.of = "cache"
      BY <1>1, <1>14, KernelHasRoom DEF NoRoom
    <2>4. FallBackLoads'
      BY <1>1, <2>1, <2>3 DEF LoadFails, FallBackLoads, LoadTypes
    <2> QED BY <2>2, <2>4 DEF LoadInv
  <1>15. CASE SegmentFaults
    <2>1. blocks \subseteq blocks' /\ faults' # 0 /\ LoadFails
      BY <1>2, <1>3, <1>15 DEF SegmentFaults, KM!Allocate
    <2> QED BY <1>1, <2>1, FailInv, FallBackStep DEF LoadInv
  <1>16. CASE Relocate \/ AdjustSymbols \/ SetEntry
    <2>1. UNCHANGED <<faults, memory>> BY <1>16 DEF Relocate, AdjustSymbols, SetEntry
    <2>2. CASE LoadFails /\ (Relocate \/ SetEntry)
      <3>1. source = "cache" BY <1>1, <2>2, KernelIsTaken DEF LoadTypes
      <3> QED BY <1>1, <1>3, <2>1, <2>2, <3>1, FailInv, FallBackStep DEF LoadInv
    <2>3. CASE Advance
      BY <1>1, <1>5, <1>16, <2>3, CommandInv DEF LoadInv
    <2>4. CASE pc' = "wild" BY <1>5, <2>4 DEF LoadInv, Loading
    <2> QED BY <1>16, <2>2, <2>3, <2>4 DEF Relocate, AdjustSymbols, SetEntry
  <1>17. CASE MachLoaded
    <2>1. /\ pc = "command" /\ pc' = "loaded" /\ next > Len(image.commands)
          /\ UNCHANGED <<displacement, source, image, next, segments, adjusted, entry, faults, memory>>
      BY <1>17 DEF MachLoaded, local
    <2>2. next = Len(image.commands) + 1
      <3>1. image \in Files /\ next \in 1 .. Len(image.commands) + 1
        BY <1>1, <2>1 DEF LoadTypes, ImageInv
      <3>2. Len(image.commands) \in Nat BY <3>1, FilesAssumption, Z3T(20) DEF Files, IsKernel
      <3> QED BY <2>1, <3>1, <3>2, SMTT(20)
    <2>3. Moved' /\ SegmentsFilled'
      <3>1. Moved /\ SegmentsFilled BY <1>1, <2>1 DEF PlacedInv
      <3> QED BY <2>1, <3>1, ProgressSame
    <2>4. PlacedInv'
      BY <1>1, <1>3, <2>1, <2>2, <2>3 DEF PlacedInv, Housed, Apart, SegmentBlock
    <2> QED BY <1>5, <2>1, <2>4 DEF LoadInv
  <1> QED
    BY <1>7, <1>8, <1>9, <1>10, <1>11, <1>12, <1>13, <1>14, <1>15, <1>16, <1>17 DEF LdrNext
\* What is placed, in any step of EfiMain.
LEMMA LoadStep ==
    ASSUME LoadTypes, LoadInv, [Next]_allVars
    PROVE  LoadInv'
  <1>1. CASE LdrNext BY <1>1, LdrInv
  <1>2. CASE DriverStep
    <2>1. pc' \notin Loading /\ pc' # "failed"
      BY <1>2 DEF DriverStep, BlInitializeBootArgs, OpenFolder, LeaveFolder, LoadBundle,
           BundleFaults, ParsePlist, BundleParsed, LdrpMatchLibraries, LoadModule, AtModule,
           ModuleWithoutRange, LeaveModules, LdrLoadRamDisk, Plugins, Loading
    <2> QED BY <2>1 DEF LoadInv, FallBackLoads
  <1>3. CASE UNCHANGED allVars
    <2>1. /\ UNCHANGED <<pc, boot, displacement, source, image, next, segments, adjusted>>
          /\ UNCHANGED <<entry, faults, blocks>>
      BY <1>3 DEF allVars, vars, memory
    <2>2. (Moved => Moved') /\ (SegmentsFilled => SegmentsFilled') BY <2>1, ProgressSame
    <2>3. PlacedInv => PlacedInv'
      BY <2>1, <2>2 DEF PlacedInv, Housed, Apart, SegmentBlock
    <2> QED BY <2>1, <2>3 DEF LoadInv, FallBackLoads
  <1> QED BY <1>1, <1>2, <1>3, NextCases

\* The types and the progress are invariants.
LEMMA LoadAlways == Spec => [](LoadTypes /\ LoadInv)
  <1>1. Init => LoadTypes /\ LoadInv
    <2> SUFFICES ASSUME Init PROVE LoadInv BY TypesInit
    <2>1. pc = "cache" /\ segments = {} /\ blocks = {} BY DEF Init, LdrInit, KM!Init
    <2> QED BY <2>1 DEF LoadInv, PlacedInv, FallBackLoads
  <1>2. LoadTypes /\ LoadInv /\ [Next]_allVars => (LoadTypes /\ LoadInv)'
    BY TypesStep, LoadStep
  <1> QED BY <1>1, <1>2, PTL DEF Spec

\* A kernel that is loaded has been looked at to its end.
LEMMA LoadedFacts ==
    ASSUME LoadTypes, LoadInv, pc = "loaded"
    PROVE  /\ PlacedInv /\ Moved /\ SegmentsFilled /\ IsKernel(image)
           /\ Past = 1 .. Len(image.commands)
  <1>1. PlacedInv /\ Moved /\ SegmentsFilled /\ next = Len(image.commands) + 1
    BY DEF LoadInv, PlacedInv, Loading
  <1>2. image \in Files BY DEF LoadTypes, Loading, ImageInv
  <1>3. IsKernel(image) BY <1>2, FilesAssumption DEF Files
  <1>4. Len(image.commands) \in Nat BY <1>3, SMTT(20) DEF IsKernel
  <1> QED BY <1>1, <1>3, <1>4, SMTT(20) DEF Past

\* Whatever files, addresses and slides there are, and whichever caches were given
\* up before, each segment of the kernel that is about to run is in memory at its
\* address plus the displacement and shares no page with another. It holds the
\* file's part and zeros after it if the file has a part of it; if not, its first
\* pages may hold what was there before, as many as an earlier read had returned,
\* and the others are zeros (MachLoadMachO, MachO.c:1384).
THEOREM LoaderSegmentsAreExact == Spec => []SegmentsAreExact
  <1>1. ASSUME LoadTypes, LoadInv PROVE SegmentsAreExact
    <2> SUFFICES ASSUME pc = "loaded", NEW c \in Commands("segment"), c.vsize # 0
                 PROVE  \E s \in segments :
                          /\ s.of = source /\ s.command = c /\ s.va = c.va + displacement
                          /\ c.fsize # 0 =>
                               \E r \in 0 .. FileLength(c) :
                                 /\ s.contents =
                                      [p \in 1 .. c.vsize |-> IF p <= r THEN "file" ELSE "zero"]
                                 /\ faults = 0 => r = FileLength(c)
                          /\ c.fsize = 0 =>
                               \E r \in 0 .. c.vsize :
                                 s.contents =
                                   [p \in 1 .. c.vsize |-> IF p <= r THEN "old" ELSE "zero"]
                          /\ \A t \in segments \ {s} :
                               t.va + t.command.vsize <= s.va \/ s.va + c.vsize <= t.va
      BY DEF SegmentsAreExact
    <2>1. PICK j \in Past : c = image.commands[j] /\ TakesPages(image, j)
      BY <1>1, LoadedFacts DEF Commands, TakesPages
    <2>2. PICK s \in segments : Exact(s, c)
      BY <1>1, <2>1, LoadedFacts DEF SegmentsFilled
    <2>3. \A t \in segments \ {s} : Apart(s, t) BY <1>1, LoadedFacts DEF PlacedInv
    <2>4. s.command = c BY <2>2 DEF Exact
    <2>5. \A t \in segments \ {s} : t.va + t.command.vsize <= s.va \/ s.va + c.vsize <= t.va
      BY <2>3, <2>4 DEF Apart
    <2> QED BY <2>2, <2>5 DEF Exact
  <1> QED BY <1>1, LoadAlways, PTL

\* One displacement for everything: segments, header, data, symbols and the entry
\* point of the kernel that is loaded have moved by what the boot arguments pass
\* on, and by 0 unless it is position independent (MachLoadMachO, LdrSetupASLR).
THEOREM LoaderSlideIsUniform == Spec => []SlideIsUniform
  <1>1. ASSUME LoadTypes, LoadInv PROVE SlideIsUniform
    <2> SUFFICES ASSUME pc = "loaded"
                 PROVE  /\ displacement # 0 => image.pie
                        /\ \A s \in segments : s.of = source => s.va = s.command.va + displacement
                        /\ entry = [of |-> source, displacement |-> displacement]
                        /\ adjusted.header = displacement
                        /\ adjusted.symbols = IF Commands("symtab") = {} THEN 0 ELSE displacement
                        /\ adjusted.data =
                             IF \E c \in Commands("dysymtab") : c.relocations # "none"
                             THEN displacement ELSE 0
      BY DEF SlideIsUniform
    <2>1. Moved /\ SegmentsFilled /\ IsKernel(image) /\ Past = 1 .. Len(image.commands)
      BY <1>1, LoadedFacts
    <2>2. HasText /\ HasThread BY <2>1 DEF HasText, HasThread, IsKernel
    <2>3. Commands("symtab") = {} <=> ~HasSymtab BY <2>1 DEF HasSymtab, Commands
    <2>4. (\E c \in Commands("dysymtab") : c.relocations # "none") <=> HasRelocations
      BY <2>1 DEF HasRelocations, Commands
    <2>5. adjusted.symbols = IF Commands("symtab") = {} THEN 0 ELSE displacement
      BY <2>1, <2>3 DEF Moved
    <2>6. adjusted.data = IF \E c \in Commands("dysymtab") : c.relocations # "none"
                          THEN displacement ELSE 0
      BY <2>1, <2>4 DEF Moved
    <2> QED BY <2>1, <2>2, <2>5, <2>6 DEF Moved, SegmentsFilled
  <1> QED BY <1>1, LoadAlways, PTL

\* Without a fault a kernel that was built for this window is refused only when
\* segments of a cache that was given up are in its way, or the user asked for a
\* cache (EfiMain, LdrLoadKernel).
THEOREM LoaderFallBackLoads == Spec => []FallBackLoads
  <1>1. LoadInv => FallBackLoads BY DEF LoadInv
  <1> QED BY <1>1, LoadAlways, PTL

-----------------------------------------------------------------------------
(* The freshness of the cache.                                             *)

\* A net boot with a configured path is one where a cache was asked for, so the
\* files it does not look at do not matter.
FreshInv ==
    /\ CacheIsFresh
    /\ pc = "cache" => (boot.net /\ boot.configured => boot.override)

\* Every step keeps the cache fresh.
LEMMA FreshStep ==
    ASSUME FreshInv, [Next]_allVars
    PROVE  FreshInv'
  <1>1. CASE TryCandidate
    <2>1. CASE UNCHANGED <<pc, boot, accepted, source, local, segments, adjusted, entry>>
      BY <2>1 DEF FreshInv, CacheIsFresh
    <2>2. CASE LoadFails
      <3>1. pc' \notin {"cache", "open"} BY <2>2 DEF LoadFails
      <3> QED BY <3>1 DEF FreshInv, CacheIsFresh
    <2>3. CASE /\ pc' = "open" /\ UNCHANGED boot
               /\ \E cache, kernel, extensions \in FileInfo :
                    /\ LdrpKernelCacheValid(cache, kernel, extensions) = "valid"
                    /\ accepted' = <<cache, kernel, extensions>>
      <3>1. PICK cache, kernel, extensions \in FileInfo :
                    /\ LdrpKernelCacheValid(cache, kernel, extensions) = "valid"
                    /\ accepted' = <<cache, kernel, extensions>>
        BY <2>3
      <3>2. accepted'[1] = cache /\ accepted'[2] = kernel /\ accepted'[3] = extensions BY <3>1
      <3>3. ASSUME ~boot.override, NEW f \in {kernel, extensions}, f.kind # "missing"
            PROVE  /\ Seconds(f.time) < Seconds(cache.time)
                   /\ \E g \in {kernel, extensions} :
                        /\ g.kind # "missing"
                        /\ Seconds(cache.time) = Seconds(g.time) + 1
        BY <3>1, <3>3, ValidIsFresh, SMTT(20)
      <3>4. CacheIsFresh' BY <2>3, <3>2, <3>3 DEF CacheIsFresh
      <3> QED BY <2>3, <3>4 DEF FreshInv
    <2> QED BY <1>1, <2>1, <2>2, <2>3, CandidateCases
  <1>2. CASE NetBoot
    BY <1>2 DEF NetBoot, LoadFails, FreshInv, CacheIsFresh
  <1>3. CASE LdrNext /\ ~TryCandidate /\ ~NetBoot
    <2>1. CASE AltKernel \/ OpenCache \/ CorruptCache \/ OpenCacheFaults \/ LdrLoadKernel
      <3>1. pc' \notin {"cache", "open"}
        BY <2>1 DEF AltKernel, OpenCache, CorruptCache, OpenCacheFaults, LdrLoadKernel, LoadFails
      <3> QED BY <3>1 DEF FreshInv, CacheIsFresh
    <2>2. CASE MachHeader \/ MachHeaderFaults \/ NoRoom \/ SegmentFaults \/ MachLoaded
      <3>1. pc' \notin {"cache", "open"}
        BY <2>2
          DEF MachHeader, MachHeaderFaults, NoRoom, SegmentFaults, MachLoaded, AtCommand,
                    LoadFails
      <3> QED BY <3>1 DEF FreshInv, CacheIsFresh
    <2>3. CASE LoadSegment \/ Relocate \/ AdjustSymbols \/ SetEntry
      <3>1. pc' \notin {"cache", "open"}
        BY <2>3
           DEF LoadSegment, Relocate, AdjustSymbols, SetEntry, AtCommand, Advance, LoadFails
      <3> QED BY <3>1 DEF FreshInv, CacheIsFresh
    <2> QED BY <1>3, <2>1, <2>2, <2>3 DEF LdrNext
  <1>4. CASE DriverStep
    <2>1. pc' \notin {"cache", "open"} BY <1>4, DriverCases DEF Loading
    <2> QED BY <2>1 DEF FreshInv, CacheIsFresh
  <1>5. CASE UNCHANGED allVars
    BY <1>5 DEF allVars, vars, FreshInv, CacheIsFresh
  <1> QED BY <1>1, <1>2, <1>3, <1>4, <1>5, NextCases

\* A cache nobody asked for is used only when its stamp is exactly one second
\* after the later one of the kernel's and the extensions folder's, for all valid
\* times: BlAddOneSecond carries into minutes, hours, days, months of every length
\* and years as the calendar does, and BlCompareTime orders times as the seconds
\* do (LdrpKernelCacheValid).
THEOREM LoaderCacheIsFresh == Spec => []CacheIsFresh
  <1>1. Init => FreshInv BY DEF Init, LdrInit, FreshInv, CacheIsFresh
  <1>2. FreshInv /\ [Next]_allVars => FreshInv' BY FreshStep
  <1>3. FreshInv => CacheIsFresh BY DEF FreshInv
  <1> QED BY <1>1, <1>2, <1>3, PTL DEF Spec
=============================================================================
