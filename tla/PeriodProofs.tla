---------------------------- MODULE PeriodProofs ----------------------------
(***************************************************************************)
(* The calendar of Period, for every day from 1970-01-01 on: a period      *)
(* begins where the code says, and no later one has begun.                 *)
(*                                                                         *)
(* For days and weeks this is arithmetic.  For months it rests on three    *)
(* facts about MonthStart: it is increasing (MonthMono), a month has       *)
(* between 28 and 31 days on average (MonthBounds), and so every day lies  *)
(* in a month, which the bounds of MonthOf include (MonthExists).          *)
(***************************************************************************)
EXTENDS Period, WellFoundedInduction, TLAPS

-----------------------------------------------------------------------------
(* The least of a set of numbers                                           *)

\* Every set of natural numbers that is not empty has a least element.
LEMMA LeastNat ==
  ASSUME NEW T, T \subseteq Nat, T # {}
  PROVE  \E m \in T : \A n \in T : m <= n
<1>1. PICK m \in T : \A n \in T : ~(<<n, m>> \in OpToRel(<, Nat))
  BY NatLessThanWellFounded, WFMin
<1>2. \A n \in T : ~(n < m)
  BY <1>1 DEF OpToRel
<1> QED
  BY <1>2

-----------------------------------------------------------------------------
(* Years and months                                                        *)

\* A year is followed by the next after 365 days, or 366 if it is a leap year.
LEMMA YearStep ==
  ASSUME NEW y \in Nat, y > 0
  PROVE  /\ YearStart(y) \in Int
         /\ YearStart(y + 1) = YearStart(y) + 365 + (IF Leap(y) THEN 1 ELSE 0)
BY DEF YearStart, LeapsBefore, Leap

\* A year has 365 or 366 days on average, counted from 1970.
LEMMA YearBounds ==
  ASSUME NEW y \in Nat, y >= 1970
  PROVE  /\ 365 * (y - 1970) <= YearStart(y)
         /\ YearStart(y) <= 366 * (y - 1970)
BY DEF YearStart, LeapsBefore

\* A month begins on a day.
LEMMA MonthInt ==
  ASSUME NEW m \in Nat
  PROVE  MonthStart(m) \in Int
<1> DEFINE y == 1970 + m \div 12
           i == (m % 12) + 1
<1>1. y \in Nat /\ y >= 1970 /\ i \in 1 .. 12
  OBVIOUS
<1>2. YearStart(y) \in Int
  BY <1>1, YearStep
<1>3. DaysBefore[i] \in Int
  BY <1>1 DEF DaysBefore
<1> QED
  BY <1>1, <1>2, <1>3 DEF MonthStart

\* A month has 28 to 31 days on average, counted from January 1970.
LEMMA MonthBounds ==
  ASSUME NEW m \in Nat
  PROVE  28 * m <= MonthStart(m) /\ MonthStart(m) <= 31 * m
<1> DEFINE y == 1970 + m \div 12
           i == (m % 12) + 1
<1>1. /\ y \in Nat /\ y >= 1970 /\ i \in 1 .. 12
      /\ m = 12 * (y - 1970) + i - 1
  OBVIOUS
<1>2. YearStart(y) \in Int
  BY <1>1, YearStep
<1>3. 365 * (y - 1970) <= YearStart(y) /\ YearStart(y) <= 366 * (y - 1970)
  BY <1>1, YearBounds
<1>4. /\ DaysBefore[i] \in Int /\ 28 * (i - 1) <= DaysBefore[i]
      /\ DaysBefore[i] + (IF i > 2 THEN 1 ELSE 0) <= 31 * (i - 1)
  BY <1>1 DEF DaysBefore
<1>5. MonthStart(m) = YearStart(y) + DaysBefore[i] + (IF i > 2 /\ Leap(y) THEN 1 ELSE 0)
  BY DEF MonthStart
<1> HIDE DEF y, i
<1> QED
  BY <1>1, <1>2, <1>3, <1>4, <1>5

\* Later years begin at least 365 days later, each.
LEMMA YearMono ==
  ASSUME NEW a \in Nat, NEW b \in Nat, 0 < a, a <= b
  PROVE  YearStart(a) + 365 * (b - a) <= YearStart(b)
BY DEF YearStart, LeapsBefore

\* Months begin in their order.
LEMMA MonthMono ==
  ASSUME NEW a \in Nat, NEW b \in Nat, a < b
  PROVE  MonthStart(a) < MonthStart(b)
<1> DEFINE y == 1970 + a \div 12
           i == (a % 12) + 1
           z == 1970 + b \div 12
           j == (b % 12) + 1
<1>1. /\ y \in Nat /\ y >= 1970 /\ i \in 1 .. 12
      /\ z \in Nat /\ y <= z /\ j \in 1 .. 12
      /\ y = z => i < j
  OBVIOUS
<1>2. YearStart(y) \in Int /\ YearStart(z) \in Int
  BY <1>1, YearStep
<1>3. /\ DaysBefore[i] \in Int /\ DaysBefore[j] \in Int
      /\ DaysBefore[i] <= 334 /\ 0 <= DaysBefore[j]
      /\ i < j => DaysBefore[i] + 2 <= DaysBefore[j]
  BY <1>1 DEF DaysBefore
<1>4. YearStart(y) + 365 * (z - y) <= YearStart(z)
  BY <1>1, YearMono
<1>5. /\ MonthStart(a) = YearStart(y) + DaysBefore[i] + (IF i > 2 /\ Leap(y) THEN 1 ELSE 0)
      /\ MonthStart(b) = YearStart(z) + DaysBefore[j] + (IF j > 2 /\ Leap(z) THEN 1 ELSE 0)
  BY DEF MonthStart
<1> HIDE DEF y, i, z, j
<1>6. CASE y = z
  BY <1>1, <1>2, <1>3, <1>5, <1>6
<1>7. CASE y < z
  BY <1>1, <1>2, <1>3, <1>4, <1>5, <1>7
<1> QED
  BY <1>1, <1>6, <1>7

\* Every day is in a month, one of those MonthOf looks at.
LEMMA MonthExists ==
  ASSUME NEW d \in Nat
  PROVE  \E m \in (d \div 31) .. (d \div 28) : InMonth(m, d)
<1> DEFINE T == {m \in Nat : d < MonthStart(m + 1)}
<1>1. d \in T
  <2>1. d + 1 \in Nat /\ MonthStart(d + 1) \in Int
    BY MonthInt
  <2>2. 28 * (d + 1) <= MonthStart(d + 1)
    BY <2>1, MonthBounds
  <2> QED
    BY <2>1, <2>2
<1>2. PICK m \in T : \A n \in T : m <= n
  BY <1>1, LeastNat
<1>3. \A n \in T : ~(n < m)
  BY <1>2
<1>4. MonthStart(m) \in Int /\ MonthStart(m + 1) \in Int
  BY MonthInt
<1>5. MonthStart(m) <= d
  <2>1. CASE m = 0
    BY <2>1, MonthBounds, <1>4
  <2>2. CASE m > 0
    <3>1. m - 1 \in Nat /\ m - 1 \notin T /\ (m - 1) + 1 = m
      BY <2>2, <1>3
    <3>2. ~(d < MonthStart(m))
      BY <3>1
    <3> QED
      BY <3>2, <1>4
  <2> QED
    BY <2>1, <2>2
<1>6. 28 * m <= MonthStart(m) /\ MonthStart(m + 1) <= 31 * (m + 1)
  BY MonthBounds
<1>7. d < MonthStart(m + 1)
  OBVIOUS
<1>8. m \in (d \div 31) .. (d \div 28)
  BY <1>4, <1>5, <1>6, <1>7
<1> QED
  BY <1>5, <1>7, <1>8 DEF InMonth

\* What MonthOf chooses is the month of the day.
LEMMA MonthOfDay ==
  ASSUME NEW d \in Nat
  PROVE  MonthOf(d) \in Nat /\ InMonth(MonthOf(d), d)
<1>1. \E m \in (d \div 31) .. (d \div 28) : InMonth(m, d)
  BY MonthExists
<1>2. MonthOf(d) \in (d \div 31) .. (d \div 28) /\ InMonth(MonthOf(d), d)
  BY <1>1 DEF MonthOf
<1>3. d \div 31 \in Nat
  OBVIOUS
<1> QED
  BY <1>2, <1>3

-----------------------------------------------------------------------------
(* periodStart                                                             *)

\* The days from the last Monday to a day: none of those after it is a Monday.
LEMMA WeekStart ==
  ASSUME NEW d \in Nat
  PROVE  /\ DaysSinceMonday(d) \in 0 .. 6
         /\ Weekday(d - DaysSinceMonday(d)) = 1
         /\ \A e \in (d - DaysSinceMonday(d) + 1) .. d : Weekday(e) # 1
BY DEF Weekday, DaysSinceMonday

\* The first day of a month is the last on or before a day of it on which a
\* month begins.
LEMMA MonthBegins ==
  ASSUME NEW d \in Nat
  PROVE  LET s == MonthStart(MonthOf(d))
         IN  /\ s \in Nat /\ s <= d
             /\ Begins("Monthly", s)
             /\ \A e \in (s + 1) .. d : ~Begins("Monthly", e)
<1> DEFINE m == MonthOf(d)
           s == MonthStart(m)
<1>1. m \in Nat /\ m + 1 \in Nat /\ s \in Int /\ MonthStart(m + 1) \in Int
  BY MonthOfDay, MonthInt
<1>2. s <= d /\ d < MonthStart(m + 1)
  BY MonthOfDay DEF InMonth
<1>3. 28 * m <= s /\ s <= 31 * m
  BY <1>1, MonthBounds
<1>4. s \in Nat
  BY <1>1, <1>3
<1>5. Begins("Monthly", s)
  <2>1. m \in (s \div 31) .. (s \div 28)
    BY <1>1, <1>3, <1>4
  <2> QED
    BY <2>1 DEF Begins
<1>6. ASSUME NEW e \in (s + 1) .. d, Begins("Monthly", e)
      PROVE  FALSE
  <2>1. PICK n \in (e \div 31) .. (e \div 28) : MonthStart(n) = e
    BY <1>6 DEF Begins
  <2>2. e \in Nat /\ n \in Nat
    BY <1>4, <2>1
  <2>3. ~(n < m) /\ n # m
    BY <1>1, <2>1, <2>2, MonthMono
  <2>4. ~(m + 1 < n) /\ n # m + 1
    BY <1>1, <1>2, <2>1, <2>2, MonthMono
  <2> QED
    BY <1>1, <2>2, <2>3, <2>4
<1> QED
  BY <1>2, <1>4, <1>5, <1>6

\* A period is the current one: it begins at a midnight, on a day on which a
\* period begins, and none begins after that day up to the one of the check.
LEMMA StartDayIsLatest ==
  ASSUME NEW period \in Periods, NEW d \in Nat
  PROVE  LET s == StartDay(period, d)
         IN  /\ s \in Int /\ s <= d
             /\ Begins(period, s)
             /\ \A e \in (s + 1) .. d : ~Begins(period, e)
<1>1. CASE period = "Daily"
  BY <1>1 DEF StartDay, Begins
<1>2. CASE period = "Weekly"
  <2>1. StartDay(period, d) = d - DaysSinceMonday(d)
    BY <1>2 DEF StartDay
  <2>2. \A e : Begins(period, e) <=> Weekday(e) = 1
    BY <1>2 DEF Begins
  <2> QED
    BY <2>1, <2>2, WeekStart
<1>3. CASE period = "Monthly"
  <2>1. StartDay(period, d) = MonthStart(MonthOf(d))
    BY <1>3 DEF StartDay
  <2> QED
    BY <1>3, <2>1, MonthBegins
<1> QED
  BY <1>1, <1>2, <1>3 DEF Periods

\* periodStart, for every point in time from 1970 on.
THEOREM PeriodStartIsLatest ==
  ASSUME NEW period \in Periods, NEW now \in Nat
  PROVE  LET s == PeriodStart(period, now)
         IN  /\ s \in Int /\ s <= now /\ s % Day = 0
             /\ Begins(period, DayOf(s))
             /\ \A d \in (DayOf(s) + 1) .. DayOf(now) : ~Begins(period, d)
<1> DEFINE n == StartDay(period, DayOf(now))
<1>1. DayOf(now) \in Nat /\ Day * DayOf(now) <= now
  BY DEF DayOf, Day
<1>2. /\ n \in Int /\ n <= DayOf(now)
      /\ Begins(period, n)
      /\ \A d \in (n + 1) .. DayOf(now) : ~Begins(period, d)
  BY <1>1, StartDayIsLatest
<1> HIDE DEF n
<1>3. (Day * n) \in Int /\ DayOf(Day * n) = n /\ (Day * n) % Day = 0
  BY <1>2 DEF DayOf, Day
<1>4. Day * n <= now
  BY <1>1, <1>2 DEF Day
<1> QED
  BY <1>2, <1>3, <1>4 DEF PeriodStart, n

=============================================================================
