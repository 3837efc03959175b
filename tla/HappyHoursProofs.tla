-------------------------- MODULE HappyHoursProofs --------------------------
(***************************************************************************)
(* When there are happy hours, for every day's length, schedule and forced *)
(* period.                                                                 *)
(***************************************************************************)
EXTENDS HappyHours, TLAPS

USE DayAssumption, ScheduleAssumption, BonusAssumption

LEMMA Division ==
  ASSUME NEW n \in Nat \ {0}, NEW a \in Int
  PROVE  /\ a % n \in 0..n - 1 /\ a \div n \in Int
         /\ a = n * (a \div n) + (a % n)
  OBVIOUS

LEMMA RemainderIs ==
  ASSUME NEW n \in Nat \ {0}, NEW k \in Int, NEW r \in 0..n - 1
  PROVE  (n * k + r) % n = r /\ (n * k + r) \div n = k
  <1> DEFINE a == n * k + r
             q == a \div n
             s == a % n
  <1>1. a \in Int
    OBVIOUS
  <1>2. s \in 0..n - 1 /\ q \in Int /\ a = n * q + s
    <2> HIDE DEF a
    <2> QED BY <1>1, Division
  <1> HIDE DEF q, s
  <1>3. n * k + r = n * q + s
    BY <1>2
  <1>4. ASSUME NEW x \in Int, NEW y \in Int, NEW u \in 0..n - 1, NEW v \in 0..n - 1,
               n * x + u = n * y + v, x < y
        PROVE  FALSE
    <2>1. n * (y - x) >= n
      BY <1>4
    <2>2. n * (y - x) = n * y - n * x /\ n * x \in Int /\ n * y \in Int
      OBVIOUS
    <2>3. QED BY <1>4, <2>1, <2>2
  <1>5. k = q
    BY <1>2, <1>3, <1>4
  <1>6. QED BY <1>2, <1>3, <1>5 DEF q, s

-----------------------------------------------------------------------------
ClockInv ==
  /\ schedule \in Schedules /\ forced \in ForcedHours
  /\ surge \in BOOLEAN /\ clock \in 0..Week - 1

LEMMA WeekIs == Week \in Nat \ {0}
  BY DEF Week

LEMMA ClockInit == Init => ClockInv
  BY WeekIs DEF Init, ClockInv

LEMMA ClockNext == ClockInv /\ [Tick]_vars => ClockInv'
  <1> SUFFICES ASSUME ClockInv, [Tick]_vars PROVE ClockInv'
    OBVIOUS
  <1>1. clock + 1 \in Int
    BY DEF ClockInv
  <1>2. (clock + 1) % Week \in 0..Week - 1
    BY <1>1, WeekIs, Division
  <1>3. QED BY <1>2 DEF ClockInv, Tick, vars

(* The clock as a day of the week and an instant of that day.                *)
LEMMA ClockIs ==
  ASSUME ClockInv
  PROVE  /\ Weekday \in 0..6 /\ Now \in 0..DayLength - 1
         /\ clock = DayLength * Weekday + Now
  <1>1. /\ Now \in 0..DayLength - 1 /\ Weekday \in Int
        /\ clock = DayLength * Weekday + Now /\ clock \in 0..(7 * DayLength) - 1
    BY Division DEF Now, Weekday, ClockInv, Week
  <1>2. ASSUME Weekday < 0 PROVE FALSE
    <2>1. \A d, v \in Nat : v >= 1 => d * v \in Nat /\ d * v >= d
      OBVIOUS
    <2>2. -Weekday \in Nat /\ -Weekday >= 1
      BY <1>1, <1>2
    <2>3. DayLength * (-Weekday) \in Nat /\ DayLength * (-Weekday) >= DayLength
      BY <2>1, <2>2
    <2>4. DayLength * Weekday = -(DayLength * (-Weekday))
      BY <1>1
    <2>5. QED BY <1>1, <2>3, <2>4
  <1>3. ASSUME Weekday > 6 PROVE FALSE
    <2>1. \A d, v \in Nat : v >= 7 => d * v \in Nat /\ d * v >= 7 * d
      OBVIOUS
    <2>2. DayLength * Weekday \in Nat /\ DayLength * Weekday >= 7 * DayLength
      BY <1>1, <1>3, <2>1
    <2>3. QED BY <1>1, <2>2
  <1>4. QED BY <1>1, <1>2, <1>3

(* How many days ago, within a week, a window's day was.                     *)
DaysSince(w) == (Weekday - w.weekday) % 7

LEMMA SinceIs ==
  ASSUME ClockInv, NEW w \in Window
  PROVE  /\ DaysSince(w) \in 0..6
         /\ Since(w) = LET ago == DayLength * DaysSince(w) + (Now - w.start)
                       IN  IF ago >= 0 THEN ago ELSE Week + ago
         /\ DaysSince(w) = 0 <=> w.weekday = Weekday
         /\ DaysSince(w) = 1 <=> w.weekday = Yesterday
  <1>1. /\ Weekday \in 0..6 /\ Now \in 0..DayLength - 1
        /\ clock = DayLength * Weekday + Now
    BY ClockIs
  <1>2. w.weekday \in 0..6 /\ w.start \in 0..DayLength - 1
    BY DEF Window, Time
  <1> DEFINE m == DaysSince(w)
             x == Now - w.start
             ago == DayLength * m + x
  <1>3. /\ m \in 0..6
        /\ m = Weekday - w.weekday \/ m = Weekday - w.weekday + 7
        /\ m = 0 <=> w.weekday = Weekday
        /\ m = 1 <=> w.weekday = Yesterday
    <2>1. \A a, b \in 0..6 :
            /\ (a - b) % 7 \in 0..6
            /\ (a - b) % 7 = a - b \/ (a - b) % 7 = a - b + 7
            /\ (a - b) % 7 = 0 <=> b = a
            /\ (a - b) % 7 = 1 <=> b = (a - 1) % 7
      OBVIOUS
    <2>2. QED BY <1>1, <1>2, <2>1 DEF DaysSince, Yesterday
  <1>4. x \in Int /\ x > -DayLength /\ x < DayLength
    BY <1>1, <1>2
  <1> DEFINE week == 7 * DayLength
  <1>5. Since(w) = (DayLength * (Weekday - w.weekday) + x) % week
    <2>1. \A d, a, b, n, u \in Int : (d * a + n) - (b * d + u) = d * (a - b) + (n - u)
      OBVIOUS
    <2>2. DayLength \in Int /\ Weekday \in Int /\ Now \in Int /\ w.weekday \in Int /\ w.start \in Int
      BY <1>1, <1>2
    <2>3. (DayLength * Weekday + Now) - (w.weekday * DayLength + w.start)
            = DayLength * (Weekday - w.weekday) + (Now - w.start)
      BY <2>1, <2>2
    <2>4. Since(w) = ((DayLength * Weekday + Now) - (w.weekday * DayLength + w.start)) % week
      BY <1>1 DEF Since, Week
    <2>5. QED BY <2>3, <2>4
  <1> HIDE DEF m, x
  <1>6. PICK c \in {0, -1} : Weekday - w.weekday = m + 7 * c
    BY <1>1, <1>2, <1>3
  <1>7. DayLength * (Weekday - w.weekday) + x = week * c + ago
    BY <1>1, <1>2, <1>3, <1>4, <1>6
  <1>8. ago \in Int /\ ago > -DayLength /\ ago < week
    <2>1. \A d, n \in Nat : n <= 6 => d * n \in Nat /\ d * n <= 6 * d
      OBVIOUS
    <2>2. DayLength * m \in Nat /\ DayLength * m <= 6 * DayLength
      BY <1>3, <2>1
    <2>3. QED BY <1>4, <2>2
  <1>9. week \in Nat \ {0} /\ week > DayLength /\ Week = week
    BY DEF Week
  <1> HIDE DEF ago, week
  <1>10. CASE ago >= 0
    <2>1. ago \in 0..week - 1
      BY <1>8, <1>9, <1>10
    <2>2. (week * c + ago) % week = ago
      BY <1>9, <2>1, RemainderIs
    <2>3. QED BY <1>3, <1>5, <1>7, <1>10, <2>2 DEF ago, m, x
  <1>11. CASE ago < 0
    <2>1. week + ago \in 0..week - 1
      BY <1>8, <1>9, <1>11
    <2>2. c - 1 \in Int /\ week * (c - 1) + (week + ago) = week * c + ago
      BY <1>8, <1>9
    <2>3. (week * (c - 1) + (week + ago)) % week = week + ago
      BY <1>9, <2>1, <2>2, RemainderIs
    <2>4. Since(w) = week + ago
      BY <1>5, <1>7, <2>2, <2>3
    <2>5. Since(w) = IF ago >= 0 THEN ago ELSE Week + ago
      BY <1>8, <1>9, <1>11, <2>4
    <2>6. QED BY <1>3, <2>5 DEF ago, m, x
  <1>12. QED BY <1>8, <1>10, <1>11

LEMMA LengthIs ==
  ASSUME NEW w \in Window
  PROVE  Length(w) = IF w.start <= w.end THEN w.end - w.start ELSE w.end - w.start + DayLength
  <1>1. w.start \in 0..DayLength - 1 /\ w.end \in 0..DayLength - 1
    BY DEF Window, Time
  <1>2. CASE w.start <= w.end
    <2>1. w.end - w.start \in 0..DayLength - 1 /\ w.end - w.start = DayLength * 0 + (w.end - w.start)
      BY <1>1, <1>2
    <2>2. (DayLength * 0 + (w.end - w.start)) % DayLength = w.end - w.start
      BY <2>1, RemainderIs
    <2>3. QED BY <1>2, <2>1, <2>2 DEF Length
  <1>3. CASE w.start > w.end
    <2> DEFINE r == w.end - w.start + DayLength
               k == -1
    <2>1. r \in 0..DayLength - 1 /\ k \in Int /\ w.end - w.start = DayLength * k + r
      BY <1>1, <1>3
    <2> HIDE DEF r, k
    <2>2. (DayLength * k + r) % DayLength = r
      BY <2>1, RemainderIs
    <2>3. QED BY <1>1, <1>3, <2>1, <2>2 DEF Length, r
  <1>4. QED BY <1>1, <1>2, <1>3

(* Strictly inside a window one of the two lookups finds it, and strictly    *)
(* outside neither does.                                                     *)
LEMMA WindowFound ==
  ASSUME ClockInv, NEW w \in Window
  PROVE  /\ 0 < Since(w) /\ Since(w) < Length(w) => SinceYesterday(w) \/ SinceToday(w)
         /\ Since(w) > Length(w) => ~(SinceYesterday(w) \/ SinceToday(w))
  <1> DEFINE m == DaysSince(w)
             ago == DayLength * m + (Now - w.start)
  <1>1. Now \in 0..DayLength - 1 /\ w.start \in 0..DayLength - 1 /\ w.end \in 0..DayLength - 1
    BY ClockIs DEF Window, Time
  <1>2. /\ m \in 0..6 /\ Since(w) = IF ago >= 0 THEN ago ELSE 7 * DayLength + ago
        /\ m = 0 <=> w.weekday = Weekday
        /\ m = 1 <=> w.weekday = Yesterday
    BY SinceIs DEF Week
  <1>3. Length(w) = IF w.start <= w.end THEN w.end - w.start ELSE w.end - w.start + DayLength
    BY LengthIs
  <1> HIDE DEF m
  <1>4. CASE m = 0
    BY <1>1, <1>2, <1>3, <1>4 DEF SinceToday, SinceYesterday
  <1>5. CASE m = 1
    BY <1>1, <1>2, <1>3, <1>5 DEF SinceToday, SinceYesterday
  <1>6. CASE m >= 2
    <2>1. \A d, n \in Nat : n >= 2 => d * n \in Nat /\ d * n >= 2 * d
      OBVIOUS
    <2>2. DayLength * m \in Nat /\ DayLength * m >= 2 * DayLength
      BY <1>2, <1>6, <2>1
    <2>3. Since(w) > DayLength
      BY <1>1, <1>2, <2>2
    <2>4. QED BY <1>1, <1>2, <1>3, <1>6, <2>3 DEF SinceToday, SinceYesterday
  <1>7. QED BY <1>2, <1>4, <1>5, <1>6

(* The lookups of today's and yesterday's windows and of the forced hours    *)
(* find every happy hour and no other (HappyHoursDAO).                       *)
THEOREM HappyHoursAreExact == Spec => []HappyExactlyInside
  <1>1. ClockInv => HappyExactlyInside
    <2> SUFFICES ASSUME ClockInv PROVE HappyExactlyInside
      OBVIOUS
    <2>1. \A w \in schedule : w \in Window
      BY DEF ClockInv
    <2>2. \A p \in forced : p.start \in Int /\ p.end \in Int
      BY DEF ClockInv, Period
    <2>3. clock \in Int
      BY DEF ClockInv
    <2>4. Inside => Forced \/ Scheduled
      BY <2>1, <2>2, <2>3, WindowFound DEF Inside, Forced, Scheduled
    <2>5. Outside => ~Forced /\ ~Scheduled
      BY <2>1, <2>2, <2>3, WindowFound DEF Outside, Forced, Scheduled
    <2>6. QED BY <2>4, <2>5 DEF HappyExactlyInside, HappyHoursBonus
  <1>2. QED BY <1>1, ClockInit, ClockNext, PTL DEF Spec
=============================================================================
