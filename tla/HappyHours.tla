----------------------------- MODULE HappyHours -----------------------------
(***************************************************************************)
(* When a warehouse has happy hours: the lookups in HappyHoursDAO and      *)
(* OrderBonusManager.get_scheduled_happy_hours_bonus, in the warehouse's   *)
(* local time, as the clock goes round the week.                           *)
(***************************************************************************)
EXTENDS Integers

CONSTANTS
  DayLength,    \* instants per day
  Schedules,    \* sets of active rows of warehouse_happy_hours
  ForcedHours,  \* sets of rows of warehouse_forced_happy_hours
  Bonus,        \* warehouse_happy_hours_settings.bonus_amount, of all of them
  Null

ASSUME DayAssumption == DayLength \in Nat \ {0}

Time == 0..DayLength - 1

Week == 7 * DayLength

Window == [weekday : 0..6, start : Time, end : Time]

Period == [start : 0..Week - 1, end : 0..Week - 1]

ASSUME ScheduleAssumption ==
  /\ \A schedule \in Schedules : \A w \in schedule : w \in Window
  /\ \A forced \in ForcedHours : \A p \in forced : p \in Period
ASSUME BonusAssumption == Bonus # Null

VARIABLES
  schedule,   \* the warehouse's rows
  forced,
  surge,      \* is the delivery mode surge?
  clock       \* datetime.now(tz=timezone(warehouse.tz)), within the week

vars == <<schedule, forced, surge, clock>>

Weekday == clock \div DayLength

Now == clock % DayLength

Yesterday == (Weekday - 1) % 7

(* Mutant of SinceYesterday: windows of one day go on after midnight.       *)
SinceYesterdayAll(w) == w.weekday = Yesterday /\ w.end >= Now

SinceYesterday(w) == w.weekday = Yesterday /\ w.start > w.end /\ w.end >= Now

(* Both ends of a window of one day belong to it, the start of a window     *)
(* over midnight does not.                                                  *)
SinceToday(w) ==
  /\ w.weekday = Weekday
  /\ \/ w.start < w.end /\ w.start <= Now /\ Now <= w.end
     \/ w.start > w.end /\ w.start < Now

(* get_scheduled_happy_hours_bonus                                          *)
Scheduled == \E w \in schedule : SinceYesterday(w) \/ SinceToday(w)

(* get_forced_happy_hours_bonus                                             *)
Forced == \E p \in forced : p.start <= clock /\ clock < p.end

(* What calculate_order_bonus takes for the happy hours' bonus.             *)
HappyHoursBonus == IF surge \/ (~Forced /\ ~Scheduled) THEN Null ELSE Bonus

Init ==
  /\ schedule \in Schedules /\ forced \in ForcedHours
  /\ surge \in BOOLEAN
  /\ clock = 0

Tick ==
  /\ clock' = (clock + 1) % Week
  /\ surge' \in BOOLEAN
  /\ UNCHANGED <<schedule, forced>>

Spec == Init /\ [][Tick]_vars

-----------------------------------------------------------------------------
(* Properties *)

(* How long ago, within a week, a window last began, and how long it is: a  *)
(* window whose end is not after its start ends on the next day.            *)
Since(w) == (clock - (w.weekday * DayLength + w.start)) % Week

Length(w) == (w.end - w.start) % DayLength

(* Strictly inside a window or a forced period, and strictly outside all.  *)
Inside ==
  \/ \E w \in schedule : 0 < Since(w) /\ Since(w) < Length(w)
  \/ \E p \in forced : p.start < clock /\ clock < p.end

Outside ==
  /\ \A w \in schedule : Since(w) > Length(w)
  /\ \A p \in forced : clock < p.start \/ clock > p.end

(* There are happy hours inside the windows and the forced periods, also    *)
(* after midnight and from Sunday to Monday, and outside there are none: no *)
(* window is taken for one of another day, and none hides forced hours.     *)
(* (The borders themselves are not the same on either side of midnight.)    *)
HappyExactlyInside ==
  /\ Inside /\ ~surge => HappyHoursBonus # Null
  /\ Outside => HappyHoursBonus = Null
=============================================================================
