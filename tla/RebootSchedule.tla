---------------------------- MODULE RebootSchedule ----------------------------
(* The automatic reboot of the HostMonitor: the next time that the configured schedule
   allows, found by moving a date forward field by field until it stands still, and the
   reboot at that time. Times are whole minutes: seconds are cut off as the code does,
   and time zones are left out. *)
EXTENDS Integers, FiniteSets, Sequences

CONSTANTS None,           \* a field that is not configured, a reboot that has not been
          MinutesPerHour, HoursPerDay, DaysPerWeek,
          Days,           \* days of each month; in every other year LeapMonth has one more
          LeapMonth,
          Configured,     \* configurations that are tried
          Starts,         \* minutes at which the AppManager may start
          Delays,         \* how long it may take until a reboot is needed
          MaxYear,        \* bound: no search comes this far
          MaxReboots,     \* bound: reboots that are looked at
          MaxFaults       \* bound: restarts, failed saves and prevented reboots

VARIABLES schedule,   \* RebootSchedule of the functor
          now,        \* the clock
          phase,      \* where the functor is
          date,       \* RebootTime, while it is searched and after
          moved,      \* bDidSomething
          earliest,   \* EarliestRebootTime
          scheduled,  \* mp_bRebootScheduled
          last,       \* LastHostMonitorReboot in memory
          stored,     \* the same in the state database
          previous,   \* when the last automatic reboot was asked for
          reboots, faults

vars == <<schedule, now, phase, date, moved, earliest, scheduled, last, stored, previous,
          reboots, faults>>

-----------------------------------------------------------------------------
(* The calendar. *)
Months == 1..Len(Days)
DaysInMonth(y, m) == Days[m] + IF m = LeapMonth THEN y % 2 ELSE 0
FirstDay(y, m) ==
  LET before[i \in 0..Len(Days)] == IF i = 0 THEN 0 ELSE before[i - 1] + Days[i]
  IN y * before[Len(Days)] + (y \div 2) + before[m - 1] + IF m > LeapMonth THEN y % 2 ELSE 0
DayNumber(d) == FirstDay(d.year, d.month) + d.day - 1
MinutesPerDay == HoursPerDay * MinutesPerHour

Time(d) == DayNumber(d) * MinutesPerDay + d.hour * MinutesPerHour + d.minute
Date(t) ==
  LET n == t \div MinutesPerDay
      at == CHOOSE a \in (0..MaxYear) \X Months :
              n - FirstDay(a[1], a[2]) \in 0..(DaysInMonth(a[1], a[2]) - 1)
  IN [year |-> at[1], month |-> at[2], day |-> n - FirstDay(at[1], at[2]) + 1,
      hour |-> (t % MinutesPerDay) \div MinutesPerHour, minute |-> t % MinutesPerHour]
DayOfWeek(d) == DayNumber(d) % DaysPerWeek

(* What a date is when fields of it were changed to another valid date's. *)
Later(d, t) == Date(Time(d) + t)

-----------------------------------------------------------------------------
(* fg_ParseRebootSchedule *)
Clamp(x, low, high) == IF x < low THEN low ELSE IF x > high THEN high ELSE x

MistakeLongestMonth(m) == Days[1] + 1

LongestMonth(m) == IF m = LeapMonth THEN Days[m] + 1 ELSE Days[m]

Parsed(c) ==
  LET month == IF c.month = None THEN None ELSE Clamp(c.month, 1, Len(Days))
      longest == IF month = None THEN Days[1] ELSE LongestMonth(month)
  IN [month   |-> month,
      day     |-> IF c.day = None THEN None ELSE Clamp(c.day, 1, longest),
      weekday |-> IF c.day # None \/ c.weekday = None THEN None
                  ELSE Clamp(c.weekday, 0, DaysPerWeek - 1),
      hour    |-> IF c.hour = None THEN None ELSE Clamp(c.hour, 0, HoursPerDay - 1),
      minute  |-> IF c.minute = None THEN None ELSE Clamp(c.minute, 0, MinutesPerHour - 1)]

Searching == phase \in {"day", "months", "month"}
Field(s) == s \union {None}

TypeOK ==
  /\ schedule.month \in Field(Months) /\ schedule.day \in Field(1..9)
  /\ schedule.weekday \in Field(0..(DaysPerWeek - 1))
  /\ schedule.hour \in Field(0..(HoursPerDay - 1))
  /\ schedule.minute \in Field(0..(MinutesPerHour - 1))
  /\ now \in Nat /\ earliest \in Nat
  /\ phase \in {"idle", "day", "months", "month", "waiting", "saving", "rebooting", "failed"}
  /\ date \in [year : 0..MaxYear, month : Months, day : 1..9, hour : 0..(HoursPerDay - 1),
               minute : 0..(MinutesPerHour - 1)]
  /\ moved \in BOOLEAN /\ scheduled \in BOOLEAN
  /\ last \in Field(Nat) /\ stored \in Field(Nat) /\ previous \in Field(Nat)
  /\ reboots \in 0..MaxReboots /\ faults \in 0..MaxFaults

Init ==
  /\ schedule \in {Parsed(c) : c \in Configured}
  /\ now \in Starts
  /\ phase = "idle" /\ date = Date(0) /\ earliest = 0
  /\ moved = FALSE /\ scheduled = FALSE
  /\ last = None /\ stored = None /\ previous = None
  /\ reboots = 0 /\ faults = 0

-----------------------------------------------------------------------------
(* CHostMonitorRebootSchedule::f_GetNextRebootTime *)

(* The hour and the minute of the schedule, on the day or in the hour of d, or the next. *)
AtClock(d) ==
  IF schedule.hour # None
  THEN LET minute == IF schedule.minute # None THEN schedule.minute
                     ELSE IF d.hour # schedule.hour THEN 0 ELSE d.minute
           at == [d EXCEPT !.minute = minute, !.hour = schedule.hour]
       IN IF Time(at) < Time(d) THEN Later(at, MinutesPerDay) ELSE at
  ELSE IF schedule.minute # None
       THEN LET at == [d EXCEPT !.minute = schedule.minute]
            IN IF Time(at) < Time(d) THEN Later(at, MinutesPerHour) ELSE at
       ELSE d

(* fResetHourMinute: fields that the schedule does not fix start again from zero. *)
MistakeResetHourMinute(d) == [d EXCEPT !.hour = IF schedule.hour = None THEN 0 ELSE @]

ResetHourMinute(d) ==
  [d EXCEPT !.hour = IF schedule.hour = None THEN 0 ELSE @,
            !.minute = IF schedule.minute = None THEN 0 ELSE @]

NextMonth(d) == IF d.month = Len(Days) THEN [d EXCEPT !.month = 1, !.year = @ + 1]
                ELSE [d EXCEPT !.month = @ + 1]

(* The month of the schedule, in the next year when it is over; `again` when it is the
   same month that is looked for. *)
ToMonth(d, again) ==
  [d EXCEPT !.year = IF d.month > schedule.month \/ (again /\ d.month = schedule.month)
                     THEN @ + 1 ELSE @,
            !.month = schedule.month]

Keep == UNCHANGED <<schedule, now, earliest, scheduled, last, stored, previous, reboots, faults>>

MatchDayOfMonth ==
  /\ phase = "day" /\ schedule.day # None /\ date.day # schedule.day
  /\ date' = IF date.day > schedule.day THEN NextMonth(date) ELSE date
  /\ phase' = "months" /\ moved' = TRUE
  /\ Keep

(* No month is long enough for the day: the next one, or the next year's. *)
SkipMonth ==
  /\ phase = "months" /\ schedule.day > DaysInMonth(date.year, date.month)
  /\ date.year < MaxYear
  /\ date' = IF schedule.month # None THEN ToMonth(date, TRUE) ELSE NextMonth(date)
  /\ UNCHANGED <<phase, moved>> /\ Keep

SetDay ==
  /\ phase = "months" /\ schedule.day <= DaysInMonth(date.year, date.month)
  /\ date' = ResetHourMinute([date EXCEPT !.day = schedule.day])
  /\ phase' = "month" /\ UNCHANGED moved /\ Keep

MatchDayOfWeek ==
  /\ phase = "day" /\ schedule.weekday # None /\ DayOfWeek(date) # schedule.weekday
  /\ LET ahead == (schedule.weekday - DayOfWeek(date)) % DaysPerWeek
     IN date' = ResetHourMinute(Later(date, ahead * MinutesPerDay))
  /\ phase' = "month" /\ moved' = TRUE /\ Keep

DayMatches ==
  /\ phase = "day"
  /\ schedule.day \in {None, date.day}
  /\ schedule.weekday \in {None, DayOfWeek(date)}
  /\ phase' = "month" /\ UNCHANGED <<date, moved>> /\ Keep

MatchMonth ==
  /\ phase = "month" /\ schedule.month \notin {None, date.month}
  /\ date.year < MaxYear
  /\ date' = ToMonth(ResetHourMinute([date EXCEPT !.day = 1]), FALSE)
  /\ phase' = "day" /\ moved' = FALSE /\ Keep

MonthMatches ==
  /\ phase = "month" /\ schedule.month \in {None, date.month}
  /\ phase' = (IF moved THEN "day" ELSE "waiting")
  /\ moved' = FALSE
  /\ UNCHANGED date /\ Keep

-----------------------------------------------------------------------------
(* The functor of fp_HostMonitorRebootNeededFunctor *)

(* Not within 24 hours of the last automatic reboot. *)
MistakeEarliest(t) == t

Earliest(t) == IF last # None /\ t - last < MinutesPerDay THEN t + MinutesPerDay ELSE t

RebootNeeded ==
  /\ phase = "idle" /\ ~scheduled /\ reboots < MaxReboots
  /\ \E d \in Delays :
       /\ now' = now + d
       /\ earliest' = Earliest(now')
       /\ date' = AtClock(Date(earliest'))
  /\ scheduled' = TRUE /\ phase' = "day" /\ moved' = FALSE
  /\ UNCHANGED <<schedule, last, stored, previous, reboots, faults>>

(* The timer, or at once; the time of the reboot goes into the state database. *)
TimeToReboot ==
  /\ phase = "waiting"
  /\ now' = IF Time(date) > now THEN Time(date) ELSE now
  /\ last' = now' /\ phase' = "saving"
  /\ UNCHANGED <<schedule, date, moved, earliest, scheduled, stored, previous, reboots, faults>>

Saved ==
  /\ phase = "saving"
  /\ stored' = last /\ phase' = "rebooting"
  /\ UNCHANGED <<schedule, now, date, moved, earliest, scheduled, last, previous, reboots, faults>>

Fault == faults < MaxFaults /\ faults' = faults + 1

(* The save fails or the reboot is prevented: it stays scheduled, and nothing asks again. *)
Fails ==
  /\ phase \in {"saving", "rebooting"} /\ phase' = "failed" /\ Fault
  /\ UNCHANGED <<schedule, now, date, moved, earliest, scheduled, last, stored, previous, reboots>>

Start == /\ phase' = "idle" /\ scheduled' = FALSE /\ last' = stored
         /\ UNCHANGED <<schedule, now, date, moved, earliest, stored>>

Rebooted ==
  /\ phase = "rebooting" /\ Start
  /\ previous' = now /\ reboots' = reboots + 1
  /\ UNCHANGED faults

Restart ==
  /\ phase \in {"waiting", "saving", "failed"} /\ Start /\ Fault
  /\ UNCHANGED <<previous, reboots>>

SearchStep ==
  \/ MatchDayOfMonth \/ SkipMonth \/ SetDay \/ MatchDayOfWeek \/ DayMatches
  \/ MatchMonth \/ MonthMatches

Next ==
  \/ SearchStep
  \/ RebootNeeded \/ TimeToReboot \/ Saved \/ Fails \/ Rebooted \/ Restart

(* The search is one call, which runs. *)
Progress == SearchStep

Spec == Init /\ [][Next]_vars /\ WF_vars(Progress)

-----------------------------------------------------------------------------
(* The reference: a minute at which the schedule lets the host reboot. *)
Matches(d) ==
  /\ schedule.month \in {None, d.month}
  /\ schedule.day \in {None, d.day}
  /\ schedule.weekday \in {None, DayOfWeek(d)}
  /\ schedule.hour \in {None, d.hour}
  /\ schedule.minute \in {None, d.minute}

(* The reboot waits for the first minute from the earliest time on that the schedule
   allows, neither a later one nor one outside the schedule. *)
RebootIsNext ==
  phase = "waiting" =>
    /\ Matches(date) /\ Time(date) >= earliest
    /\ \A t \in earliest..(Time(date) - 1) : ~Matches(Date(t))

(* Automatic reboots are a day apart, whatever restarted the AppManager in between. *)
RebootsApart ==
  phase = "rebooting" /\ previous # None => now - previous >= MinutesPerDay

(* Every search for the next time comes to an end. *)
NotSearching == ~Searching
SearchEnds == []<>NotSearching
=============================================================================
