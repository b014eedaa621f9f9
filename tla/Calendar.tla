------------------------------- MODULE Calendar -------------------------------
(***************************************************************************)
(* The clock of the beat tasks: minutes, in days of DayMinutes.            *)
(***************************************************************************)
EXTENDS Integers

CONSTANTS
    DayMinutes,
    Offset          \* ui.timezone_offset_hours, in minutes

ASSUME CalendarAssumption == DayMinutes \in Nat \ {0} /\ Offset \in Nat

VARIABLES
    now,        \* the minute, UTC
    beats       \* the entries of beat_schedule a behaviour looks at: "ads", "weather"

calendarVars == <<now, beats>>

Local(t) == t + Offset
DayOf(t) == t \div DayMinutes
MinuteOf(t) == t % DayMinutes
WeekdayOf(t) == 1 + (DayOf(t) % 7)
===============================================================================
