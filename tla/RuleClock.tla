----------------------------- MODULE RuleClock -----------------------------
(***************************************************************************)
(* The calendar of a rule (packages/db: ruleSchedule.ts; apps/worker:       *)
(* scheduler/weekKey.ts, scheduler/cronJitter.ts): the day of the week and   *)
(* the minute of its crons, derived from the day that is played, and the     *)
(* date a trigger works for.  Times are minutes, wall clock of Paris, since  *)
(* a Sunday at midnight; a date is its number of days.                       *)
(***************************************************************************)
EXTENDS Integers

DayLength == 24 * 60
HalfWindow == 10   \* CONFIRMATION_JITTER_HALF_MINUTES

DayOf(t) == t \div DayLength
MinuteOf(t) == t % DayLength

TriggerWeekday(targetWeekday, daysBefore) == (targetWeekday - daysBefore) % 7

Cron(time, weekday) == [minute |-> time, weekday |-> weekday]
Rings(cron, t) == DayOf(t) % 7 = cron.weekday /\ MinuteOf(t) = cron.minute

\* cronExpressionMinutesEarlier: the day moves back when midnight is crossed.
Earlier(cron, minutes) ==
  [minute |-> (cron.minute - minutes) % DayLength,
   weekday |-> (cron.weekday + (cron.minute - minutes) \div DayLength) % 7]

CronOf(s, kind) ==
  CASE kind = "poll" -> Cron(s.pollTime, TriggerWeekday(s.targetWeekday, s.pollDaysBefore))
    [] kind = "decision" -> Cron(s.decisionTime, TriggerWeekday(s.targetWeekday, s.decisionDaysBefore))
    [] kind = "confirmation" ->
         Earlier(Cron(s.confirmationTime, TriggerWeekday(s.targetWeekday, s.decisionDaysBefore)),
                 HalfWindow)

\* A delay is drawn in [0, window); its bounds are enough.
Delays(window) == IF window <= 0 THEN {0} ELSE {0, window - 1}
WindowOf(s, kind) ==
  CASE kind = "poll" -> s.jitter [] kind = "confirmation" -> 2 * HalfWindow [] OTHER -> 0

DaysBefore(s, kind) == IF kind = "poll" THEN s.pollDaysBefore ELSE s.decisionDaysBefore

\* Mutant: every trigger works for the date of the poll.
TargetOfPoll(s, kind, t) == DayOf(t) + s.pollDaysBefore

\* The date is counted when the trigger runs, after its delay.
TargetDate(s, kind, t) == DayOf(t) + DaysBefore(s, kind)

\* validateRuleSchedule, its conditions on times and days.
Valid(s) ==
  /\ s.targetWeekday \in 0 .. 6
  /\ {s.pollTime, s.decisionTime, s.confirmationTime} \subseteq 0 .. DayLength - 1
  /\ s.pollDaysBefore \in Nat \ {0}
  /\ s.decisionDaysBefore \in 0 .. s.pollDaysBefore
  /\ s.decisionDaysBefore = s.pollDaysBefore => s.decisionTime > s.pollTime
  /\ s.confirmationTime > s.decisionTime
=============================================================================
