--------------------------- MODULE MCCronRegistry ---------------------------
EXTENDS CronRegistry

OneSchedule(day, n, poll, m, decision, confirmation, jitter) ==
  [targetWeekday |-> day, pollDaysBefore |-> n, pollTime |-> 60 * poll,
   decisionDaysBefore |-> m, decisionTime |-> 60 * decision,
   confirmationTime |-> confirmation, jitter |-> jitter]

\* Long and short delays, more than a week and the same day, close to midnight or not.
Schedules ==
  {OneSchedule(2, 7, 10, 4, 12, 18 * 60, 60),
   OneSchedule(3, 8, 9, 3, 12, 12 * 60 + 15, 0),
   OneSchedule(6, 1, 9, 1, 10, 10 * 60 + 5, 120),
   OneSchedule(3, 3, 23, 0, 1, 24 * 60 - 5, 120),
   OneSchedule(5, 5, 0, 1, 0, 5, 30)}

MCEdited ==
  {[schedule |-> OneSchedule(2, 7, 11, 4, 12, 18 * 60, 60), enabled |-> TRUE, reminder |-> FALSE],
   [schedule |-> OneSchedule(2, 7, 10, 4, 12, 18 * 60, 60), enabled |-> FALSE, reminder |-> TRUE]}
MCRows == {[schedule |-> s, enabled |-> TRUE, reminder |-> TRUE] : s \in Schedules} \cup MCEdited

CONSTANTS r1, r2
MCHorizon == 12 * DayLength
=============================================================================
