---------------------------- MODULE CronRegistry ----------------------------
(***************************************************************************)
(* The schedules of a rule in the worker (apps/worker:                      *)
(* scheduler/cronRegistry.ts) and what its three crons do                   *)
(* (scheduler/scheduler.ts: triggerCronSendPoll, triggerCronDecision,        *)
(* triggerBookingConfirmation).                                             *)
(*                                                                          *)
(* The registry holds the tasks of the rule and, for the poll and the        *)
(* confirmation, timers drawn at random: a callback reads the rule in the    *)
(* database, then sets its timer.  Saving the rule reloads the registry:     *)
(* tasks stopped, timers cleared, rules read again, tasks created again.     *)
(* All of it is in memory: a restart of the pod forgets the timers.          *)
(***************************************************************************)
EXTENDS RuleClock, FiniteSetsExt

CONSTANTS
  Rows,        \* what the row of the rule may be: a schedule, enabled, reminder
  Edited,      \* what an edit may make of it
  Reloads,     \* reloads of the registry that can be under way together
  Horizon,     \* minutes considered
  MaxEdits, MaxRestarts, MaxFailures

\* A rule is saved once its times and days are valid; the window of its delay is a column of
\* integers that the form keeps between zero and two hours.
ASSUME RowsAreValid ==
  Edited \subseteq Rows /\ \A r \in Rows : Valid(r.schedule) /\ r.schedule.jitter \in Nat
ASSUME HorizonIsATime == Horizon \in Nat

VARIABLES
  row,        \* the rule in the database
  now,
  up,         \* the pod runs
  handles,    \* the tasks alive: the schedule and the generation of each
  gen,        \* generations of tasks so far
  rung,       \* tasks that have rung in this minute
  reading,    \* callbacks that read the rule
  timers,     \* delays under way
  reload,     \* where each reload is, with the row it has read
  creating,   \* polls that have found no job for their date
  jobs,       \* jobs created: date, and how many
  decided,    \* dates whose decision has run on a job
  log,        \* triggers that have run; history
  unheard,    \* the rule has been saved without a reload that read it
  late, stale, overlap, edits, restarts, failures   \* history

vars == <<row, now, up, handles, gen, rung, reading, timers, reload, creating, jobs,
          decided, log, late, overlap, edits, restarts, stale, unheard, failures>>

Kinds == {"poll", "decision", "confirmation"}
Idle == [at |-> "idle"]
Quiet == reading = {} /\ creating = {} /\ \A r \in Reloads : reload[r] = Idle

\* scheduleOne: the former tasks of the rule are stopped, a disabled rule has none.
TasksFor(r) == IF r.enabled THEN {[schedule |-> r.schedule, gen |-> gen + 1]} ELSE {}

\* clearRuleHandles: the timers of the tasks that are stopped.
TimersOf(hs) == {t \in timers : t.gen \in {h.gen : h \in hs}}

Init ==
  /\ row \in Rows
  /\ now = 0 /\ up = TRUE
  /\ gen = 1 /\ handles = IF row.enabled THEN {[schedule |-> row.schedule, gen |-> 1]} ELSE {}
  /\ rung = {} /\ reading = {} /\ timers = {}
  /\ reload = [r \in Reloads |-> Idle]
  /\ creating = {} /\ jobs = {} /\ decided = {} /\ log = {}
  /\ late = FALSE /\ overlap = FALSE /\ edits = 0 /\ restarts = 0
  /\ stale = FALSE /\ unheard = FALSE /\ failures = 0

-----------------------------------------------------------------------------
(* Time.                                                                    *)

Due(h, kind) == Rings(CronOf(h.schedule, kind), now) /\ <<h.gen, kind>> \notin rung

\* The minutes at which something may happen.
NextRing(h, kind) ==
  LET c == CronOf(h.schedule, kind)
      today == DayOf(now)
      days == today + ((c.weekday - today) % 7)
      t == days * DayLength + c.minute
  IN IF t > now THEN t ELSE t + 7 * DayLength
Instants ==
  {t.at : t \in timers} \cup {NextRing(h, k) : h \in handles, k \in Kinds}
    \cup {t \in {DayOf(now + DayLength) * DayLength} : ~up}

\* A read of the database is shorter than a minute; nothing due is left behind.
Advance ==
  /\ Quiet /\ ~\E h \in handles, k \in Kinds : Due(h, k)
  /\ \A t \in timers : t.at > now
  /\ Instants # {} /\ Min(Instants) <= Horizon
  /\ now' = Min(Instants) /\ rung' = {}
  /\ UNCHANGED <<row, up, handles, gen, reading, timers, reload, creating, jobs, decided, log,
                 late, overlap, edits, restarts, stale, unheard, failures>>

-----------------------------------------------------------------------------
(* The crons.                                                               *)

Logged(kind, s, found) ==
  log' = log \cup {[kind |-> kind, schedule |-> s, on |-> now,
                    target |-> TargetDate(s, kind, now), found |-> found]}

HasJob(date) == \E j \in jobs : j.date = date

Ring(h, kind) ==
  /\ up /\ Due(h, kind)
  /\ rung' = rung \cup {<<h.gen, kind>>}
  /\ reading' = reading \cup {[kind |-> kind, gen |-> h.gen]}
  /\ UNCHANGED <<row, now, up, handles, gen, timers, reload, creating, jobs, decided, log,
                 late, overlap, edits, restarts, stale, unheard, failures>>

Wanted(kind) == row.enabled /\ (kind = "confirmation" => row.reminder)

ReadAndDrop(c) ==
  /\ c \in reading /\ ~Wanted(c.kind)
  /\ reading' = reading \ {c}
  /\ UNCHANGED <<row, now, up, handles, gen, rung, timers, reload, creating, jobs, decided, log,
                 late, overlap, edits, restarts, stale, unheard, failures>>

\* The tasks of the callback are being replaced, or have been; or they are not those of
\* the row it reads, which no reload has read.
ReadsLate(c) ==
  /\ late' = (late \/ c.gen \notin {h.gen : h \in handles} \/ \E r \in Reloads : reload[r] # Idle)
  /\ stale' = (stale \/ unheard)

\* The database answers no read, or creates no job: the failure is logged, and nothing
\* more happens before the next ring of the cron.
Failure == failures < MaxFailures /\ failures' = failures + 1

ReadFails(c) ==
  /\ c \in reading /\ Failure
  /\ reading' = reading \ {c}
  /\ UNCHANGED <<row, now, up, handles, gen, rung, timers, reload, creating, jobs, decided, log,
                 late, overlap, edits, restarts, stale, unheard>>

\* The timer goes to the tasks the callback belongs to, stopped meanwhile or not.
ReadAndDelay(c) ==
  /\ c \in reading /\ c.kind # "decision" /\ Wanted(c.kind)
  /\ \E d \in Delays(WindowOf(row.schedule, c.kind)) :
       timers' = timers \cup {[kind |-> c.kind, gen |-> c.gen, schedule |-> row.schedule, at |-> now + d]}
  /\ reading' = reading \ {c}
  /\ ReadsLate(c)
  /\ UNCHANGED <<row, now, up, handles, gen, rung, reload, creating, jobs, decided, log, overlap,
                 edits, restarts, unheard, failures>>

\* triggerCronDecision: nothing without a job for its date.
ReadAndDecide(c) ==
  LET date == TargetDate(row.schedule, "decision", now)
  IN /\ c \in reading /\ c.kind = "decision" /\ Wanted(c.kind)
     /\ reading' = reading \ {c}
     /\ Logged("decision", row.schedule, HasJob(date))
     /\ decided' = IF HasJob(date) THEN decided \cup {date} ELSE decided
     /\ ReadsLate(c)
     /\ UNCHANGED <<row, now, up, handles, gen, rung, timers, reload, creating, jobs, overlap,
                    edits, restarts, unheard, failures>>

\* Mutant: the poll goes out whatever jobs there are.
CreateAnyway(date, g) == {[date |-> date, by |-> g]}

ToCreate(date, g) == IF HasJob(date) THEN {} ELSE {[date |-> date, by |-> g]}

\* triggerCronSendPoll looks for a job, then creates it.
Poll(t) ==
  LET date == TargetDate(t.schedule, "poll", now)
  IN /\ up /\ t \in timers /\ t.kind = "poll" /\ t.at = now
     /\ timers' = timers \ {t}
     /\ Logged("poll", t.schedule, HasJob(date))
     /\ creating' = creating \cup ToCreate(date, t.gen)
     /\ UNCHANGED <<row, now, up, handles, gen, rung, reading, reload, jobs, decided, late, overlap,
                    edits, restarts, stale, unheard, failures>>

CreateJob(p) ==
  /\ p \in creating
  /\ creating' = creating \ {p}
  /\ jobs' = jobs \cup {[date |-> p.date, number |-> Cardinality({j \in jobs : j.date = p.date}) + 1]}
  /\ UNCHANGED <<row, now, up, handles, gen, rung, reading, timers, reload, decided, log, late,
                 overlap, edits, restarts, stale, unheard, failures>>

CreateFails(p) ==
  /\ p \in creating /\ Failure
  /\ creating' = creating \ {p}
  /\ UNCHANGED <<row, now, up, handles, gen, rung, reading, timers, reload, jobs, decided, log,
                 late, overlap, edits, restarts, stale, unheard>>

\* Only whether the decision has run before matters here (DayOfMatch has the rest).
Confirm(t) ==
  LET date == TargetDate(t.schedule, "confirmation", now)
  IN /\ up /\ t \in timers /\ t.kind = "confirmation" /\ t.at = now
     /\ timers' = timers \ {t}
     /\ Logged("confirmation", t.schedule, date \in decided)
     /\ UNCHANGED <<row, now, up, handles, gen, rung, reading, reload, creating, jobs, decided, late,
                    overlap, edits, restarts, stale, unheard, failures>>

-----------------------------------------------------------------------------
(* Saving the rule, and reloadScheduler.                                     *)

Save ==
  /\ edits < MaxEdits /\ edits' = edits + 1
  /\ \E new \in Edited \ {row} : row' = new

\* The rule is saved and the worker told to reload.
Edit(r) ==
  /\ up /\ reload[r] = Idle /\ Save
  /\ reload' = [reload EXCEPT ![r] = [at |-> "clear"]]
  /\ overlap' = (overlap \/ \E o \in Reloads : reload[o] # Idle)
  /\ UNCHANGED <<now, up, handles, gen, rung, reading, timers, creating, jobs, decided, log, late,
                 restarts, stale, unheard, failures>>

\* notifySchedulerReload fails, "règle sauvée quand même".  It is also an edit made while the
\* pod starts, after it has read the rules and before it answers.
EditUnheard ==
  /\ Save /\ Failure
  /\ unheard' = TRUE
  /\ UNCHANGED <<now, up, handles, gen, rung, reading, timers, reload, creating, jobs, decided, log,
                 late, overlap, restarts, stale>>

\* Mutant: the timers are cleared, the tasks go on.
ClearTimersOnly(r) ==
  /\ reload[r].at = "clear"
  /\ timers' = timers \ TimersOf(handles)
  /\ reload' = [reload EXCEPT ![r] = [at |-> "load"]]
  /\ UNCHANGED <<row, now, up, handles, gen, rung, reading, creating, jobs, decided, log, late,
                 overlap, edits, restarts, stale, unheard, failures>>

Clear(r) ==
  /\ reload[r].at = "clear"
  /\ handles' = {} /\ timers' = timers \ TimersOf(handles)
  /\ reload' = [reload EXCEPT ![r] = [at |-> "load"]]
  /\ UNCHANGED <<row, now, up, gen, rung, reading, creating, jobs, decided, log, late, overlap,
                 edits, restarts, stale, unheard, failures>>

Load(r) ==
  /\ reload[r].at = "load"
  /\ reload' = [reload EXCEPT ![r] = [at |-> "schedule", row |-> row]]
  /\ unheard' = FALSE
  /\ UNCHANGED <<row, now, up, handles, gen, rung, reading, timers, creating, jobs, decided, log,
                 late, overlap, edits, restarts, stale, failures>>

\* loadBookingRules throws: the registry, cleared, stays empty.
LoadFails(r) ==
  /\ reload[r].at = "load" /\ Failure
  /\ reload' = [reload EXCEPT ![r] = Idle]
  /\ unheard' = TRUE
  /\ UNCHANGED <<row, now, up, handles, gen, rung, reading, timers, creating, jobs, decided, log,
                 late, overlap, edits, restarts, stale>>

\* Tasks created in a minute ring from the next one on.
NotThisMinute == rung' = rung \cup {<<gen + 1, k>> : k \in Kinds}

\* A rule that is disabled is not passed to scheduleOne: its tasks stay as they are.
Schedule(r) ==
  /\ reload[r].at = "schedule"
  /\ IF reload[r].row.enabled
     THEN /\ handles' = TasksFor(reload[r].row) /\ gen' = gen + 1
          /\ timers' = timers \ TimersOf(handles) /\ NotThisMinute
     ELSE UNCHANGED <<handles, gen, timers, rung>>
  /\ reload' = [reload EXCEPT ![r] = Idle]
  /\ UNCHANGED <<row, now, up, reading, creating, jobs, decided, log, late, overlap, edits,
                 restarts, stale, unheard, failures>>

Stop ==
  /\ up /\ restarts < MaxRestarts
  /\ up' = FALSE /\ restarts' = restarts + 1
  /\ handles' = {} /\ timers' = {} /\ reading' = {} /\ creating' = {}
  /\ reload' = [r \in Reloads |-> Idle]
  /\ UNCHANGED <<row, now, gen, rung, jobs, decided, log, late, overlap, edits, stale, unheard, failures>>

Start ==
  /\ ~up /\ up' = TRUE
  /\ handles' = TasksFor(row) /\ gen' = gen + 1 /\ NotThisMinute
  /\ unheard' = FALSE
  /\ UNCHANGED <<row, now, reading, timers, reload, creating, jobs, decided, log, late,
                 overlap, edits, restarts, stale, failures>>

Next ==
  \/ Advance
  \/ \E h \in handles, k \in Kinds : Ring(h, k)
  \/ \E c \in reading : ReadAndDrop(c) \/ ReadAndDelay(c) \/ ReadAndDecide(c) \/ ReadFails(c)
  \/ \E t \in timers : Poll(t) \/ Confirm(t)
  \/ \E p \in creating : CreateJob(p) \/ CreateFails(p)
  \/ \E r \in Reloads : Edit(r) \/ Clear(r) \/ Load(r) \/ LoadFails(r) \/ Schedule(r)
  \/ EditUnheard \/ Stop \/ Start

Spec == Init /\ [][Next]_vars

-----------------------------------------------------------------------------
(* Properties.                                                               *)

\* Types: one generation of tasks per rule, timers of generations that exist.
TypeOK ==
  /\ row \in Rows /\ now \in 0 .. Horizon /\ up \in BOOLEAN
  /\ gen \in Nat /\ {h.gen : h \in handles} \cup {t.gen : t \in timers} \subseteq 1 .. gen
  /\ Cardinality(handles) <= 1
  /\ \A t \in timers : t.kind \in {"poll", "confirmation"} /\ t.at >= now
  /\ {j.date : j \in jobs} \cup decided \subseteq Nat

\* Once nothing is under way, the tasks are those of the rule as it is stored: an edit
\* leaves neither former times nor tasks of a disabled rule behind.  Two edits whose
\* reloads overlap may: the one that read first may schedule last.  So may, until the next
\* reload or restart, an edit that the worker has not heard of (the former tasks stay) or
\* whose reload could not read the rules (none are left).
ScheduledAsStored ==
  up /\ Quiet /\ ~overlap /\ ~unheard =>
    {h.schedule : h \in handles} = (IF row.enabled THEN {row.schedule} ELSE {})

\* One job per date, whatever the rule becomes between the tick of the poll and the end
\* of its delay.  A callback that was reading the rule when its tasks were stopped leaves
\* a timer behind, and two polls may then look for a job at the same time.
OneJobPerDate == late \/ \A j \in jobs : j.number = 1

StraddlesMidnight(s, kind) ==
  CASE kind = "poll" -> s.pollTime + s.jitter > DayLength
    [] kind = "confirmation" ->
         s.confirmationTime < HalfWindow \/ s.confirmationTime + HalfWindow > DayLength
    [] OTHER -> FALSE

\* A trigger works for a day on which the rule plays, unless its delay crosses midnight:
\* the date is counted after the delay.  A callback of former tasks counts the days of
\* the rule it has just read, whether they were being replaced or no reload has replaced
\* them yet.
RightDay ==
  \/ late \/ stale \/ overlap
  \/ \A e \in log : \/ e.target % 7 = e.schedule.targetWeekday
                    \/ StraddlesMidnight(e.schedule, e.kind)

Undisturbed == edits = 0 /\ restarts = 0 /\ failures = 0

\* Each date of the rule gets its job, N days before at the latest when the delay ends,
\* as long as the pod runs, the rule stays as it is and the database answers.
PollEveryWeek ==
  LET s == row.schedule
      Asked(d) == (d - s.pollDaysBefore) * DayLength + s.pollTime
  IN Undisturbed /\ row.enabled /\ Quiet /\ ~StraddlesMidnight(s, "poll") =>
       \A d \in 0 .. DayOf(Horizon) + s.pollDaysBefore :
         d % 7 = s.targetWeekday /\ Asked(d) >= 0 /\ Asked(d) + s.jitter < now => HasJob(d)

PollMayBeLate(s) ==
  \/ StraddlesMidnight(s, "poll")
  \/ s.pollDaysBefore = s.decisionDaysBefore /\ s.pollTime + s.jitter > s.decisionTime

\* The decision, M days before, finds the job of the poll sent N days before, whatever N
\* and M: only the delay of a poll of the same day can put it too late.
DecisionFindsJob ==
  Undisturbed =>
    \A e \in log : e.kind = "decision" /\ e.target >= e.schedule.pollDaysBefore =>
      e.found \/ PollMayBeLate(e.schedule)

\* The confirmation comes after the decision of its date, unless it is set less than ten
\* minutes after it or so close to midnight that its delay crosses it.
ConfirmationAfterDecision ==
  Undisturbed =>
    \A e \in log : e.kind = "confirmation" =>
      \/ e.found
      \/ e.schedule.confirmationTime - HalfWindow <= e.schedule.decisionTime
      \/ StraddlesMidnight(e.schedule, "confirmation")
      \/ \E d \in log : d.kind = "decision" /\ d.target = e.target /\ ~d.found

\* The parts above, as they are checked.  The tasks in memory are those of the rule.
TasksSound == TypeOK /\ ScheduledAsStored

\* A trigger creates one job per date, on a day on which the rule plays.
DatesSound == OneJobPerDate /\ RightDay

\* The week goes in order: each date gets its poll, its decision finds the job, and its
\* confirmation comes after the decision.
WeekInOrder == PollEveryWeek /\ DecisionFindsJob /\ ConfirmationAfterDecision
=============================================================================
