# Formal model of squash-assistant

TLA+ modules, TLC runs and TLAPS proofs about `squash-assistant`: a worker that polls a WhatsApp
group for squash sessions, collects the votes, plans and books courts, and keeps a roster on the
group; a listener that stores what happens on WhatsApp; an admin UI. Paths below are relative to
the repository (`src/` in `PROJECT.json`).

## 1. Inventory

| Component | State it keeps | Operations | Talks to |
|---|---|---|---|
| Job pipeline (`scheduler/scheduler.ts`, `graph/`, `http/server.ts`) | the LangGraph checkpoint of the job in Redis (next node, channel values), the job's row in `job_runs`, promises in memory | create, send the poll, collect, plan, recompute, retry, go / real go, decision cron, cancel the poll, recovery at start | MCP clients, Telegram, roster, closures |
| Telegram go (`telegram/telegram.ts`) | `lastProcessedOffset`, in memory, shared by all waits | `waitForGoConfirmation`, `getTelegramUpdates` | Telegram Bot API |
| Living roster (`roster/publishRoster.ts`, `rosterStore.ts`, `finalRoster.ts`, `scheduler/rosterTick.ts`) | `roster_*` columns: message, fingerprint, pin, orphan, claim, final, stop | publish, withdraw, retry the orphan, stop | huddle-bot, `job_runs` |
| Vote ledger, allocation (`roster/voteLedger.ts`, `allocation.ts`, `refreshVotes.ts`) | the votes stored by the listener; the allocation is computed | apply votes, allocate players to slots and waiting lists | Postgres |
| Vote collection (`graph/nodes/collectVotes.ts`, `graph/resolveVotes.ts`) | `poll_closed_at`, the recap message | read the poll, resolve names, close the poll | huddle-bot, roster |
| Voter identities (`roster/refreshVotes.ts`, `graph/unresolvedVoters.ts`) | `voter_identities` of the job; whom the organiser has been told of, in memory | look up late voters, merge, tell the organiser | resa-squash, Telegram, `job_runs` |
| Club closures (`closures/`, `http/clubClosuresHandlers.ts`) | table of closures | declare, compute the impact, cancel jobs | pipeline, roster, huddle-bot |
| Real booking (`graph/nodes/announce.ts`, `planning/jokerSubstitution.ts`) | credits spent during one announcement | book each court, substitute, joker, book the rest | resa-squash |
| Reminders (`scheduler/scheduler.ts`, `startReminder.ts`, `recapUnpin.ts`) | `booking_confirmation_sent_at`, start-reminder claim, pins | confirmation of the booking, start reminder, unpinning the recap | huddle-bot |
| Cron registry (`scheduler/cronRegistry.ts`) | the cron tasks and the jitter timers, in memory | load, reload, fire | pipeline |
| Planning (`planning/`) | the plans of the hours already done, the bookings of the day, the slots taken | cascade of solo voters, pairs, groups, timeline, layers, extension, late players | resa-squash (availabilities) |
| Listener (`apps/listener`) | stored events, allow-list cache, SSE clients | handle a message, persist, relay | NATS JetStream, Postgres |
| Admin UI (`apps/ui`), LLM extraction, message texts, migrations | none of their own | – | HTTP API |

**What is hard in this code.** Nothing serialises the triggers of a job: each HTTP request, cron
tick or go wait reads the checkpoint, decides, and only then invokes the graph; the checkpoint is
written after each node and the last writer wins. A go wait lasts up to four hours, during which the
job may be cancelled, recomputed or restarted. The roster is a sequence of calls to huddle-bot and
updates of a row under a claim that goes stale after two minutes; each of those calls can be refused
or be honoured without an answer. Everything held in memory is lost at a restart. The same applies,
in the small, to the poll closure, the reminders, the cron registry and the listener. The hazards are
listed, each at its line, in `PROJECT.json`.

**What makes each component correct.** Pipeline: no announcement or booking without the decision
that authorises it; a cancelled job stays still; an unattended job polls, books and announces once;
a wait ends. Telegram: no message lost, a go ends a wait. Roster: one writer, the final roster is
never replaced by a provisional one, one pin at most and known to the row, no repeat, an orphan is
settled, a cancelled job's roster stays down. Ledger and allocation: every player in one place,
capacity respected, order of arrival respected, redelivery harmless. Closures: every job of the
interval is either cancelled or listed. Planning: no court, player or volunteer twice at the same time,
over loops that keep separate accounts; every voter placed; the plan comes to its end. Booking: what is
announced is booked, no line booked twice, nobody refused or asked for nothing. Reminders: each message
goes out once, no vote is lost with its poll, no pin is forgotten. Crons: one job per date, for the right
day, whatever is edited meanwhile. Identities: a player found is never lost, whoever is left out is
mentioned, once. Listener: stored, then relayed, once, and never back to where it came from.

## 2. Plan

| # | Modules | State |
|---|---|---|
| 1 | `JobPipeline`, `JobPipelineProofs` | done |
| 2 | `RosterPublish`, its proofs in `RosterProofs` | done |
| 3 | `TelegramGo`, its proofs in `PodMemoryProofs` | done |
| 4 | `Allocation` (operators), `RosterAllocation` (what the roster promises), `VoteRoster` (from the vote to the seat), `RosterProofs` | done |
| 5 | `CourtPlan`, `BookablePair` (operators), `PlanJob`, `PlanJobProofs`, `PlanPlayersProofs` | done |
| 6 | `RealBooking` (credits, substitutes, joker), `BookingPromise` which it implements, `RealBookingProofs` | done |
| 7 | `RuleClock` (calendar), `CronRegistry`, `PodMemoryProofs` | done |
| 8 | `DayOfMatch` (poll closure, recap, confirmation, reminder), `DayOfMatchProofs` | done |
| 9 | `Listener` (allow-list, relay, page; the order of storing is in `VoteRoster`), its proofs in `PodMemoryProofs` | done |
| 10 | `VoterIdentities`, `VoterIdentitiesProofs` | done |
| 11 | several jobs of one rule, the cascade of a closure over them | not modelled, section 6 |

## 3. Modules

### JobPipeline

One job of a rule. `ckpt` is the checkpoint (`next` node, channel values `pollRequestId`,
`clubClosed`, `bookingPlanGroups`, `goConfirmed`, `dryRun`, each reduced to what the properties tell
apart), `row` the job's row with the settings of its rule (`auto`, `enabled`), `proc` what each request, tick or wait in flight holds in memory,
`world` what members and club see.

- `Stage`, `PausedOn`, `Accepts` are `computeStage`, `pausedOnFromSnapshot` and the guards of the
  `trigger…` functions, evaluated when the request reads the status. `Trigger` is that read;
  `Invoke` loads the checkpoint *then* current; between the two anything may happen.
- `PassBarrier`, `SendPoll`, `CollectVotes`, `BookSlots`, `Reserve`, `Announce` are the nodes, split
  where a node's outside effect and its return are two moments (`Commit`), and `MoveOn` writes the
  checkpoint. A node works on the values it loaded.
- `Return` is what the trigger does once `graph.invoke` returns: the automatic plan after the
  collection, the new go wait after the plan (`NewWait`).
- `Decide`, `Recheck`, `WaitLost` are `awaitGoAndResume` and `isJobCancelledNow`.
- `DeclareClosure`, `ClosureImpact`, `Cancel` are the closure handler and the cancellation of the
  poll, the part that touches the job.
- `Toggle` disables the rule of the job, or enables it again (`toggleRuleEnabledAction`).
- `Fail` is a node that throws, `Restart` the loss of everything in memory followed by
  `recoverPendingGoWaits`, which starts the wait of a job left at the go again only when its rule is enabled.

`said`, `still` and `used` are history: go decisions, whether the job was cancelled while nothing was
executing, the bounds spent, and whether the last restart passed over a job of a disabled rule
(`used.passedOver`).

### RosterPublish

The roster of one job. `row` holds the `roster_*` columns and `cancelled_at`; `writer` what each
operation in flight has in memory; `stale` tells whether the stored claim is older than two minutes;
`chat` is the group (messages sent, pinned, pins that ran out). `Collect`, `Announce`, `Tick`,
`StartWithdrawal`, `Stop`, `Cancel`, `RetryOrphan` start operations on a row read beforehand; `Claim` or
`Busy` is `claimRosterPublish`, `FirstStep` what is decided on the row the claim returned; `Send`,
`KeepPrint`, `Store`, `Retire`, `Unpin`, `KeepOrphan`, `Pin`, `KeepPin`, `Forget`, `UnpinOrphan`,
`ForgetOrphan`, `Release` are its calls and updates, one action each, because a crash, a refusal or a
lost answer may fall between any two. The claim is compared by its identity, as the code compares the
timestamp it wrote. `GoStale` is the two-minute clock, and `slow` records that it struck an operation
that was still running.

### TelegramGo

All the waits of the process on one bot. `offset` is `lastProcessedOffset`, `kept` the first update
Telegram still keeps (a request with an offset discards the earlier ones, which is how the code relies
on `getUpdates`), `heard` the updates a wait has looked at, `spent` the "go"s that ended one. `Ask`
reads the offset before the await, `Reply` is Telegram's answer, `Handle` the loop over the updates,
which has no await inside. `mixed` records whether two waits have ever been pending together or the
pod restarted. `GoInit`, `GoNext`, `GoSpec`, `GoTypeOK` are its `Init`, `Next`, `Spec` and `TypeOK`: the module
shares `PodMemoryProofs`, what is proved of what the pod keeps in memory, with `CronRegistry`.
Telegram may also refuse a request (`Fail`), in particular one of two that overlap.

### Allocation, RosterAllocation, VoteRoster

`Allocation` holds the operators of `roster/allocation.ts`: `Withdraw` and `Vacate` are its rule 1,
`EnterHour` and `TakeSeat` its rule 2, `Move` one turn of `applyMoves` with its rule 3. A roster is a
function from the candidate hours; an hour the code has not created yet is one without seats and
without anyone waiting, which is how `insertHour` creates it. `RosterAllocation` is the state machine
of its own these operators make, one move per change of vote (`RosterInit`, `RosterSpec` and `RosterTypeOK`
are its `Init`, `Spec` and `TypeOK`, as `VotesInit`, `VotesSpec` and `VotesTypeOK` are those of `VoteRoster`: the two
share `RosterProofs` with `RosterPublish`). `FairTo` is
what one hour owes those who wait for it: it is the promise of `RosterAllocation` (`ServedInOrder`), and
`WaitingIsFair` says it of every two rosters replayed from the votes.

`VoteRoster` is the way of a vote to a seat. `sent` are the votes in the order they were cast; the
listener (`HandleMessage`, `Redeliver`) stores their events in `stored`, in the order `created_at`, each
once, a refused one later. `ListIds` and `ReadPoll` are the two reads of `collectWithRoster`, with votes
and events in between; `Plan` is the snapshot `createBookSlotsNode` saves, `Book` the base
`buildRosterFinal` makes of it. The code stores neither the ledger nor the final roster: it replays them
whenever it needs them, and so do the state functions `LiveVotes` and `Roster`, by the same folds of
`ApplyEvent`, which passes over the events its base has integrated, and `Move`. `VoteRoster` takes from `Allocation` the moves it applies, and the invariants
say of the replayed roster what `RosterAllocation` promises, and that it agrees with the votes.

What the model takes from outside `src/`: WhatsApp dates votes to the second and in the order they are
cast, only an empty retraction sharing its second with the vote that follows it; huddle-bot counts a
vote before it publishes the event, and does not list who has retracted his vote among the answers. A
member is one voter key: the matching of members without a phone number is not modelled.

### CourtPlan, BookablePair, PlanJob

`CourtPlan` holds what depends on its arguments alone: who plays with whom (`PairsOf`, `RotatorsOf`,
`BuildGroupsForBooking`), in how many rounds (`ComputeRoundsNeeded`), on which court
(`ResolveCourtAssignments`), who moves to the next hour (`CascadeSoloVotersForward`). `BookablePair` is
`resolveBookablePair` and the order of the candidates, which plan and booking share. Filters and stable sorts
of the code are `Picked` (the elements at some numbers of a list) and `InOrder` (the numbers from the least value
to the greatest), about which one can prove what they keep; a player without preferences wants to play the
default of `playerPlaySlots.ts` (`Demand`).

`PlanJob` is `planJob`, one turn of a loop per step. The loops are long because four of them take slots of
one day and each keeps its own account: the hours (`PlanHour`, `AcceptPlan`), the timeline of a group in
the common case (`BookGroupRound`), the layers when the courts are short (`FindRound`, `PlacePair`), the
rotating player (`JoinCourt`, then `ExtendRound`), the players of an hour with too few of them who join a
session of an earlier one (`JoinSession`). `daily` and `used` are what an hour hands to the next. A time is a
number of rounds of 45 minutes, a slot a court at a time. `Spinning` is the turn of the extension that
changes nothing: the loop of `sessionExtension.ts` goes round for ever there, and so does the model, by a
stutter. An input is a record of rule, votes, volunteers, registrations and availabilities.

### RealBooking, BookingPromise

The `announce` node. `club` is what the club holds, `batch` what an execution has learnt: the credits of the
evening, who is exhausted, which lines were refused, who stood in. `NextLine` is the head of the loop,
`Take` somebody else taking the slot first; `Replace` builds the candidates after a refusal,
`TryCandidate` asks for the next one; `NoteHolder`, `NoteReplaced`, `ClearWrongSuspicion`, `SuspectJoker`
are how the code infers who has no credit left from refusals that may name nobody. `TotalFailure`,
`Announce`, `Report` are what follows, `Crash` and `Retry` the node cut off and run again from its start.

`BookingPromise` is what ADR-027 promises without any of this: the lines are settled one after the other,
independently, each held at most once, and the booking fails as a whole only when every line was
refused. `KeepsPromise` is the refinement: lines before the loop's index are settled, held lines are those
of the club, and the verdict is read off the program counter.

### RuleClock, CronRegistry

`RuleClock` is the arithmetic of days and minutes: the weekday of a cron from the day played, the cron moved
ten minutes back, the date a trigger works for, counted when it runs. `CronRegistry` is one rule in the
registry: `handles` the cron tasks, each of a generation, `timers` the delays drawn at random, `reading` the
callbacks that are reading the database (`Ring`, then `ReadAndDelay` or `ReadAndDecide`), `reload` the
reloads under way (`Clear`, `Load`, `Schedule`). An edit saves the rule and starts a reload (`Edit`), or the worker
does not hear of it (`EditUnheard`: `notifySchedulerReload` swallows the failure; also an edit made while a pod
starts, between its reading of the rules and its first answer); `LoadFails` is the reload that cannot read
the rules once the registry is cleared. `unheard` says that the row was saved and no reload or boot has read it
since, `stale` that a callback read such a row. `ReadFails` and `CreateFails` are the database refusing a
callback or the creation of a job. `Advance` moves the clock to the next instant at which
something happens and not past one that is due. `Poll`, `CreateJob` are `triggerCronSendPoll`'s look for an
active job and its creation, `Confirm` the tick of the confirmation.

### DayOfMatch

The messages of a job besides the roster. `row` has the columns concerned, `task` two threads of the worker:
ticks that overlap, two pods of which one replaces the other, requests. Each call of huddle-bot and each
update is an action, since a refusal, a lost answer, a failed update or a restart may fall between any two:
`Claim`, `SendReminder`, `Release`; `SendConfirmation`, `Mark`; `ReadVotes`, `MarkClosed`, `DeletePoll`,
`Unmark`, `Note`, `SendRecap`, `PinRecap`, `Remember`; `UnpinTick`, `NextPoll`, `Unpin`, `Forget`; `Cancel`,
`WithdrawPoll`, `CancelRow`. `excuse` remembers what went wrong, so that a property can say what it is
promised *without*.

### Listener

`events` is the stream, in which an event is delivered until it is acknowledged; `handling` the one in the
handler (`Deliver`, `Persist`, `Broadcast`, `Relay`, then `Acknowledge` or `Nak`). `memory` is the copy of the
allow-list and of the relayed kinds; `reads` the reads of the database under way, started every minute
whether or not the former has come back, each applied when it ends. `page` is a browser on a job:
it hears what is broadcast while it is connected, and reads the page again when told (`Refresh`).

### VoterIdentities

A pass over the late votes: `Read` the row, look up whom it does not know (`Patch`), `Merge`, then tell the
organiser of the new ones (`Take` puts their keys in memory before the message, `Tell` sends it and gives
them back if it failed). `Tick`, `Plan`, `Recompute`, `Announce` start passes and differ in what follows:
`Recompute` searches again for everybody the row has without a player and merges with priority to what it
finds (`Override`). `Merged` is `left || right` of the column: a player is never replaced by null.

`MCJobPipeline`, `MCRosterPublish`, `MCTelegramGo` declare the symmetry sets for TLC; `MCVoteRoster` starts
from a poll where two members have voted for different hours; `MCPlanJob`, `MCRealBooking` and
`MCCronRegistry` list the inputs. The definitions named `…Raw`, `…Anyway`, `…Forgetful` and the like, each
above the one it departs from, are mutations: plausible bugs with which the properties are seen to fail.

## 4. Runs

Deadlock is looked for in `identities` only, where the tick comes back for ever: the other systems stop,
legitimately, when the job is over or the bounds are spent. That operations do not get stuck is what the
liveness properties say. All runs pass. A property named in *italics* is a conjunction; its parts, each with
its own comment in the module, are in parentheses.

| Run | Question | What holds |
|---|---|---|
| `pipeline_races` | two requests and two go waits, every API trigger, closure, cancellation, a restart: is anything announced or booked without its authorisation, or after the cancellation? | `TypeOK`, `AnnouncedOnlyOnGo`, `BookedOnlyOnRealGo`, `CancelledJobStaysStill` |
| `pipeline_cron` | the unattended job, its rule disabled and enabled again, two failures and two restarts: does anything happen twice, and does a job that waits for the go leave that state unless a call has failed or a restart has passed over it? | `AtMostOnce`, `GoWaitEnds` |
| `roster_claim` | two writers, all operations, all mishaps: who writes, what replaces what, and is an orphan dealt with in the end? | `TypeOK`, `OneWriter`, `FinalStays`, `OrphanSettles` |
| `roster_pins` | two writers, refusals, pins that expire | `PinsTracked`, `NoRepeat`, `CancelledStaysDown` |
| `telegram` | overlapping waits, failed requests, restarts: is anything lost, is a go used twice, is what is written heard? | `GoTypeOK`, `NoneSkipped`, `GoSpentOnce`, `GoHeard` |
| `votes` | votes cast, stored late, twice or out of order while the job collects, plans, replans and books | *`LedgerSound`* (`VotesTypeOK`, `NoVoteLost`, `CutInvisible`), *`RosterSound`* (`RosterMatchesVotes`, `NoIdleSeat`), *`OneMovePerEvent`* (`NeverRewritten`, `WaitingIsFair`) |
| `plan` | some nine thousand evenings: do the loops share courts and players without taking one twice, is everyone placed, does the plan end? | *`CourtsSound`* (`LedgerOfTheDay`, `SlotOnce`, `CourtsOfAnHour`), *`PlayersSound`* (`OnePlaceAtATime`, `NamesAccepted`, `LimitButRotation`, `EveryoneNamedEnough`, `VotersKept`, `PriorityApart`), `CountIsTrueInWindow`, `TerminatesIfCovered` |
| `booking` | a club that refuses, fails, does not answer or gives the slot away, a retry: is what is announced booked, and is nobody refused, or asked, for nothing? | *`BookingSound`* (`TypeOK`, `AnnouncedIsBooked`), *`NamesSound`* (`ExhaustedIsTrue`, `NeverInVain`, `VolunteersCapped`), `NoRescueMissed`, `KeepsPromise` |
| `cron` | twelve days of a rule that is edited, reloaded (or not, when the notice is lost or the database does not answer), restarted | *`TasksSound`* (`TypeOK`, `ScheduledAsStored`), *`DatesSound`* (`OneJobPerDate`, `RightDay`), *`WeekInOrder`* (`PollEveryWeek`, `DecisionFindsJob`, `ConfirmationAfterDecision`) |
| `reminders` | two tasks on one row, one mishap: does each message go out once, does a vote get lost with its poll, does a pin stay? | *`SentOnce`* (`TypeOK`, `ReminderOnce`, `ClaimMeansSent`, `ConfirmationOnce`), *`CollectionSound`* (`VotesKept`, `GoneIsClosed`, `RecapTracked`), `RecapUnpinned` |
| `listener` | events delivered again, rules changed, reads that overlap, a crash: is an event stored, relayed, shown? | *`RelaySound`* (`TypeOK`, `NoEcho`, `RelayedIsStored`, `RelayedOnce`), `EventuallyStored`, *`CopiesFollow`* (`CopyCatchesUp`, `PageFollows`) |
| `identities` | two passes over the late votes, a voter registered meanwhile, a failed search, message or write | *`OrganiserTold`* (`TypeOK`, `ToldOnce`, `LeftOutIsTold`), `PlanKnowsIdentified`, *`VotesSettled`* (`NeverForgotten`, `EveryoneRecorded`, `AnomalyTold`) |

Many of these hold *unless* something the code does not guard against has happened: the exception is part of
the property (`excuse`, `passedOver`, `late`, `stale`, `unheard`, `overlap`, `mixed`, `slow`, `lost`, `again`, `missed`), so that it says exactly
how far the code goes; section 7 lists what lies beyond.

**Bounds.** `Triggers` and `Waiters` bound what is in flight together: the races of the pipeline are
between two actors (a check and an invocation), and the third actor of a cancellation is a wait, so
two of each show every pairwise interleaving while the guards of the code are the same for all of
them. `MaxTriggers` bounds the triggers of a behaviour: four or five reach the end of a job (send,
collect, plan, go) and one more. `MaxFaults` and `MaxCrashes` are one or two, so that a failure may
follow a failed recovery. In `RosterPublish` two provisional texts make a change between two
publications possible and one final text an announcement; three or four operations fill both
writers and leave some for after a crash; two or three mishaps allow, for instance, a crash that
leaves a claim, then a refusal. In `TelegramGo` a few messages of two kinds suffice for replies that
overlap without being equal. In `VoteRoster` two members have voted and three votes follow: enough for one
to leave a seat, one to enter a waiting list and one to come back, or for two to wait for the same hour
while a third leaves it; the member without a date and the one whose retractions are empty are among
them, and one late event is enough to come after any number of others.

`plan` takes the inputs of `MCPlanJob`: two to six voters over two hours (close together, or the second after
the window of the first), or three hours of few voters; four courts of which one or two are free at a time, so
that there are fewer courts than pairs; groups of two or three; one or two layers; a limit of two or three
bookings; none, one or two volunteers; a player, two players or a volunteer who is not registered, with and
without a joker; two pairs who change courts while a late player goes on beside them, or while a rotation prolongs a court;
five pairs on three and four courts; a joker who plays, or lends his name. Every branch of the loops is taken. `booking`
takes plans of one to three lines (the joker in none, one, two or all of them, a volunteer who also plays, a joker
who is a volunteer too, even once he is held to have no credit),
credits of zero to two, two mishaps and one retry: a mishap in the first run and one in its retry. `cron`
takes twelve days, so that a poll eight days ahead is seen with its decision, and the next poll of the same
rule a week later, five schedules chosen at the edges (a delay over
midnight, decision and poll on the same day, more than a week ahead, confirmation near midnight), two edits
with two reloads that overlap, one restart and one failure (`MaxFailures`): a lost notice, a reload, a read or a
creation refused, before or after the restart and the other edit. `reminders`: two tasks, three operations besides the ticks, one
mishap at any of the points between two steps. `listener`: two events, two changes, two reads, one mishap; the
organiser's group is a rule's group in some behaviours. `identities`: a voter with a number, one nobody can be
matched with, two passes, two operations besides the ticks, one mishap; resa-squash knows nobody at first, and
learns of the voter at any moment. The proofs below lift the bounds of the properties they cover.

**Fairness.** `JobPipeline`: an operation in flight takes its next step (promises settle: HTTP calls
and MCP calls return or throw), and a wait ends (its timeout is four hours). Triggers, faults and
restarts are never fair. `RosterPublish`: calls return, the two-minute staleness of a claim is wall
clock, and the minute tick comes back to a stored orphan as long as there is one; that huddle-bot
refuses only finitely often is the bound on mishaps. `TelegramGo`: a request is answered within its
thirty seconds and the loop goes round; the deadline is not fair, and failures are bounded, so
`GoHeard` says that a message is heard unless everyone stops waiting first. `PlanJob`: planning is a
synchronous loop, which does not stop in the middle: `SteadySpec` says so without `ENABLED`, a step is taken
again and again until the plan is done, and a turn that changes nothing (`Spinning`) does not count as one.
`DayOfMatch` and `VoterIdentities`: calls end and the tick of each minute comes back; refusals are bounded. For
a job in error, and once its match begins, `rosterTick.ts:163-172` no longer looks for its voters: what `VotesSettled`
says must happen in the end is of a job whose ticks go on, that is, of one for which some ticks remain.
`Listener`: the timers of the reads fire and reads end, the steps of a handler end, the pod and the page come
back; JetStream delivers again what has not been acknowledged, which after negative acknowledgements is a
strong fairness of `Deliver`. What people do - votes, requests, changes of a rule - and mishaps are never
fair. `RealBooking` and `CronRegistry` are checked for safety only: their loops end by construction.

## 5. Proofs

Each theorem holds for every number of triggers, waits, writers, texts, players, hours, operations,
events, voters and failures; the only assumptions are the named ones on the constants of each module: types
(`BoundsAreNumbers`: the bounds are natural numbers), that a rule has passed `validateRuleSchedule` and its window
is a natural number (`RowsAreValid`: `actions.ts:195-198` and an integer column), that a go wait is not a trigger, a provisional text not
a final one, and a voter with a number not one nobody can be matched with. Three theorems, `CronActsOnce`,
`PinsStayTracked` and `NeverSentTwice`, suppose more, named in their statement and explained below.

- `JobPipelineProofs!TypeCorrect`, `RosterProofs!PublishTypeCorrect`: the type invariants, inductive
  as they stand; one lemma per group of actions.
- `AnnouncementsAuthorised`, `BookingsAuthorised`: the two properties speak of `world`, but a go
  travels: from the decision into a wait, from the wait into the resume value of a run, from there
  into the run's channel values and the checkpoint, which other runs load. `GoInv` says that every go
  held anywhere on that way is licensed by `said` or by the rule's settings, and every real go
  (`dry = FALSE`) by a real one. It is preserved because a licence is never withdrawn (`GoGrows`) and
  because only a go barrier creates a go, from its resume value (`AfterBarrierLicensed`).
- `CancellationHolds`: `StillInv` says that once `still`, the row is cancelled and every operation is
  in one of the program counters (`QuietPCs`) from which the recheck, the trigger's own check of the
  row or the end of the operation lies ahead; the step itself then leaves `world` alone.
- `CronActsOnce`: without clicks (`NoClicks`: the rule's calendar, closures, cancellations), one poll, one
  booking and one announcement at most. Nothing in the code keeps the checkpoint from two runs at a time,
  and with two clicks the two runs act twice, which is why the run `pipeline_cron` has none. What
  keeps ticks apart is the calendar, so the theorem supposes `OneTick`, that one tick executes at a time;
  closures, cancellations and go waits interleave as they like. `OnceInv` has three parts: `PlaceInv`, where
  an operation can be while the checkpoint names a node, and that a tick and a go wait then never execute
  together, since a tick leaves alone a job that stands at the go or beyond it; `Behind`, that whatever
  executes is past what was done; `Counted`, that a booking is behind the checkpoint.
- `MutualExclusion`: `ClaimInv` — unless an operation outlasted its claim, whoever is inside owns the
  claim in the row and it is not stale.
- `FinalRosterStays`: `FinalInv` — a final text in the row or in memory implies that the final roster
  was stored, and a writer about to store a provisional text was authorised by a row without a final
  one; with `ClaimInv` nobody can have stored one since.
- `CancellationSticks`: `DownInv` — once `still`, the row is cancelled and every operation is at a step
  (`Down`) from which only the reading of that row, the unpinning of what is there, a release or its end
  lies ahead. It needs no assumption on failures: what an operation read before the claim is not what it
  acts on, the row the claim returns is, and that one is read after the cancellation.
- `PinsStayTracked`, `NeverSentTwice`: `GroupInv` — nobody at work, the row names the text last sent and
  all that is pinned; the one operation at work (`ClaimInv`) holds in memory the rest of it, and `Work`
  says of each of its steps what it still has to write. Both suppose `Gentle`: calls are refused openly
  and pins run out. With a crash, a lost answer, an update that throws or a claim outlasted that memory
  is lost: a pin that no answer confirmed is in no column, and the run `roster_pins` supposes no more than
  the theorems do. `NeverSlow` gives them the claim: without the two-minute clock none is outlasted.

- `GoTypeCorrect`, `NothingLost`, `GoesSpentOnce` (`PodMemoryProofs`): `OffsetInv` — all that lies before the offset or before what Telegram
  keeps has been looked at, and a reply begins no later than that; `SpentInv` — as long as the waits
  come one after the other, the offset is past every spent go and no request or reply in flight is
  behind it.

- `SeatsNeverIdle`, `OnePlaceForEach` (and the shape, `TypeCorrect`) in `RosterProofs`: the
  invariant is `Sound`, every hour `Full` and `Orderly` and no player in two hours. Neither half is
  inductive alone: a free seat excludes a waiting list only because one withdrawal empties one seat at
  most, which is what `Orderly` says, and a move leaves one place only because `Withdraw` has taken the
  player out of every hour (`WithdrawSound`) before `Enter` gives him one (`EnterHourSound`). The
  lemmas go from a seat (`SeatGiven`) and a waiting list (`TailSound`, `WithoutSound`, `AppendSound`) to
  an hour and to the roster; `MaxType` is what `Max` gives on a finite set of integers, from which the
  rank of a freed seat exists (`NextFreedSeqType`) and the seat free for longest is a free one
  (`OldestFree`).
- `FirstComeFirstServed`, `NobodyElseUnseated`: on `Sound`, of one move. Taking a player out of a waiting
  list keeps the order of the others (`WithoutOrdered`), serving it takes the first one (`TailOrdered`),
  entering it goes behind all (`AppendOrdered`). A move is a withdrawal from every hour, then an entry:
  the withdrawal seats the first one waiting and keeps the order of the others (`WithdrawFair`), and who enters
  goes behind all who wait, a seat being free only where nobody does (`EnterFair`, `MoveFair`). The seats lost in
  a move are those of the member who voted, nobody else's (`SeatsKept`).

- `LedgerHolds`, `RosterHolds`, `OneMoveHolds` (`RosterProofs`): for any number of members, hours, votes,
  late and repeated events, collections and plans.
  - A replay is `FoldLeft`, which the library defines with a recursive function on sets of positions. That such a
    function exists is one induction (`SetInduction`, on a set of naturals: a least counterexample), after which a
    replay is a chain of accounts, one event apart (`ReplayChain`, `ReplayUnique`), and what each event keeps the
    replay keeps (`UpTo`). The moves of the roster are the same (`MoveChain`, `OneMoreMove`).
  - `LedgerInv` is the inductive invariant of the listener and the worker: every event handed over is a row or will
    be handed over again (`VotesInv`), what the worker works from are votes and rows of the database
    (`WorkerInv`), the replays from the plan's snapshot and from the poll give the same votes (`CutInv`), and the
    base of the booking is the plan's (`BaseInv`). `CutInv` is kept because both replays pass over the rows their
    base knows and a new row is known to neither (`CutStep`). The dates of the ledger play no part in it.
  - The roster: the voters of an hour are put in order of vote, a total order (`TotalOrder`, `OrderedIs`), so the
    first roster is `Sound` and agrees with the votes of the base (`InitialAgrees`); an event writes a vote to
    the ledger and the same move to the roster, which then agree still (`VoteMoves`). One more row at the end of
    the replay is one more move at its end, or none (`OneMove`), and a move is fair (`MoveFair`).
  - `PollInv`: WhatsApp's dates follow the votes, but for an empty retraction and the vote that replaces it
    (`Dated`); the ids of a collection are a prefix of the rows (`ListedAs`); the poll shows at least the events whose
    ids were listed before it was read (`Taken`). That order of the two reads is what no vote lost rests on: an
    event the base passes over is reflected in the poll it starts from.
  - No vote lost: for a member whose events came in order, what the ledger shows after each row is the last of those
    seen, and the next one is not out of date (`Latest`, `LatestStep`). In any order: once the last vote is in the
    poll or has come, the ledger keeps it with its date, which nothing else passes; until then every date in
    the ledger is before it, so it will not be out of date (`Dawned`, `DawnedStep`). The second argument needs a
    date in the poll and a vote that is no retraction, which the property supposes.

  The two invariants were checked by TLC on the instance of the run `votes` with two votes cast, then proved.

- `RelayHolds` (`PodMemoryProofs`): an event is acknowledged long after it was relayed, and may be delivered
  again in between, so `RInv` follows it through the handler. `HandlingSound`: the event in the handler is not
  acknowledged, not of the organiser's group, and stored once it is past `Persist`. `RelaysSound`: an event
  relayed is stored, and is acknowledged unless its relay left a trace in `again`; that second half is what
  makes "once" inductive, since only an event that is not acknowledged is delivered again. That the
  organiser's group is in no copy of the list (`CopiesType`) is why `Deliver` never lets it in.
- `RecomputedPlanCounts` (`VoterIdentitiesProofs`): a recomputation reads the row, then the votes, and
  searches, while ticks merge what they have found. `OwedInv` says of whom the recomputation owes a place in
  its plan: he has a vote, and is known to the row it read or to what it is about to merge. The votes it works
  on are read after the row, so that such a vote is among them (`PassSound`), and a merge keeps what is known
  and what is merged (`MergedType`).
- `IdentifiedStay`: whoever is `Known` stays so in each step. Two steps write the identities, both over the
  row of that moment and never over the one the pass had read: `Merge` lets the row win, and `Remember`
  overrides it with players only.

- `OrganiserHearsOnce`: two passes may both meet a voter whom they have not found. `NoticeInv` follows who
  tells of him: a key is taken by one pass (`Apart`), which sends nothing whose key it has not taken
  (`PassTells`); whom the organiser has been told of is being sent by nobody and never will (`OnceInv`),
  because his key is taken or because, if he has a number, a pass that still misses him would have to
  have read the row before he was written there, and then his key is taken; and whoever stands in the row
  without a player was told of, is in the photo, or has a pass that is about to (`LeftInv`).

- `MessagesOnce`, `CollectionKeeps` (`DayOfMatchProofs`): `ReminderInv` says that one task at most is between
  the claim and its outcome, and has sent nothing yet; `ConfirmInv` that as long as nothing has gone wrong the
  confirmation sent is marked or its task about to mark it; `CollectInv` that a collection past its reading has
  recorded the votes, that one collection only is under way as long as none overlaps, and that one which may
  still take the mark back has found the poll undeleted; `RecapInv` that a pinned recap is in the row or about to be written there,
  unless the answer of its pin was lost, and that one about to leave the row is unpinned or a week old. Each
  part has a frame lemma (`ReminderFrame`, ...) saying which steps leave it alone, so that a family of actions is argued against the part it concerns.
- `BookingKeepsPromise` (`RealBookingProofs`): the refinement of `BookingPromise`. `PlaceInv` ties the program
  counter to the index and to the refusals (past the last line when it announces, and then not all refused),
  and each step is matched with `Book`, `Refuse`, `BookUnheard`, `Conclude`, `Interrupt`, `Again` or a stutter.
  A candidate's pair is never looked at, so the argument does not depend on who is tried: it rests on a call
  holding the line only if nobody held it (`CallFacts`) and on the line being left either settled or kept
  (`LineSettled`, `LineKept`). Assumed: the lines of a plan are a sequence (`LinesAreASequence`).
- `WhatIsAnnouncedIsBooked`: the announcement is written from the plan without its refusals, not from what
  the club holds, so `Sound` ties the two: a line behind the index and not refused is held
  (`PastIsHeld`), for a line is left only by an acceptance or as a refusal that is noted;
  what was told stays true because nothing is given back (`ToldIsHeld`); and a first execution whose calls were all answered knows every line the club holds
  for it (`FirstKnows`), which a lost answer or a retry breaks: the club then holds a line the node has
  noted as refused. The other names of a pair, the joker and the credits are typed only (`Counted`);
  assumed: credits are natural numbers, per player (`CreditsAreCounted`).
- `NamesLearntAreTrue`: on `Sound`, what the node infers is true of the club. `Learnt` is about the batch: who
  is held to have no credit has none but perhaps the joker (`KnownIsSpent`); as long as a partner of the joker
  is suspected, one of the two has none (`SuspectOrJoker`), so that a booking with the joker convicts the
  partner; a volunteer's count of the day is his lines of the plan and those he has lent his name to, and is
  within the limit once he has lent it (`DayCounted`). `Queued` is about the names still to be tried: nobody
  known to have no credit, no volunteer whose day is full (`TriedIsWorth`, from the definition of
  the candidates, `ProposedFacts`), and, after a refusal for lack of credit that names nobody, names that each leave the
  one they replace as the only explanation (`LimitExplained`), which is what `NoteReplaced` reads into an
  acceptance. None is inductive without the others. That the candidates are such takes the lists apart
  (`ExcludingType`, `FlattenType`, `CandidatesType`), by induction on sets as for the replays. Assumed: the names of
  plan, volunteers and joker are players, and a line names two of them (`NamesArePlayers`; the plan sees to it,
  `NamesAccepted`). `VolunteersCapped` leaves out the joker, who may be a
  volunteer of the evening too: lent as the joker he is counted nowhere. The invariant was checked by TLC on the
  instance of the run `booking`, then proved.
- `NobodyIsSkipped`: on the same invariant, and as long as nothing technical fails, `Unharmed`. The lines to come
  are free, and so are those refused (`StillFree`), so that a line is given up at the end of its cascade only
  (`NotGivenUp`); hence the theorem needs that the queue of a line that can be rescued has a name the club accepts,
  and keeps it until it is tried (`RescueQueued`). This asks that the candidates be complete, where
  `NamesLearntAreTrue` asks that they be right: in the place of the one wrong name, blamed or not, the queue has
  the joker and each volunteer who is free (`CandidatesHave`). What is in the way is a joker held wrongly to have no
  credit, who would have the wrong name replaced. `JokerWronged` says that this happens only once no volunteer is left: he is held at the end of a
  line of his own whose other name has no credit, and a volunteer would have carried that line
  (`JokerRightlyHeld`). The property leaves out such a joker, under either of his titles: as a
  volunteer he is passed over too, and the attempt to prove more of him gave the counterexample that
  is now among the inputs of `booking`.

- `TasksAreTheRules`, `DatesAreRight`, `TheWeekIsInOrder` (`PodMemoryProofs`): `CronInv`, whose parts are
  - `TypeInv`: one generation of tasks at a time, timers and callbacks of generations that exist, no timer
    past. Time goes to the first of `Instants`, which exists (`MinType`) and is later than now
    (`NextRingFacts`, `AdvanceFacts`).
  - `ReloadInv`: as long as no reload overlaps another, the one under way schedules over an empty registry, and
    what it schedules is the row as it is, unless the row was saved since without a reload (`unheard`), so that at
    rest the tasks are `Current`. A restart does the same at once. A reload that fails ends `unheard`, and
    the next successful read, of a reload or of the boot, ends that.
  - `JobInv`: the window between the search for a job and its creation is safe only because all polls
    in it are of the same tasks. Those of former tasks had their timers cleared, and new ones ring in the
    next minute at the earliest, when the creation is over; two polls of the same tasks are for two dates.
    A callback that read too late (`late`) breaks the first half: its timer belongs to nobody.
  - `DayInv`: a callback reads in the minute of its cron, on the row its tasks were made from (neither `late` nor `stale`), and a timer ends
    on the day it began unless its window crosses midnight (`DelayOnDay`). That the weekday of a cron and the days before it count
    back to the day played is `CountDays`; `validateRuleSchedule` bounds the times, any number of days before will do.
  - `WeekInv`: `PollInv` and `DecisionInv` say of every date whose instant is past that something is there to
    answer for it: a job, a poll looking for one, a timer within the window, a callback of this very
    minute; for the decision its line in the log. No minute with a ring is passed over (`NoRingMissed`).
    What is left is arithmetic: a poll in the window of a date is for that date (`WindowDate`), the decision of a
    date is behind its poll and, but for a delay on the same day, behind its window (`PollThenDecision`), and the
    confirmation, ten minutes early, behind the decision if it is set later than that (`DecisionThenConfirmation`).

  `CronInv` was checked on the run `cron` before (dates up to the horizon), then proved for any horizon, rules,
  edits, reloads and restarts.

- `CourtsNeverTwice` (`PlanJobProofs`): four loops take slots of one day, and each looks at another account of what
  is taken. `CourtsInv` is what makes these accounts agree.
  - `DayInv`, between hours: the bookings counted for a player are his lines in all plans, and `used` is the set of
    the slots kept, none of them on two lines (`LedgerOk`). Lines are added at the end of the last plan, or of an
    earlier one by late players; in both cases the plans grow by these lines and nothing else (`MorePlans`), so
    one lemma on the ledger serves both (`LedgerGrows`). A slot set apart starts after the window of its hour
    (`PlansOk`), and lines of late players are within the window of the hour they join (`LateOk`, `SessionsOk`), so
    that a slot is never in the ledger as kept and set apart at once.
  - `HourInv`, inside an hour, for each stage: the lines under construction and those of the first attempt are on
    slots free and not used, no slot twice (`WorkOk`); the slots of a round are different and not taken yet (`BatchOk`,
    from what `resolveCourtAssignments` returns, `Assigned`).
  - The rotation does not look at the lines of the hour: it prolongs a court from the end of its session, and the
    slots it takes are kept in a set of its own (`extra`). It is right because a session holds all the lines of its
    court and there is one session per court (`RotationOk`), so that the end of the session is the end of the court;
    `buildOngoingSessionsFromPlan` makes them so (`Opened`), and what one session adds is on its own court (`TurnOk`).
  - `CapInv`, for the courts held at a time (`CourtsOfAnHour`): the groups that follow each other (common case) are no
    more than the courts, each plays its rounds one after the other, at times that only grow, and so holds one
    court at a time (`TimelineOk`); a round of pairs (queueing case) fits beside what the layers before it hold at its
    time (`PlaceOk`). Lines that late players (marked 0) and the rotation (-1) add are left out: they look at no
    maximum. A first form of the property counted late players too; TLC refuted it on the inputs
    `Beside`, where one prolongs his session while the pairs of the hour change courts.

  Assumed: courts are numbered from 1 to 4, times, windows, priorities and the courts of a rule are numbers
  (`InputsAssumption`). That a
  list sorted by rank holds each element once (`Ranking`, `Listing`) is proved by induction on finite sets. Both
  invariants were checked by TLC on the inputs of the run `plan`, then proved.
- `EveryoneIsCounted` (`PlanJobProofs`): the groups of a plan are what the report of those without a court is
  computed from, and they are built apart from the lines: by the timeline, from the pairs, from the sessions
  extended. `CountInv` is what relates both, beside `CourtsInv` and `CapInv`.
  - Of a plan done (`Counted`): the slots of a group are slots of the plan's lines, and whoever attends and is
    named on a line is in a group that has a slot. A session opened may be joined (`Joinable`): its members who
    attend are counted with its plan, and it has lines there. `mobilised` holds every voter, so that the volunteers
    offered as stand-ins do not play themselves (`Guests`), and a stand-in needs no group.
  - Of the plan under construction, by stage: the lines of a group name its members or guests
    (`TimelineCounted`); those of the pairs, whatever layer they are in, name their pair or guests
    (`PairsNamed`, `RoundFits`); the rotation adds a player who is counted with the first group
    (`RotationCounted`); the lines an extension adds name the members of the session (`ExtCounted`), who
    are the former ones, counted already, and those who join, counted once the session has one line more
    (`Adds`, `JoinedBy`).
  - The escalation keeps the former attempt: it is counted as the new one is, whichever is taken.

  The joker is left out: when he is a voter himself he stands in on lines of others while no group of
  his has a slot. The property once included him, and TLC refutes it on an input where the joker votes
  (`JokerInvolved` of the run `plan`).
  Assumed besides (`InputsAssumption`): preferences, margin and limits are numbers, a rule allows one booking a
  day at least (`RuleForm.tsx: 263`) and a player prefers 1 to 6 rounds (`playerPlaySlots.ts: 31`); votes and
  volunteers are lists of players, there is a list of votes for each hour, a member votes for one hour, once, and
  is a volunteer once. `CountInv` was checked by TLC on the inputs of the run `plan`.

- `VotersPlacedOnce`, `PriorityKeptApart`, `NamesAlwaysAccepted`, `EverybodyNamedEnough` (`PlanPlayersProofs`): four
  parts of `PlayersSound`.
  - `EveningOk` is what the cascade of solo voters and the margin make of the votes (`Cascaded`, `CascadeKeeps`,
    `MarginKeeps`): every voter at one hour. Who moves is defined by recursion over the hours, so
    that there is such a function has to be shown first (`MovesExist`: an hour's voter moves when the hours
    before it where somebody was alone, back to the last where nobody was, are even in number); what it is for
    an hour then only depends on the hour before.
  - `SeatInv` says who is seated: the players of the plan are those of the hour, each once, and its groups
    and pairs share nobody (`SeatsOk`, `GroupSeats`, `PairsApart`); volunteers still to be asked play nowhere
    and have lent their name to nobody (`Reserve`); the members of a session are voters, each once (`Team`).
    Of the order of priority it is enough to know where it puts those who have it (`PrioritizedIs`).
  - `FineInv` says that the lines of every list are `Fine`: plans done, plan under construction, former attempt,
    rounds added. Who may stand in for whom is `Standing` (`ResolvedNames`), and `ExtensionNames` for the limit of
    the day in an extension.
  - `EnoughInv` says of a group's lines so far that each member is named on as many as `TeamrNamesForRound` gives
    them, but for the lines on which somebody stands in. Of three members each is named two rounds of every
    three, so twelve rounds name each eight times (`TwoOfThree`, `NamedTwelve`) and nobody asks for more than six
    (`RoundsEnough`).

  The first form of `NamesAccepted` was false: a joker who is not registered himself is booked as the partner,
  the code looks at the others' registration only (`jokerSubstitution.ts`). The property says so now, and such a
  joker is among the inputs of the run. Assumed besides: the list of priority names nobody twice, the code
  makes a set of it (`playerPriority.ts: 13`).

Assumed for the allocation: finitely many hours, and that null is no player; for the votes, finitely many
members besides, and that a retracted vote is none of the options, hours and the substitute's place.

Only model-checked, and why: all liveness (`EveryoneRecorded`, `AnomalyTold` and the like), fairness and
`ENABLED` being out of the prover's reach. Of the
plan, the other two parts of `PlayersSound`: who is on two courts at a time and how far the limit of the day goes
(`OnePlaceAtATime`, `LimitButRotation`), which relate every line of a day to every other.

## 6. Not modelled

- Pages and forms of the UI, message texts, the LLM extraction, scripts and migrations: they keep no state of
  their own or run before the pods start.
- Several jobs of one rule and the cascade of a closure over all jobs: jobs share no state but the pinned
  messages of the previous one, which `RosterPublish` and `DayOfMatch` have; the cascade is a loop that treats
  each job on its own and collects the errors. The intersection of a closure with dates and hours is
  arithmetic on data without interleaving.
- Editing a job before its poll: it changes data that nothing has read.
- The pass of the tick that unpins a closed poll, and the pin of the announcement: the pattern of the recap
  in `DayOfMatch`, on other columns.
- In the plan: effective play times and warnings, which describe the plan without changing it, and the
  simulation of a scenario, which calls the same functions. In the booking: the QR codes.
- In the listener: an acknowledgement wait that expires while the handler still runs; the format of the
  messages relayed.
- In the identities: the nodes of one job run one at a time there, in a single worker; who has been told is
  in its memory.

## 7. Seen while modelling

Where the code does less than one might expect, the property above says up to where it goes. In particular:

Pipeline
- The stage check of `triggerSendPoll` does not protect against a double request: the checkpoint shows the
  poll only when the node has returned (`scheduler.ts:579-593`). A recompute may start after a booking
  (`scheduler.ts:675-688`). Stage `error` shows while a node is executing, and a retry is then accepted.
  `triggerCollectVotes` may compute the plan when the checkpoint has moved on since its check. `AtMostOnce` is
  therefore about the calendar alone: the run `pipeline_cron` has no manual retry.
- A restart starts the go wait again for the jobs of enabled rules only (`scheduler.ts:535`), where the comment
  above speaks of every job left paused (`scheduler.ts:528`). A job whose rule is disabled at that
  moment waits for its go without anybody listening, even once the rule is enabled again, until somebody uses the
  go of the interface or the pod restarts once more. `GoWaitEnds` excepts the job a restart has passed over.
- A closure declared while a node executes judges the job by a checkpoint of before (`closureImpact.ts:31`).
- With two waits pending, the slower one puts the shared Telegram offset back (`telegram.ts:33-48`), and a
  wait started later may end on a go that had been used.

Roster
- A writer slower than two minutes loses its claim and goes on writing: `OneWriter` and `FinalStays` except the
  claim that was outlasted (`slow`).
- A restart between a pin and its record (`publishRoster.ts:126`, `166`) leaves two messages pinned; a lost
  answer of huddle-bot (`publishRoster.ts:145`), a roster the row does not know. A publication under way may
  follow the stop of the roster (`rosterTick.ts:95`).

Planning
- When nobody can stand in for a player who is not registered, the extension of a session goes round without
  changing anything (`sessionExtension.ts:257`): `TerminatesIfCovered` states where it ends.
- The rotation counts the lines of one court only: a player may exceed the limit of the day
  (`sessionExtension.ts:272`, against `docs/spec/regles-fonctionnelles.md:132`) and an hour its courts
  (the comment of `groupBookingPlan.ts:332-335`). So may a late player: the session he joins goes on for him at a
  time when others of the hour hold the courts of the rule (`sessionExtension.ts:218-351`). A volunteer put in because of the limit is not checked for
  his registration (`sessionExtension.ts:275`).
- A player may be named on two courts at a time. Only the first pair of a round is asked whether it plays at its
  time already (`groupBookingPlan.ts:351`): of five pairs, with a rule of four courts and two players a court, three
  courts free at two times and four at a third, the last pair gets two courts at one of them (`ManyPairs`). The rotation
  prolongs a court with those who were on it, and looks at that court only: when pairs have changed courts, some of
  them play elsewhere then (`Switching`). `OnePlaceAtATime` states where nobody is.
- A joker who votes or lends his name is treated as the joker too: he may be the holder of a line, and stand in for
  another player on a line of his own group (`JokerInvolved`, `JokerApart`).
- The slots of a line set apart as out of its window stay in the groups, and are offered to the next hours:
  those who play are then counted wrong (`planJob.ts:434`, against `unbookedPlayers.ts:20-22`).

Booking
- The second volunteer of a line with two of them is not counted (`announce.ts:198-201`, against `181-182`).
  Two different partners without credit are enough for the joker to be held exhausted. When he is also one of the
  volunteers of the evening, he is then not asked as a volunteer either (`announce.ts:191-194`).
- A retry after a crash is refused, as taken, the lines it holds already, and may tell the group that nothing
  is booked. The comment of `announce.ts:726-732` still speaks of the rollback that ADR-027 removed. A go on a
  plan whose slots are all out of the window is answered as if no go had come (`announce.ts:680-697`).

Messages of the day
- A collection run again sends a second recap, and the row forgets the first (`jobRuns.ts:196`). The
  confirmation is sent before it is marked: a second tick in between, or a crash, sends it again, and
  `ConfirmationOnce` excepts both. When the answer of the recap's pin is lost, `pinBestEffort` says that it failed
  (`pinning.ts:25-33`) and the recap, pinned, is not remembered (`collectVotes.ts:373-376`): nobody unpins it and it
  stays for its week. `RecapTracked` excepts that recap. A cancellation whose poll was deleted may fail at its row
  (`server.ts:499-500`). A lost answer takes the mark of a deleted poll back.

Crons
- A rule is saved even when the worker cannot be told (`actions.ts:59-66`), and a reload clears the tasks before it
  reads the rules (`cronRegistry.ts:175-177`): the former tasks, or none, are then alive until the next edit that is
  heard or the next restart, and a former cron, which reads the new row when it rings, counts its date from the
  weekday of another one. A pod that starts reads the rules before it connects and answers after it has scheduled
  them (`index.ts:15-29`): an edit in between is not heard either. `ScheduledAsStored` and `RightDay` except what is
  `unheard` and what was read then. A callback or a creation of a job that the database refuses is not
  tried again before the next ring (`cronRegistry.ts:112-114`, `cronJitter.ts:62-64`).
- Reloads that overlap may leave tasks of the former rule (`cronRegistry.ts:173`); a delay that crosses midnight
  works for another date; the confirmation, ten minutes early, may come before the decision; a tick that falls
  into a reload is missed.

Listener and identities
- Events of a group that has just been enabled are acknowledged without being stored until the list is read
  again: they are lost, and `EventuallyStored` excepts them. The page misses what is broadcast while it is not connected.
- `refreshVotes.ts:90-91` says that the keys are given back when the message fails so that a later pass tries
  again. The identity without a player is merged before the message: a voter with a number is then no longer
  new, and is not mentioned again. A voter known by name who has a number is told of as one whom a
  recomputation will search for, but votes of that kind carry no number there.
- A failed search that is merged first stands against the successful one of a pass that overlaps, until the
  next recomputation.
