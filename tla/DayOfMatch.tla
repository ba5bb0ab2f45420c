----------------------------- MODULE DayOfMatch -----------------------------
(***************************************************************************)
(* What a job says to its group besides the roster, and takes back: the      *)
(* poll and the recap of the legacy collection (apps/worker:                 *)
(* graph/nodes/collectVotes.ts), the confirmation, the reminder before the    *)
(* match and the unpinning of the recap by the tick of every minute           *)
(* (scheduler/scheduler.ts, scheduler/startReminder.ts,                       *)
(* scheduler/recapUnpin.ts, graph/pinning.ts), the cancellation.              *)
(*                                                                           *)
(* The tasks run side by side: two ticks when one lasts more than a minute,   *)
(* two pods while one replaces the other, a trigger of the interface.  Each   *)
(* reads the row of the job, calls huddle-bot, then writes the row.           *)
(***************************************************************************)
EXTENDS Naturals, Sequences

CONSTANTS
  Tasks,
  Ops,         \* what may be started: "collect", "confirm", "cancel", "nextPoll"
  Mishaps,     \* "refuse", "lose", "db", "crash"
  MaxOps, MaxMishaps

ASSUME BoundsAreNumbers == MaxOps \in Nat /\ MaxMishaps \in Nat

VARIABLES
  row,        \* the job in the database
  announced,  \* the job is at stage finished-announced
  clock,      \* where the match is
  poll,       \* the poll in the group: "open", or who deleted it; external
  pinned,     \* recaps pinned in the group; external
  sent,       \* reminders and confirmations delivered; external
  task,       \* where each task is, the recap it works on
  recaps,     \* recaps pinned so far
  ops, mishaps,
  excuse      \* what has gone wrong: "lost", "pin", "db", "crash", "overlap"; history

vars == <<row, announced, clock, poll, pinned, sent, task, recaps, ops, mishaps, excuse>>

None == 0
Times == <<"before", "due", "play", "past", "stale">>
Idle == [at |-> "idle", recap |-> None]
At(p) == [at |-> p, recap |-> None]
With(p, m) == [at |-> p, recap |-> m]
Busy(places) == \E o \in Tasks : task[o].at \in places

Init ==
  /\ row = [cancelled |-> FALSE, confirmed |-> FALSE, claimed |-> FALSE, recap |-> None,
            closed |-> FALSE, deleted |-> FALSE, votes |-> "none"]
  /\ announced = FALSE /\ clock = 1
  /\ poll = "open" /\ pinned = {}
  /\ sent = [reminder |-> 0, confirmation |-> 0]
  /\ task = [t \in Tasks |-> Idle]
  /\ recaps = 0 /\ ops = 0 /\ mishaps = 0 /\ excuse = {}

-----------------------------------------------------------------------------
(* Steps are described by what they change.                                  *)

Goes(t, to) == task' = [task EXCEPT ![t] = to]
Column(c, v) == row' = [row EXCEPT ![c] = v]
World == <<announced, clock>>
Group == <<poll, pinned, sent, recaps>>

Fine == UNCHANGED <<mishaps, excuse>>
Mishap(kind, why) ==
  /\ kind \in Mishaps /\ mishaps < MaxMishaps
  /\ mishaps' = mishaps + 1 /\ excuse' = excuse \cup why

StartsAt(t, op, place) ==
  /\ op \in Ops /\ ops < MaxOps /\ ops' = ops + 1
  /\ task[t] = Idle /\ Goes(t, place)

\* A write of the row, lost when the database fails.
Writes(t, from, c, v, to) ==
  /\ task[t].at = from
  /\ \/ Column(c, v) /\ Fine
     \/ Mishap("db", {"db"}) /\ UNCHANGED row
  /\ Goes(t, to)
  /\ UNCHANGED <<World, Group, ops>>

-----------------------------------------------------------------------------
(* The reminder before the match (sendStartReminderIfDue).                   *)

ReminderDue == announced /\ ~row.cancelled /\ ~row.claimed /\ Times[clock] = "due"

Remind(t) ==
  /\ task[t] = Idle /\ ReminderDue
  /\ Goes(t, At("claim"))
  /\ UNCHANGED <<row, World, Group, ops, mishaps, excuse>>

\* Mutant: the row is written without looking at it.
ClaimAnyway == TRUE

\* claimStartReminder: one update of the database gets the row.
Claimable == ~row.claimed

Claim(t) ==
  /\ task[t].at = "claim"
  /\ \/ Claimable /\ Column("claimed", TRUE) /\ Goes(t, At("remind")) /\ Fine
     \/ UNCHANGED row /\ Goes(t, Idle) /\ ((~Claimable /\ Fine) \/ Mishap("db", {"db"}))
  /\ UNCHANGED <<World, Group, ops>>

SendReminder(t) ==
  LET delivered == sent' = [sent EXCEPT !.reminder = @ + 1]
  IN /\ task[t].at = "remind"
     /\ \/ delivered /\ Goes(t, Idle) /\ Fine
        \/ delivered /\ Goes(t, At("release")) /\ Mishap("lose", {"lost"})
        \/ UNCHANGED sent /\ Goes(t, At("release")) /\ Mishap("refuse", {})
     /\ UNCHANGED <<row, World, poll, pinned, recaps, ops>>

Release(t) == Writes(t, "release", "claimed", FALSE, Idle)

-----------------------------------------------------------------------------
(* The confirmation (triggerBookingConfirmation): sent, then marked.         *)

ToConfirm == announced /\ ~row.cancelled /\ ~row.confirmed

Confirm(t) ==
  /\ ToConfirm /\ StartsAt(t, "confirm", At("confirm"))
  /\ excuse' = IF Busy({"confirm", "mark"}) THEN excuse \cup {"overlap"} ELSE excuse
  /\ UNCHANGED <<row, World, Group, mishaps>>

SendConfirmation(t) ==
  LET delivered == sent' = [sent EXCEPT !.confirmation = @ + 1]
  IN /\ task[t].at = "confirm"
     /\ \/ delivered /\ Goes(t, At("mark")) /\ Fine
        \/ delivered /\ Goes(t, Idle) /\ Mishap("lose", {"lost"})
        \/ UNCHANGED sent /\ Goes(t, Idle) /\ Mishap("refuse", {})
     /\ UNCHANGED <<row, World, poll, pinned, recaps, ops>>

Mark(t) == Writes(t, "mark", "confirmed", TRUE, Idle)

-----------------------------------------------------------------------------
(* Unpinning the recap: by the tick, a cancellation or the next poll.        *)

\* isRecapUnpinDue; a job without a slot waits for 23:59, here for the next day.
UnpinDue ==
  \/ row.cancelled \/ Times[clock] \in {"past", "stale"}
  \/ announced /\ Times[clock] = "play"

\* Mutant: the unpinning is never given up.
NeverStale == FALSE

IsStale == Times[clock] = "stale"

\* listJobRunsWithPinnedRecap: the jobs of the day or of the past, and the cancelled ones.
Listed == row.recap # None /\ (row.cancelled \/ Times[clock] # "before")

UnpinTick(t) ==
  /\ task[t] = Idle /\ Listed
  /\ \/ IsStale /\ Goes(t, With("forget", row.recap))
     \/ ~IsStale /\ UnpinDue /\ Goes(t, With("unpin", row.recap))
  /\ UNCHANGED <<row, World, Group, ops, mishaps, excuse>>

\* findPreviousPinnedRecap, whatever the day.
PreviousRecap == row.recap # None

\* unpinPreviousRecap, by the poll of the next job of the rule.
NextPoll(t) ==
  /\ PreviousRecap /\ StartsAt(t, "nextPoll", With("unpin", row.recap))
  /\ Fine /\ UNCHANGED <<row, World, Group>>

\* What remains to be done when huddle-bot refuses to unpin: nothing, until the next tick.
UnpinRefused(m) == Idle

Unpin(t) ==
  LET m == task[t].recap
  IN /\ task[t].at = "unpin"
     /\ \/ pinned' = pinned \ {m} /\ Goes(t, With("forget", m)) /\ Fine
        \/ pinned' = pinned \ {m} /\ Goes(t, UnpinRefused(m)) /\ Mishap("lose", {})
        \/ UNCHANGED pinned /\ Goes(t, UnpinRefused(m)) /\ (Mishap("refuse", {}) \/ (m \notin pinned /\ Fine))
     /\ UNCHANGED <<row, World, poll, sent, recaps, ops>>

Forget(t) == Writes(t, "forget", "recap", None, Idle)

-----------------------------------------------------------------------------
(* The legacy collection (createCollectVotesNode, closePoll).                *)

Collecting == {"read", "close", "delete", "note", "unmark", "recap", "pin", "remember", "deleteAgain", "noteAgain"}

\* votesFromLastCollect fails when no collection has recorded any.
VotesOfLastCollect == row.votes # "none"

\* A poll marked as closed is not read again: the votes recorded serve.
Collect(t) ==
  /\ ~row.cancelled
  /\ StartsAt(t, "collect", IF ~row.closed THEN At("read")
                            ELSE IF row.deleted \/ ~VotesOfLastCollect THEN Idle ELSE At("deleteAgain"))
  /\ excuse' = IF Busy(Collecting) THEN excuse \cup {"overlap"} ELSE excuse
  /\ UNCHANGED <<row, World, Group, mishaps>>

\* Mutant: nobody has answered, and that is recorded.
ReadingAnyway(p) == IF p = "open" THEN "true" ELSE "empty"

\* A poll that is gone has no answer: the reading is an error.
ReadingOf(p) == IF p = "open" THEN "true" ELSE "none"

ReadVotes(t) ==
  /\ task[t].at = "read"
  /\ \/ /\ ReadingOf(poll) # "none" /\ Fine
        /\ Column("votes", ReadingOf(poll)) /\ Goes(t, At("close"))
     \/ /\ (ReadingOf(poll) = "none" /\ Fine) \/ Mishap("refuse", {})
        /\ UNCHANGED row /\ Goes(t, Idle)
  /\ UNCHANGED <<World, Group, ops>>

\* The poll is old, or is not the one of the group: it stays.
LeavesPoll(t) ==
  /\ task[t].at \in {"close", "deleteAgain"}
  /\ Goes(t, IF task[t].at = "close" THEN At("recap") ELSE Idle)
  /\ Fine /\ UNCHANGED <<row, World, Group, ops>>

MarkClosed(t) ==
  /\ task[t].at = "close"
  /\ \/ Column("closed", TRUE) /\ Fine /\ Goes(t, At("delete"))
     \/ UNCHANGED row /\ Mishap("db", {"db"}) /\ Goes(t, At("recap"))
  /\ UNCHANGED <<World, Group, ops>>

Answered(t) == IF task[t].at = "delete" THEN At("note") ELSE At("noteAgain")
Unanswered(t) == IF task[t].at = "delete" THEN At("unmark") ELSE Idle

DeletePoll(t) ==
  /\ task[t].at \in {"delete", "deleteAgain"}
  /\ \/ poll = "open" /\ poll' = "collected" /\ Goes(t, Answered(t)) /\ Fine
     \/ poll = "open" /\ poll' = "collected" /\ Goes(t, Unanswered(t)) /\ Mishap("lose", {"lost"})
     \/ UNCHANGED poll /\ Goes(t, Unanswered(t)) /\ (Mishap("refuse", {}) \/ (poll # "open" /\ Fine))
  /\ UNCHANGED <<row, World, pinned, sent, recaps, ops>>

Unmark(t) == Writes(t, "unmark", "closed", FALSE, At("recap"))
Note(t) == Writes(t, "note", "deleted", TRUE, At("recap")) \/ Writes(t, "noteAgain", "deleted", TRUE, Idle)

\* sendRegistrationRecap: the message, its pin, then the row.  A message that is not to be pinned,
\* or has got no answer, needs nothing more.
SendRecap(t) ==
  /\ task[t].at = "recap"
  /\ \/ Goes(t, At("pin")) /\ Fine
     \/ Goes(t, Idle) /\ (Fine \/ Mishap("lose", {}) \/ Mishap("refuse", {}))
  /\ UNCHANGED <<row, World, Group, ops>>

\* pinBestEffort: only a pin that huddle-bot has confirmed is remembered.
PinRecap(t) ==
  LET m == recaps + 1
  IN /\ task[t].at = "pin"
     /\ \/ pinned' = pinned \cup {m} /\ recaps' = m /\ Goes(t, With("remember", m)) /\ Fine
        \/ pinned' = pinned \cup {m} /\ recaps' = m /\ Goes(t, Idle) /\ Mishap("lose", {"pin"})
        \/ UNCHANGED <<pinned, recaps>> /\ Goes(t, Idle) /\ Mishap("refuse", {})
     /\ UNCHANGED <<row, World, poll, sent, ops>>

Remember(t) == Writes(t, "remember", "recap", task[t].recap, Idle)

-----------------------------------------------------------------------------
(* Cancellation (handleCancelPoll, cancelJobForClosure): the poll is deleted, *)
(* the job cancelled, the recap of the row read at first unpinned.            *)

\* By hand, only before the votes are collected; by a closure, at any time.
Cancel(t) ==
  /\ ~row.cancelled
  /\ \/ ~row.closed /\ row.votes = "none" /\ StartsAt(t, "cancel", With("withdraw", row.recap))
     \/ StartsAt(t, "cancel", With(IF row.closed THEN "cancel" ELSE "closure", row.recap))
  /\ Fine /\ UNCHANGED <<row, World, Group>>

\* A closure goes on when the poll cannot be deleted, a cancellation by hand stops.
WithdrawPoll(t) ==
  LET m == task[t].recap
  IN /\ task[t].at \in {"withdraw", "closure"}
     /\ \/ poll = "open" /\ poll' = "withdrawn" /\ Goes(t, With("cancel", m)) /\ Fine
        \/ /\ \/ poll = "open" /\ poll' = "withdrawn" /\ Mishap("lose", {})
              \/ UNCHANGED poll /\ (Mishap("refuse", {}) \/ (poll # "open" /\ Fine))
           /\ Goes(t, IF task[t].at = "closure" THEN With("cancel", m) ELSE Idle)
     /\ UNCHANGED <<row, World, pinned, sent, recaps, ops>>

CancelRow(t) ==
  /\ task[t].at = "cancel"
  /\ \/ /\ Column("cancelled", TRUE) /\ Fine
        /\ Goes(t, IF task[t].recap = None THEN Idle ELSE With("unpin", task[t].recap))
     \/ UNCHANGED row /\ Mishap("db", {"db"}) /\ Goes(t, Idle)
  /\ UNCHANGED <<World, Group, ops>>

-----------------------------------------------------------------------------

Announced ==
  /\ ~announced /\ row.votes # "none" /\ Times[clock] = "before"
  /\ announced' = TRUE
  /\ UNCHANGED <<row, clock, Group, task, ops, mishaps, excuse>>

Advance ==
  /\ clock < Len(Times) /\ clock' = clock + 1
  /\ UNCHANGED <<row, announced, Group, task, ops, mishaps, excuse>>

Crash ==
  /\ Mishap("crash", IF \A t \in Tasks : task[t] = Idle THEN {} ELSE {"crash"})
  /\ task' = [t \in Tasks |-> Idle]
  /\ UNCHANGED <<row, World, Group, ops>>

Step(t) ==
  \/ Claim(t) \/ SendReminder(t) \/ Release(t) \/ SendConfirmation(t) \/ Mark(t)
  \/ Unpin(t) \/ Forget(t)
  \/ ReadVotes(t) \/ LeavesPoll(t) \/ MarkClosed(t) \/ DeletePoll(t) \/ Unmark(t) \/ Note(t)
  \/ SendRecap(t) \/ PinRecap(t) \/ Remember(t) \/ WithdrawPoll(t) \/ CancelRow(t)

Next ==
  \/ \E t \in Tasks : Step(t) \/ Remind(t) \/ UnpinTick(t)
  \/ \E t \in Tasks : Confirm(t) \/ NextPoll(t) \/ Collect(t) \/ Cancel(t)
  \/ Announced \/ Advance \/ Crash

Spec == Init /\ [][Next]_vars

\* A tick comes every minute and time passes; a call ends, with an answer or an error.
FairSpec ==
  /\ Spec /\ WF_vars(Advance)
  /\ \A t \in Tasks : WF_vars(Step(t)) /\ WF_vars(UnpinTick(t))

-----------------------------------------------------------------------------
(* Properties.                                                               *)

TypeOK ==
  /\ row.recap \in 0 .. recaps /\ row.votes \in {"none", "true", "empty"}
  /\ clock \in DOMAIN Times /\ poll \in {"open", "collected", "withdrawn"}
  /\ pinned \subseteq 1 .. recaps
  /\ \A t \in Tasks :
       /\ task[t].recap \in 0 .. recaps
       /\ task[t].at \in {"unpin", "forget", "remember"} => task[t].recap # None
  /\ ops \in 0 .. MaxOps /\ mishaps \in 0 .. MaxMishaps

\* At most one reminder per job reaches the group, whatever ticks and pods overlap
\* (ADR-036), as long as no answer of huddle-bot is lost.
ReminderOnce == sent.reminder <= 1 \/ "lost" \in excuse

\* A reminder taken by a tick that is over has been sent: a failure gives it back to the
\* next tick.  Only a restart or the database in between loses it.
ClaimMeansSent ==
  row.claimed /\ ~Busy({"remind", "release"}) =>
    sent.reminder >= 1 \/ excuse \cap {"crash", "db"} # {}

\* The confirmation goes out once, unless two triggers overlap or its mark is lost: it is
\* sent before it is marked, and nothing is taken first.
ConfirmationOnce == sent.confirmation <= 1 \/ excuse # {}

\* The poll is deleted by the collection only once its votes are recorded, and what is
\* recorded is never the silence of a deleted poll, even when two collections overlap.
VotesKept == poll = "collected" => row.votes = "true"

\* A poll that the collection has deleted is marked as closed, so that a retry does not
\* read it again; a lost answer or an overlap may take the mark back.
GoneIsClosed ==
  poll = "collected" => row.closed \/ excuse \cap {"lost", "overlap"} # {}

\* For the week a pin lasts, a pinned recap is known to the row or to the task that has just
\* pinned it, so that it ends unpinned.  The answer of the pin may be lost, and nobody knows
\* of it then; a crash or the database may come in between, and a collection that is run
\* again replaces the recap the row knows.
RecapTracked ==
  \A m \in pinned :
    \/ IsStale \/ row.recap = m \/ \E t \in Tasks : task[t] = With("remember", m)
    \/ excuse \cap {"pin", "crash", "db"} # {} \/ recaps > 1

\* A recap that the row knows is unpinned, or given up a week after the match.
RecapUnpinned == row.recap # None ~> row.recap = None

\* The parts above, as they are checked.  Reminder and confirmation each go out once, and a
\* reminder taken is a reminder sent.
SentOnce == TypeOK /\ ReminderOnce /\ ClaimMeansSent /\ ConfirmationOnce

\* What a collection leaves: the votes of the poll it has deleted, the mark of it, and a
\* recap whose pin is known.
CollectionSound == VotesKept /\ GoneIsClosed /\ RecapTracked
=============================================================================
