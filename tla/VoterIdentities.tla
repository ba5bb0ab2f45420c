-------------------------- MODULE VoterIdentities --------------------------
(***************************************************************************)
(* Who the voters of a living roster are (apps/worker:                       *)
(* roster/refreshVotes.ts, graph/unresolvedVoters.ts, rosterStore,           *)
(* scheduler/scheduler.ts).                                                  *)
(*                                                                           *)
(* The collection stores an identity for each voter of its photo.  Those who *)
(* vote afterwards are met by passes over the stored votes: the tick of      *)
(* every minute, the plan, "Recalculer le plan", the announcement.  A pass   *)
(* reads the row of the job, looks up whom the row does not know, merges     *)
(* what it found into the row and tells the organiser whom it did not find.  *)
(* Passes overlap, each with the row it read at first.                       *)
(***************************************************************************)
EXTENDS Naturals, FiniteSets

CONSTANTS
  Tel,          \* voters known by their phone number
  Unmatched,    \* voters without a number or a name of the photo, known by their JID
  Tasks,        \* passes in flight together
  Mishaps,      \* "lookup", "refuse", "lose", "db", "crash"
  MaxOps,       \* bound on the plans, recomputations and announcements
  MaxMishaps    \* bound on the failures

Voters == Tel \cup Unmatched

ASSUME VoterIdentitiesAssumption ==
  /\ Tel \cap Unmatched = {}
  /\ Mishaps \subseteq {"lookup", "refuse", "lose", "db", "crash"}
  /\ MaxOps \in Nat /\ MaxMishaps \in Nat

VARIABLES
  voted,       \* who has a vote stored that makes him play or lend his name
  registered,  \* whose number resa-squash knows; external
  identities,  \* job_runs.roster_identities
  photo,       \* who was playing at the collection
  stage,       \* "collected", "planned", "announced": whether the final roster is stored
  frozen,      \* which unmatched votes are part of the snapshot of the last plan
  missed,      \* whom the last plan should have counted and did not; history
  notified,    \* notifiedUnresolvedKeys, in the memory of the worker
  told,        \* was the organiser told of a voter: 0, 1, or 2 for more than once; external
  task,        \* the passes
  ops, mishaps,
  excuse       \* messages lost or refused, and restarts; history

worker == <<notified, task>>
job == <<identities, photo, stage, frozen, missed>>
vars == <<voted, registered, job, worker, told, ops, mishaps, excuse>>

\* An identity: no entry, an entry without a player, an entry with one.
Absent == "absent"
Nobody == "nobody"
Player == "player"
NoEntry == [v \in Voters |-> Absent]
Known(ids) == {v \in Voters : ids[v] = Player}

\* jsonb ||: for the same key, the right one wins.
Merged(left, right) == [v \in Voters |-> IF right[v] # Absent THEN right[v] ELSE left[v]]

Idle == [at |-> "idle", kind |-> "none", final |-> FALSE, row |-> NoEntry, votes |-> {},
         patch |-> NoEntry, sending |-> {}, owed |-> {}]

\* The collection has stored its photo: who has a number was looked up.
Init ==
  /\ voted \in SUBSET Tel /\ registered \in SUBSET Tel
  /\ photo = voted
  /\ identities = [v \in Voters |-> IF v \notin voted THEN Absent
                                    ELSE IF v \in registered THEN Player ELSE Nobody]
  /\ stage = "collected" /\ frozen = {} /\ missed = {}
  /\ notified = {} /\ told = [v \in Voters |-> 0]
  /\ task = [t \in Tasks |-> Idle]
  /\ ops = 0 /\ mishaps = 0 /\ excuse = {}

Goes(t, r) == task' = [task EXCEPT ![t] = r]
On(t, place) == [task[t] EXCEPT !.at = place]
Fine == UNCHANGED <<mishaps, excuse>>
Mishap(kind) ==
  /\ kind \in Mishaps /\ mishaps < MaxMishaps
  /\ mishaps' = mishaps + 1 /\ excuse' = excuse \cup ({kind} \ {"lookup", "db"})

-----------------------------------------------------------------------------
(* Outside the worker.                                                       *)

Vote(v) ==
  /\ v \notin voted /\ voted' = voted \cup {v}
  /\ UNCHANGED <<registered, job, worker, told, ops, mishaps, excuse>>

\* The organiser associates the number of a voter with his account.
Register(v) ==
  /\ v \in Tel \ registered /\ registered' = registered \cup {v}
  /\ UNCHANGED <<voted, job, worker, told, ops, mishaps, excuse>>

-----------------------------------------------------------------------------
(* A pass starts with the row as it is then.                                 *)

Pass(kind) == [Idle EXCEPT !.at = "read", !.kind = kind, !.row = identities,
                           !.final = (stage = "announced")]

Tick(t) ==
  /\ task[t] = Idle /\ Goes(t, Pass("tick"))
  /\ UNCHANGED <<voted, registered, job, notified, told, ops, mishaps, excuse>>

\* One node of the job runs at a time: the plan, its recomputation, the announcement.
Starts(t, kind, place) ==
  /\ task[t] = Idle /\ \A o \in Tasks : task[o].kind \in {"none", "tick"}
  /\ ops < MaxOps /\ ops' = ops + 1 /\ Goes(t, [Pass(kind) EXCEPT !.at = place])
  /\ UNCHANGED <<voted, registered, job, notified, told, mishaps, excuse>>

Plan(t) == stage = "collected" /\ Starts(t, "plan", "read")
Recompute(t) == stage = "planned" /\ Starts(t, "recompute", "read")
Announce(t) == stage = "planned" /\ Starts(t, "announce", "book")

\* The courts are booked and the base of the final roster is stored, on the snapshot of
\* the row read before; the text is then computed with the identities of that row.
Book(t) ==
  /\ task[t].at = "book"
  /\ stage' = "announced" /\ Goes(t, [On(t, "read") EXCEPT !.final = TRUE])
  /\ UNCHANGED <<voted, registered, identities, photo, frozen, missed, notified, told, ops, mishaps, excuse>>

-----------------------------------------------------------------------------
(* resolveNewIdentities: who plays and has no entry in the row read at first. *)

News(t) == {v \in voted : task[t].row[v] = Absent}

\* lookup_player_by_phone; a failure is stored as an unknown number is.
Lookup(v, failed) == IF v \in registered /\ v \notin failed THEN Player ELSE Nobody

Patch(t, failed) ==
  [v \in Voters |-> IF v \in News(t) THEN Lookup(v, failed) ELSE Absent]

\* The plan and its recomputation go on with the votes and the identities; the text of
\* the others is not told apart here.
Counts(r) == r.kind \in {"plan", "recompute"}
Kept(r) == IF Counts(r) THEN r ELSE [r EXCEPT !.row = NoEntry, !.votes = @ \cap Unmatched]

Read(t) ==
  /\ task[t].at = "read"
  /\ \E failed \in SUBSET (News(t) \ Unmatched) :
       /\ IF failed = {} THEN Fine ELSE Mishap("lookup")
       /\ Goes(t, Kept([task[t] EXCEPT !.votes = voted, !.patch = Patch(t, failed),
                                      !.at = IF News(t) = {} THEN "tell" ELSE "merge"]))
  /\ UNCHANGED <<voted, registered, job, notified, told, ops>>

\* Mutant: what a pass has found replaces what the row has.
KeepLast(row, patch) == Merged(row, patch)

\* mergeRosterIdentities, keep: what the row has wins.
Keep(row, patch) == Merged(patch, row)

Merge(t) ==
  /\ task[t].at = "merge"
  /\ \/ identities' = Keep(identities, task[t].patch) /\ Goes(t, On(t, "tell")) /\ Fine
     \/ UNCHANGED identities /\ Goes(t, Idle) /\ Mishap("db")
  /\ UNCHANGED <<voted, registered, photo, stage, frozen, missed, notified, told, ops>>

-----------------------------------------------------------------------------
(* Telling the organiser: late voters not found, votes nobody can be matched *)
(* with.  A key is taken before the message is sent, and given back if the    *)
(* sending fails.                                                            *)

Unresolved(t) == {v \in Tel : task[t].patch[v] = Nobody}

\* Those of the votes applied, which are the ones that the base does not hold yet.
Anomalies(t) == (task[t].votes \cap Unmatched) \ (IF task[t].final THEN frozen ELSE {})

Finished(t) == IF Counts(task[t]) THEN On(t, "done") ELSE Idle

\* The voters not found in one message, then the votes nobody can be matched with.
Fresh(t, about) == about \ notified
Turn(t) ==
  IF task[t].at = "tell" /\ Fresh(t, Unresolved(t)) # {} THEN "warning"
  ELSE IF Fresh(t, Anomalies(t)) # {} THEN "flagging" ELSE "done"

Message(t) == [On(t, Turn(t)) EXCEPT
                 !.sending = Fresh(t, IF Turn(t) = "warning" THEN Unresolved(t) ELSE Anomalies(t))]

\* Mutant: the keys are taken once the message has been sent.
TakeLate(t) ==
  /\ task[t].at \in {"tell", "flag"}
  /\ Goes(t, IF Turn(t) = "done" THEN Finished(t) ELSE Message(t))
  /\ UNCHANGED <<voted, registered, job, notified, told, ops, mishaps, excuse>>

Take(t) ==
  /\ task[t].at \in {"tell", "flag"}
  /\ IF Turn(t) = "done" THEN Goes(t, Finished(t)) /\ UNCHANGED notified
     ELSE Goes(t, Message(t)) /\ notified' = notified \cup Message(t).sending
  /\ UNCHANGED <<voted, registered, job, told, ops, mishaps, excuse>>

GivenBack(t) == notified \ task[t].sending

Tell(t) ==
  LET sending == task[t].sending
      reached == told' = [v \in Voters |-> IF v \in sending /\ told[v] < 2 THEN told[v] + 1 ELSE told[v]]
  IN /\ task[t].at \in {"warning", "flagging"}
     /\ \/ reached /\ notified' = notified \cup sending /\ Fine
        \/ reached /\ notified' = GivenBack(t) /\ Mishap("lose")
        \/ UNCHANGED told /\ notified' = GivenBack(t) /\ Mishap("refuse")
     /\ Goes(t, IF task[t].at = "flagging" THEN [Finished(t) EXCEPT !.sending = {}]
                ELSE [On(t, "flag") EXCEPT !.sending = {}])
     /\ UNCHANGED <<voted, registered, job, ops>>

-----------------------------------------------------------------------------
(* What a pass is for.                                                       *)

\* What the pass returns: its own findings, under those of the row read at first.
Returned(t) == Merged(task[t].patch, task[t].row)
Counted(t) == task[t].votes \cap Known(Returned(t))

\* BookSlots: the plan counts the players; the snapshot is the votes it was made from.
PlanDone(t) ==
  /\ task[t].at = "done" /\ task[t].kind = "plan"
  /\ stage' = "planned" /\ frozen' = task[t].votes \cap Unmatched
  /\ missed' = task[t].owed \ Counted(t)
  /\ Goes(t, Idle)
  /\ UNCHANGED <<voted, registered, identities, photo, notified, told, ops, mishaps, excuse>>

\* relookupUnresolvedVoters: those without a player whose key is a number.
ToRelookup(t) == (task[t].votes \cap Tel) \ Known(Returned(t))

Relookup(t) ==
  /\ task[t].at = "done" /\ task[t].kind = "recompute"
  /\ \E failed \in SUBSET ToRelookup(t) :
       LET found == (ToRelookup(t) \cap registered) \ failed
       IN /\ IF failed = {} THEN Fine ELSE Mishap("lookup")
          /\ Goes(t, [On(t, "remember") EXCEPT
                        !.patch = [v \in Voters |-> IF v \in found THEN Player ELSE Absent],
                        !.owed = (task[t].votes \cap Known(identities)) \cup found])
  /\ UNCHANGED <<voted, registered, job, notified, told, ops>>

\* Mutant: the row wins over what the organiser has just put right.
RememberIfAbsent(row, patch) == Merged(patch, row)

\* mergeRosterIdentities, override.
Override(row, patch) == Merged(row, patch)

\* rememberIdentified.
Remember(t) ==
  /\ task[t].at = "remember"
  /\ \/ identities' = Override(identities, task[t].patch) /\ Fine
        /\ Goes(t, [On(t, "replan") EXCEPT !.patch = NoEntry])
     \/ UNCHANGED identities /\ Goes(t, Idle) /\ Mishap("db")
  /\ UNCHANGED <<voted, registered, photo, stage, frozen, missed, notified, told, ops>>

\* The graph goes back before its plan, which reads the row again.
Replan(t) ==
  /\ task[t].at = "replan"
  /\ stage' = "collected" /\ Goes(t, [Pass("plan") EXCEPT !.owed = task[t].owed])
  /\ UNCHANGED <<voted, registered, identities, photo, frozen, missed, notified, told, ops, mishaps, excuse>>

Crash ==
  /\ Mishap("crash")
  /\ task' = [t \in Tasks |-> Idle] /\ notified' = {}
  /\ UNCHANGED <<voted, registered, job, told, ops>>

Step(t) ==
  Read(t) \/ Merge(t) \/ Take(t) \/ Tell(t) \/ Book(t) \/ PlanDone(t) \/ Relookup(t) \/ Remember(t) \/ Replan(t)

Next ==
  \/ \E v \in Voters : Vote(v) \/ Register(v)
  \/ \E t \in Tasks : Tick(t) \/ Plan(t) \/ Recompute(t) \/ Announce(t) \/ Step(t)
  \/ Crash

Spec == Init /\ [][Next]_vars

\* A tick comes every minute; a call ends, with an answer or an error.
FairSpec == Spec /\ \A t \in Tasks : WF_vars(Step(t)) /\ WF_vars(Tick(t))

-----------------------------------------------------------------------------
(* Properties.                                                               *)

Identities == [Voters -> {Absent, Nobody, Player}]

TypeOK ==
  /\ identities \in Identities /\ Known(identities) \subseteq registered
  /\ stage \in {"collected", "planned", "announced"} /\ frozen \subseteq voted \cap Unmatched
  /\ \A t \in Tasks :
       /\ task[t].row \in Identities /\ task[t].patch \in Identities
       /\ task[t].sending \subseteq notified
  /\ ops \in 0 .. MaxOps /\ mishaps \in 0 .. MaxMishaps

\* Whoever has been identified stays so: neither a failed search nor a pass that started
\* with an older row takes a player away ("une recherche ratée n'écrase jamais une
\* identification", rosterStore.ts).
NeverForgotten == [][Known(identities) \subseteq Known(identities')]_vars

\* "Recalculer le plan" gives what the organiser was told to ask for: the plan it ends with
\* counts everyone it has found, and everyone whom the row knew by then, whatever the
\* ticks merge meanwhile.
PlanKnowsIdentified == missed = {}

\* The organiser is told once of a voter, though passes overlap and each meets him: again
\* only after an answer of Telegram was lost, or for a vote nobody can be matched with,
\* after a restart.
ToldOnce ==
  "lose" \in excuse \/ \A v \in Voters :
    told[v] <= 1 \/ (v \in Unmatched /\ "crash" \in excuse)

\* Nobody is left out in silence: a late voter with a number, stored without a player, has
\* been mentioned, or will be by a pass under way; a failed sending is not made up for.
LeftOutIsTold ==
  \A v \in Tel :
    identities[v] = Nobody /\ told[v] = 0 /\ excuse \cap {"refuse", "crash"} = {} =>
      \/ \E t \in Tasks : v \in Unresolved(t) /\ task[t].at \in {"tell", "warning"}
      \/ v \in photo

\* Every voter ends with an entry in the row.
EveryoneRecorded == \A v \in Voters : v \in voted ~> identities[v] # Absent

\* A vote that nobody can be matched with reaches the organiser, at the next pass when the
\* sending fails, unless the plan has taken it into its base and is announced by then.
AnomalyTold ==
  \A v \in Unmatched : v \in voted ~> told[v] > 0 \/ (stage = "announced" /\ v \in frozen)

\* The parts above, as they are checked.  The organiser hears of everybody left out, once.
OrganiserTold == TypeOK /\ ToldOnce /\ LeftOutIsTold

\* Every vote comes to an end, with a player for good or with a word to the organiser.
VotesSettled == NeverForgotten /\ EveryoneRecorded /\ AnomalyTold
=============================================================================
