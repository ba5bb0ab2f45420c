---------------------------- MODULE VoteRoster ----------------------------
(***************************************************************************)
(* From a vote cast in WhatsApp to a seat in the final roster.             *)
(*                                                                         *)
(* The members vote at any time.  The listener stores each vote event once *)
(* (apps/listener), in the order it managed to; an event it failed to      *)
(* store comes back later.  The collection takes a photo of the poll, the  *)
(* plan takes a snapshot of the votes known by then, and the booking       *)
(* freezes the snapshot as the base of the final roster                    *)
(* (apps/worker/src/roster).  Nothing else is kept: the votes and the      *)
(* roster are replayed from that base each time they are needed, and are   *)
(* state functions here (LiveVotes, Roster).                               *)
(***************************************************************************)
EXTENDS Allocation, SequencesExt

CONSTANTS
  Substitute,   \* the option of who offers to lend his name
  Options,      \* the options a member may choose
  NoVote,       \* the choice of a member who has retracted his vote, or has none
  Undated,      \* the members of whom huddle-bot does not know when they voted
  Blank,        \* the members whose retractions huddle-bot may report without any option
  MaxCasts,     \* bound: votes cast from the collection on
  MaxLate       \* bound: events the listener fails to store at first

ASSUME VoteRosterAssumption ==
  /\ Players \subseteq Int          \* a voter is ordered by its phone number
  /\ IsFiniteSet(Players)
  /\ Undated \subseteq Players /\ Blank \subseteq Players
  /\ NoVote \notin Options \cup Hours \cup {Substitute} /\ Substitute \notin Hours /\ Nobody \notin Hours \cup {Substitute}
  /\ MaxCasts \in Nat /\ MaxLate \in Nat

VARIABLES
  sent,      \* the vote events of the poll in the order they were cast
  handled,   \* how many of them the listener has been handed
  late,      \* those it could not store and will be handed again
  stored,    \* the rows of whatsapp_resa_events in the order created_at
  stage,     \* where the job is
  listed,    \* the event ids a collection read before it reads the poll
  photo,     \* job_runs.roster_photo
  snapshot,  \* job_runs.roster_plan_snapshot
  base,      \* job_runs.roster_final
  casts      \* bound counter: votes cast since the start

worker == <<stage, listed, photo, snapshot, base>>
listener == <<handled, late, stored>>
votesVars == <<sent, handled, late, stored, stage, listed, photo, snapshot, base, casts>>

None == [option |-> Nobody, lastAt |-> -1]     \* no entry in the ledger
NoPhoto == [state |-> [p \in Players |-> None], ids |-> {0}]

-----------------------------------------------------------------------------
(* The poll, as huddle-bot counts it: the last vote of each member. *)
VotesOf(p) == {i \in DOMAIN sent : sent[i].voter = p}
Current(p) == IF VotesOf(p) = {} THEN [option |-> NoVote, at |-> 0]
              ELSE sent[Max(VotesOf(p))]

(* A candidate hour or an offer to lend one's name; null for all the rest. *)
NormalizeOption(option) == IF option \in Hours \cup {Substitute} THEN option ELSE Nobody

(* resolveVotes and photoState: who has no vote is not in the photo. *)
PhotoState ==
  [p \in Players |->
     IF Current(p).option = NoVote THEN None
     ELSE [option |-> NormalizeOption(Current(p).option),
           lastAt |-> IF p \in Undated THEN -1 ELSE Current(p).at]]

-----------------------------------------------------------------------------
(* Mutant: an older vote replaces a later one. *)
StaleNever(state, event) == FALSE

Stale(state, event) == event.at <= state[event.voter].lastAt

(* A retraction without any option is worth one only if the ledger knows one. *)
NothingToRetract(state, event) == event.empty /\ state[event.voter].option = Nobody

(* The ledger and one event: one that the base integrates is passed over. *)
ApplyEvent(events, known, ledger, i) ==
  LET event == events[i]
      option == NormalizeOption(event.option)
  IN  IF i \in known THEN ledger
      ELSE IF Stale(ledger.state, event) \/ NothingToRetract(ledger.state, event)
      THEN [ledger EXCEPT !.ids = @ \cup {i}]
      ELSE [state |-> [ledger.state EXCEPT ![event.voter] =
                         [option |-> option,
                          lastAt |-> IF event.empty THEN event.at - 1 ELSE event.at]],
            applied |-> Append(ledger.applied, [voter |-> event.voter, option |-> option]),
            ids |-> ledger.ids \cup {i}]

ApplyVoteEvents(from, rows) ==
  FoldLeft(LAMBDA ledger, i : ApplyEvent(sent, from.ids, ledger, i),
           [state |-> from.state, applied |-> <<>>, ids |-> from.ids], rows)

LiveVotes == ApplyVoteEvents(photo, stored)

-----------------------------------------------------------------------------
(* The base of the final roster and the roster replayed from it. *)
Yes(state, h) == {p \in Players : state[p].option = h}

Before(state, p, q) ==
  LET a == state[p].lastAt  b == state[q].lastAt
  IN  IF a = b THEN p < q ELSE a # -1 /\ (b = -1 \/ a < b)

Ordered(state, S) ==
  [k \in 1 .. Cardinality(S) |->
     CHOOSE p \in S : Cardinality({q \in S : Before(state, q, p)}) = k - 1]

InitialRosters(final) ==
  [h \in Hours |-> InitialHour(Ordered(final.state, Yes(final.state, h)), h \in final.taken)]

ApplyMoves(r, moves) ==
  FoldLeft(LAMBDA current, move : Move(current, move.voter, move.option), r, moves)

(* Mutant: the roster starts from the votes as they stand, not from its base. *)
RosterFromLiveVotes(rows) ==
  InitialRosters([base EXCEPT !.state = ApplyVoteEvents(base, rows).state])

RosterWith(rows) == ApplyMoves(InitialRosters(base), ApplyVoteEvents(base, rows).applied)
Roster == RosterWith(stored)

Published == stage = "booked"

-----------------------------------------------------------------------------
(* The members.  WhatsApp dates a vote to the second: only a vote that comes
   with an empty retraction of the same member has the date of another one. *)
CastBy(p, option, empty) ==
  LET n == Len(sent)
      now == IF n = 0 THEN 0 ELSE sent[n].at
      sameSecond == n > 0 /\ sent[n].voter = p /\ sent[n].empty
  IN  /\ casts < MaxCasts
      /\ option # Current(p).option
      /\ empty => option = NoVote /\ p \in Blank
      /\ \E at \in {now + 1} \cup (IF sameSecond THEN {now} ELSE {}) :
           sent' = Append(sent, [voter |-> p, option |-> option, empty |-> empty, at |-> at])
      /\ casts' = casts + 1
      /\ UNCHANGED <<listener, worker>>

Cast == \E p \in Players, option \in Options \cup {NoVote}, empty \in BOOLEAN :
          CastBy(p, option, empty)

(* The listener: one event after the other, each stored at most once, and a
   refused one redelivered after a delay. *)
Persist(i) == stored' = IF i \in Range(stored) THEN stored ELSE Append(stored, i)

HandleMessage ==
  /\ handled < Len(sent)
  /\ handled' = handled + 1
  /\ \/ Persist(handled + 1) /\ UNCHANGED late
     \/ Cardinality(late) < MaxLate /\ late' = late \cup {handled + 1} /\ UNCHANGED stored
  /\ UNCHANGED <<sent, casts, worker>>

Redeliver ==
  /\ \E i \in late \cup Range(stored) : Persist(i)
  /\ UNCHANGED <<sent, casts, handled, late, worker>>

(* The collection: the ids first, then the poll. *)
ListIds ==
  /\ stage \in {"open", "collected"}
  /\ stage' = "listing"
  /\ listed' = Range(stored)
  /\ UNCHANGED <<sent, casts, listener, photo, snapshot, base>>

ReadPoll ==
  /\ stage = "listing"
  /\ \E p \in Players : Current(p).option # NoVote
  /\ photo' = [state |-> PhotoState, ids |-> listed]
  /\ stage' \in {"collected", "open"}       \* "open": the step fails after the update
  /\ listed' = {}
  /\ UNCHANGED <<sent, casts, listener, snapshot, base>>

CollectFails ==
  /\ stage = "listing"
  /\ stage' = "open"
  /\ listed' = {}
  /\ UNCHANGED <<sent, casts, listener, photo, snapshot, base>>

Snapshot == [state |-> LiveVotes.state, ids |-> LiveVotes.ids]

(* The plan, computed or recomputed, with the votes stored by now. *)
Plan ==
  /\ stage \in {"collected", "planned"}
  /\ stage' = "planned"
  /\ snapshot' = Snapshot
  /\ UNCHANGED <<sent, casts, listener, listed, photo, base>>

(* The booking took a court for some of the hours that have players. *)
Book ==
  /\ stage = "planned"
  /\ stage' = "booked"
  /\ \E taken \in SUBSET {h \in Hours : Yes(snapshot.state, h) # {}} :
       base' = [state |-> snapshot.state, ids |-> snapshot.ids, taken |-> taken]
  /\ UNCHANGED <<sent, casts, listener, listed, photo, snapshot>>

(* The poll as it stands some time after it was sent: those who voted did so
   one after the other, and the listener has stored it all. *)
Opening(first) ==
  LET voters == Ordered([p \in Players |-> None], {p \in Players : first[p] # NoVote})
  IN  [i \in DOMAIN voters |->
         [voter |-> voters[i], option |-> first[voters[i]], empty |-> FALSE, at |-> i]]

VotesInit ==
  /\ \E first \in [Players -> Options \cup {NoVote}] : sent = Opening(first)
  /\ handled = Len(sent) /\ late = {} /\ stored = [i \in DOMAIN sent |-> i]
  /\ stage = "open" /\ listed = {} /\ photo = NoPhoto
  /\ snapshot = NoPhoto
  /\ base = [state |-> NoPhoto.state, ids |-> NoPhoto.ids, taken |-> {}]
  /\ casts = 0

VotesNext == Cast \/ HandleMessage \/ Redeliver
        \/ ListIds \/ ReadPoll \/ CollectFails \/ Plan \/ Book

VotesSpec == VotesInit /\ [][VotesNext]_votesVars
-----------------------------------------------------------------------------
VoterState == [option : Hours \cup {Substitute, Nobody}, lastAt : Int]
Ledger == [Players -> VoterState]

VotesTypeOK ==
  /\ sent \in Seq([voter : Players, option : Options \cup {NoVote}, empty : BOOLEAN, at : Nat])
  /\ handled \in 0 .. Len(sent)
  /\ late \subseteq 1 .. handled
  /\ Range(stored) \subseteq 1 .. handled /\ IsInjective(stored)
  /\ handled = Cardinality(late \cup Range(stored))
  /\ stage \in {"open", "listing", "collected", "planned", "booked"}
  /\ listed \subseteq Range(stored)
  /\ photo.state \in Ledger /\ snapshot.state \in Ledger /\ base.state \in Ledger
  /\ snapshot.ids \subseteq Range(stored) \cup {0}
  /\ stage \in {"planned", "booked"} => photo.ids \subseteq snapshot.ids
  /\ base.taken \subseteq Hours
  /\ casts \in 0 .. MaxCasts

(* The events of a member reached the database in the order of his votes. *)
InOrder(p) ==
  \A i, j \in DOMAIN stored :
    i < j /\ sent[stored[i]].voter = p /\ sent[stored[j]].voter = p => stored[i] < stored[j]

(* No vote is lost and none counts against a later one: once every event is
   stored, the ledger gives each member the vote the poll gives him, however
   the votes raced with the collection and whatever order the events came in.
   Two cases need the order of the votes: a retraction, which leaves no trace
   in the photo, and a member whose vote has no date there. *)
NoVoteLost ==
  photo # NoPhoto /\ Range(stored) = DOMAIN sent =>
    \A p \in Players :
      InOrder(p) \/ (Current(p).option # NoVote /\ p \notin Undated) =>
        LiveVotes.state[p].option = NormalizeOption(Current(p).option)

(* Where the snapshot cuts the events is of no consequence: replayed from the
   snapshot of the plan, the votes are what they are from the photo. *)
CutInvisible ==
  stage \in {"planned", "booked"} => ApplyVoteEvents(snapshot, stored).state = LiveVotes.state

(* The final roster and the votes agree: the players seated or waiting at an
   hour are those who vote for it, and each of them is there once. *)
RosterMatchesVotes ==
  Published =>
    LET votes == LiveVotes.state
        rosters == Roster
    IN  \A h \in Hours : Held(rosters[h]) = Yes(votes, h) /\ Orderly(rosters[h])

(* Nobody waits for an hour that has a free seat. *)
NoIdleSeat ==
  Published => LET rosters == Roster IN \A h \in Hours : Full(rosters[h])

(* The roster is never rewritten after the fact: with one more event in the
   database, late or not, it is the roster of before but for one move at most,
   of the member who voted. *)
NeverRewritten ==
  Published /\ stored # <<>> =>
    LET old == RosterWith(Front(stored))
        new == Roster
    IN  \/ new = old
        \/ \E option \in Hours \cup {Nobody} : new = Move(old, sent[Last(stored)].voter, option)

(* First come, first served: of two players who wait for the same hour, the
   next event neither gives the second one a seat nor puts him ahead while the
   first one still waits. *)
WaitingIsFair ==
  Published /\ stored # <<>> =>
    LET old == RosterWith(Front(stored))
        new == Roster
    IN  \A h \in Hours : FairTo(old[h], new[h])

(* The parts above, as they are checked.  Of the votes: none is lost on its way
   to the ledger, and where the plan cuts the events changes nothing. *)
LedgerSound == VotesTypeOK /\ NoVoteLost /\ CutInvisible

(* Of the roster: it seats or keeps waiting exactly those who vote for an hour,
   and leaves no seat free before somebody who waits. *)
RosterSound == RosterMatchesVotes /\ NoIdleSeat

(* Of one roster and the next: an event is one move at most, and no move lets
   anybody pass in front of another. *)
OneMovePerEvent == NeverRewritten /\ WaitingIsFair
=============================================================================
