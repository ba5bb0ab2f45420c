----------------------------- MODULE CourtPlan -----------------------------
(***************************************************************************)
(* The choices of the booking plan that depend on nothing but their         *)
(* arguments (apps/worker: planning/pairing, courtsNeeded, groups,          *)
(* courtAssignment; graph/playerPriority, capacityPlanning): who plays with *)
(* whom, on how many courts, in which rotation, on which court.             *)
(* Times are counted in rounds of 45 minutes, the length of a slot; a slot  *)
(* is a pair <<court, time>>, which is what its sessionId identifies.       *)
(***************************************************************************)
EXTENDS Integers, Sequences, FiniteSetsExt, SequencesExt

SQUASH_COURT_COUNT == 4
MIN_PLAYERS_PER_COURT_GROUP == 2
MAX_PLAYERS_PER_COURT_GROUP == 3
\* For a player without preferences.
DEFAULT_MIN_PLAY_SLOTS == 2

\* The arguments of a function in the order of their ranks, which are different numbers.
Sorted(rank) ==
  [k \in 1..Cardinality(DOMAIN rank) |->
     CHOOSE x \in DOMAIN rank : Cardinality({y \in DOMAIN rank : rank[y] < rank[x]}) = k - 1]

\* The elements of a list at the numbers of a set, and the numbers of a list of integers from
\* the least to the greatest; equal ones keep their order.
Picked(list, numbers) ==
  LET order == Sorted([i \in numbers |-> i]) IN [k \in DOMAIN order |-> list[order[k]]]
InOrder(value) ==
  LET before(i) == {j \in DOMAIN value : value[j] < value[i] \/ (value[j] = value[i] /\ j < i)}
  IN Sorted([i \in DOMAIN value |-> Cardinality(before(i))])

\* A player without priority after each priority booker, so that two of them do
\* not end up in one pair.
PrioritizePlayers(confirmed, priority) ==
  LET present == Picked(priority, {i \in DOMAIN priority : priority[i] \in ToSet(confirmed)})
      rest == Picked(confirmed, {i \in DOMAIN confirmed : confirmed[i] \notin ToSet(priority)})
      m == Min({Len(present), Len(rest)})
  IN [i \in 1..(2 * m) |-> IF i % 2 = 1 THEN present[(i + 1) \div 2] ELSE rest[i \div 2]]
     \o SubSeq(present, m + 1, Len(present)) \o SubSeq(rest, m + 1, Len(rest))

\* Neighbours play together; of an odd number, the last one rotates.
PairsOf(players) == [i \in 1..(Len(players) \div 2) |-> <<players[2 * i - 1], players[2 * i]>>]
RotatorsOf(players) == IF Len(players) % 2 = 1 THEN <<Last(players)>> ELSE << >>

CourtsNeededForPlayers(n, preferMin) ==
  LET d == IF preferMin THEN MIN_PLAYERS_PER_COURT_GROUP ELSE MAX_PLAYERS_PER_COURT_GROUP
  IN (n + d - 1) \div d

\* The two members named on the line of a round, counted from 0.
TeamrNamesForRound(size, round) ==
  IF size # 3 THEN <<1, 2>> ELSE << <<1, 2>>, <<1, 3>>, <<2, 3>> >>[(round % 3) + 1]

\* The rounds a player wants to be named on.
Demand(id, minSlots) == IF id \in DOMAIN minSlots THEN minSlots[id] ELSE DEFAULT_MIN_PLAY_SLOTS

\* The most demanding first; members of equal demand keep their order.
OrderMembersByDemand(members, minSlots) ==
  IF Len(members) <= 2 THEN members
  ELSE LET order == InOrder([i \in DOMAIN members |-> -Demand(members[i], minSlots)])
       IN [i \in DOMAIN members |-> members[order[i]]]

\* The rounds after which every member has been named minSlots times.
ComputeRoundsNeeded(members, minSlots) ==
  LET named(i, n) == Cardinality({k \in 0..(n - 1) : i \in ToSet(TeamrNamesForRound(3, k))})
  IN IF Len(members) <= 2 THEN Max({Demand(members[i], minSlots) : i \in DOMAIN members})
     ELSE Min({n \in 1..12 : \A i \in 1..3 : named(i, n) >= Demand(members[i], minSlots)})

\* The first pairs each get a court; the players of the others, then the rotator,
\* join them one by one as a third member.  Whoever is left has no line.
BuildGroupsForBooking(players, maxPlayers, target, minSlots) ==
  LET pairs == PairsOf(players)
      base == Min({target, Len(pairs)})
      overflow == FlattenSeq(SubSeq(pairs, base + 1, Len(pairs))) \o RotatorsOf(players)
      room == Min({maxPlayers, MAX_PLAYERS_PER_COURT_GROUP}) >= 3
      members(i) == IF room /\ i <= Len(overflow) THEN Append(pairs[i], overflow[i]) ELSE pairs[i]
      ordered(i) == OrderMembersByDemand(members(i), minSlots)
  IN [i \in 1..base |->
        [members |-> ordered(i), rounds |-> ComputeRoundsNeeded(ordered(i), minSlots)]]

\* Can the pairs in excess of the courts all be absorbed as third members?
UseCommonCase(pairCount, courtsNeeded, maxPlayers) ==
  LET target == Min({pairCount, courtsNeeded})
      cap == Min({maxPlayers, MAX_PLAYERS_PER_COURT_GROUP})
      extra == IF cap > 2 THEN target * (cap - 2) ELSE 0
  IN pairCount <= courtsNeeded \/ (pairCount - target) * 2 <= extra

-----------------------------------------------------------------------------
(* Courts.                                                                  *)

Rank(court, priority) ==
  LET at == {i \in DOMAIN priority : priority[i] = court}
  IN IF at = {} THEN Len(priority) + court ELSE Max(at) - 1
OrderByCourtPriority(courts, priority) ==
  Sorted([c \in courts |-> Rank(c, priority)])

\* A court for each pair of a round: its former court (0 for none) if nobody kept
\* it before; then, in the order of priority, the courts free at the next round too.
ResolveCourtAssignments(avail, former, priority, nextCourts) ==
  LET keeps == {i \in DOMAIN former :
                  former[i] \in avail /\ \A j \in 1..(i - 1) : former[j] # former[i]}
      others == avail \ {former[i] : i \in keeps}
      order == OrderByCourtPriority(others \cap nextCourts, priority)
               \o OrderByCourtPriority(others \ nextCourts, priority)
  IN [i \in DOMAIN former |-> IF i \in keeps THEN former[i]
                              ELSE order[Cardinality(1..i \ keeps)]]

-----------------------------------------------------------------------------
(* What the votes become before the plan.                                   *)

\* A player alone at an hour moves to the next one; whoever is joined by a player
\* who moved is not alone any more.
CascadeSoloVotersForward(votes) ==
  LET n == Len(votes)
      moves[i \in 1..n] == i < n /\ Len(votes[i]) = 1 /\ (i = 1 \/ ~moves[i - 1])
  IN [i \in 1..n |-> (IF moves[i] THEN << >> ELSE votes[i])
                     \o (IF i > 1 /\ moves[i - 1] THEN votes[i - 1] ELSE << >>)]

\* Each hour with players is given `margin` more, of those who lend their name and
\* play at no hour, nobody twice.
ApplyUnexpectedPlayersMargin(votes, lenders, margin) ==
  LET pool == Picked(lenders, {k \in DOMAIN lenders :
                                 \A i \in DOMAIN votes : lenders[k] \notin ToSet(votes[i])})
      before(i) == margin * Cardinality({j \in 1..(i - 1) : votes[j] # << >>})
  IN [i \in DOMAIN votes |->
        IF votes[i] = << >> THEN << >>
        ELSE votes[i] \o SubSeq(pool, before(i) + 1, Min({before(i) + margin, Len(pool)}))]
=============================================================================
