--------------------------- MODULE BookablePair ---------------------------
(***************************************************************************)
(* Who may carry a TeamR line when one of its two players cannot            *)
(* (apps/worker: planning/jokerSubstitution.ts).  A volunteer lends a name   *)
(* first; the joker of the rule, who has no limit, comes last and only as    *)
(* the partner.  The plan and the real booking follow the same order.        *)
(***************************************************************************)
EXTENDS Naturals, Sequences, FiniteSetsExt, SequencesExt

\* A rule without a joker, a line without a pair.
NoOne == "nobody"
Unbookable == << >>

\* The ids of a list that are not set aside, in their order.
Excluding(ids, aside) ==
  FoldLeft(LAMBDA kept, id : IF id \in aside THEN kept ELSE Append(kept, id), << >>, ids)

IsBlocked(id, blocked, joker) == id # joker /\ id \in blocked

\* The first volunteer who can carry the line replaces the i-th name of the pair.
LendName(s, i, blocked, joker) ==
  LET free == {k \in DOMAIN s.queue :
                 ~IsBlocked(s.queue[k], blocked, joker) /\ s.queue[k] \notin ToSet(s.pair)}
  IN IF ~IsBlocked(s.pair[i], blocked, joker) \/ free = {} THEN s
     ELSE [pair |-> [s.pair EXCEPT ![i] = s.queue[Min(free)]], queue |-> RemoveAt(s.queue, Min(free))]

\* The joker is the partner; a refused holder gives way to the partner.
WithJoker(lent, still, joker) ==
  IF still = {2} THEN <<lent.pair[1], joker>> ELSE <<lent.pair[2], joker>>

\* A pair that can be booked and the volunteers left, or Unbookable with all of them.
ResolveBookablePair(pair, blocked, queue, joker) ==
  LET lent == LendName(LendName([pair |-> pair, queue |-> queue], 1, blocked, joker),
                       2, blocked, joker)
      still == {i \in {1, 2} : IsBlocked(lent.pair[i], blocked, joker)}
  IN IF still = {} THEN lent
     ELSE IF joker = NoOne \/ joker \in ToSet(lent.pair) \/ still = {1, 2}
          THEN [pair |-> Unbookable, queue |-> queue]
          ELSE [pair |-> WithJoker(lent, still, joker), queue |-> lent.queue]

-----------------------------------------------------------------------------
(* At the real booking: one attempt per candidate, in this order.           *)

SubstitutableReasons == {"PLAYER_NOT_REGISTERED", "PLAYER_BOOKING_LIMIT_REACHED"}

Candidate(replaced, by, kind, pair) ==
  [replaced |-> replaced, by |-> by, kind |-> kind, pair |-> pair]

\* Mutant: the joker is tried in the very place TeamR refused.
JokerWhereRefused(pair, joker, blamed) ==
  IF joker = NoOne \/ joker \in ToSet(pair) \/ ToSet(pair) \subseteq blamed THEN << >>
  ELSE LET i == IF pair[2] \in blamed THEN 2 ELSE 1
       IN <<Candidate(pair[i], joker, "joker", [pair EXCEPT ![i] = joker])>>

\* The joker as partner, in place of the refused partner or of a promoted one.
SubstitutionCandidates(pair, joker, blamed) ==
  LET replacePartner == Candidate(pair[2], joker, "joker", <<pair[1], joker>>)
      promotePartner == Candidate(pair[1], joker, "joker", <<pair[2], joker>>)
  IN IF joker = NoOne \/ joker \in ToSet(pair) \/ ToSet(pair) \subseteq blamed THEN << >>
     ELSE IF blamed = {} THEN <<replacePartner, promotePartner>>
     ELSE IF pair[2] \in blamed THEN <<replacePartner>> ELSE <<promotePartner>>

\* Both names refused: two volunteers, then a volunteer and the joker.
BothRefusedCandidates(pair, joker, subs) ==
  LET two(i) == LET others == Excluding(subs, {subs[i]})
                IN [k \in DOMAIN others |->
                      Candidate(pair[1], subs[i], "substitute", <<subs[i], others[k]>>)]
      one(i) == Candidate(pair[1], subs[i], "substitute", <<subs[i], joker>>)
  IN FlattenSeq([i \in DOMAIN subs |-> two(i)])
     \o (IF joker = NoOne \/ joker \in ToSet(pair) THEN << >> ELSE [i \in DOMAIN subs |-> one(i)])

BookingSubstitutionCandidates(pair, joker, blamed, volunteers) ==
  LET subs == Excluding(volunteers, ToSet(pair))
      roles == IF blamed = {} THEN <<2, 1>> ELSE IF pair[2] \in blamed THEN <<2>> ELSE <<1>>
      lend(i) == [k \in DOMAIN roles |->
                    Candidate(pair[roles[k]], subs[i], "substitute",
                              [pair EXCEPT ![roles[k]] = subs[i]])]
  IN IF ToSet(pair) \subseteq blamed THEN BothRefusedCandidates(pair, joker, subs)
     ELSE FlattenSeq([i \in DOMAIN subs |-> lend(i)]) \o SubstitutionCandidates(pair, joker, blamed)
=============================================================================
