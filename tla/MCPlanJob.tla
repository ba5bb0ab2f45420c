----------------------------- MODULE MCPlanJob -----------------------------
EXTENDS PlanJob

Players == <<"a", "b", "c", "d", "e", "f">>
AllNames == ToSet(Players) \cup {"v", "w", "j"}

\* n players at the first hour, m at the second.
Votes == {<<SubSeq(Players, 1, n), SubSeq(Players, n + 1, n + m)>> :
            <<n, m>> \in {x \in (0..6) \X (0..3) : x[1] + x[2] \in 2..6}}

\* Courts free at each time.
Free == UNION {{1, 2} \X {0}, {2, 3} \X {1}, {1, 2} \X {2}, {1} \X {3}, {1, 2} \X {4}}

\* Volunteers, and players added as a margin.
Volunteers == {[lenders |-> << >>, margin |-> 0], [lenders |-> <<"v">>, margin |-> 0],
               [lenders |-> <<"v", "w">>, margin |-> 1]}
\* The second hour right after the first, or after its window.
Days == {[hours |-> <<0, 1>>, window |-> 3], [hours |-> <<0, 2>>, window |-> 1]}
Limits == [minPlayers : {2}, maxPlayers : {2, 3}, maxCourts : {1, 2}, preferMin : BOOLEAN,
           layers : {1, 2}, maxDaily : {2, 3}]
StandIns(unregistered, jokers) == [unregistered : unregistered, joker : jokers]
Fixed == [courtPriority |-> <<2, 1>>, priorityBookers |-> <<"b", "c">>, free |-> Free,
          minSlots |-> [p \in AllNames |-> IF p = "c" THEN 3 ELSE IF p = "b" THEN 1 ELSE 2]]

Days1 == {d \in Days : d.window = 3}
Limits1 == {l \in Limits : l.layers = 2 /\ ~l.preferMin /\ l.maxDaily = 2}

Combine(limits, days, standIns, votes) ==
  {Fixed @@ l @@ d @@ v @@ n @@ [votes |-> x, confirmed |-> x] :
     l \in limits, d \in days, v \in Volunteers, n \in standIns, x \in votes}

\* Two players who cannot carry a line, a volunteer or the joker who is not registered, with
\* and without a joker.
Uncovered ==
  Combine(Limits1, Days1, StandIns({{"a", "b"}, {"v"}, {"c", "j"}}, {"j", NoOne}), Votes)
\* Three hours in a row, with few players at each.
ThreeHours ==
  Combine(Limits1, {[hours |-> <<0, 1, 2>>, window |-> 3]}, StandIns({{}}, {"j"}),
          {<<SubSeq(Players, 1, n), SubSeq(Players, n + 1, n + m), SubSeq(Players, n + m + 1, n + m + k)>> :
             <<n, m, k>> \in {1, 2} \X (0..2) \X (0..2)})
\* A court at a time for two pairs who change courts, so that a late player goes on beside them.
Beside ==
  {[x EXCEPT !.free = ({1} \X (0..3)) \cup ({2} \X (1..2)), !.priorityBookers = << >>,
             !.minSlots = [p \in AllNames |-> 2]] :
     x \in Combine({l \in Limits : l.maxCourts = 1 /\ l.layers = 2}, Days1, StandIns({{}}, {"j"}),
                  {<<SubSeq(Players, 1, 4), SubSeq(Players, 5, 5)>>})}
\* Pairs who change courts, so that some play elsewhere when the rotation prolongs a court.
Switching ==
  {[x EXCEPT !.free = ({1} \X {0, 1, 3, 4}) \cup ({2} \X {2, 4}), !.priorityBookers = << >>,
             !.minSlots = [p \in AllNames |-> 3], !.maxDaily = 4, !.layers = 3, !.window = 6] :
     x \in Combine(Limits1, {[hours |-> <<0>>, window |-> 6]}, StandIns({{}, {"e"}}, {"j"}),
                   {<<SubSeq(Players, 1, 5)>>})}
\* Five pairs on three or four courts, one of them on two courts at a time.
Crowd == <<"a", "b", "c", "d", "e", "f", "g", "h", "k", "l">>
ManyPairs ==
  {[x EXCEPT !.free = ({1, 2, 3} \X {0, 1}) \cup ((1..4) \X {2}), !.maxCourts = 4, !.maxPlayers = 2,
             !.minSlots = [p \in AllNames \cup ToSet(Crowd) |-> 2]] :
     x \in Combine(Limits1, {[hours |-> <<0>>, window |-> 3]}, StandIns({{}, {"a"}}, {"j"}), {<<Crowd>>})}
\* A joker who plays, or who lends his name.
JokerInvolved ==
  {[x EXCEPT !.minSlots = [p \in AllNames |-> IF p \in {"a", "c"} THEN 1 ELSE 2]] :
     x \in Combine(Limits1, Days1, StandIns({{}, {"c"}}, {"a", "v"}),
                   {<<SubSeq(Players, 1, n), SubSeq(Players, n + 1, n + 1)>> : n \in 3..5})}
AllInputs ==
  Combine(Limits, Days, StandIns({{}, {"a"}}, {"j"}), Votes) \cup Uncovered \cup ThreeHours \cup Beside
  \cup Switching \cup ManyPairs \cup JokerInvolved
=============================================================================
