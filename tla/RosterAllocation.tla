------------------------- MODULE RosterAllocation -------------------------
(***************************************************************************)
(* What the final roster promises: it starts from the voters of each hour, *)
(* all seated or all waiting, and every change of vote after that is one   *)
(* move of apps/worker/src/roster/allocation.ts.                           *)
(***************************************************************************)
EXTENDS Allocation

VARIABLE rosters

Orders == {s \in UNION {[1 .. n -> Players] : n \in 0 .. Cardinality(Players)} :
             \A i, j \in DOMAIN s : s[i] = s[j] => i = j}

RosterInit ==
  \E ordered \in [Hours -> Orders], taken \in SUBSET Hours :
    /\ \A h, g \in Hours : \A i \in DOMAIN ordered[h], j \in DOMAIN ordered[g] :
         ordered[h][i] = ordered[g][j] => h = g
    /\ rosters = [h \in Hours |-> InitialHour(ordered[h], h \in taken)]

ChangeVote == \E p \in Players, option \in Hours \cup {Nobody} :
                rosters' = Move(rosters, p, option)

RosterSpec == RosterInit /\ [][ChangeVote]_rosters

-----------------------------------------------------------------------------
RosterTypeOK == rosters \in [Hours -> HourRoster]

(* Nobody waits for an hour that has a free seat, whatever sequence of
   withdrawals, returns and changes of hour led there. *)
SeatsTaken == \A h \in Hours : Full(rosters[h])

(* No player holds two places: neither two seats, nor two turns, nor a seat
   and a turn, be it at different hours. *)
OnePlaceEach ==
  /\ \A h \in Hours : Orderly(rosters[h])
  /\ \A h, g \in Hours : h # g => Held(rosters[h]) \cap Held(rosters[g]) = {}

(* The waiting lists are served in their order, whoever comes, goes or changes
   hour in between. *)
ServedInOrder == [][\A h \in Hours : FairTo(rosters[h], rosters'[h])]_rosters

(* The change of vote of a player unseats nobody but that player, at any hour. *)
SeatsKept ==
  [][\A p \in Players, option \in Hours \cup {Nobody} :
       rosters' = Move(rosters, p, option) =>
         \A h \in Hours : SeatedAt(rosters[h]) \ {p} \subseteq SeatedAt(rosters'[h])]_rosters
=============================================================================
