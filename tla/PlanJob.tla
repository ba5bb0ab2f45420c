------------------------------ MODULE PlanJob ------------------------------
(***************************************************************************)
(* The booking plan of a job (apps/worker: planning/planJob,                *)
(* groupBookingPlan, scheduleGroupTimeline, sessionExtension).              *)
(*                                                                          *)
(* The candidate hours are planned one after the other.  An hour with too   *)
(* few players joins a session an earlier hour has opened.  The others form *)
(* groups; when every group can have a court it gets a timeline of its own, *)
(* otherwise the pairs queue for the courts in layers of rounds, and the    *)
(* rotating player joins a court once they have been placed.  What an hour  *)
(* took - slots, bookings of a player in the day, names lent - is denied to *)
(* the following ones.  One step of this module is one turn of a loop.      *)
(***************************************************************************)
EXTENDS Integers, CourtPlan, BookablePair

CONSTANTS
  Inputs  \* the rules, votes and availabilities considered

\* Slots are pairs of a court and a time.
ASSUME InputsAssumption ==
  \A i \in Inputs :
    /\ {"free", "hours", "window", "courtPriority", "minSlots", "votes", "confirmed", "lenders",
        "margin", "maxCourts", "maxPlayers", "maxDaily", "priorityBookers"} \subseteq DOMAIN i
    /\ i.free \subseteq (1..SQUASH_COURT_COUNT) \X Nat
    /\ i.hours \in Seq(Nat) /\ i.window \in Nat
    /\ i.maxCourts \in Nat /\ i.maxPlayers \in Nat
    /\ i.courtPriority \in Seq(Nat)
    /\ i.minSlots \in [DOMAIN i.minSlots -> 1..6] /\ i.maxDaily \in Nat \ {0} /\ i.margin \in Nat
    /\ i.lenders \in Seq(DOMAIN i.minSlots)
    /\ i.votes \in Seq(Seq(DOMAIN i.minSlots)) /\ Len(i.votes) = Len(i.hours)
    \* a member votes for one hour, and is a volunteer once
    /\ \A h, g \in DOMAIN i.votes : \A k \in DOMAIN i.votes[h], l \in DOMAIN i.votes[g] :
         i.votes[h][k] = i.votes[g][l] => h = g /\ k = l
    /\ \A k, l \in DOMAIN i.lenders : i.lenders[k] = i.lenders[l] => k = l
    \* prioritizePlayers makes a set of them
    /\ i.priorityBookers \in Seq(ToSet(i.priorityBookers))
    /\ \A k, l \in DOMAIN i.priorityBookers : i.priorityBookers[k] = i.priorityBookers[l] => k = l

VARIABLES
  inp,        \* the input being planned
  pc,         \* the loop being executed
  plans,      \* bookingPlanGroups: the plan of every hour done so far
  sessions,   \* ongoingSessions: the courts opened, which late players may join
  used,       \* usedSessionIds
  daily,      \* playerDailyCounts
  mobilised,  \* usedTodayIds
  work,       \* the plan of the current hour, under construction
  ext         \* the session being extended

vars == <<inp, pc, plans, sessions, used, daily, mobilised, work, ext>>

PCs == {"hour", "timeline", "round", "place", "rotate", "extend", "accept", "done"}
Names == DOMAIN inp.minSlots
Hour == Len(plans) + 1
Start == inp.hours[Hour]
Confirmed == inp.confirmed[Hour]
InWindow(anchor, t) == t <= anchor + inp.window

\* A line names two players on a slot, for the pair or group `of`.
Line(slot, pair, of) == [slot |-> slot, user |-> pair[1], partner |-> pair[2], of |-> of]
NamesOf(line) == {line.user, line.partner}
Count(lines, id) == Cardinality({i \in DOMAIN lines : id \in NamesOf(lines[i])})
Slots(lines) == {lines[i].slot : i \in DOMAIN lines}

Idle == [players |-> << >>]
NoExt == [members |-> << >>]

\* The margin is drawn once the solo voters have moved.
WithMargin(i) ==
  ApplyUnexpectedPlayersMargin(CascadeSoloVotersForward(i.votes), i.lenders, i.margin)

Init ==
  /\ \E i \in Inputs : inp = [i EXCEPT !.confirmed = WithMargin(i)]
  /\ pc = "hour"
  /\ plans = << >> /\ sessions = << >>
  /\ used = {}
  /\ daily = [p \in Names |-> 0]
  /\ mobilised = UNION {ToSet(inp.confirmed[h]) : h \in DOMAIN inp.hours}
  /\ work = Idle /\ ext = NoExt

-----------------------------------------------------------------------------
(* Sessions: one per court of a plan, with the confirmed players named on it. *)

BuildOngoingSessions(lines, anchor, confirmed, plan) ==
  LET firstOn(c) == Min({i \in DOMAIN lines : lines[i].slot[1] = c})
      courts == Sorted([c \in {s[1] : s \in Slots(lines)} |-> firstOn(c)])
      on(c) == Sorted([l \in {m \in ToSet(lines) : m.slot[1] = c} |-> l.slot[2]])
      named(c) == [i \in 1..(2 * Len(on(c))) |-> IF i % 2 = 1 THEN on(c)[(i + 1) \div 2].user
                                                 ELSE on(c)[i \div 2].partner]
      members(c) == {p \in ToSet(named(c)) : p \in confirmed}
      at(c, p) == Min({i \in DOMAIN named(c) : named(c)[i] = p})
  IN [k \in DOMAIN courts |->
        [court |-> courts[k], anchor |-> anchor, lines |-> on(courts[k]), plan |-> plan,
         members |-> Sorted([p \in members(courts[k]) |-> at(courts[k], p)])]]

LastEnd(lines) == Max({s[2] : s \in Slots(lines)}) + 1

\* The court is still held, or just left, when the hour begins.
Covers(session) == session.anchor <= Start /\ Start <= LastEnd(session.lines)

\* Sessions that the `count` players of the current hour may join.
Mergeable(count) ==
  {k \in DOMAIN sessions :
     /\ InWindow(sessions[k].anchor, Start)
     /\ Covers(sessions[k])
     /\ Len(sessions[k].members) + count <= inp.maxPlayers}

\* Volunteers who neither play today nor have lent their name to an earlier hour.
Eligible ==
  Picked(inp.lenders, {i \in DOMAIN inp.lenders : inp.lenders[i] \notin mobilised \cup ToSet(Confirmed)})

\* A session and those who join it, up to the limit of players per court.
Joining(k, session, joiners, queue, taken) ==
  LET new == Picked(joiners, {i \in DOMAIN joiners : joiners[i] \notin ToSet(session.members)})
      room == IF inp.maxPlayers > Len(session.members)
              THEN inp.maxPlayers - Len(session.members) ELSE 0
      members == session.members \o SubSeq(new, 1, Min({room, Len(new)}))
  IN [k |-> k, session |-> session, members |-> OrderMembersByDemand(members, inp.minSlots),
      added |-> << >>, queue |-> queue, used |-> taken]

-----------------------------------------------------------------------------
(* The loop over the candidate hours.                                       *)

NoPlan == [lines |-> << >>, groups |-> << >>, outside |-> {}]

NotEnoughPlayers ==
  /\ pc = "hour" /\ Hour <= Len(inp.hours)
  /\ Len(Confirmed) < inp.minPlayers
  /\ Confirmed = << >> \/ Mergeable(Len(Confirmed)) = {}
  /\ plans' = Append(plans, NoPlan)
  /\ UNCHANGED <<inp, pc, sessions, used, daily, mobilised, work, ext>>

\* The first session with room takes the late players.
JoinSession ==
  /\ pc = "hour" /\ Hour <= Len(inp.hours)
  /\ Len(Confirmed) \in 1..(inp.minPlayers - 1)
  /\ Mergeable(Len(Confirmed)) # {}
  /\ LET k == Min(Mergeable(Len(Confirmed)))
     IN ext' = Joining(k, sessions[k], Confirmed, Eligible, used)
  /\ pc' = "extend"
  /\ UNCHANGED <<inp, plans, sessions, used, daily, mobilised, work>>

\* Mutant: a court that a pair of this hour has already is offered again.
OfferedTwice(t, lines) == {c \in 1..SQUASH_COURT_COUNT : <<c, t>> \in inp.free \ used}

\* Slots the hour may take: from its start on, not taken by an earlier hour.
Offered(t, lines) ==
  {c \in 1..SQUASH_COURT_COUNT : <<c, t>> \in (inp.free \ used) \ Slots(lines)}
Times == {s[2] : s \in {f \in inp.free \ used : f[2] >= Start}}

\* The plan of the current hour, before its first line.
Attempt(number, preferMin, former) ==
  LET players == PrioritizePlayers(Confirmed, inp.priorityBookers)
      needed == Min({CourtsNeededForPlayers(Len(players), preferMin),
                     SQUASH_COURT_COUNT, inp.maxCourts})
      common == UseCommonCase(Len(players) \div 2, needed, inp.maxPlayers)
  IN [players |-> players, needed |-> needed, attempt |-> number, former |-> former,
      common |-> common, lines |-> << >>, queue |-> Eligible,
      groups |-> IF ~common THEN << >>
                 ELSE BuildGroupsForBooking(players, inp.maxPlayers, needed, inp.minSlots),
      g |-> 1, t |-> Start, court |-> 0,                     \* common case
      layer |-> 1, cursor |-> 1, rounds |-> 0, taken |-> {}, \* queueing case
      batch |-> << >>, courtGroups |-> << >>,
      open |-> << >>, k |-> 1, left |-> << >>, extra |-> {}]               \* rotation

Begin(w) ==
  /\ work' = w
  /\ pc' = IF Times = {} THEN "accept" ELSE IF w.common THEN "timeline" ELSE "round"

PlanHour ==
  /\ pc = "hour" /\ Hour <= Len(inp.hours)
  /\ Len(Confirmed) >= inp.minPlayers
  /\ Begin(Attempt(1, inp.preferMin, << >>))
  /\ UNCHANGED <<inp, plans, sessions, used, daily, mobilised, ext>>

Finish ==
  /\ pc = "hour" /\ Hour > Len(inp.hours)
  /\ pc' = "done"
  /\ UNCHANGED <<inp, plans, sessions, used, daily, mobilised, work, ext>>

-----------------------------------------------------------------------------
(* Common case: a group after the other, each on a timeline of its own.     *)

LinesOf(lines, of) == RestrictValues(lines, LAMBDA l : l.of = of)
OwnLines == LinesOf(work.lines, work.g)
GroupRound == LET n == TeamrNamesForRound(Len(work.groups[work.g].members),
                                          Cardinality(DOMAIN OwnLines))
              IN <<work.groups[work.g].members[n[1]], work.groups[work.g].members[n[2]]>>

\* Mutant: the limit of the day is not looked at.
BlockedBySeason(pair, lines) == inp.unregistered

\* Not registered for the season, or at the limit of bookings of the day.
Blocked(pair, lines) ==
  inp.unregistered \cup {p \in ToSet(pair) : daily[p] + Count(lines, p) >= inp.maxDaily}

Bookable(pair, lines) ==
  IF ToSet(pair) \cap Blocked(pair, lines) = {} THEN [pair |-> pair, queue |-> work.queue]
  ELSE ResolveBookablePair(pair, Blocked(pair, lines), work.queue, inp.joker)

GroupBooked == Cardinality(DOMAIN OwnLines) >= work.groups[work.g].rounds
OutOfTimes == {t \in Times : t >= work.t} = {}

\* No court free at this time: the group looks at the next one.
SkipTime ==
  /\ pc = "timeline" /\ work.g <= Len(work.groups)
  /\ ~GroupBooked /\ ~OutOfTimes
  /\ Offered(work.t, work.lines) = {}
  /\ work' = [work EXCEPT !.t = @ + 1]
  /\ UNCHANGED <<inp, pc, plans, sessions, used, daily, mobilised, ext>>

\* The group keeps its court while it is free, otherwise it takes the best one.
BookGroupRound ==
  /\ pc = "timeline" /\ work.g <= Len(work.groups)
  /\ ~GroupBooked /\ ~OutOfTimes
  /\ LET offered == Offered(work.t, work.lines)
         court == IF work.court \in offered THEN work.court
                  ELSE OrderByCourtPriority(offered, inp.courtPriority)[1]
         found == Bookable(GroupRound, OwnLines)
     IN /\ offered # {}
        /\ found.pair # Unbookable
        /\ work' = [work EXCEPT !.lines = Append(@, Line(<<court, work.t>>, found.pair, work.g)),
                                !.queue = found.queue, !.court = court, !.t = @ + 1]
  /\ UNCHANGED <<inp, pc, plans, sessions, used, daily, mobilised, ext>>

\* All its rounds booked, no time left, or a pair nobody can stand in for.
NextGroup ==
  /\ pc = "timeline" /\ work.g <= Len(work.groups)
  /\ \/ GroupBooked \/ OutOfTimes
     \/ /\ Offered(work.t, work.lines) # {}
        /\ Bookable(GroupRound, OwnLines).pair = Unbookable
  /\ work' = [work EXCEPT !.g = @ + 1, !.t = Start, !.court = 0,
               !.courtGroups = Append(@, [members |-> ToSet(work.groups[work.g].members),
                                          slots |-> Slots(OwnLines)])]
  /\ UNCHANGED <<inp, pc, plans, sessions, used, daily, mobilised, ext>>

GroupsDone ==
  /\ pc = "timeline" /\ work.g > Len(work.groups)
  /\ pc' = "accept"
  /\ UNCHANGED <<inp, plans, sessions, used, daily, mobilised, work, ext>>

-----------------------------------------------------------------------------
(* Queueing case: layers of rounds, several pairs at the same time.         *)

Pairs == PairsOf(work.players)
CourtsAt(t) == {s[1] : s \in {x \in Slots(work.lines) : x[2] = t}}
MaxRoundsPerLayer == Min({8, Max({2 * Len(Pairs), 4})})
BusyAt(t, pair) ==
  \E i \in DOMAIN work.lines :
    work.lines[i].slot[2] = t /\ NamesOf(work.lines[i]) \cap ToSet(pair) # {}

\* Can the next `size` pairs play at t?  Only the first one is asked whether it is busy.
Fits(size, t) ==
  /\ t \notin work.taken
  /\ Cardinality(Offered(t, work.lines)) >= size
  /\ Cardinality(CourtsAt(t)) + size <= work.needed
  /\ ~BusyAt(t, Pairs[work.cursor])

Sizes == {n \in 1..SQUASH_COURT_COUNT : n <= work.needed /\ work.cursor + n - 1 <= Len(Pairs)}
Rounds == {r \in Sizes \X Times : Fits(r[1], r[2])}

\* The court a pair was booked on last, 0 if none.
FormerCourt(i) ==
  LET mine == {k \in DOMAIN work.lines : work.lines[k].of = i}
  IN IF mine = {} THEN 0 ELSE work.lines[Max(mine)].slot[1]

\* As many pairs as possible, then as early as possible.
FindRound ==
  /\ pc = "round" /\ work.layer <= inp.layers
  /\ work.cursor <= Len(Pairs) /\ work.rounds < MaxRoundsPerLayer
  /\ Rounds # {}
  /\ LET size == Max({r[1] : r \in Rounds})
         t == Min({r[2] : r \in {x \in Rounds : x[1] = size}})
         after == IF work.layer < inp.layers THEN Offered(t + 1, work.lines) ELSE {}
         courts == ResolveCourtAssignments(
                     Offered(t, work.lines),
                     [i \in 1..size |-> FormerCourt(work.cursor + i - 1)],
                     inp.courtPriority, after)
     IN work' = [work EXCEPT !.batch = [i \in 1..size |-> <<courts[i], t>>],
                             !.taken = @ \cup {t}, !.rounds = @ + 1]
  /\ pc' = "place"
  /\ UNCHANGED <<inp, plans, sessions, used, daily, mobilised, ext>>

\* A pair of the round is booked, or passed over when nobody can carry its line.
PlacePair ==
  /\ pc = "place" /\ work.batch # << >>
  /\ LET found == Bookable(Pairs[work.cursor], work.lines)
     IN work' = [work EXCEPT !.batch = Tail(@), !.cursor = @ + 1, !.queue = found.queue,
                  !.lines = IF found.pair = Unbookable THEN @
                            ELSE Append(@, Line(work.batch[1], found.pair, work.cursor))]
  /\ UNCHANGED <<inp, pc, plans, sessions, used, daily, mobilised, ext>>

RoundPlaced ==
  /\ pc = "place" /\ work.batch = << >>
  /\ pc' = "round"
  /\ UNCHANGED <<inp, plans, sessions, used, daily, mobilised, work, ext>>

NextLayer ==
  /\ pc = "round" /\ work.layer <= inp.layers /\ work.cursor > Len(Pairs)
  /\ work' = [work EXCEPT !.layer = @ + 1, !.cursor = 1, !.rounds = 0, !.taken = {}]
  /\ UNCHANGED <<inp, pc, plans, sessions, used, daily, mobilised, ext>>

\* Every layer is done, or this one found no court for a pair that waits.
LayersDone ==
  /\ pc = "round"
  /\ \/ work.layer > inp.layers
     \/ work.cursor <= Len(Pairs) /\ (work.rounds >= MaxRoundsPerLayer \/ Rounds = {})
  /\ work' = [work EXCEPT !.extra = used,
       !.courtGroups = [i \in DOMAIN Pairs |-> [members |-> ToSet(Pairs[i]),
                                                slots |-> Slots(LinesOf(work.lines, i))]],
       !.open = BuildOngoingSessions(work.lines, Start, ToSet(work.players), Hour),
       !.left = RotatorsOf(work.players),
       \* the names lent to the pairs are offered to the rotation again
       !.queue = Eligible]
  /\ pc' = "rotate"
  /\ UNCHANGED <<inp, plans, sessions, used, daily, mobilised, ext>>

\* The rotating player asks one court after the other.
JoinCourt ==
  /\ pc = "rotate" /\ work.left # << >> /\ work.k <= Len(work.open)
  /\ ext' = Joining(work.k, work.open[work.k], work.left, work.queue, work.extra)
  /\ pc' = "extend"
  /\ UNCHANGED <<inp, plans, sessions, used, daily, mobilised, work>>

\* Without a court, the rotating player is counted with the first group.
RotationDone ==
  /\ pc = "rotate" /\ (work.left = << >> \/ work.k > Len(work.open))
  /\ work' = [work EXCEPT !.courtGroups =
       [i \in DOMAIN @ |-> IF i = 1 THEN [members |-> @[i].members \cup ToSet(work.left),
                                          slots |-> @[i].slots]
                           ELSE @[i]]]
  /\ pc' = "accept"
  /\ UNCHANGED <<inp, plans, sessions, used, daily, mobilised, ext>>

-----------------------------------------------------------------------------
(* Extending a session until each of its members has been named often enough. *)

ExtLines == ext.session.lines \o ext.added
Short == {p \in ToSet(ext.members) : Count(ExtLines, p) < Demand(p, inp.minSlots)}
NextBegin == LastEnd(ExtLines)
CanExtend == /\ Short # {} /\ Len(ext.members) >= 2
             /\ InWindow(ext.session.anchor, NextBegin)

\* The two members named least often.
NextPair ==
  LET order == InOrder([i \in DOMAIN ext.members |-> Count(ExtLines, ext.members[i])])
  IN <<ext.members[order[1]], ext.members[order[2]]>>

\* Mutant: the joker is not asked.
RegisteredWithoutJoker == ResolveBookablePair(NextPair, inp.unregistered, ext.queue, NoOne)
Registered == ResolveBookablePair(NextPair, inp.unregistered, ext.queue, inp.joker)
RegisteredPair == IF ToSet(NextPair) \cap inp.unregistered = {}
                  THEN [pair |-> NextPair, queue |-> ext.queue] ELSE Registered

\* Bookings of the day; those of a session of an earlier hour count twice.
DayCount(id) == daily[id] + Count(ExtLines, id)

\* A player at the limit is replaced by the first volunteer who is not.
UnderTheLimit(s, i) ==
  LET id == s.pair[i]
      able == {k \in DOMAIN s.queue : s.queue[k] \notin s.lent
                                      /\ DayCount(s.queue[k]) + 1 <= inp.maxDaily}
      k == Min(able)
      name == s.queue[k]
  IN IF id = inp.joker \/ DayCount(id) < inp.maxDaily THEN s
     ELSE IF able = {} THEN [s EXCEPT !.over = @ \cup {i}]
     ELSE [pair |-> [s.pair EXCEPT ![i] = name], lent |-> s.lent \cup {name}, over |-> s.over,
           queue |-> IF DayCount(name) + 1 >= inp.maxDaily THEN RemoveAt(s.queue, k) ELSE s.queue]

\* The line of the next round, Unbookable when nobody can carry it.
ExtensionPair ==
  LET s == UnderTheLimit(UnderTheLimit(
             [pair |-> RegisteredPair.pair, queue |-> RegisteredPair.queue, lent |-> {}, over |-> {}],
             1), 2)
      resolved == ResolveBookablePair(s.pair, {s.pair[i] : i \in s.over}, << >>, inp.joker)
  IN IF s.over = {} THEN [pair |-> s.pair, queue |-> s.queue]
     ELSE [pair |-> resolved.pair, queue |-> s.queue]

NextSlot == <<ext.session.court, NextBegin>>
\* Groups and pairs are numbered from 1; the rounds added for late players are marked 0, those
\* of the rotation -1.
Extension == IF work = Idle THEN 0 ELSE -1

\* An unregistered member nobody can stand in for: the loop starts again, unchanged.
Spinning == pc = "extend" /\ CanExtend /\ RegisteredPair.pair = Unbookable
RetryRound ==
  /\ Spinning
  /\ UNCHANGED vars

ExtendRound ==
  /\ pc = "extend" /\ CanExtend
  /\ RegisteredPair.pair # Unbookable /\ ExtensionPair.pair # Unbookable
  /\ NextSlot \in inp.free \ ext.used
  /\ ext' = [ext EXCEPT !.added = Append(@, Line(NextSlot, ExtensionPair.pair, Extension)),
                        !.queue = ExtensionPair.queue, !.used = @ \cup {NextSlot}]
  /\ UNCHANGED <<inp, pc, plans, sessions, used, daily, mobilised, work>>

ExtensionEnds ==
  /\ pc = "extend"
  /\ \/ ~CanExtend
     \/ /\ CanExtend /\ RegisteredPair.pair # Unbookable
        /\ \/ ExtensionPair.pair = Unbookable
           \/ NextSlot \notin inp.free \ ext.used

\* A name taken for a round that is not booked after all is not given back.
QueueLeft == IF CanExtend THEN ExtensionPair.queue ELSE ext.queue

\* Mutant: the player who joined a court is not counted with it.
CourtJoinedUncounted ==
  /\ ExtensionEnds /\ work # Idle
  /\ LET joined == {p \in ToSet(work.left) : p \in ToSet(ext.members)}
     IN work' = [work EXCEPT !.lines = @ \o ext.added, !.k = @ + 1,
          !.left = Picked(@, {i \in DOMAIN @ : @[i] \notin joined}),
          !.queue = QueueLeft, !.extra = ext.used]
  /\ ext' = NoExt
  /\ pc' = "rotate"
  /\ UNCHANGED <<inp, plans, sessions, used, daily, mobilised>>

\* Back in the rotation: the player who joined stays on this court.
CourtJoined ==
  /\ ExtensionEnds /\ work # Idle
  /\ LET joined == {p \in ToSet(work.left) : p \in ToSet(ext.members)}
     IN work' = [work EXCEPT !.lines = @ \o ext.added, !.k = @ + 1,
          !.left = Picked(@, {i \in DOMAIN @ : @[i] \notin joined}),
          !.queue = QueueLeft, !.extra = ext.used,
          !.courtGroups = IF joined = {} THEN @
                          ELSE Append(@, [members |-> joined, slots |-> Slots(ExtLines)])]
  /\ ext' = NoExt
  /\ pc' = "rotate"
  /\ UNCHANGED <<inp, plans, sessions, used, daily, mobilised>>

-----------------------------------------------------------------------------
(* Keeping what an hour took.                                               *)

\* Names lent: volunteers on a line who do not play at this hour.
Lent(lines) ==
  {p \in UNION {NamesOf(lines[i]) : i \in DOMAIN lines} :
     p \in ToSet(inp.lenders) /\ p \notin ToSet(Confirmed)}

Track(lines) ==
  /\ daily' = [p \in Names |-> daily[p] + Count(lines, p)]
  /\ mobilised' = mobilised \cup Lent(lines)

\* appendBookingsToGroupPlan.
WithBookings(plan, extra) == [plan EXCEPT !.lines = @ \o extra]
WithGroup(plan, group) == [plan EXCEPT !.groups = Append(@, group)]

\* Back in the loop over the hours: the late players belong to the earlier plan.
LateJoined ==
  /\ ExtensionEnds /\ work = Idle
  /\ LET p == ext.session.plan
         joined == ToSet(Confirmed) \cap ToSet(ext.members)
         group == [members |-> joined, slots |-> Slots(ExtLines)]
     IN plans' = Append([plans EXCEPT ![p] = WithGroup(WithBookings(@, ext.added), group)], NoPlan)
  /\ sessions' = [sessions EXCEPT ![ext.k].lines = ExtLines, ![ext.k].members = ext.members]
  /\ used' = ext.used
  /\ Track(ext.added)
  /\ ext' = NoExt
  /\ pc' = "hour"
  /\ UNCHANGED <<inp, work>>

\* Rounds wanted and not proposed.
Shortfall ==
  LET rounds[i \in 0..Len(work.groups)] ==
        IF i = 0 THEN 0 ELSE rounds[i - 1] + work.groups[i].rounds
      wanted == IF work.common /\ Times # {} THEN rounds[Len(work.groups)]
                ELSE Len(Pairs) * inp.layers
  IN wanted > Len(work.lines)

\* Fewer players per court did not fit everybody: try with more.
Escalate ==
  /\ pc = "accept"
  /\ work.attempt = 1 /\ inp.preferMin /\ Shortfall
  /\ Begin(Attempt(2, FALSE, <<work.lines, work.courtGroups>>))
  /\ UNCHANGED <<inp, plans, sessions, used, daily, mobilised, ext>>

Outside(lines) == {s \in Slots(lines) : ~InWindow(Start, s[2])}

\* recordSessionsFromGroup: the courts of the plan may be joined by the hours that follow.
RecordSessions(lines) ==
  sessions' = sessions \o BuildOngoingSessions(lines, Start, ToSet(Confirmed), Hour)

\* The second plan only if it proposes more than the first.
AcceptPlan ==
  /\ pc = "accept"
  /\ work.attempt = 2 \/ ~inp.preferMin \/ ~Shortfall
  /\ LET worse == work.attempt = 2 /\ Len(work.lines) <= Len(work.former[1])
         lines == IF worse THEN work.former[1] ELSE work.lines
         groups == IF worse THEN work.former[2] ELSE work.courtGroups
     IN /\ plans' = Append(plans, [lines |-> lines, groups |-> groups,
                                   outside |-> Outside(lines)])
        /\ RecordSessions(lines)
        /\ used' = used \cup (Slots(lines) \ Outside(lines))
        /\ Track(lines)
  /\ work' = Idle
  /\ pc' = "hour"
  /\ UNCHANGED <<inp, ext>>

Next ==
  \/ NotEnoughPlayers \/ JoinSession \/ PlanHour \/ Finish
  \/ SkipTime \/ BookGroupRound \/ NextGroup \/ GroupsDone
  \/ FindRound \/ PlacePair \/ RoundPlaced \/ NextLayer \/ LayersDone
  \/ JoinCourt \/ RotationDone
  \/ RetryRound \/ ExtendRound \/ CourtJoined \/ LateJoined
  \/ Escalate \/ AcceptPlan

Spec == Init /\ [][Next]_vars
\* planJobBookings is synchronous: nothing interrupts its loops.
FairSpec == Spec /\ WF_vars(Next)
\* The same, with ENABLED Next written out for TLC.
Halted == pc = "done" \/ Spinning
SteadySpec == Spec /\ ([]<>Halted \/ []<><<TRUE>>_vars)

-----------------------------------------------------------------------------
(* Properties.                                                              *)

\* What will be booked: the lines of a plan whose slot is inside its window.
BookedLines(h) == RestrictValues(plans[h].lines, LAMBDA l : l.slot \notin plans[h].outside)
\* The lines of all the plans, each at its hour and number.
Places == UNION {{h} \X DOMAIN plans[h].lines : h \in DOMAIN plans}
AllLines == [x \in Places |-> plans[x[1]].lines[x[2]]]
BookedPlaces == {x \in Places : AllLines[x].slot \notin plans[x[1]].outside}
Booked == [x \in BookedPlaces |-> AllLines[x]]
\* With the lines of the plan under construction and of the session being extended.
Underway == IF work = Idle THEN << >> ELSE work.lines
Added == IF ext = NoExt THEN << >> ELSE ext.added
Proposed ==
  [x \in BookedPlaces \cup ({Hour} \X DOMAIN Underway) \cup ({0} \X DOMAIN Added) |->
     IF x[1] = 0 THEN Added[x[2]] ELSE IF x[1] = Hour THEN Underway[x[2]] ELSE Booked[x]]
\* Lines added for the rotating player of the hour.
Rotation(h) == LinesOf(plans[h].lines, -1)

\* Slots of the groups and pairs of an hour, and the courts they hold at a time.
OwnSlots(lines) == {lines[i].slot : i \in {j \in DOMAIN lines : lines[j].of > 0}}
CourtsHeld(lines, t) == {s[1] : s \in {x \in OwnSlots(lines) : x[2] = t}}

\* What the hours hand to each other is what they took: the bookings counted for a
\* player are the lines of all the plans, extensions included, and the slots denied
\* are those of the lines, except the ones set apart because they start too late.
LedgerOfTheDay ==
  /\ pc \in PCs
  /\ \A p \in Names : daily[p] = Count(AllLines, p)
  /\ used = Slots(Booked)

\* Two lines never ask for the same court at the same time, whether they come from
\* two hours, two layers, the rotation or a late player (usedSessionIds).
SlotOnce == \A i, j \in DOMAIN Proposed : Proposed[i].slot = Proposed[j].slot => i = j

\* An hour holds no more courts at a time than the rule allows, however many layers play
\* then, but for those that the rotation or a late player adds, who go on on their court
\* beside the others (groupBookingPlan.ts: 332; sessionExtension.ts looks at no maximum).
CourtsOfAnHour ==
  \A h \in DOMAIN plans : \A t \in {s[2] : s \in Slots(plans[h].lines)} :
    Cardinality(CourtsHeld(plans[h].lines, t)) <= inp.maxCourts

\* Those who play, and the joker, when it is somebody who neither plays nor lends a name.
Voters == UNION {ToSet(inp.confirmed[h]) : h \in DOMAIN inp.hours}
JokerApart == inp.joker \notin Voters \cup ToSet(inp.lenders)

\* Who is on two courts at a time, the joker apart.  Two groups or pairs never name the same
\* player, and one plays on one court at a time, unless four pairs or more share three courts
\* or more: only the first pair of a round is asked whether it is busy
\* (groupBookingPlan.ts: 351).  Who rotates or comes late is on a single court
\* (groupBookingPlan.ts: 498); those who were on it before may play elsewhere meanwhile.
OnePlaceAtATime ==
  /\ \A i, j \in DOMAIN Proposed :
       LET a == Proposed[i]
           b == Proposed[j]
       IN i # j /\ a.of > 0 /\ b.of > 0 =>
            \/ NamesOf(a) \cap NamesOf(b) \subseteq {inp.joker}
            \/ /\ i[1] = j[1] /\ a.of = b.of
               /\ a.slot[2] = b.slot[2] => inp.maxCourts >= 3 /\ Len(inp.confirmed[i[1]]) >= 8
  /\ \A p \in Voters \ {inp.joker} :
       LET on == {i \in DOMAIN Proposed : p \in NamesOf(Proposed[i])}
       IN (\A i \in on : Proposed[i].of <= 0) =>
            \A i, j \in on : Proposed[i].slot[1] = Proposed[j].slot[1]

\* The club would accept every line: two different names, the joker, who has no limit,
\* only ever as the partner, and both registered for the season - but for the joker and for
\* a volunteer put in an extension because of the limit, whose registration is not looked at
\* (jokerSubstitution.ts; sessionExtension.ts: 275).
NamesAccepted ==
  JokerApart => \A i \in DOMAIN Proposed :
    /\ Proposed[i].user # inp.joker /\ Proposed[i].user # Proposed[i].partner
    /\ NamesOf(Proposed[i]) \cap inp.unregistered \subseteq ToSet(inp.lenders) \cup {inp.joker}

\* Where it holds: only the rotation of an hour, which counts the lines of a single
\* court, can lead a player over the limit of the day.
LimitButRotation ==
  \A p \in Names \ {inp.joker} :
    Count(Booked, p) > inp.maxDaily => \E h \in DOMAIN plans : Count(Rotation(h), p) > 0

\* A group of the common case that got all its rounds named each of its members as
\* often as they asked, but for the lines on which someone else stands in.
EveryoneNamedEnough ==
  pc = "accept" /\ work.common /\ JokerApart =>
    \A g \in DOMAIN work.groups :
      LET lines == LinesOf(work.lines, g)
          members == work.groups[g].members
          lent == {i \in DOMAIN lines : ~(NamesOf(lines[i]) \subseteq ToSet(members))}
      IN Cardinality(DOMAIN lines) = work.groups[g].rounds =>
           \A p \in ToSet(members) : Count(lines, p) + Cardinality(lent) >= Demand(p, inp.minSlots)

\* Before the plan, every voter is at exactly one hour: the one voted for, or the next
\* one for somebody who was alone; the margin adds nobody who voted, and nobody twice.
VotersKept ==
  LET hoursOf(p, v) == {h \in DOMAIN inp.hours : p \in ToSet(v[h])}
  IN \A p \in Names :
       /\ Cardinality(hoursOf(p, inp.confirmed)) <= 1
       /\ \A h \in hoursOf(p, inp.votes) :
            \/ p \in ToSet(inp.confirmed[h])
            \/ Len(inp.votes[h]) = 1 /\ h + 1 \in DOMAIN inp.hours
               /\ p \in ToSet(inp.confirmed[h + 1])

\* Two players with priority play in one pair only when there are too few others.
PriorityApart ==
  pc \in {"timeline", "round"} =>
    \A i \in DOMAIN Pairs :
      ToSet(Pairs[i]) \subseteq ToSet(inp.priorityBookers)
        => 2 * Cardinality(ToSet(Confirmed) \cap ToSet(inp.priorityBookers)) > Len(Confirmed)

\* N, the players of the groups that hold a booked slot, counts everybody who plays:
\* the slots of a group are looked up among those of all the hours.
CountedAsBooked ==
  UNION {UNION {g.members : g \in {x \in ToSet(plans[h].groups) :
                                     x.slots \cap Slots(Booked) # {}}} : h \in DOMAIN plans}
\* The groups whose own plan books one of their slots.
Playing ==
  UNION {UNION {g.members : g \in {x \in ToSet(plans[h].groups) :
                                     x.slots \cap Slots(BookedLines(h)) # {}}} :
         h \in DOMAIN plans}

\* The players reported without a court are all those without one, as long as no slot of
\* a plan was set apart as out of its window (docs/spec/regles-fonctionnelles.md: 105).  A
\* joker who is a player too stands in on lines of others.
CountIsTrueInWindow ==
  pc = "done" /\ (\A h \in DOMAIN plans : plans[h].outside = {})
    => /\ CountedAsBooked = Playing
       /\ \A h \in DOMAIN plans :
            {p \in ToSet(inp.confirmed[h]) \ {inp.joker} : Count(BookedLines(h), p) > 0} \subseteq Playing

\* The planning of a job comes to its end when a stand-in is always there: a joker, and at
\* most one player who is not registered.  The extension of a session may go round for
\* ever otherwise.
TerminatesIfCovered ==
  inp.joker # NoOne /\ Cardinality(inp.unregistered) <= 1 => <>(pc = "done")

\* The parts above, as they are checked.  Of the courts: hours, layers, rotations and late
\* players share the slots without taking one of them twice, the ledger that says so is
\* true, and an hour plans on no more courts at a time than the rule allows.
CourtsSound == LedgerOfTheDay /\ SlotOnce /\ CourtsOfAnHour

\* Of the players: every voter is placed once, named as often as asked and on one court at
\* a time, under a name that the club accepts, within the limit of the day, and not beside
\* another with priority.
PlayersSound ==
  /\ OnePlaceAtATime /\ NamesAccepted /\ LimitButRotation
  /\ EveryoneNamedEnough /\ VotersKept /\ PriorityApart
=============================================================================
