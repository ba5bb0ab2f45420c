---------------------------- MODULE RealBooking ----------------------------
(***************************************************************************)
(* The announce node of a job that books for real (apps/worker:             *)
(* graph/nodes/announce.ts).                                                *)
(*                                                                          *)
(* Each line of the plan is asked of the club, one call after the other.     *)
(* When the club refuses one of the two names, volunteers then the joker are  *)
(* tried in its place; who has no credit left is learnt from the refusals,   *)
(* which name the player or do not, and is not asked again.  A refused line   *)
(* does not stop the others; when all are refused the node fails.  Then the  *)
(* courts are announced.  A node that failed is retried from its start, with *)
(* the same plan.                                                            *)
(***************************************************************************)
EXTENDS BookablePair, FiniteSets

CONSTANTS
  Inputs,      \* plans, volunteers, jokers, registrations and credits considered
  Mishaps,     \* what may go wrong: "take", "error", "lose", "refuse", "crash"
  MaxMishaps,  \* how often
  MaxRuns      \* executions of the node, retries included

ASSUME LinesAreASequence ==
  \A x \in Inputs : Len(x.lines) \in Nat /\ DOMAIN x.lines = 1 .. Len(x.lines)

ASSUME CreditsAreCounted ==
  /\ \A x \in Inputs : x.credits \in [DOMAIN x.credits -> Nat]
  /\ MaxMishaps \in Nat /\ MaxRuns \in Nat \ {0}

ASSUME NamesArePlayers ==
  \A x \in Inputs :
    LET players == DOMAIN x.credits
    IN  /\ x.lines \in Seq(players \X players) /\ x.volunteers \in Seq(players)
        \* a line of a plan names two different players (PlanJob, NamesAccepted)
        /\ \A l \in DOMAIN x.lines : x.lines[l][1] # x.lines[l][2]
        /\ x.joker \in players \cup {NoOne} /\ NoOne \notin players
        /\ x.maxDaily \in Nat

VARIABLES
  inp,      \* the input: lines, joker, volunteers, ...
  club,     \* who holds the slot of each line at the club, for which pair; external
  credits,  \* bookings each player may still make; external
  pc,       \* where the node is
  i,        \* the line being booked
  batch,    \* what this execution has learnt and done
  told,     \* what the group has been told
  runs, mishaps, lost

vars == <<inp, club, credits, pc, i, batch, told, runs, mishaps, lost>>

Held(by, pair) == [by |-> by, pair |-> pair]
Free == Held("nobody", << >>)
SomeoneElse == Held("someone else", << >>)

Lines == DOMAIN inp.lines
Pair == inp.lines[i]
Ours == {l \in Lines : club[l].by = "us"}
LinesOf(p) == {l \in Lines : p \in ToSet(inp.lines[l])}

\* Nothing is kept of an execution when the node starts again.
NewBatch ==
  [daily |-> [p \in DOMAIN inp.credits |-> Cardinality(LinesOf(p))],
   exhausted |-> {}, suspect |-> NoOne, subs |-> {}, failures |-> {},
   cands |-> << >>, error |-> "none", holder |-> NoOne]

Init ==
  /\ inp \in Inputs
  /\ club = [l \in Lines |-> Free]
  /\ credits = inp.credits
  /\ pc = "go" /\ i = 1
  /\ batch = NewBatch
  /\ told = {}
  /\ runs = 1 /\ mishaps = 0 /\ lost = FALSE

Mishap(kind) ==
  /\ kind \in Mishaps /\ mishaps < MaxMishaps
  /\ mishaps' = mishaps + 1

-----------------------------------------------------------------------------
(* reserve_slot: the club books a line for two names, or says why not.       *)

Unable(pair) == {p \in ToSet(pair) : p \in inp.unregistered}
Spent(pair) == {p \in ToSet(pair) : credits[p] = 0}

\* The players a refusal designates: all, some or none of those it is about.
Blamed(who) == SUBSET who

\* The name its message quotes, when it is surely that of one player of the line.
Quoted(who) == {{p} : p \in who}

\* A restart in the middle of a call is a lost answer, then a crash.
Refusals(pair) ==
  (IF Unable(pair) = {} THEN {}
   ELSE {[reason |-> "PLAYER_NOT_REGISTERED", blamed |-> b] : b \in Blamed(Unable(pair))})
  \cup (IF Spent(pair) = {} THEN {}
        ELSE {[reason |-> "PLAYER_BOOKING_LIMIT_REACHED", blamed |-> b] :
                b \in Blamed(Spent(pair)) \cup Quoted(Spent(pair))})
  \cup (IF club[i].by = "nobody" THEN {} ELSE {[reason |-> "SLOT_ALREADY_BOOKED", blamed |-> {}]})

Reserves(pair) ==
  /\ club' = [club EXCEPT ![i] = Held("us", pair)]
  /\ credits' = [p \in DOMAIN credits |-> IF p \in ToSet(pair) THEN credits[p] - 1 ELSE credits[p]]

Accepted(pair) == Refusals(pair) = {} /\ Reserves(pair) /\ UNCHANGED <<mishaps, lost>>
Refused(pair, r) == r \in Refusals(pair) /\ UNCHANGED <<club, credits, mishaps, lost>>
\* A technical failure, after the booking or without it.
Broken(pair) ==
  \/ Mishap("error") /\ UNCHANGED <<club, credits, lost>>
  \/ Mishap("lose") /\ Refusals(pair) = {} /\ Reserves(pair) /\ lost' = TRUE

-----------------------------------------------------------------------------
(* One line (reserveOneForReal).                                             *)

\* Mutant: the volunteers of the line count for nothing in the day.
AvailableAnyDay == Excluding(inp.volunteers, batch.exhausted)

AtLimit == {s \in ToSet(inp.volunteers) : batch.daily[s] >= inp.maxDaily}
Available == Excluding(inp.volunteers, AtLimit \cup batch.exhausted)

UsableJoker == IF inp.joker \in batch.exhausted THEN NoOne ELSE inp.joker

Start ==
  /\ pc = "go"
  /\ pc' = IF inp.lines = << >> THEN "telegram" ELSE IF inp.real THEN "line" ELSE "announce"
  /\ UNCHANGED <<inp, club, credits, i, batch, told, runs, mishaps, lost>>

\* A player known to have no credit left is replaced without asking the club.
NextLine ==
  /\ pc = "line" /\ i <= Len(inp.lines)
  /\ LET known == ToSet(Pair) \cap batch.exhausted
     IN IF known = {} THEN pc' = "call" /\ UNCHANGED batch
        ELSE /\ pc' = "cascade"
             /\ batch' = [batch EXCEPT !.error = "known",
                  !.cands = BookingSubstitutionCandidates(Pair, UsableJoker, known, Available)]
  /\ UNCHANGED <<inp, club, credits, i, told, runs, mishaps, lost>>

Other(pair) == IF pair[1] = inp.joker THEN pair[2] ELSE pair[1]

\* Mutant: a line booked with the joker clears the other player, not the joker.
ClearWrongSuspicion(b) ==
  IF b.suspect = NoOne \/ inp.joker \notin ToSet(Pair) THEN b
  ELSE [b EXCEPT !.suspect = NoOne, !.exhausted = @ \cup {Other(Pair)}]

\* The joker had a credit: the one who had none was his partner of the refused line.
ClearJokerSuspicion(b) ==
  IF b.suspect = NoOne \/ inp.joker \notin ToSet(Pair) \/ Other(Pair) = b.suspect THEN b
  ELSE [b EXCEPT !.suspect = NoOne, !.exhausted = @ \cup {b.suspect}]

Booked ==
  /\ pc = "call" /\ Accepted(Pair)
  /\ batch' = ClearJokerSuspicion(batch)
  /\ pc' = "line" /\ i' = i + 1
  /\ UNCHANGED <<inp, told, runs>>

\* The player without credit, when the refusal names him alone.
Holder(r) ==
  IF r.reason = "PLAYER_BOOKING_LIMIT_REACHED" /\ Cardinality(r.blamed) = 1
  THEN CHOOSE p \in r.blamed : TRUE ELSE NoOne

NoteHolder(r) == IF Holder(r) = NoOne THEN {} ELSE {Holder(r)}

\* Only a refusal for a player is worth another name.
Replace ==
  /\ pc = "call"
  /\ \E r \in Refusals(Pair) :
       /\ Refused(Pair, r) /\ r.reason \in SubstitutableReasons
       /\ batch' = [batch EXCEPT
            !.error = r.reason, !.holder = Holder(r),
            !.exhausted = @ \cup NoteHolder(r),
            !.cands = BookingSubstitutionCandidates(Pair, UsableJoker, r.blamed, Available)]
  /\ pc' = "cascade"
  /\ UNCHANGED <<inp, i, told, runs>>

LineFails(b) ==
  /\ batch' = [b EXCEPT !.failures = @ \cup {i}, !.cands = << >>, !.error = "none", !.holder = NoOne]
  /\ pc' = "line" /\ i' = i + 1

GiveUp ==
  /\ pc = "call"
  /\ \/ Refused(Pair, [reason |-> "SLOT_ALREADY_BOOKED", blamed |-> {}])
     \/ Broken(Pair)
  /\ LineFails(batch)
  /\ UNCHANGED <<inp, told, runs>>

\* One name has changed and the club accepts: the name replaced had no credit.
NoteReplaced(c) ==
  IF batch.error = "PLAYER_BOOKING_LIMIT_REACHED" /\ batch.holder = NoOne THEN {c.replaced} ELSE {}

\* Only the first name that replaces another is counted in the day.
Lent(daily, c) == IF c.kind = "substitute" THEN [daily EXCEPT ![c.by] = @ + 1] ELSE daily

TryCandidate ==
  /\ pc = "cascade" /\ batch.cands # << >>
  /\ LET c == Head(batch.cands)
     IN \/ /\ Accepted(c.pair)
           /\ batch' = [batch EXCEPT
                !.subs = @ \cup {[line |-> i, by |-> c.by, replaced |-> c.replaced]},
                !.daily = Lent(@, c),
                !.exhausted = @ \cup NoteReplaced(c),
                !.cands = << >>, !.error = "none", !.holder = NoOne]
           /\ pc' = "line" /\ i' = i + 1
        \/ /\ (\E r \in Refusals(c.pair) : Refused(c.pair, r)) \/ Broken(c.pair)
           /\ batch' = [batch EXCEPT !.cands = Tail(@)]
           /\ UNCHANGED <<pc, i>>
  /\ UNCHANGED <<inp, told, runs>>

\* A refusal that names nobody, on a line of the joker: he is suspected, then held to
\* have no credit when it happens again with another partner.
SuspectJoker(b) ==
  IF b.error # "PLAYER_BOOKING_LIMIT_REACHED" \/ b.holder # NoOne \/ inp.joker \notin ToSet(Pair)
  THEN b
  ELSE IF b.suspect = NoOne THEN [b EXCEPT !.suspect = Other(Pair)]
  ELSE IF b.suspect = Other(Pair) THEN b
  ELSE [b EXCEPT !.suspect = NoOne, !.exhausted = @ \cup {inp.joker}]

CascadeFails ==
  /\ pc = "cascade" /\ batch.cands = << >>
  /\ LineFails(SuspectJoker(batch))
  /\ UNCHANGED <<inp, club, credits, told, runs, mishaps, lost>>

-----------------------------------------------------------------------------
(* After the last line (reserveAllForReal, createAnnounceNode).              *)

\* Mutant: one line refused fails the whole booking, as before ADR-027.
AnyRefused == batch.failures # {}

AllRefused == batch.failures = Lines /\ Lines # {}

\* Mutant: the courts of the plan are announced.
ReservedAll == Lines

\* The courts announced: those that have not been refused.
Reserved == Lines \ batch.failures

\* The group is told that no court has been booked, if the message goes through.
TotalFailure ==
  /\ pc = "line" /\ i > Len(inp.lines) /\ AllRefused
  /\ \/ told' = told \cup {[what |-> "nothing booked", lines |-> {}]} /\ UNCHANGED mishaps
     \/ Mishap("refuse") /\ UNCHANGED told
  /\ pc' = "failed"
  /\ UNCHANGED <<inp, club, credits, i, batch, runs, lost>>

LinesDone ==
  /\ pc = "line" /\ i > Len(inp.lines) /\ ~AllRefused
  /\ pc' = "announce"
  /\ UNCHANGED <<inp, club, credits, i, batch, told, runs, mishaps, lost>>

Announce ==
  /\ pc = "announce"
  /\ told' = told \cup {[what |-> "announced", lines |-> Reserved]}
  /\ pc' = "telegram"
  /\ UNCHANGED <<inp, club, credits, i, batch, runs, mishaps, lost>>

\* The final roster is sent again by the tick; the former announcement fails the node.
AnnounceRefused ==
  /\ pc = "announce" /\ Mishap("refuse")
  /\ pc' = IF inp.roster THEN "telegram" ELSE "failed"
  /\ UNCHANGED <<inp, club, credits, i, batch, told, runs, lost>>

\* The message to the organiser is the last step, and not best-effort.
Report ==
  /\ pc = "telegram"
  /\ \/ pc' = "done" /\ UNCHANGED mishaps
     \/ pc' = "failed" /\ Mishap("refuse")
  /\ UNCHANGED <<inp, club, credits, i, batch, told, runs, lost>>

Crash ==
  /\ pc \in {"line", "call", "cascade", "announce", "telegram"}
  /\ Mishap("crash")
  /\ pc' = "failed"
  /\ UNCHANGED <<inp, club, credits, i, batch, told, runs, lost>>

Retry ==
  /\ pc = "failed" /\ runs < MaxRuns
  /\ pc' = "go" /\ i' = 1 /\ batch' = NewBatch
  /\ runs' = runs + 1
  /\ UNCHANGED <<inp, club, credits, told, mishaps, lost>>

\* Another member of the club takes a slot of the plan.
Take ==
  /\ Mishap("take")
  /\ \E l \in Lines : club[l].by = "nobody" /\ club' = [club EXCEPT ![l] = SomeoneElse]
  /\ UNCHANGED <<inp, credits, pc, i, batch, told, runs, lost>>

Next ==
  \/ Start \/ NextLine \/ Booked \/ Replace \/ GiveUp \/ TryCandidate \/ CascadeFails
  \/ TotalFailure \/ LinesDone \/ Announce \/ AnnounceRefused \/ Report
  \/ Crash \/ Retry \/ Take

Spec == Init /\ [][Next]_vars

-----------------------------------------------------------------------------
(* Properties.                                                               *)

Players == DOMAIN inp.credits

\* Types: what the node keeps of an execution, and what the club holds.
TypeOK ==
  /\ DOMAIN club = Lines /\ credits \in [Players -> Nat]
  /\ pc \in {"go", "line", "call", "cascade", "announce", "telegram", "done", "failed"}
  /\ i \in 1 .. Len(inp.lines) + 1
  /\ batch.daily \in [Players -> Nat]
  /\ batch.failures \subseteq Lines
  /\ runs \in 1 .. MaxRuns /\ mishaps \in 0 .. MaxMishaps

\* A court announced to the group is held at the club for the job, and a court that
\* the first execution holds, no answer lost, is announced: a name that replaces
\* another never leaves a line booked and reported as refused, nor the reverse.
AnnouncedIsBooked ==
  inp.real => \A t \in {m \in told : m.what = "announced"} :
                /\ t.lines \subseteq Ours
                /\ runs = 1 /\ ~lost => t.lines = Ours

\* A player held to have no credit left has none, so no line is refused to him for
\* nothing: the refusals are read right, named or not.  The joker is left out: two
\* partners without credit are enough to have him held for it.
ExhaustedIsTrue ==
  /\ batch.exhausted \subseteq Players
  /\ \A p \in batch.exhausted \ {inp.joker} : credits[p] = 0

\* No call of the cascade names a player known to have no credit left.
NeverInVain ==
  \A k \in DOMAIN batch.cands : ToSet(batch.cands[k].pair) \cap batch.exhausted = {}

\* A volunteer who replaces a player does not exceed the daily limit of the rule, the
\* lines of the plan included.  The second volunteer of a line is left out: the code
\* counts the first only; so is the joker, who has no limit.
VolunteersCapped ==
  \A p \in ToSet(inp.volunteers) \ {inp.joker} :
    LET lent == {s.line : s \in {t \in batch.subs : t.by = p}}
        planned == {l \in LinesOf(p) \cap Ours : p \in ToSet(club[l].pair)}
    IN Cardinality(lent) > 0 => Cardinality(lent \cup planned) <= inp.maxDaily

\* The line fails although one name was wrong, another person could carry it and
\* the court was free.  The joker counts as such as long as he is not held to have no
\* credit, which he may be wrongly: he is not asked any more then, not even as one of
\* the volunteers.
CanCarry(p) ==
  /\ p # NoOne /\ p \notin ToSet(Pair)
  /\ credits[p] > 0 /\ p \notin inp.unregistered
CouldBeRescued ==
  /\ club[i].by = "nobody"
  /\ Cardinality(Unable(Pair) \cup Spent(Pair)) = 1
  /\ \/ CanCarry(UsableJoker)
     \/ \E k \in DOMAIN inp.volunteers :
          /\ inp.volunteers[k] # inp.joker /\ CanCarry(inp.volunteers[k])
          /\ batch.daily[inp.volunteers[k]] < inp.maxDaily
\* As long as nothing technical fails, a line is not given up while a volunteer or the
\* joker could still carry it: the order of the attempts skips nobody.
NoRescueMissed ==
  [][batch'.failures \ batch.failures # {} /\ mishaps' = 0 => ~CouldBeRescued]_vars

\* The booking keeps the promise of ADR-027, retries and lost answers included.
RealLines == IF inp.real THEN Lines ELSE {}
Promise == INSTANCE BookingPromise WITH
  lines <- RealLines,
  open <- {l \in RealLines : l >= i},
  booked <- Ours,
  refused <- batch.failures,
  verdict <- CASE pc \in {"announce", "telegram", "done"} -> "booked"
               [] pc = "failed" /\ AllRefused -> "failed"
               [] pc = "failed" /\ ~AllRefused -> "interrupted"
               [] OTHER -> "none"
KeepsPromise == Promise!Spec

\* The parts above, as they are checked.  What the group is told is what the club holds.
BookingSound == TypeOK /\ AnnouncedIsBooked

\* What is learnt from the refusals is true and used: no credit is missed, no name is tried
\* in vain, no volunteer is asked too often.
NamesSound == ExhaustedIsTrue /\ NeverInVain /\ VolunteersCapped
=============================================================================
