------------------------- MODULE RealBookingProofs -------------------------
(***************************************************************************)
(* The booking implements BookingPromise, what it announces is what the club  *)
(* holds, and what it learns from the refusals is true and used: for any plan, *)
(* any club, any number of mishaps and retries.                                *)
(***************************************************************************)
EXTENDS RealBooking, FiniteSetTheorems, SequenceTheorems, WellFoundedInduction, TLAPS

(* The lines before the index are settled, the refused ones among them. *)
LinesInv ==
  /\ Len(inp.lines) \in Nat /\ Lines = 1 .. Len(inp.lines) /\ DOMAIN club = Lines
  /\ i \in 1 .. Len(inp.lines) + 1
  /\ "failures" \in DOMAIN batch /\ batch.failures \subseteq 1 .. i - 1

(* Where the node is says how far it is: past the lines when it announces, and it
   announces nothing when all are refused.  Without a real booking the club is not
   called. *)
PlaceInv ==
  /\ pc \in {"go", "line", "call", "cascade", "announce", "telegram", "done", "failed"}
  /\ pc = "go" => i = 1 /\ batch.failures = {}
  /\ pc \in {"line", "call", "cascade"} => inp.real
  /\ pc \in {"call", "cascade"} => i \in Lines
  /\ pc \in {"announce", "telegram", "done"} /\ inp.real => i = Len(inp.lines) + 1 /\ ~AllRefused
  /\ ~inp.real => batch.failures = {} /\ Ours = {}

IInv == LinesInv /\ PlaceInv

(* The verdict of the promise. *)
Verdict ==
  CASE pc \in {"announce", "telegram", "done"} -> "booked"
    [] pc = "failed" /\ AllRefused -> "failed"
    [] pc = "failed" /\ ~AllRefused -> "interrupted"
    [] OTHER -> "none"

OpenLines == {l \in RealLines : l >= i}

LEMMA InitInv == Init => IInv /\ Promise!Init
<1> SUFFICES ASSUME Init PROVE IInv /\ Promise!Init
  OBVIOUS
<1>1. Len(inp.lines) \in Nat /\ Lines = 1 .. Len(inp.lines)
  BY LinesAreASequence DEF Init, Lines
<1>2. /\ DOMAIN club = Lines /\ Ours = {} /\ i = 1 /\ pc = "go"
  <2>1. \A l \in Lines : club[l].by = "nobody"
    BY DEF Init, Free, Held
  <2> QED
    BY <2>1 DEF Init, Ours
<1>3. "failures" \in DOMAIN batch /\ batch.failures = {}
  BY DEF Init, NewBatch
<1>4. IInv
  BY <1>1, <1>2, <1>3 DEF IInv, LinesInv, PlaceInv
<1>5. RealLines \subseteq Nat /\ {l \in RealLines : l >= i} = RealLines
  BY <1>1, <1>2 DEF RealLines
<1> QED
  BY <1>2, <1>3, <1>4, <1>5 DEF Promise!Init

-----------------------------------------------------------------------------
(* The steps of the promise, in the terms of the booking.                     *)

LEMMA VerdictIs ==
  /\ pc \in {"go", "line", "call", "cascade"} => Verdict = "none"
  /\ pc \in {"announce", "telegram", "done"} => Verdict = "booked"
  /\ pc = "failed" => Verdict = IF AllRefused THEN "failed" ELSE "interrupted"
BY DEF Verdict

LEMMA VerdictIsNext ==
  /\ pc' \in {"go", "line", "call", "cascade"} => Verdict' = "none"
  /\ pc' \in {"announce", "telegram", "done"} => Verdict' = "booked"
  /\ pc' = "failed" => Verdict' = IF AllRefused' THEN "failed" ELSE "interrupted"
BY DEF Verdict

LEMMA Stutters ==
  ASSUME RealLines' = RealLines, OpenLines' = OpenLines, Ours' = Ours,
         batch'.failures = batch.failures, Verdict' = Verdict
  PROVE  UNCHANGED Promise!vars
BY DEF Promise!vars, OpenLines, Verdict

LEMMA CurrentLine ==
  ASSUME IInv, inp.real, i \in Lines
  PROVE  /\ Promise!Current = i /\ i \in OpenLines /\ OpenLines # {}
         /\ inp' = inp /\ i' = i + 1 => RealLines' = RealLines /\ OpenLines' = OpenLines \ {i}
<1> DEFINE M == Promise!Min({l \in RealLines : l >= i})
<1>1. RealLines = Lines /\ Lines \subseteq Nat /\ i \in Nat
  BY DEF IInv, LinesInv, RealLines
<1>2. i \in {l \in RealLines : l >= i} /\ \A y \in {l \in RealLines : l >= i} : i <= y
  BY <1>1
<1>3. M \in {l \in RealLines : l >= i} /\ \A y \in {l \in RealLines : l >= i} : M <= y
  BY <1>2 DEF Promise!Min
<1>4. M = i
  <2>1. M <= i /\ i <= M /\ M \in Nat
    BY <1>1, <1>2, <1>3
  <2> HIDE DEF M
  <2> QED
    BY <1>1, <2>1
<1>5. i \in OpenLines /\ OpenLines # {}
  BY <1>2 DEF OpenLines
<1>6. ASSUME inp' = inp, i' = i + 1 PROVE RealLines' = RealLines /\ OpenLines' = OpenLines \ {i}
  <2>1. RealLines' = RealLines
    BY <1>6 DEF RealLines, Lines
  <2>2. \A l \in RealLines : l >= i + 1 <=> l >= i /\ l # i
    BY <1>1
  <2> QED
    BY <1>6, <2>1, <2>2 DEF OpenLines
<1> QED
  BY <1>4, <1>5, <1>6 DEF Promise!Current

LEMMA BookStep ==
  ASSUME IInv, inp.real, i \in Lines, inp' = inp, i' = i + 1, Verdict = "none", Verdict' = "none",
         i \notin Ours, Ours' = Ours \cup {i}, batch'.failures = batch.failures
  PROVE  Promise!Book
BY CurrentLine DEF Promise!Book, Promise!Busy, Promise!Hold, Promise!Settle, OpenLines, Verdict

LEMMA RefuseStep ==
  ASSUME IInv, inp.real, i \in Lines, inp' = inp, i' = i + 1, Verdict = "none", Verdict' = "none",
         Ours' = Ours, batch'.failures = batch.failures \cup {i}
  PROVE  Promise!Refuse
BY CurrentLine DEF Promise!Refuse, Promise!Busy, Promise!Report, Promise!Settle, OpenLines, Verdict

LEMMA BookUnheardStep ==
  ASSUME IInv, inp.real, i \in Lines, inp' = inp, Verdict = "none", Verdict' = "none",
         i \notin Ours, Ours' = Ours \cup {i},
         \/ i' = i + 1 /\ batch'.failures = batch.failures \cup {i}
         \/ i' = i /\ batch'.failures = batch.failures
  PROVE  Promise!BookUnheard
<1>1. CASE i' = i + 1 /\ batch'.failures = batch.failures \cup {i}
  BY <1>1, CurrentLine DEF Promise!BookUnheard, Promise!Busy, Promise!Hold, Promise!Report, Promise!Settle,
     OpenLines, Verdict
<1>2. CASE i' = i /\ batch'.failures = batch.failures
  <2>1. RealLines' = RealLines /\ OpenLines' = OpenLines
    BY <1>2 DEF RealLines, OpenLines, Lines
  <2> QED
    BY <1>2, <2>1, CurrentLine DEF Promise!BookUnheard, Promise!Busy, Promise!Hold, OpenLines, Verdict
<1> QED
  BY <1>1, <1>2

LEMMA ConcludeStep ==
  ASSUME Verdict = "none", OpenLines = {}, inp' = inp, i' = i, Ours' = Ours,
         batch'.failures = batch.failures,
         Verdict' = IF batch.failures = RealLines /\ RealLines # {} THEN "failed" ELSE "booked"
  PROVE  Promise!Conclude
<1>1. RealLines' = RealLines /\ OpenLines' = OpenLines
  BY DEF RealLines, OpenLines, Lines
<1> QED
  BY <1>1 DEF Promise!Conclude, OpenLines, Verdict

LEMMA InterruptStep ==
  ASSUME Verdict \in {"none", "booked"}, Verdict' = "interrupted", inp' = inp, i' = i, Ours' = Ours,
         batch'.failures = batch.failures
  PROVE  Promise!Interrupt
<1>1. RealLines' = RealLines /\ OpenLines' = OpenLines
  BY DEF RealLines, OpenLines, Lines
<1> QED
  BY <1>1 DEF Promise!Interrupt, OpenLines, Verdict

-----------------------------------------------------------------------------
(* The steps of the booking.                                                  *)

(* A call holds the line for the job, or leaves the club as it is. *)
HoldsLine == i \notin Ours /\ Ours' = Ours \cup {i} /\ DOMAIN club' = DOMAIN club
ClubSame == club' = club

LEMMA CallFacts ==
  ASSUME IInv, i \in Lines, inp' = inp, NEW pair
  PROVE  /\ Refusals(pair) = {} /\ Reserves(pair) => HoldsLine
         /\ Accepted(pair) => HoldsLine
         /\ \A r : Refused(pair, r) => ClubSame
         /\ Broken(pair) => HoldsLine \/ ClubSame
<1>1. ASSUME Refusals(pair) = {} PROVE i \notin Ours
  <2>1. club[i].by = "nobody"
    BY <1>1 DEF Refusals
  <2> QED
    BY <2>1 DEF Ours
<1>2. ASSUME Reserves(pair) PROVE Ours' = Ours \cup {i} /\ DOMAIN club' = DOMAIN club
  <2>1. club' = [club EXCEPT ![i] = Held("us", pair)] /\ DOMAIN club = Lines
    BY <1>2 DEF Reserves, IInv, LinesInv
  <2>2. Held("us", pair).by = "us"
    BY DEF Held
  <2>3. /\ DOMAIN club' = DOMAIN club /\ club'[i].by = "us"
        /\ \A l \in Lines : l # i => club'[l] = club[l]
    BY <2>1, <2>2
  <2> QED
    BY <2>3 DEF Ours, Lines
<1>3. Accepted(pair) => HoldsLine
  BY <1>1, <1>2 DEF Accepted, HoldsLine
<1>4. \A r : Refused(pair, r) => ClubSame
  BY DEF Refused, ClubSame
<1>5. Broken(pair) => HoldsLine \/ ClubSame
  BY <1>1, <1>2 DEF Broken, HoldsLine, ClubSame
<1> QED
  BY <1>1, <1>2, <1>3, <1>4, <1>5 DEF HoldsLine

LEMMA OursSame == ClubSame /\ inp' = inp => Ours' = Ours /\ DOMAIN club' = DOMAIN club
BY DEF ClubSame, Ours, Lines

(* The failures of the batch, whatever else it learns. *)
FailuresOf(b, f) == "failures" \in DOMAIN b /\ b.failures = f

LEMMA LearningFails ==
  ASSUME NEW b, "failures" \in DOMAIN b
  PROVE  FailuresOf(ClearJokerSuspicion(b), b.failures) /\ FailuresOf(SuspectJoker(b), b.failures)
BY DEF FailuresOf, ClearJokerSuspicion, SuspectJoker

LEMMA LineFailsFacts ==
  ASSUME NEW b, "failures" \in DOMAIN b, LineFails(b)
  PROVE  FailuresOf(batch', b.failures \cup {i}) /\ pc' = "line" /\ i' = i + 1
BY DEF FailuresOf, LineFails

(* The invariant, for the line settled and for the line kept. *)
LEMMA LineSettled ==
  ASSUME IInv, inp.real, i \in Lines, inp' = inp, i' = i + 1, pc' = "line", DOMAIN club' = DOMAIN club,
         FailuresOf(batch', batch.failures) \/ FailuresOf(batch', batch.failures \cup {i})
  PROVE  IInv'
<1>1. Lines' = Lines
  BY DEF Lines
<1>2. LinesInv'
  BY <1>1 DEF IInv, LinesInv, FailuresOf
<1>3. PlaceInv'
  BY DEF PlaceInv
<1> QED
  BY <1>2, <1>3 DEF IInv

LEMMA LineKept ==
  ASSUME IInv, inp.real, i \in Lines, inp' = inp, i' = i, pc' \in {"call", "cascade"},
         DOMAIN club' = DOMAIN club, FailuresOf(batch', batch.failures)
  PROVE  IInv'
<1>1. Lines' = Lines
  BY DEF Lines
<1>2. LinesInv'
  BY <1>1 DEF IInv, LinesInv, FailuresOf
<1>3. PlaceInv'
  BY <1>1 DEF PlaceInv
<1> QED
  BY <1>2, <1>3 DEF IInv

Implements == IInv' /\ [Promise!Next]_(Promise!vars)

LEMMA LineBooked ==
  ASSUME IInv, inp.real, i \in Lines, inp' = inp, i' = i + 1, pc \in {"call", "cascade"}, pc' = "line",
         HoldsLine, FailuresOf(batch', batch.failures)
  PROVE  Implements
<1>1. Promise!Book
  BY VerdictIs, VerdictIsNext, BookStep DEF HoldsLine, FailuresOf
<1>2. IInv'
  BY LineSettled DEF HoldsLine
<1> QED
  BY <1>1, <1>2 DEF Implements, Promise!Next

LEMMA LineRefused ==
  ASSUME IInv, inp.real, i \in Lines, inp' = inp, i' = i + 1, pc \in {"call", "cascade"}, pc' = "line",
         HoldsLine \/ ClubSame, FailuresOf(batch', batch.failures \cup {i})
  PROVE  Implements
<1>1. CASE HoldsLine
  <2>1. Promise!BookUnheard
    BY <1>1, VerdictIs, VerdictIsNext, BookUnheardStep DEF HoldsLine, FailuresOf
  <2>2. IInv'
    BY <1>1, LineSettled DEF HoldsLine
  <2> QED
    BY <2>1, <2>2 DEF Implements, Promise!Next
<1>2. CASE ClubSame
  <2>1. Promise!Refuse
    BY <1>2, OursSame, VerdictIs, VerdictIsNext, RefuseStep DEF FailuresOf
  <2>2. IInv'
    BY <1>2, OursSame, LineSettled
  <2> QED
    BY <2>1, <2>2 DEF Implements, Promise!Next
<1> QED
  BY <1>1, <1>2

LEMMA LineGoesOn ==
  ASSUME IInv, inp.real, i \in Lines, inp' = inp, i' = i, pc \in {"line", "call", "cascade"},
         pc' \in {"call", "cascade"}, HoldsLine \/ ClubSame, FailuresOf(batch', batch.failures)
  PROVE  Implements
<1>1. CASE HoldsLine
  <2>1. Promise!BookUnheard
    BY <1>1, VerdictIs, VerdictIsNext, BookUnheardStep DEF HoldsLine, FailuresOf
  <2>2. IInv'
    BY <1>1, LineKept DEF HoldsLine
  <2> QED
    BY <2>1, <2>2 DEF Implements, Promise!Next
<1>2. CASE ClubSame
  <2>1. RealLines' = RealLines /\ OpenLines' = OpenLines
    BY DEF RealLines, OpenLines, Lines
  <2>2. UNCHANGED Promise!vars
    BY <1>2, <2>1, OursSame, VerdictIs, VerdictIsNext, Stutters DEF FailuresOf
  <2>3. IInv'
    BY <1>2, OursSame, LineKept
  <2> QED
    BY <2>2, <2>3 DEF Implements
<1> QED
  BY <1>1, <1>2

LEMMA Failures == IInv => "failures" \in DOMAIN batch /\ FailuresOf(batch, batch.failures)
BY DEF IInv, LinesInv, FailuresOf

LEMMA CallImplements == IInv /\ (NextLine \/ Booked \/ Replace \/ GiveUp) => Implements
<1> SUFFICES ASSUME IInv, NextLine \/ Booked \/ Replace \/ GiveUp PROVE Implements
  OBVIOUS
<1>1. CASE NextLine
  <2>1. i \in Lines /\ inp.real /\ inp' = inp /\ i' = i /\ pc = "line" /\ ClubSame
    BY <1>1 DEF NextLine, IInv, LinesInv, PlaceInv, ClubSame
  <2>2. pc' \in {"call", "cascade"} /\ FailuresOf(batch', batch.failures)
    BY <1>1, Failures DEF NextLine, FailuresOf
  <2> QED
    BY <2>1, <2>2, LineGoesOn
<1>2. ASSUME pc = "call" PROVE i \in Lines /\ inp.real
  BY <1>2 DEF IInv, PlaceInv
<1>3. CASE Booked
  <2>1. /\ i \in Lines /\ inp.real /\ inp' = inp /\ i' = i + 1 /\ pc = "call" /\ pc' = "line"
        /\ Accepted(Pair) /\ batch' = ClearJokerSuspicion(batch)
    BY <1>2, <1>3 DEF Booked
  <2>2. HoldsLine /\ FailuresOf(batch', batch.failures)
    BY <2>1, Failures, CallFacts, LearningFails
  <2> QED
    BY <2>1, <2>2, LineBooked
<1>4. CASE Replace
  <2>1. /\ i \in Lines /\ inp.real /\ inp' = inp /\ i' = i /\ pc = "call" /\ pc' = "cascade"
        /\ \E r : Refused(Pair, r) /\ FailuresOf(batch', batch.failures)
    BY <1>2, <1>4, Failures DEF Replace, FailuresOf
  <2>2. ClubSame
    BY <2>1, CallFacts
  <2> QED
    BY <2>1, <2>2, LineGoesOn
<1>5. CASE GiveUp
  <2>1. /\ i \in Lines /\ inp.real /\ inp' = inp /\ pc = "call" /\ LineFails(batch)
        /\ (\E r : Refused(Pair, r)) \/ Broken(Pair)
    BY <1>2, <1>5 DEF GiveUp
  <2>2. HoldsLine \/ ClubSame
    BY <2>1, CallFacts
  <2>3. FailuresOf(batch', batch.failures \cup {i}) /\ pc' = "line" /\ i' = i + 1
    BY <2>1, Failures, LineFailsFacts
  <2> QED
    BY <2>1, <2>2, <2>3, LineRefused
<1> QED
  BY <1>1, <1>3, <1>4, <1>5

LEMMA CascadeImplements == IInv /\ (TryCandidate \/ CascadeFails) => Implements
<1> SUFFICES ASSUME IInv, TryCandidate \/ CascadeFails PROVE Implements
  OBVIOUS
<1>1. i \in Lines /\ inp.real /\ inp' = inp /\ pc = "cascade"
  BY DEF TryCandidate, CascadeFails, IInv, PlaceInv
<1>2. CASE TryCandidate
  <2>1. \/ /\ Accepted(Head(batch.cands).pair) /\ FailuresOf(batch', batch.failures)
           /\ pc' = "line" /\ i' = i + 1
        \/ /\ (\E r : Refused(Head(batch.cands).pair, r)) \/ Broken(Head(batch.cands).pair)
           /\ FailuresOf(batch', batch.failures) /\ pc' = "cascade" /\ i' = i
    BY <1>1, <1>2, Failures DEF TryCandidate, FailuresOf
  <2>2. CASE Accepted(Head(batch.cands).pair) /\ FailuresOf(batch', batch.failures)
             /\ pc' = "line" /\ i' = i + 1
    <3>1. HoldsLine
      BY <1>1, <2>2, CallFacts
    <3> QED
      BY <1>1, <2>2, <3>1, LineBooked
  <2>3. CASE ((\E r : Refused(Head(batch.cands).pair, r)) \/ Broken(Head(batch.cands).pair))
             /\ FailuresOf(batch', batch.failures) /\ pc' = "cascade" /\ i' = i
    <3>1. HoldsLine \/ ClubSame
      BY <1>1, <2>3, CallFacts
    <3> QED
      BY <1>1, <2>3, <3>1, LineGoesOn
  <2> QED
    BY <2>1, <2>2, <2>3
<1>3. CASE CascadeFails
  <2>1. LineFails(SuspectJoker(batch)) /\ ClubSame
    BY <1>3 DEF CascadeFails, ClubSame
  <2>2. FailuresOf(SuspectJoker(batch), batch.failures)
    BY Failures, LearningFails
  <2>3. FailuresOf(batch', batch.failures \cup {i}) /\ pc' = "line" /\ i' = i + 1
    BY <2>1, <2>2, LineFailsFacts DEF FailuresOf
  <2> QED
    BY <1>1, <2>1, <2>3, LineRefused
<1> QED
  BY <1>2, <1>3

(* What follows the lines leaves the club and the batch alone. *)
Idles == UNCHANGED <<inp, club, i, batch>>

LEMMA IdlesFacts ==
  ASSUME IInv, Idles
  PROVE  /\ Lines' = Lines /\ Ours' = Ours /\ AllRefused' = AllRefused
         /\ RealLines' = RealLines /\ OpenLines' = OpenLines /\ batch'.failures = batch.failures
         /\ LinesInv'
<1>1. Lines' = Lines /\ Ours' = Ours
  BY DEF Idles, Lines, Ours
<1>2. AllRefused' = AllRefused
  BY <1>1 DEF Idles, AllRefused
<1>3. RealLines' = RealLines /\ OpenLines' = OpenLines
  BY <1>1 DEF Idles, RealLines, OpenLines
<1>4. LinesInv'
  BY <1>1 DEF Idles, IInv, LinesInv
<1> QED
  BY <1>1, <1>2, <1>3, <1>4 DEF Idles

(* When no line is left, none is open, and all are refused or the node goes on. *)
LEMMA NothingOpen ==
  ASSUME IInv, ~inp.real \/ i > Len(inp.lines)
  PROVE  OpenLines = {} /\ (batch.failures = RealLines /\ RealLines # {} <=> AllRefused)
<1>1. CASE ~inp.real
  <2>1. RealLines = {} /\ batch.failures = {}
    BY <1>1 DEF RealLines, IInv, PlaceInv
  <2> QED
    BY <2>1 DEF OpenLines, AllRefused
<1>2. CASE inp.real /\ i > Len(inp.lines)
  <2>1. RealLines = Lines /\ Lines = 1 .. Len(inp.lines) /\ Len(inp.lines) \in Nat /\ i \in Nat
    BY <1>2 DEF RealLines, IInv, LinesInv
  <2> QED
    BY <1>2, <2>1 DEF OpenLines, AllRefused
<1> QED
  BY <1>1, <1>2

LEMMA StartImplements == IInv /\ Start => Implements
<1> SUFFICES ASSUME IInv, Start PROVE Implements
  OBVIOUS
<1>1. Idles /\ pc = "go" /\ i = 1 /\ batch.failures = {}
  BY DEF Start, Idles, IInv, PlaceInv
<1>2. CASE pc' = "line"
  <2>1. inp.real
    BY <1>1, <1>2 DEF Start
  <2>2. UNCHANGED Promise!vars
    BY <1>1, <1>2, IdlesFacts, VerdictIs, VerdictIsNext, Stutters
  <2>3. PlaceInv'
    BY <1>1, <1>2, <2>1, IdlesFacts DEF PlaceInv, Idles
  <2> QED
    BY <1>1, <2>2, <2>3, IdlesFacts DEF Implements, IInv
<1>3. CASE pc' \in {"telegram", "announce"}
  <2>1. ~inp.real \/ inp.lines = << >>
    BY <1>3 DEF Start
  <2>2. ~inp.real \/ (i = Len(inp.lines) + 1 /\ i > Len(inp.lines) /\ Lines = {})
    <3>1. Len(inp.lines) \in Nat /\ Lines = 1 .. Len(inp.lines)
      BY DEF IInv, LinesInv
    <3>2. inp.lines = << >> => Len(inp.lines) = 0
      OBVIOUS
    <3> QED
      BY <1>1, <2>1, <3>1, <3>2
  <2>3. ~AllRefused
    BY <1>1 DEF AllRefused
  <2>4. Promise!Conclude
    BY <1>1, <1>3, <2>2, <2>3, IdlesFacts, NothingOpen, VerdictIs, VerdictIsNext, ConcludeStep DEF Idles
  <2>5. PlaceInv'
    BY <1>1, <1>3, <2>2, <2>3, IdlesFacts DEF PlaceInv, Idles, IInv
  <2> QED
    BY <1>1, <2>4, <2>5, IdlesFacts DEF Implements, IInv, Promise!Next
<1>4. pc' \in {"telegram", "announce", "line"}
  BY DEF Start
<1> QED
  BY <1>2, <1>3, <1>4

LEMMA EndImplements == IInv /\ (TotalFailure \/ LinesDone) => Implements
<1> SUFFICES ASSUME IInv, TotalFailure \/ LinesDone PROVE Implements
  OBVIOUS
<1>1. Idles /\ pc = "line" /\ i > Len(inp.lines) /\ inp.real
  BY DEF TotalFailure, LinesDone, Idles, IInv, PlaceInv
<1>2. i = Len(inp.lines) + 1
  BY <1>1 DEF IInv, LinesInv
<1>3. IF AllRefused THEN pc' = "failed" ELSE pc' = "announce"
  BY DEF TotalFailure, LinesDone
<1>4. Promise!Conclude
  BY <1>1, <1>3, IdlesFacts, NothingOpen, VerdictIs, VerdictIsNext, ConcludeStep DEF Idles
<1>5. PlaceInv'
  BY <1>1, <1>2, <1>3, IdlesFacts DEF PlaceInv, Idles
<1> QED
  BY <1>1, <1>4, <1>5, IdlesFacts DEF Implements, IInv, Promise!Next

(* A node that fails: from its lines it may have concluded that all are refused. *)
LEMMA FailsImplements ==
  ASSUME IInv, Idles, pc \in {"line", "call", "cascade", "announce", "telegram"}, pc' = "failed"
  PROVE  Implements
<1>1. PlaceInv'
  BY IdlesFacts DEF PlaceInv, Idles, IInv
<1>2. CASE ~AllRefused
  <2>1. Promise!Interrupt
    BY <1>2, IdlesFacts, VerdictIs, VerdictIsNext, InterruptStep DEF Idles
  <2> QED
    BY <1>1, <2>1, IdlesFacts DEF Implements, IInv, Promise!Next
<1>3. CASE AllRefused
  <2>1. inp.real /\ i > Len(inp.lines) /\ pc = "line"
    <3>1. inp.real /\ pc \notin {"announce", "telegram"}
      BY <1>3 DEF AllRefused, IInv, PlaceInv
    <3>2. Lines \subseteq 1 .. i - 1 /\ i \in 1 .. Len(inp.lines) + 1 /\ Len(inp.lines) \in Nat
          /\ Lines = 1 .. Len(inp.lines) /\ Lines # {}
      BY <1>3 DEF AllRefused, IInv, LinesInv
    <3>3. Len(inp.lines) \in Lines
      BY <3>2
    <3>4. i > Len(inp.lines)
      BY <3>2, <3>3
    <3> QED
      BY <3>1, <3>2, <3>4 DEF IInv, PlaceInv
  <2>2. Promise!Conclude
    BY <1>3, <2>1, IdlesFacts, NothingOpen, VerdictIs, VerdictIsNext, ConcludeStep DEF Idles
  <2> QED
    BY <1>1, <2>2, IdlesFacts DEF Implements, IInv, Promise!Next
<1> QED
  BY <1>2, <1>3

LEMMA AnnounceImplements == IInv /\ (Announce \/ AnnounceRefused \/ Report \/ Crash) => Implements
<1> SUFFICES ASSUME IInv, Announce \/ AnnounceRefused \/ Report \/ Crash PROVE Implements
  OBVIOUS
<1>1. Idles /\ pc \in {"line", "call", "cascade", "announce", "telegram"}
  BY DEF Announce, AnnounceRefused, Report, Crash, Idles
<1>2. CASE pc' = "failed"
  BY <1>1, <1>2, FailsImplements
<1>3. CASE pc' # "failed"
  <2>1. pc \in {"announce", "telegram"} /\ pc' \in {"telegram", "done"}
    BY <1>3 DEF Announce, AnnounceRefused, Report, Crash
  <2>2. UNCHANGED Promise!vars
    BY <1>1, <2>1, IdlesFacts, VerdictIs, VerdictIsNext, Stutters
  <2>3. PlaceInv'
    BY <1>1, <2>1, IdlesFacts DEF PlaceInv, Idles, IInv
  <2> QED
    BY <1>1, <2>2, <2>3, IdlesFacts DEF Implements, IInv
<1> QED
  BY <1>2, <1>3

LEMMA RetryImplements == IInv /\ Retry => Implements
<1> SUFFICES ASSUME IInv, Retry PROVE Implements
  OBVIOUS
<1>1. UNCHANGED <<inp, club>> /\ pc = "failed" /\ pc' = "go" /\ i' = 1 /\ batch' = NewBatch
  BY DEF Retry
<1>2. FailuresOf(batch', {})
  BY <1>1 DEF NewBatch, FailuresOf
<1>3. Lines' = Lines /\ Ours' = Ours /\ RealLines' = RealLines
  BY <1>1 DEF Lines, Ours, RealLines
<1>4. OpenLines' = RealLines
  BY <1>1, <1>3 DEF OpenLines, RealLines, IInv, LinesInv
<1>5. Promise!Again
  <2>1. Verdict \in {"failed", "interrupted"} /\ Verdict' = "none"
    BY <1>1, VerdictIs, VerdictIsNext
  <2> QED
    BY <1>2, <1>3, <1>4, <2>1 DEF Promise!Again, FailuresOf, OpenLines, Verdict
<1>6. LinesInv'
  BY <1>1, <1>2, <1>3 DEF IInv, LinesInv, FailuresOf
<1>7. PlaceInv'
  BY <1>1, <1>2, <1>3 DEF IInv, PlaceInv, FailuresOf
<1> QED
  BY <1>5, <1>6, <1>7 DEF Implements, IInv, Promise!Next

(* A slot that somebody else takes was nobody's. *)
LEMMA TakeImplements == IInv /\ Take => Implements
<1> SUFFICES ASSUME IInv, Take PROVE Implements
  OBVIOUS
<1>1. UNCHANGED <<inp, pc, i, batch>>
  BY DEF Take
<1>2. PICK l \in Lines : club[l].by = "nobody" /\ club' = [club EXCEPT ![l] = SomeoneElse]
  BY DEF Take
<1>3. Lines' = Lines /\ Ours' = Ours /\ DOMAIN club' = DOMAIN club
  <2>1. Lines' = Lines /\ DOMAIN club' = DOMAIN club /\ DOMAIN club = Lines
    BY <1>1, <1>2 DEF Lines, IInv, LinesInv
  <2>2. SomeoneElse.by = "someone else"
    BY DEF SomeoneElse, Held
  <2>3. \A k \in Lines : club'[k].by = "us" <=> club[k].by = "us"
    BY <1>2, <2>1, <2>2
  <2> QED
    BY <2>1, <2>3 DEF Ours
<1>4. AllRefused' = AllRefused /\ RealLines' = RealLines /\ OpenLines' = OpenLines
  BY <1>1, <1>3 DEF AllRefused, RealLines, OpenLines
<1>5. Verdict' = Verdict
  BY <1>1, <1>4 DEF Verdict
<1>6. UNCHANGED Promise!vars
  BY <1>1, <1>3, <1>4, <1>5, Stutters
<1>7. LinesInv' /\ PlaceInv'
  BY <1>1, <1>3, <1>4 DEF IInv, LinesInv, PlaceInv
<1> QED
  BY <1>6, <1>7 DEF Implements, IInv

LEMMA NextImplements == IInv /\ [Next]_vars => IInv' /\ [Promise!Next]_(Promise!vars)
<1> SUFFICES ASSUME IInv, [Next]_vars PROVE Implements
  BY DEF Implements
<1>1. CASE UNCHANGED vars
  <2>1. Idles /\ pc' = pc
    BY <1>1 DEF vars, Idles
  <2>2. Verdict' = Verdict
    BY <2>1, IdlesFacts DEF Verdict
  <2>3. UNCHANGED Promise!vars
    BY <2>1, <2>2, IdlesFacts, Stutters
  <2>4. PlaceInv'
    BY <2>1, IdlesFacts DEF PlaceInv, Idles, IInv
  <2> QED
    BY <2>1, <2>3, <2>4, IdlesFacts DEF Implements, IInv
<1> QED
  BY <1>1, StartImplements, CallImplements, CascadeImplements, EndImplements, AnnounceImplements,
     RetryImplements, TakeImplements DEF Next

-----------------------------------------------------------------------------

(* What is announced, retried or reported as a failure follows the promise of ADR-027:
   the lines are settled one by one, none is booked twice, and the booking fails only
   when every line is refused (announce.ts): KeepsPromise of the run, for any plan, club,
   number of mishaps and retries. *)
THEOREM BookingKeepsPromise == Spec => KeepsPromise
<1>1. Init => IInv /\ Promise!Init
  BY InitInv
<1>2. IInv /\ [Next]_vars => IInv' /\ [Promise!Next]_(Promise!vars)
  BY NextImplements
<1> QED
  BY <1>1, <1>2, PTL DEF Spec, KeepsPromise, Promise!Spec

-----------------------------------------------------------------------------
(* What is announced is what the club holds.                                  *)

(* The node keeps the counts it started with, and they stay natural numbers. *)
Counted ==
  /\ inp \in Inputs
  /\ runs \in 1 .. MaxRuns /\ mishaps \in 0 .. MaxMishaps
  /\ credits \in [Players -> Nat]
  /\ "daily" \in DOMAIN batch /\ batch.daily \in [Players -> Nat]

Announced == {m \in told : m.what = "announced"}

(* A line that is past and not refused is held, whoever asked for it. *)
PastIsHeld == \A l \in Lines : l < i /\ l \notin batch.failures => l \in Ours

(* What the group has been told stays true: no line is given back. *)
ToldIsHeld == \A t \in Announced : t.lines \subseteq Ours

(* The first execution, as long as it has lost no answer, knows every line the club
   holds for it, and books no more once it has announced. *)
BeforeTold == {"go", "line", "call", "cascade", "announce"}
FirstKnows ==
  /\ Ours \subseteq (1 .. i - 1) \ batch.failures
  /\ pc \in BeforeTold => Announced = {}
  /\ \A t \in Announced : t.lines = Ours

Truth == inp.real => PastIsHeld /\ ToldIsHeld /\ (runs = 1 /\ ~lost => FirstKnows)

Sound == IInv /\ Counted /\ Truth

LEMMA SoundEnough == Sound => BookingSound
<1> SUFFICES ASSUME Sound PROVE BookingSound
  OBVIOUS
<1>1. TypeOK
  <2>1. batch.failures \subseteq Lines
    BY DEF Sound, IInv, LinesInv
  <2> QED
    BY <2>1 DEF Sound, IInv, LinesInv, PlaceInv, Counted, TypeOK
<1>2. AnnouncedIsBooked
  BY DEF Sound, Truth, ToldIsHeld, FirstKnows, Announced, AnnouncedIsBooked
<1> QED
  BY <1>1, <1>2 DEF BookingSound

(* How often each player plays in the plan. *)
LEMMA NewBatchCounts ==
  ASSUME IInv
  PROVE  /\ "daily" \in DOMAIN NewBatch /\ NewBatch.daily \in [Players -> Nat]
         /\ NewBatch.failures = {}
<1>1. ASSUME NEW p \in Players PROVE Cardinality(LinesOf(p)) \in Nat
  <2>1. Lines = 1 .. Len(inp.lines) /\ Len(inp.lines) \in Nat
    BY DEF IInv, LinesInv
  <2>2. IsFiniteSet(Lines)
    BY <2>1, FS_Interval
  <2>3. LinesOf(p) \subseteq Lines
    BY DEF LinesOf
  <2> QED
    BY <2>2, <2>3, FS_Subset, FS_CardinalityType
<1>2. NewBatch.daily = [p \in Players |-> Cardinality(LinesOf(p))]
  BY DEF NewBatch, Players
<1>3. NewBatch.daily \in [Players -> Nat]
  BY <1>1, <1>2
<1> QED
  BY <1>3 DEF NewBatch

LEMMA InitSound == Init => Sound
<1> SUFFICES ASSUME Init PROVE Sound
  OBVIOUS
<1>1. IInv
  BY InitInv
<1>2. Counted
  <2>1. credits \in [Players -> Nat]
    BY CreditsAreCounted DEF Init, Players
  <2> QED
    BY <1>1, <2>1, NewBatchCounts, CreditsAreCounted DEF Init, Counted
<1>3. Ours = {} /\ i = 1 /\ told = {} /\ Lines \subseteq Nat /\ \A l \in Lines : ~(l < 1)
  <2>1. \A l \in Lines : club[l].by = "nobody"
    BY DEF Init, Free, Held
  <2> QED
    BY <1>1, <2>1 DEF Init, Ours, IInv, LinesInv
<1>4. Truth
  BY <1>3 DEF Truth, PastIsHeld, ToldIsHeld, FirstKnows, Announced
<1> QED
  BY <1>1, <1>2, <1>4 DEF Sound

(* A call that books leaves no player with less than nothing: none was spent. *)
LEMMA CallCounts ==
  ASSUME IInv, i \in Lines, Counted, inp' = inp, NEW pair
  PROVE  /\ Accepted(pair) => credits' \in [Players -> Nat] /\ UNCHANGED <<mishaps, lost>>
         /\ \A r : Refused(pair, r) => UNCHANGED <<credits, mishaps, lost>>
         /\ Broken(pair) => /\ credits' \in [Players -> Nat] /\ mishaps' \in 0 .. MaxMishaps
                            /\ (ClubSame /\ lost' = lost) \/ (HoldsLine /\ lost')
<1>1. ASSUME Refusals(pair) = {}, Reserves(pair) PROVE credits' \in [Players -> Nat]
  <2>1. Spent(pair) = {}
    <3>1. {} \in Blamed(Spent(pair))
      BY DEF Blamed
    <3>2. Spent(pair) # {} =>
            [reason |-> "PLAYER_BOOKING_LIMIT_REACHED", blamed |-> {}] \in Refusals(pair)
      BY <3>1 DEF Refusals
    <3> QED
      BY <1>1, <3>2
  <2>2. \A p \in ToSet(pair) : credits[p] # 0
    BY <2>1 DEF Spent
  <2>3. credits \in [Players -> Nat]
        /\ credits' = [p \in DOMAIN credits |-> IF p \in ToSet(pair) THEN credits[p] - 1 ELSE credits[p]]
    BY <1>1 DEF Counted, Reserves
  <2>4. \A p \in Players : (IF p \in ToSet(pair) THEN credits[p] - 1 ELSE credits[p]) \in Nat
    <3> SUFFICES ASSUME NEW p \in Players
                 PROVE  (IF p \in ToSet(pair) THEN credits[p] - 1 ELSE credits[p]) \in Nat
      OBVIOUS
    <3>1. credits[p] \in Nat /\ (p \in ToSet(pair) => credits[p] # 0)
      BY <2>2, <2>3
    <3> QED
      BY <3>1
  <2>5. DOMAIN credits = Players
    BY <2>3
  <2>6. credits' = [p \in Players |-> IF p \in ToSet(pair) THEN credits[p] - 1 ELSE credits[p]]
    BY <2>3, <2>5
  <2> QED
    BY <2>4, <2>6
<1>2. ASSUME NEW k, Mishap(k) PROVE mishaps' \in 0 .. MaxMishaps
  BY <1>2, CreditsAreCounted DEF Mishap, Counted
<1>3. Broken(pair) => /\ credits' \in [Players -> Nat] /\ mishaps' \in 0 .. MaxMishaps
                      /\ (ClubSame /\ lost' = lost) \/ (HoldsLine /\ lost')
  BY <1>1, <1>2, CallFacts DEF Broken, Counted, ClubSame
<1> QED
  BY <1>1, <1>3 DEF Accepted, Refused

(* The steps of a line, as far as the truth of what is told goes. *)
LEMMA LineTruth ==
  ASSUME IInv, Truth, runs \in Nat, inp' = inp, told' = told, runs' = runs, i \in Lines,
         pc \in BeforeTold,
         \/ i' = i + 1 /\ HoldsLine /\ FailuresOf(batch', batch.failures) /\ lost' = lost
         \/ i' = i + 1 /\ ClubSame /\ FailuresOf(batch', batch.failures \cup {i}) /\ lost' = lost
         \/ i' = i + 1 /\ HoldsLine /\ FailuresOf(batch', batch.failures \cup {i}) /\ lost'
         \/ i' = i /\ ClubSame /\ FailuresOf(batch', batch.failures) /\ lost' = lost
         \/ i' = i /\ HoldsLine /\ FailuresOf(batch', batch.failures) /\ lost'
  PROVE  Truth'
<1> SUFFICES ASSUME inp.real PROVE (PastIsHeld /\ ToldIsHeld /\ (runs = 1 /\ ~lost => FirstKnows))'
  BY DEF Truth
<1>1. Lines' = Lines /\ Announced' = Announced
  BY DEF Lines, Announced
<1>2. Lines \subseteq Nat /\ i \in Nat /\ i \in Lines /\ Lines = 1 .. Len(inp.lines)
      /\ batch.failures \subseteq 1 .. i - 1
  BY DEF IInv, LinesInv
<1>3. Ours' = Ours \/ (Ours' = Ours \cup {i} /\ i \notin Ours)
  BY OursSame DEF HoldsLine
<1>4. PastIsHeld'
  <2> SUFFICES ASSUME NEW l \in Lines, l < i', l \notin batch'.failures PROVE l \in Ours'
    BY <1>1 DEF PastIsHeld
  <2>1. CASE l < i
    <3>1. l \notin batch.failures
      BY DEF FailuresOf
    <3> QED
      BY <1>3, <2>1, <3>1 DEF Truth, PastIsHeld
  <2>2. CASE ~(l < i)
    <3>1. l = i /\ i' = i + 1
      BY <1>2, <2>2
    <3>2. HoldsLine
      BY <1>2, <3>1 DEF FailuresOf
    <3> QED
      BY <3>1, <3>2 DEF HoldsLine
  <2> QED
    BY <2>1, <2>2
<1>5. ToldIsHeld'
  BY <1>1, <1>3 DEF Truth, ToldIsHeld
<1>6. ASSUME runs' = 1, ~lost' PROVE FirstKnows'
  <2>1. FirstKnows /\ lost' = lost
    BY <1>6 DEF Truth
  <2>2. Announced = {}
    BY <2>1 DEF FirstKnows
  <2>3. Ours' \subseteq (1 .. i' - 1) \ batch'.failures
    <3>1. Ours \subseteq (1 .. i - 1) \ batch.failures
      BY <2>1 DEF FirstKnows
    <3>2. CASE i' = i + 1 /\ HoldsLine /\ FailuresOf(batch', batch.failures)
      BY <1>2, <3>1, <3>2 DEF HoldsLine, FailuresOf
    <3>3. CASE i' = i + 1 /\ ClubSame /\ FailuresOf(batch', batch.failures \cup {i})
      <4>1. Ours' = Ours
        BY <3>3, OursSame
      <4> QED
        BY <1>2, <3>1, <3>3, <4>1 DEF FailuresOf
    <3>4. CASE i' = i /\ ClubSame /\ FailuresOf(batch', batch.failures)
      <4>1. Ours' = Ours
        BY <3>4, OursSame
      <4> QED
        BY <3>1, <3>4, <4>1 DEF FailuresOf
    <3> QED
      BY <1>6, <3>2, <3>3, <3>4
  <2> QED
    BY <1>1, <2>2, <2>3 DEF FirstKnows
<1> QED
  BY <1>4, <1>5, <1>6

(* What the batch counts of the day, whatever else it learns. *)
Counts(b) == "daily" \in DOMAIN b /\ b.daily \in [Players -> Nat]

LEMMA LearningCounts ==
  ASSUME NEW b, Counts(b)
  PROVE  /\ Counts(ClearJokerSuspicion(b)) /\ Counts(SuspectJoker(b))
         /\ (LineFails(b) => Counts(batch'))
<1>1. Counts(ClearJokerSuspicion(b))
  BY DEF Counts, ClearJokerSuspicion
<1>2. Counts(SuspectJoker(b))
  BY DEF Counts, SuspectJoker
<1> QED
  BY <1>1, <1>2 DEF Counts, LineFails

(* One more loan of a volunteer is counted, if he is one of the players. *)
LEMMA LoanCounts ==
  ASSUME NEW d \in [Players -> Nat], NEW c
  PROVE  Lent(d, c) \in [Players -> Nat]
<1>1. CASE c.kind = "substitute" /\ c.by \in Players
  <2>1. d[c.by] + 1 \in Nat
    BY <1>1
  <2> QED
    BY <1>1, <2>1 DEF Lent
<1>2. CASE ~(c.kind = "substitute" /\ c.by \in Players)
  BY <1>2 DEF Lent
<1> QED
  BY <1>1, <1>2

(* Asking the club for the line, or going on without. *)
LEMMA CallSound ==
  ASSUME Sound, NextLine \/ Booked \/ Replace \/ GiveUp
  PROVE  Counted' /\ Truth'
<1>1. IInv /\ Counted /\ Truth /\ inp' = inp /\ told' = told /\ runs' = runs /\ runs \in Nat
      /\ i \in Lines /\ inp.real /\ pc \in BeforeTold /\ Players' = Players /\ Counts(batch)
  <2>1. i \in Lines
    <3>1. NextLine => i \in Lines
      BY DEF Sound, IInv, LinesInv, NextLine
    <3>2. Booked \/ Replace \/ GiveUp => i \in Lines
      BY DEF Sound, IInv, PlaceInv, Booked, Replace, GiveUp
    <3> QED
      BY <3>1, <3>2
  <2>2. inp' = inp /\ told' = told /\ runs' = runs /\ inp.real /\ pc \in BeforeTold
    BY DEF Sound, IInv, PlaceInv, NextLine, Booked, Replace, GiveUp, BeforeTold
  <2> QED
    BY <2>1, <2>2 DEF Sound, Counted, Counts, Players
<1>2. CASE NextLine
  <2>1. i' = i /\ ClubSame /\ UNCHANGED <<credits, mishaps, lost>>
    BY <1>2 DEF NextLine, ClubSame
  <2>2. FailuresOf(batch', batch.failures) /\ Counts(batch')
    BY <1>1, <1>2, Failures DEF NextLine, FailuresOf, Counts
  <2>3. Truth'
    BY <1>1, <2>1, <2>2, LineTruth
  <2> QED
    BY <1>1, <2>1, <2>2, <2>3 DEF Counted, Counts
<1>3. CASE Booked
  <2>1. i' = i + 1 /\ Accepted(Pair) /\ batch' = ClearJokerSuspicion(batch)
    BY <1>3 DEF Booked
  <2>2. HoldsLine /\ FailuresOf(batch', batch.failures) /\ Counts(batch')
    BY <1>1, <2>1, Failures, CallFacts, LearningFails, LearningCounts
  <2>3. credits' \in [Players -> Nat] /\ UNCHANGED <<mishaps, lost>>
    BY <1>1, <2>1, CallCounts
  <2>4. Truth'
    BY <1>1, <2>1, <2>2, <2>3, LineTruth
  <2> QED
    BY <1>1, <2>2, <2>3, <2>4 DEF Counted, Counts
<1>4. CASE Replace
  <2>1. /\ i' = i /\ \E r : Refused(Pair, r)
        /\ FailuresOf(batch', batch.failures) /\ Counts(batch')
    BY <1>1, <1>4, Failures DEF Replace, FailuresOf, Counts
  <2>2. ClubSame /\ UNCHANGED <<credits, mishaps, lost>>
    BY <1>1, <2>1, CallFacts, CallCounts
  <2>3. Truth'
    BY <1>1, <2>1, <2>2, LineTruth
  <2> QED
    BY <1>1, <2>1, <2>2, <2>3 DEF Counted, Counts
<1>5. CASE GiveUp
  <2>1. LineFails(batch) /\ ((\E r : Refused(Pair, r)) \/ Broken(Pair))
    BY <1>5 DEF GiveUp
  <2>2. FailuresOf(batch', batch.failures \cup {i}) /\ i' = i + 1 /\ Counts(batch')
    BY <1>1, <2>1, Failures, LineFailsFacts, LearningCounts
  <2>3. /\ credits' \in [Players -> Nat] /\ mishaps' \in 0 .. MaxMishaps
        /\ (ClubSame /\ lost' = lost) \/ (HoldsLine /\ lost')
    <3>1. CASE \E r : Refused(Pair, r)
      <4>1. ClubSame /\ UNCHANGED <<credits, mishaps, lost>>
        BY <1>1, <3>1, CallFacts, CallCounts
      <4> QED
        BY <1>1, <4>1 DEF Counted
    <3>2. CASE Broken(Pair)
      BY <1>1, <3>2, CallCounts
    <3> QED
      BY <2>1, <3>1, <3>2
  <2>4. Truth'
    BY <1>1, <2>2, <2>3, LineTruth
  <2> QED
    BY <1>1, <2>2, <2>3, <2>4 DEF Counted, Counts
<1> QED
  BY <1>2, <1>3, <1>4, <1>5

(* Asking it with another name. *)
LEMMA CascadeSound ==
  ASSUME Sound, TryCandidate \/ CascadeFails
  PROVE  Counted' /\ Truth'
<1>1. IInv /\ Counted /\ Truth /\ inp' = inp /\ told' = told /\ runs' = runs /\ runs \in Nat
      /\ i \in Lines /\ inp.real /\ pc \in BeforeTold /\ Players' = Players /\ Counts(batch)
  <2>1. i \in Lines /\ inp.real
    BY DEF Sound, IInv, PlaceInv, TryCandidate, CascadeFails
  <2>2. inp' = inp /\ told' = told /\ runs' = runs /\ pc \in BeforeTold
    BY DEF TryCandidate, CascadeFails, BeforeTold
  <2> QED
    BY <2>1, <2>2 DEF Sound, Counted, Counts, Players
<1>2. CASE TryCandidate
  <2> DEFINE c == Head(batch.cands)
  <2>1. \/ /\ Accepted(c.pair) /\ i' = i + 1
           /\ batch' = [batch EXCEPT
                !.subs = @ \cup {[line |-> i, by |-> c.by, replaced |-> c.replaced]},
                !.daily = Lent(@, c),
                !.exhausted = @ \cup NoteReplaced(c),
                !.cands = << >>, !.error = "none", !.holder = NoOne]
        \/ /\ (\E r : Refused(c.pair, r)) \/ Broken(c.pair)
           /\ i' = i /\ batch' = [batch EXCEPT !.cands = Tail(@)]
    BY <1>2 DEF TryCandidate
  <2> HIDE DEF c
  <2>2. CASE Accepted(c.pair) /\ i' = i + 1
             /\ batch' = [batch EXCEPT
                  !.subs = @ \cup {[line |-> i, by |-> c.by, replaced |-> c.replaced]},
                  !.daily = Lent(@, c),
                  !.exhausted = @ \cup NoteReplaced(c),
                  !.cands = << >>, !.error = "none", !.holder = NoOne]
    <3>1. FailuresOf(batch', batch.failures)
      BY <1>1, <2>2, Failures DEF FailuresOf
    <3>2. "daily" \in DOMAIN batch' /\ batch'.daily = Lent(batch.daily, c)
      BY <1>1, <2>2 DEF Counts
    <3>3. Counts(batch')
      BY <1>1, <3>2, LoanCounts DEF Counts
    <3>4. HoldsLine /\ credits' \in [Players -> Nat] /\ UNCHANGED <<mishaps, lost>>
      BY <1>1, <2>2, CallFacts, CallCounts
    <3>5. Truth'
      BY <1>1, <2>2, <3>1, <3>4, LineTruth
    <3> QED
      BY <1>1, <3>3, <3>4, <3>5 DEF Counted, Counts
  <2>3. CASE ((\E r : Refused(c.pair, r)) \/ Broken(c.pair))
             /\ i' = i /\ batch' = [batch EXCEPT !.cands = Tail(@)]
    <3>1. FailuresOf(batch', batch.failures) /\ Counts(batch')
      BY <1>1, <2>3, Failures DEF FailuresOf, Counts
    <3>2. /\ credits' \in [Players -> Nat] /\ mishaps' \in 0 .. MaxMishaps
          /\ (ClubSame /\ lost' = lost) \/ (HoldsLine /\ lost')
      <4>1. CASE \E r : Refused(c.pair, r)
        <5>1. ClubSame /\ UNCHANGED <<credits, mishaps, lost>>
          BY <1>1, <4>1, CallFacts, CallCounts
        <5> QED
          BY <1>1, <5>1 DEF Counted
      <4>2. CASE Broken(c.pair)
        BY <1>1, <4>2, CallCounts
      <4> QED
        BY <2>3, <4>1, <4>2
    <3>3. Truth'
      BY <1>1, <2>3, <3>1, <3>2, LineTruth
    <3> QED
      BY <1>1, <3>1, <3>2, <3>3 DEF Counted, Counts
  <2> QED
    BY <2>1, <2>2, <2>3
<1>3. CASE CascadeFails
  <2>1. LineFails(SuspectJoker(batch)) /\ ClubSame /\ UNCHANGED <<credits, mishaps, lost>>
    BY <1>3 DEF CascadeFails, ClubSame
  <2>2. FailuresOf(SuspectJoker(batch), batch.failures) /\ Counts(SuspectJoker(batch))
    BY <1>1, Failures, LearningFails, LearningCounts
  <2>3. FailuresOf(batch', batch.failures \cup {i}) /\ i' = i + 1 /\ Counts(batch')
    BY <2>1, <2>2, LineFailsFacts, LearningCounts DEF FailuresOf
  <2>4. Truth'
    BY <1>1, <2>1, <2>3, LineTruth
  <2> QED
    BY <1>1, <2>1, <2>3, <2>4 DEF Counted, Counts
<1> QED
  BY <1>2, <1>3

(* Steps that leave the club and the batch alone and announce nothing. *)
LEMMA SilentTruth ==
  ASSUME IInv, Truth, Idles, UNCHANGED <<runs, lost>>, Announced' = Announced,
         pc' \in BeforeTold => pc \in BeforeTold
  PROVE  Truth'
<1>1. Lines' = Lines /\ Ours' = Ours
  BY IdlesFacts
<1> QED
  BY <1>1 DEF Idles, Truth, PastIsHeld, ToldIsHeld, FirstKnows

LEMMA AnnounceTruth ==
  ASSUME IInv, Truth, Announce
  PROVE  Truth'
<1>1. Idles /\ pc = "announce" /\ pc' = "telegram" /\ UNCHANGED <<runs, lost>>
      /\ Announced' = Announced \cup {[what |-> "announced", lines |-> Reserved]}
  BY DEF Announce, Idles, Announced
<1> SUFFICES ASSUME inp.real PROVE (PastIsHeld /\ ToldIsHeld /\ (runs = 1 /\ ~lost => FirstKnows))'
  BY <1>1 DEF Truth, Idles
<1>2. Lines' = Lines /\ Ours' = Ours /\ PastIsHeld /\ ToldIsHeld
      /\ i' = i /\ batch' = batch /\ (runs = 1 /\ ~lost => FirstKnows)
  BY <1>1, IdlesFacts DEF Idles, Truth
<1>3. Reserved \subseteq Ours
  <2>1. i = Len(inp.lines) + 1 /\ Lines = 1 .. Len(inp.lines) /\ Len(inp.lines) \in Nat
    BY <1>1 DEF IInv, LinesInv, PlaceInv
  <2>2. \A l \in Lines : l < i
    BY <2>1
  <2> QED
    BY <1>2, <2>2 DEF Reserved, PastIsHeld
<1>4. ASSUME FirstKnows PROVE Reserved = Ours
  <2>1. Ours \subseteq Lines
    BY DEF Ours
  <2> QED
    BY <1>3, <1>4, <2>1 DEF FirstKnows, Reserved
<1>5. FirstKnows => FirstKnows'
  <2> SUFFICES ASSUME FirstKnows PROVE FirstKnows'
    OBVIOUS
  <2>1. Announced = {} /\ Reserved = Ours /\ Ours \subseteq (1 .. i - 1) \ batch.failures
    BY <1>1, <1>4 DEF FirstKnows, BeforeTold
  <2>2. \A t \in Announced' : t.lines = Ours'
    BY <1>1, <1>2, <2>1
  <2>3. pc' \notin BeforeTold
    BY <1>1 DEF BeforeTold
  <2> QED
    BY <1>2, <2>1, <2>2, <2>3 DEF FirstKnows
<1>6. PastIsHeld' /\ ToldIsHeld'
  BY <1>1, <1>2, <1>3 DEF PastIsHeld, ToldIsHeld
<1> QED
  BY <1>1, <1>2, <1>5, <1>6

(* The end of an execution. *)
Ends == Start \/ TotalFailure \/ LinesDone \/ Announce \/ AnnounceRefused \/ Report \/ Crash

LEMMA EndsSound ==
  ASSUME Sound, Ends
  PROVE  Counted' /\ Truth'
<1>1. Idles /\ UNCHANGED <<credits, runs, lost>>
  BY DEF Ends, Start, TotalFailure, LinesDone, Announce, AnnounceRefused, Report, Crash, Idles
<1>2. mishaps' \in 0 .. MaxMishaps
  <2>1. mishaps' = mishaps \/ \E k : Mishap(k)
    BY DEF Ends, Start, TotalFailure, LinesDone, Announce, AnnounceRefused, Report, Crash
  <2> QED
    BY <2>1, CreditsAreCounted DEF Mishap, Sound, Counted
<1>3. Counted'
  BY <1>1, <1>2 DEF Idles, Sound, Counted, Players
<1>4. CASE Announce
  BY <1>3, <1>4, AnnounceTruth DEF Sound
<1>5. CASE ~Announce
  <2>1. told' = told \/ told' = told \cup {[what |-> "nothing booked", lines |-> {}]}
    BY <1>5 DEF Ends, Start, TotalFailure, LinesDone, AnnounceRefused, Report, Crash
  <2>2. Announced' = Announced
    <3>1. CASE told' = told
      BY <3>1 DEF Announced
    <3>2. CASE told' = told \cup {[what |-> "nothing booked", lines |-> {}]}
      <4> DEFINE n == [what |-> "nothing booked", lines |-> {}]
      <4>1. n.what # "announced"
        OBVIOUS
      <4> HIDE DEF n
      <4>2. told' = told \cup {n}
        BY <3>2 DEF n
      <4> QED
        BY <4>1, <4>2 DEF Announced
    <3> QED
      BY <2>1, <3>1, <3>2
  <2>3. pc' \in BeforeTold => pc \in BeforeTold
    <3>1. Start \/ TotalFailure \/ LinesDone => pc \in BeforeTold
      BY DEF Start, TotalFailure, LinesDone, BeforeTold
    <3>2. AnnounceRefused \/ Report \/ Crash => pc' \notin BeforeTold
      BY DEF AnnounceRefused, Report, Crash, BeforeTold
    <3> QED
      BY <1>5, <3>1, <3>2 DEF Ends
  <2> QED
    BY <1>1, <1>3, <2>2, <2>3, SilentTruth DEF Sound
<1> QED
  BY <1>4, <1>5

(* A retry knows no line yet; it is no first execution any more. *)
LEMMA RetrySound ==
  ASSUME Sound, Retry
  PROVE  Counted' /\ Truth'
<1>1. /\ UNCHANGED <<inp, club, credits, told, mishaps, lost>> /\ runs' = runs + 1
      /\ runs < MaxRuns /\ i' = 1 /\ batch' = NewBatch /\ runs \in 1 .. MaxRuns
  BY DEF Retry, Sound, Counted
<1>2. Counted'
  BY <1>1, NewBatchCounts, CreditsAreCounted DEF Sound, Counted, Players
<1>3. Lines' = Lines /\ Ours' = Ours /\ Announced' = Announced
  BY <1>1 DEF Lines, Ours, Announced
<1>4. Lines \subseteq Nat /\ (\A l \in Lines : ~(l < 1)) /\ runs' # 1
  BY <1>1, CreditsAreCounted DEF Sound, IInv, LinesInv
<1>5. Truth'
  BY <1>1, <1>3, <1>4 DEF Sound, Truth, PastIsHeld, ToldIsHeld
<1> QED
  BY <1>2, <1>5

(* A slot somebody else takes is none of the job. *)
LEMMA TakeSound ==
  ASSUME Sound, Take
  PROVE  Counted' /\ Truth'
<1>1. UNCHANGED <<inp, credits, pc, i, batch, told, runs, lost>> /\ mishaps' \in 0 .. MaxMishaps
  BY CreditsAreCounted DEF Take, Mishap, Sound, Counted
<1>2. PICK l \in Lines : club[l].by = "nobody" /\ club' = [club EXCEPT ![l] = SomeoneElse]
  BY DEF Take
<1>3. Lines' = Lines /\ Ours' = Ours /\ Announced' = Announced
  <2>1. Lines' = Lines /\ DOMAIN club = Lines
    BY <1>1 DEF Lines, Sound, IInv, LinesInv
  <2>2. SomeoneElse.by = "someone else"
    BY DEF SomeoneElse, Held
  <2>3. \A k \in Lines : club'[k].by = "us" <=> club[k].by = "us"
    BY <1>2, <2>1, <2>2
  <2> QED
    BY <1>1, <2>1, <2>3 DEF Ours, Announced
<1>4. Counted'
  BY <1>1 DEF Sound, Counted, Players
<1>5. Truth'
  BY <1>1, <1>3 DEF Sound, Truth, PastIsHeld, ToldIsHeld, FirstKnows
<1> QED
  BY <1>4, <1>5

LEMMA NextSound == Sound /\ [Next]_vars => Sound'
<1> SUFFICES ASSUME Sound, [Next]_vars PROVE Sound'
  OBVIOUS
<1>1. IInv'
  BY NextImplements DEF Sound
<1>2. Counted' /\ Truth'
  <2>1. CASE UNCHANGED vars
    <3>1. Idles /\ UNCHANGED <<credits, pc, told, runs, mishaps, lost>>
      BY <2>1 DEF vars, Idles
    <3>2. Counted'
      BY <3>1 DEF Sound, Counted, Players, Idles
    <3>3. Announced' = Announced
      BY <3>1 DEF Announced
    <3> QED
      BY <3>1, <3>2, <3>3, SilentTruth DEF Sound
  <2> QED
    BY <2>1, CallSound, CascadeSound, EndsSound, RetrySound, TakeSound DEF Next, Ends
<1> QED
  BY <1>1, <1>2 DEF Sound

(* A court announced to the group is held at the club for the job, whatever is refused,
   lost or retried, and a first execution that has lost no answer announces every court it
   holds (announce.ts): BookingSound of the run, its types included, for any plan, club,
   number of mishaps and of retries. *)
THEOREM WhatIsAnnouncedIsBooked == Spec => []BookingSound
<1>1. Init => Sound
  BY InitSound
<1>2. Sound /\ [Next]_vars => Sound'
  BY NextSound
<1>3. Sound => BookingSound
  BY SoundEnough
<1> QED
  BY <1>1, <1>2, <1>3, PTL DEF Spec

-----------------------------------------------------------------------------
(* What a list of lists, or a part of a list, is made of.                     *)

(* A property of zero that each number hands to the next is one of all numbers. *)
LEMMA SetInduction ==
  ASSUME NEW G, 0 \in G, \A n \in Nat : n \in G => n + 1 \in G
  PROVE  Nat \subseteq G
<1> DEFINE Bad == Nat \ G
<1> SUFFICES ASSUME Bad # {} PROVE FALSE
  OBVIOUS
<1>1. PICK x \in Bad : \A y \in Bad : ~(<<y, x>> \in OpToRel(<, Nat))
  <2>1. Bad \subseteq Nat
    OBVIOUS
  <2> HIDE DEF Bad
  <2> QED
    BY <2>1, NatLessThanWellFounded, WFMin
<1>2. \A y \in Bad : ~(y < x)
  BY <1>1 DEF OpToRel
<1>3. x \in Nat /\ x # 0 /\ x - 1 \in Nat /\ x - 1 < x
  OBVIOUS
<1>4. x - 1 \in G
  BY <1>2, <1>3
<1>5. x \in G
  BY <1>3, <1>4
<1> QED
  BY <1>5

(* A list one longer, or followed by another, has the elements of both. *)
LEMMA ConcatHolds ==
  ASSUME NEW S, NEW s \in Seq(S), NEW t \in Seq(S)
  PROVE  ToSet(s) \subseteq ToSet(s \o t) /\ ToSet(t) \subseteq ToSet(s \o t)
<1>1. PICK m \in Nat, n \in Nat : /\ m = Len(s) /\ DOMAIN s = 1 .. m /\ n = Len(t) /\ DOMAIN t = 1 .. n
  BY LenProperties
<1>2. /\ s \o t \in Seq(S) /\ Len(s \o t) = m + n
      /\ \A k \in 1 .. m + n : (s \o t)[k] = IF k <= m THEN s[k] ELSE t[k - m]
  BY <1>1, ConcatProperties
<1>3. DOMAIN (s \o t) = 1 .. m + n
  BY <1>1, <1>2, LenProperties
<1>4. ASSUME NEW k \in 1 .. m PROVE s[k] \in ToSet(s \o t)
  <2>1. k \in 1 .. m + n /\ (s \o t)[k] = s[k]
    BY <1>2
  <2> QED
    BY <1>3, <2>1 DEF ToSet
<1>5. ASSUME NEW k \in 1 .. n PROVE t[k] \in ToSet(s \o t)
  <2>1. k + m \in 1 .. m + n /\ ~(k + m <= m) /\ (k + m) - m = k
    OBVIOUS
  <2>2. (s \o t)[k + m] = t[k]
    BY <1>2, <2>1
  <2> QED
    BY <1>3, <2>1, <2>2 DEF ToSet
<1> QED
  BY <1>1, <1>4, <1>5 DEF ToSet

LEMMA AppendHolds ==
  ASSUME NEW S, NEW s \in Seq(S), NEW e \in S
  PROVE  ToSet(s) \subseteq ToSet(Append(s, e)) /\ e \in ToSet(Append(s, e))
<1>1. PICK n \in Nat : n = Len(s) /\ DOMAIN s = 1 .. n
  BY LenProperties
<1>2. /\ Append(s, e) \in Seq(S) /\ Len(Append(s, e)) = n + 1
      /\ \A k \in 1 .. n : Append(s, e)[k] = s[k]
      /\ Append(s, e)[n + 1] = e
  BY <1>1, AppendProperties
<1>3. DOMAIN Append(s, e) = 1 .. n + 1 /\ 1 .. n \subseteq 1 .. n + 1 /\ n + 1 \in 1 .. n + 1
  BY <1>1, <1>2, LenProperties
<1> QED
  BY <1>1, <1>2, <1>3 DEF ToSet

(* FlattenSeq is defined with a function of the number of lists. *)
Flattens(f, lists, n) ==
  f = [k \in 1 .. n |-> IF k = 1 THEN lists[k] ELSE f[k - 1] \o lists[k]]

(* There is such a function, one list longer each time. *)
LEMMA FlattensExists ==
  ASSUME NEW lists, NEW n \in Nat
  PROVE  \E f : Flattens(f, lists, n)
<1> DEFINE G == {k \in Nat : \E f : Flattens(f, lists, k)}
<1>1. 0 \in G
  <2> DEFINE f == [k \in 1 .. 0 |-> lists[k]]
  <2>1. Flattens(f, lists, 0)
    BY DEF Flattens
  <2> QED
    BY <2>1
<1>2. ASSUME NEW k \in Nat, k \in G PROVE k + 1 \in G
  <2>1. PICK f : Flattens(f, lists, k)
    BY <1>2
  <2> DEFINE g == [j \in 1 .. k + 1 |->
                     IF j = k + 1 THEN (IF j = 1 THEN lists[j] ELSE f[k] \o lists[j]) ELSE f[j]]
             Equation(j) == IF j = 1 THEN lists[j] ELSE g[j - 1] \o lists[j]
  <2>2. ASSUME NEW j \in 1 .. k + 1 PROVE g[j] = Equation(j)
    <3>1. CASE j = k + 1
      <4>1. j # 1 => g[j - 1] = f[k]
        <5>1. j # 1 => j - 1 \in 1 .. k + 1 /\ j - 1 # k + 1 /\ j - 1 = k
          BY <3>1
        <5> QED
          BY <5>1
      <4>2. g[j] = IF j = 1 THEN lists[j] ELSE f[k] \o lists[j]
        BY <3>1
      <4> HIDE DEF g
      <4> QED
        BY <4>1, <4>2
    <3>2. CASE j # k + 1
      <4>1. j \in 1 .. k /\ g[j] = f[j]
        BY <3>2
      <4>2. f[j] = IF j = 1 THEN lists[j] ELSE f[j - 1] \o lists[j]
        BY <2>1, <4>1 DEF Flattens
      <4>3. j # 1 => g[j - 1] = f[j - 1]
        <5>1. j # 1 => j - 1 \in 1 .. k + 1 /\ j - 1 # k + 1
          BY <4>1
        <5> QED
          BY <5>1
      <4> HIDE DEF g
      <4> QED
        BY <4>1, <4>2, <4>3
    <3> QED
      BY <3>1, <3>2
  <2>3. Flattens(g, lists, k + 1)
    <3>1. g = [j \in 1 .. k + 1 |-> g[j]]
      OBVIOUS
    <3> HIDE DEF g
    <3> QED
      BY <2>2, <3>1 DEF Flattens
  <2> QED
    BY <2>3
<1> HIDE DEF G
<1>3. Nat \subseteq G
  BY <1>1, <1>2, SetInduction
<1> QED
  BY <1>3 DEF G

(* The elements of the whole are those of its parts. *)
LEMMA FlattenType ==
  ASSUME NEW S, NEW lists \in Seq(Seq(S))
  PROVE  /\ FlattenSeq(lists) \in Seq(S)
         /\ \A k \in DOMAIN lists : ToSet(lists[k]) \subseteq ToSet(FlattenSeq(lists))
<1>1. PICK n \in Nat : n = Len(lists) /\ DOMAIN lists = 1 .. n /\ \A k \in 1 .. n : lists[k] \in Seq(S)
  BY LenProperties, ElementOfSeq
<1>2. CASE n = 0
  <2>1. lists = << >>
    BY <1>1, <1>2, EmptySeq
  <2>2. FlattenSeq(lists) = lists
    BY <1>1, <1>2 DEF FlattenSeq
  <2>3. FlattenSeq(lists) \in Seq(S)
    BY <2>1, <2>2, EmptySeq
  <2>4. \A k \in 1 .. n : FALSE
    BY <1>2
  <2> QED
    BY <1>1, <2>3, <2>4
<1>3. CASE n # 0
  <2> DEFINE f == CHOOSE g : Flattens(g, lists, n)
  <2>1. Flattens(f, lists, n)
    BY FlattensExists
  <2>2. FlattenSeq(lists) = f[n]
    BY <1>1, <1>3 DEF FlattenSeq, Flattens
  <2> HIDE DEF f
  <2>3. \A k \in 1 .. n : f[k] = IF k = 1 THEN lists[k] ELSE f[k - 1] \o lists[k]
    BY <2>1 DEF Flattens
  <2> DEFINE Holds(k) == \A j \in 1 .. k : ToSet(lists[j]) \subseteq ToSet(f[k])
             G == {k \in Nat : k \in 1 .. n => f[k] \in Seq(S) /\ Holds(k)}
  <2>4. 0 \in G
    OBVIOUS
  <2>5. ASSUME NEW k \in Nat, k \in G PROVE k + 1 \in G
    <3> SUFFICES ASSUME k + 1 \in 1 .. n PROVE f[k + 1] \in Seq(S) /\ Holds(k + 1)
      OBVIOUS
    <3>1. CASE k = 0
      <4>1. k + 1 = 1 /\ 1 \in 1 .. n /\ 1 .. 1 = {1}
        BY <3>1
      <4>2. f[1] = lists[1] /\ lists[1] \in Seq(S)
        BY <4>1, <2>3, <1>1
      <4> QED
        BY <4>1, <4>2
    <3>2. CASE k # 0
      <4>1. k \in 1 .. n /\ k + 1 # 1 /\ (k + 1) - 1 = k
        BY <3>2
      <4>2. f[k] \in Seq(S) /\ lists[k + 1] \in Seq(S) /\ Holds(k)
        BY <1>1, <2>5, <4>1
      <4>3. f[k + 1] = f[k] \o lists[k + 1]
        BY <2>3, <4>1
      <4>4. f[k + 1] \in Seq(S)
        BY <4>2, <4>3, ConcatProperties
      <4>5. ToSet(f[k]) \subseteq ToSet(f[k + 1]) /\ ToSet(lists[k + 1]) \subseteq ToSet(f[k + 1])
        BY <4>2, <4>3, ConcatHolds
      <4>6. ASSUME NEW j \in 1 .. k + 1 PROVE ToSet(lists[j]) \subseteq ToSet(f[k + 1])
        <5>1. j = k + 1 \/ j \in 1 .. k
          OBVIOUS
        <5> QED
          BY <4>2, <4>5, <5>1
      <4> QED
        BY <4>4, <4>6
    <3> QED
      BY <3>1, <3>2
  <2> HIDE DEF G
  <2>6. Nat \subseteq G
    BY <2>4, <2>5, SetInduction
  <2>7. n \in G /\ n \in 1 .. n
    BY <1>3, <2>6
  <2> QED
    BY <1>1, <2>2, <2>7 DEF G
<1> QED
  BY <1>2, <1>3

(* The largest of the first n + 1 places that have the last one is the last one. *)
LEMMA LastPlace ==
  ASSUME NEW n \in Nat, NEW s \in SUBSET (1 .. n + 1), n + 1 \in s
  PROVE  Max(s) = n + 1 /\ s \ {Max(s)} \in SUBSET (1 .. n)
<1>1. \A y \in s : n + 1 >= y /\ y \in Int
  OBVIOUS
<1>2. Max(s) \in s /\ \A y \in s : Max(s) >= y
  BY <1>1 DEF Max
<1>3. Max(s) = n + 1
  <2>1. PICK m \in Int : m = Max(s)
    BY <1>1, <1>2
  <2>2. m >= n + 1 /\ n + 1 >= m
    BY <1>1, <1>2, <2>1
  <2> QED
    BY <2>1, <2>2
<1> QED
  BY <1>3

(* FoldLeft is defined with a function of the set of the places. *)
Kept(kept, id, aside) == IF id \in aside THEN kept ELSE Append(kept, id)
Keeps(f, ids, aside, n) ==
  f = [s \in SUBSET (1 .. n) |->
         IF s = {} THEN << >> ELSE Kept(f[s \ {Max(s)}], ids[Max(s)], aside)]

(* There is such a function, one place more each time. *)
LEMMA KeepsExists ==
  ASSUME NEW ids, NEW aside, NEW n \in Nat
  PROVE  \E f : Keeps(f, ids, aside, n)
<1> DEFINE G == {k \in Nat : \E f : Keeps(f, ids, aside, k)}
<1>1. 0 \in G
  <2> DEFINE f == [s \in SUBSET (1 .. 0) |-> << >>]
  <2>1. \A s \in SUBSET (1 .. 0) : s = {}
    OBVIOUS
  <2>2. Keeps(f, ids, aside, 0)
    BY <2>1 DEF Keeps
  <2> QED
    BY <2>2
<1>2. ASSUME NEW k \in Nat, k \in G PROVE k + 1 \in G
  <2>1. PICK f : Keeps(f, ids, aside, k)
    BY <1>2
  <2> DEFINE g == [s \in SUBSET (1 .. k + 1) |->
                     IF k + 1 \in s THEN Kept(f[s \ {k + 1}], ids[k + 1], aside) ELSE f[s]]
             Equation(s) == IF s = {} THEN << >> ELSE Kept(g[s \ {Max(s)}], ids[Max(s)], aside)
  <2>2. \A s \in SUBSET (1 .. k) : s \in SUBSET (1 .. k + 1) /\ k + 1 \notin s /\ g[s] = f[s]
    OBVIOUS
  <2>3. ASSUME NEW s \in SUBSET (1 .. k + 1) PROVE g[s] = Equation(s)
    <3>1. CASE k + 1 \in s
      <4>1. Max(s) = k + 1 /\ s \ {k + 1} \in SUBSET (1 .. k) /\ s # {}
        BY <3>1, LastPlace
      <4>2. g[s \ {k + 1}] = f[s \ {k + 1}]
        BY <4>1, <2>2
      <4>3. g[s] = Kept(f[s \ {k + 1}], ids[k + 1], aside)
        BY <3>1
      <4> HIDE DEF g
      <4> QED
        BY <4>1, <4>2, <4>3
    <3>2. CASE k + 1 \notin s
      <4>1. s \in SUBSET (1 .. k) /\ s \ {Max(s)} \in SUBSET (1 .. k)
        <5>1. \A x \in s : x \in 1 .. k + 1 /\ x # k + 1
          BY <3>2
        <5>2. \A x \in s : x \in 1 .. k
          BY <5>1
        <5> QED
          BY <5>2
      <4>2. f[s] = IF s = {} THEN << >> ELSE Kept(f[s \ {Max(s)}], ids[Max(s)], aside)
        BY <2>1, <4>1 DEF Keeps
      <4>3. g[s] = f[s] /\ g[s \ {Max(s)}] = f[s \ {Max(s)}]
        BY <4>1, <2>2
      <4> HIDE DEF g
      <4> QED
        BY <4>2, <4>3
    <3> QED
      BY <3>1, <3>2
  <2>4. Keeps(g, ids, aside, k + 1)
    <3>1. g = [s \in SUBSET (1 .. k + 1) |-> g[s]]
      OBVIOUS
    <3> HIDE DEF g
    <3> QED
      BY <2>3, <3>1 DEF Keeps
  <2> QED
    BY <2>4
<1> HIDE DEF G
<1>3. Nat \subseteq G
  BY <1>1, <1>2, SetInduction
<1> QED
  BY <1>3 DEF G

(* What is excluded from a list is not in what is left of it, and the rest is. *)
LEMMA ExcludingType ==
  ASSUME NEW S, NEW ids \in Seq(S), NEW aside
  PROVE  /\ Excluding(ids, aside) \in Seq(S \ aside)
         /\ ToSet(ids) \ aside \subseteq ToSet(Excluding(ids, aside))
<1>1. PICK n \in Nat : n = Len(ids) /\ DOMAIN ids = 1 .. n /\ \A k \in 1 .. n : ids[k] \in S
  BY LenProperties, ElementOfSeq
<1> DEFINE f == CHOOSE g : Keeps(g, ids, aside, n)
<1>2. Keeps(f, ids, aside, n)
  BY KeepsExists
<1>3. Excluding(ids, aside) = f[1 .. n]
  BY <1>1 DEF Excluding, Kept, FoldLeft, MapThenFoldSet, Keeps
<1> HIDE DEF f
<1>4. \A s \in SUBSET (1 .. n) :
        f[s] = IF s = {} THEN << >> ELSE Kept(f[s \ {Max(s)}], ids[Max(s)], aside)
  BY <1>2 DEF Keeps
<1> DEFINE Holds(k) == \A j \in 1 .. k : ids[j] \in aside \/ ids[j] \in ToSet(f[1 .. k])
           G == {k \in Nat : k <= n => f[1 .. k] \in Seq(S \ aside) /\ Holds(k)}
<1>5. 0 \in G
  <2>1. 1 .. 0 = {} /\ {} \in SUBSET (1 .. n)
    OBVIOUS
  <2>2. f[1 .. 0] = << >>
    BY <1>4, <2>1
  <2>3. f[1 .. 0] \in Seq(S \ aside)
    BY <2>2, EmptySeq
  <2>4. \A j \in 1 .. 0 : FALSE
    OBVIOUS
  <2>5. Holds(0)
    BY <2>4
  <2> QED
    BY <2>3, <2>5
<1>6. ASSUME NEW k \in Nat, k \in G PROVE k + 1 \in G
  <2> SUFFICES ASSUME k + 1 <= n PROVE f[1 .. k + 1] \in Seq(S \ aside) /\ Holds(k + 1)
    OBVIOUS
  <2>1. /\ f[1 .. k] \in Seq(S \ aside) /\ Holds(k)
        /\ 1 .. k + 1 \in SUBSET (1 .. n) /\ k + 1 \in 1 .. k + 1
        /\ \A j \in 1 .. k + 1 : j = k + 1 \/ j \in 1 .. k
    BY <1>6
  <2>2. Max(1 .. k + 1) = k + 1
    BY <2>1, LastPlace
  <2>3. (1 .. k + 1) \ {k + 1} = 1 .. k
    OBVIOUS
  <2>4. f[1 .. k + 1] = Kept(f[1 .. k], ids[k + 1], aside)
    BY <1>4, <2>1, <2>2, <2>3
  <2>5. ids[k + 1] \in S
    BY <1>1, <2>1
  <2>6. CASE ids[k + 1] \in aside
    BY <2>1, <2>4, <2>6 DEF Kept
  <2>7. CASE ids[k + 1] \notin aside
    <3>1. f[1 .. k + 1] = Append(f[1 .. k], ids[k + 1]) /\ ids[k + 1] \in S \ aside
      BY <2>4, <2>5, <2>7 DEF Kept
    <3>2. f[1 .. k + 1] \in Seq(S \ aside)
      BY <2>1, <3>1, AppendProperties
    <3>3. ToSet(f[1 .. k]) \subseteq ToSet(f[1 .. k + 1]) /\ ids[k + 1] \in ToSet(f[1 .. k + 1])
      BY <2>1, <3>1, AppendHolds
    <3> QED
      BY <2>1, <3>2, <3>3
  <2> QED
    BY <2>6, <2>7
<1> HIDE DEF G
<1>7. Nat \subseteq G
  BY <1>5, <1>6, SetInduction
<1>8. f[1 .. n] \in Seq(S \ aside) /\ \A j \in 1 .. n : ids[j] \in aside \/ ids[j] \in ToSet(f[1 .. n])
  BY <1>7 DEF G
<1>9. ToSet(ids) \ aside \subseteq ToSet(f[1 .. n])
  BY <1>1, <1>8 DEF ToSet
<1> QED
  BY <1>3, <1>8, <1>9

-----------------------------------------------------------------------------
(* What the cascade may try for a line (jokerSubstitution.ts).                *)

(* The names of a line. *)
LEMMA PairNames == \A x, y : ToSet(<<x, y>>) = {x, y}
<1> SUFFICES ASSUME NEW x, NEW y PROVE ToSet(<<x, y>>) = {x, y}
  OBVIOUS
<1>1. DOMAIN <<x, y>> = 1 .. 2 /\ 1 .. 2 = {1, 2}
  OBVIOUS
<1> QED
  BY <1>1 DEF ToSet

(* A line is its two names, and changing one keeps the other. *)
LEMMA PairFacts ==
  ASSUME NEW P, NEW pair \in P \X P
  PROVE  /\ pair[1] \in P /\ pair[2] \in P /\ pair = <<pair[1], pair[2]>>
         /\ ToSet(pair) = {pair[1], pair[2]}
         /\ \A x : [pair EXCEPT ![1] = x] = <<x, pair[2]>> /\ [pair EXCEPT ![2] = x] = <<pair[1], x>>
<1>1. PICK x \in P, y \in P : pair = <<x, y>>
  OBVIOUS
<1>2. pair[1] = x /\ pair[2] = y
  BY <1>1
<1>3. \A z : [<<x, y>> EXCEPT ![1] = z] = <<z, y>> /\ [<<x, y>> EXCEPT ![2] = z] = <<x, z>>
  OBVIOUS
<1> QED
  BY <1>1, <1>2, <1>3, PairNames

(* What the cascade may try for a line: names that are free, the joker if he does not
   play in it, and those of the line that are not blamed; and one name at most of the
   line goes, unless both are blamed. *)
Loans(pair, joker, blamed, free, P) ==
  {c \in [replaced : P, by : P, kind : {"substitute", "joker"}, pair : P \X P] :
     /\ c.replaced \in ToSet(pair)
     /\ c.kind = "substitute" => c.by \in free
     /\ c.kind = "joker" => c.by = joker
     /\ ToSet(c.pair) \subseteq (free \ ToSet(pair)) \cup ({joker} \ (ToSet(pair) \cup {NoOne}))
                                \cup (ToSet(pair) \ blamed)
     /\ ToSet(pair) \subseteq blamed \/ ToSet(pair) \subseteq ToSet(c.pair) \cup {c.replaced}}

(* A candidate is such a loan when its parts are right. *)
LEMMA LoanIs ==
  ASSUME NEW P, NEW pair \in P \X P, NEW joker, NEW blamed, NEW free \in SUBSET P,
         NEW x \in P, NEW y \in P, NEW replaced \in ToSet(pair), NEW by \in P,
         NEW kind \in {"substitute", "joker"},
         kind = "substitute" => by \in free, kind = "joker" => by = joker,
         {x, y} \subseteq (free \ ToSet(pair)) \cup ({joker} \ (ToSet(pair) \cup {NoOne}))
                          \cup (ToSet(pair) \ blamed),
         ToSet(pair) \subseteq blamed \/ ToSet(pair) \subseteq {x, y} \cup {replaced}
  PROVE  Candidate(replaced, by, kind, <<x, y>>) \in Loans(pair, joker, blamed, free, P)
<1>1. replaced \in P
  BY PairFacts
<1>2. ToSet(<<x, y>>) = {x, y}
  BY PairNames
<1> DEFINE c == Candidate(replaced, by, kind, <<x, y>>)
<1>3. c \in [replaced : P, by : P, kind : {"substitute", "joker"}, pair : P \X P]
      /\ c.replaced = replaced /\ c.by = by /\ c.kind = kind /\ c.pair = <<x, y>>
  BY <1>1 DEF Candidate
<1> HIDE DEF c
<1>4. ToSet(c.pair) = {x, y}
  BY <1>2, <1>3
<1>5. c.replaced \in ToSet(pair)
  BY <1>3
<1>6. (c.kind = "substitute" => c.by \in free) /\ (c.kind = "joker" => c.by = joker)
  BY <1>3
<1>7. ToSet(c.pair) \subseteq (free \ ToSet(pair)) \cup ({joker} \ (ToSet(pair) \cup {NoOne}))
                                \cup (ToSet(pair) \ blamed)
  BY <1>4
<1>8. ToSet(pair) \subseteq blamed \/ ToSet(pair) \subseteq ToSet(c.pair) \cup {c.replaced}
  BY <1>3, <1>4
<1>9. c \in Loans(pair, joker, blamed, free, P)
  BY <1>3, <1>5, <1>6, <1>7, <1>8, Zenon DEF Loans
<1> QED
  BY <1>9 DEF c

(* A function on the first n numbers is a list. *)
LEMMA ListType ==
  ASSUME NEW n \in Nat, NEW S, NEW f \in [1 .. n -> S]
  PROVE  f \in Seq(S)
OBVIOUS

(* The candidates with the joker, and with two volunteers or one and the joker. *)
LEMMA SubstitutionType ==
  ASSUME NEW P, NoOne \notin P, NEW pair \in P \X P, NEW joker \in P \cup {NoOne}, NEW blamed,
         NEW free \in SUBSET P
  PROVE  SubstitutionCandidates(pair, joker, blamed) \in Seq(Loans(pair, joker, blamed, free, P))
<1> DEFINE L == Loans(pair, joker, blamed, free, P)
           a == Candidate(pair[2], joker, "joker", <<pair[1], joker>>)
           b == Candidate(pair[1], joker, "joker", <<pair[2], joker>>)
<1>1. pair[1] \in P /\ pair[2] \in P /\ ToSet(pair) = {pair[1], pair[2]}
  BY PairFacts
<1>2. CASE joker = NoOne \/ joker \in ToSet(pair) \/ ToSet(pair) \subseteq blamed
  <2>1. SubstitutionCandidates(pair, joker, blamed) = << >>
    BY <1>2 DEF SubstitutionCandidates
  <2> QED
    BY <2>1, EmptySeq
<1>3. CASE ~(joker = NoOne \/ joker \in ToSet(pair) \/ ToSet(pair) \subseteq blamed)
  <2>1. joker \in P /\ joker \in {joker} \ (ToSet(pair) \cup {NoOne})
    BY <1>3
  <2>2. pair[1] \notin blamed => a \in L
    <3> SUFFICES ASSUME pair[1] \notin blamed PROVE a \in L
      OBVIOUS
    <3>1. {pair[1], joker} \subseteq (free \ ToSet(pair)) \cup ({joker} \ (ToSet(pair) \cup {NoOne}))
                          \cup (ToSet(pair) \ blamed)
      BY <1>1, <2>1
    <3>2. ToSet(pair) \subseteq {pair[1], joker} \cup {pair[2]} /\ pair[2] \in ToSet(pair)
      BY <1>1
    <3> QED
      BY <1>1, <2>1, <3>1, <3>2, LoanIs
  <2>3. pair[2] \notin blamed => b \in L
    <3> SUFFICES ASSUME pair[2] \notin blamed PROVE b \in L
      OBVIOUS
    <3>1. {pair[2], joker} \subseteq (free \ ToSet(pair)) \cup ({joker} \ (ToSet(pair) \cup {NoOne}))
                          \cup (ToSet(pair) \ blamed)
      BY <1>1, <2>1
    <3>2. ToSet(pair) \subseteq {pair[2], joker} \cup {pair[1]} /\ pair[1] \in ToSet(pair)
      BY <1>1
    <3> QED
      BY <1>1, <2>1, <3>1, <3>2, LoanIs
  <2>4. SubstitutionCandidates(pair, joker, blamed) =
          IF blamed = {} THEN <<a, b>> ELSE IF pair[2] \in blamed THEN <<a>> ELSE <<b>>
    BY <1>3 DEF SubstitutionCandidates
  <2> HIDE DEF a, b, L
  <2>5. CASE blamed = {}
    <3>1. a \in L /\ b \in L
      BY <2>2, <2>3, <2>5
    <3>2. <<a, b>> \in Seq(L)
      BY <3>1
    <3> QED
      BY <2>4, <2>5, <3>2 DEF L
  <2>6. CASE blamed # {} /\ pair[2] \in blamed
    <3>1. a \in L
      BY <1>1, <1>3, <2>2, <2>6
    <3>2. <<a>> \in Seq(L)
      BY <3>1
    <3> QED
      BY <2>4, <2>6, <3>2 DEF L
  <2>7. CASE blamed # {} /\ pair[2] \notin blamed
    <3>1. <<b>> \in Seq(L)
      BY <2>3, <2>7
    <3> QED
      BY <2>4, <2>7, <3>1 DEF L
  <2> QED
    BY <2>5, <2>6, <2>7
<1> QED
  BY <1>2, <1>3

LEMMA BothRefusedType ==
  ASSUME NEW P, NoOne \notin P, NEW pair \in P \X P, NEW joker \in P \cup {NoOne}, NEW blamed,
         ToSet(pair) \subseteq blamed, NEW free \in SUBSET P, NEW subs \in Seq(free \ ToSet(pair))
  PROVE  BothRefusedCandidates(pair, joker, subs) \in Seq(Loans(pair, joker, blamed, free, P))
<1> DEFINE L == Loans(pair, joker, blamed, free, P)
           others(j) == Excluding(subs, {subs[j]})
           two(j) == [k \in DOMAIN others(j) |->
                        Candidate(pair[1], subs[j], "substitute", <<subs[j], others(j)[k]>>)]
           one(j) == Candidate(pair[1], subs[j], "substitute", <<subs[j], joker>>)
           twos == [j \in DOMAIN subs |-> two(j)]
           ones == IF joker = NoOne \/ joker \in ToSet(pair) THEN << >> ELSE [j \in DOMAIN subs |-> one(j)]
<1>1. pair[1] \in P /\ pair[1] \in ToSet(pair)
  BY PairFacts
<1>2. PICK n \in Nat : n = Len(subs) /\ DOMAIN subs = 1 .. n /\ \A j \in 1 .. n : subs[j] \in free \ ToSet(pair)
  BY LenProperties, ElementOfSeq
<1>3. ASSUME NEW j \in 1 .. n PROVE two(j) \in Seq(L)
  <2>1. others(j) \in Seq(free \ ToSet(pair))
    <3>1. others(j) \in Seq((free \ ToSet(pair)) \ {subs[j]})
      BY ExcludingType
    <3>2. (free \ ToSet(pair)) \ {subs[j]} \subseteq free \ ToSet(pair)
      OBVIOUS
    <3> HIDE DEF others
    <3> QED
      BY <3>1, <3>2
  <2>2. PICK s : s = others(j)
    OBVIOUS
  <2>3. PICK m \in Nat : m = Len(s) /\ DOMAIN s = 1 .. m /\ \A k \in 1 .. m : s[k] \in free \ ToSet(pair)
    BY <2>1, <2>2, LenProperties, ElementOfSeq
  <2>4. two(j) = [k \in 1 .. m |-> Candidate(pair[1], subs[j], "substitute", <<subs[j], s[k]>>)]
    BY <2>2, <2>3
  <2>5. ASSUME NEW k \in 1 .. m
        PROVE  Candidate(pair[1], subs[j], "substitute", <<subs[j], s[k]>>) \in L
    <3>1. subs[j] \in P /\ s[k] \in P /\ subs[j] \in free /\ {subs[j], s[k]} \subseteq free \ ToSet(pair)
      BY <1>2, <2>3
    <3> QED
      BY <1>1, <3>1, LoanIs
  <2>6. two(j) \in [1 .. m -> L]
    <3> HIDE DEF L
    <3> QED
      BY <2>4, <2>5
  <2> HIDE DEF two, L
  <2> QED
    BY <2>6, ListType
<1>4. FlattenSeq(twos) \in Seq(L)
  <2>1. twos \in [1 .. n -> Seq(L)]
    <3> HIDE DEF two, L
    <3> QED
      BY <1>2, <1>3
  <2> HIDE DEF twos, L
  <2>2. twos \in Seq(Seq(L))
    BY <2>1, ListType
  <2> QED
    BY <2>2, FlattenType
<1>5. ones \in Seq(L)
  <2>1. CASE joker = NoOne \/ joker \in ToSet(pair)
    BY <2>1, EmptySeq
  <2>2. CASE ~(joker = NoOne \/ joker \in ToSet(pair))
    <3>1. ASSUME NEW j \in 1 .. n PROVE one(j) \in L
      <4>1. subs[j] \in P /\ joker \in P /\ subs[j] \in free
            /\ {subs[j], joker} \subseteq (free \ ToSet(pair)) \cup ({joker} \ (ToSet(pair) \cup {NoOne}))
        BY <1>2, <2>2
      <4> QED
        BY <1>1, <4>1, LoanIs
    <3>2. ones \in [1 .. n -> L]
      <4> HIDE DEF one, L
      <4> QED
        BY <1>2, <2>2, <3>1
    <3> HIDE DEF ones, L
    <3> QED
      BY <3>2, ListType
  <2> QED
    BY <2>1, <2>2
<1>6. BothRefusedCandidates(pair, joker, subs) = FlattenSeq(twos) \o ones
  BY DEF BothRefusedCandidates
<1> HIDE DEF twos, ones, L
<1>7. FlattenSeq(twos) \o ones \in Seq(L)
  BY <1>4, <1>5, ConcatProperties
<1> QED
  BY <1>6, <1>7 DEF L

(* The names of the line that a volunteer replaces in turn, and the candidates it makes. *)
Roles(pair, blamed) == IF blamed = {} THEN <<2, 1>> ELSE IF pair[2] \in blamed THEN <<2>> ELSE <<1>>
Lend(pair, s, r) == Candidate(pair[r], s, "substitute", [pair EXCEPT ![r] = s])
Lends(pair, blamed, subs) ==
  [j \in DOMAIN subs |->
     [k \in DOMAIN Roles(pair, blamed) |-> Lend(pair, subs[j], Roles(pair, blamed)[k])]]

LEMMA LendsType ==
  ASSUME NEW P, NoOne \notin P, NEW pair \in P \X P, NEW joker \in P \cup {NoOne}, NEW blamed,
         ~(ToSet(pair) \subseteq blamed),
         NEW free \in SUBSET P, NEW subs \in Seq(free \ ToSet(pair))
  PROVE  Lends(pair, blamed, subs) \in Seq(Seq(Loans(pair, joker, blamed, free, P)))
<1> DEFINE L == Loans(pair, joker, blamed, free, P)
           roles == Roles(pair, blamed)
           loan(s, r) == Lend(pair, s, r)
           lend(j) == [k \in DOMAIN roles |-> loan(subs[j], roles[k])]
           lends == [j \in DOMAIN subs |-> lend(j)]
<1>1. lends = Lends(pair, blamed, subs)
  BY DEF Lends
<1>2. PICK n \in Nat : n = Len(subs) /\ DOMAIN subs = 1 .. n /\ \A j \in 1 .. n : subs[j] \in free \ ToSet(pair)
  BY LenProperties, ElementOfSeq
<1>3. /\ pair[1] \in P /\ pair[2] \in P /\ ToSet(pair) = {pair[1], pair[2]}
      /\ \A x : [pair EXCEPT ![1] = x] = <<x, pair[2]>> /\ [pair EXCEPT ![2] = x] = <<pair[1], x>>
  BY PairFacts
<1>4. ASSUME NEW s \in free \ ToSet(pair), pair[1] \notin blamed PROVE loan(s, 2) \in L
  <2>1. loan(s, 2) = Candidate(pair[2], s, "substitute", <<pair[1], s>>)
    BY <1>3 DEF Lend
  <2>2. {pair[1], s} \subseteq (free \ ToSet(pair)) \cup ({joker} \ (ToSet(pair) \cup {NoOne}))
                        \cup (ToSet(pair) \ blamed)
    BY <1>3, <1>4
  <2>3. ToSet(pair) \subseteq {pair[1], s} \cup {pair[2]} /\ pair[2] \in ToSet(pair) /\ s \in P
    BY <1>3
  <2> HIDE DEF loan
  <2> QED
    BY <1>3, <2>1, <2>2, <2>3, LoanIs
<1>5. ASSUME NEW s \in free \ ToSet(pair), pair[2] \notin blamed PROVE loan(s, 1) \in L
  <2>1. loan(s, 1) = Candidate(pair[1], s, "substitute", <<s, pair[2]>>)
    BY <1>3 DEF Lend
  <2>2. {s, pair[2]} \subseteq (free \ ToSet(pair)) \cup ({joker} \ (ToSet(pair) \cup {NoOne}))
                        \cup (ToSet(pair) \ blamed)
    BY <1>3, <1>5
  <2>3. ToSet(pair) \subseteq {s, pair[2]} \cup {pair[1]} /\ pair[1] \in ToSet(pair) /\ s \in P
    BY <1>3
  <2>4. s \in free /\ pair[2] \in P
    BY <1>3
  <2>5. Candidate(pair[1], s, "substitute", <<s, pair[2]>>) \in L
    <3> HIDE DEF loan
    <3> QED
      BY <2>2, <2>3, <2>4, LoanIs
  <2> QED
    BY <2>1, <2>5, Zenon
<1> HIDE DEF loan, L
<1>6. ASSUME NEW j \in 1 .. n PROVE lend(j) \in Seq(L)
  <2> DEFINE s == subs[j]
  <2>0. s \in free \ ToSet(pair)
    BY <1>2
  <2> HIDE DEF s
  <2>1. \E m \in Nat : DOMAIN roles = 1 .. m /\ \A k \in 1 .. m : loan(s, roles[k]) \in L
    <3> HIDE DEF lend
    <3>1. CASE blamed = {}
      <4>1. loan(s, 2) \in L /\ loan(s, 1) \in L
        BY <1>4, <1>5, <2>0, <3>1
      <4>2. roles = <<2, 1>>
        BY <3>1 DEF Roles
      <4> HIDE DEF roles
      <4>3. DOMAIN roles = 1 .. 2 /\ roles[1] = 2 /\ roles[2] = 1
        BY <4>2
      <4>4. \A k \in 1 .. 2 : k = 1 \/ k = 2
        OBVIOUS
      <4>5. \A k \in 1 .. 2 : loan(s, roles[k]) \in L
        BY <4>1, <4>3, <4>4, Zenon
      <4> QED
        BY <4>3, <4>5
    <3>2. CASE blamed # {} /\ pair[2] \in blamed
      <4>1. loan(s, 2) \in L
        BY <1>3, <1>4, <2>0, <3>2
      <4>2. roles = <<2>>
        BY <3>2 DEF Roles
      <4> HIDE DEF roles
      <4>3. DOMAIN roles = 1 .. 1 /\ roles[1] = 2
        BY <4>2
      <4>4. \A k \in 1 .. 1 : k = 1
        OBVIOUS
      <4>5. \A k \in 1 .. 1 : loan(s, roles[k]) \in L
        BY <4>1, <4>3, <4>4, Zenon
      <4> QED
        BY <4>3, <4>5
    <3>3. CASE blamed # {} /\ pair[2] \notin blamed
      <4>1. loan(s, 1) \in L
        BY <1>5, <2>0, <3>3
      <4>2. roles = <<1>>
        BY <3>3 DEF Roles
      <4> HIDE DEF roles
      <4>3. DOMAIN roles = 1 .. 1 /\ roles[1] = 1
        BY <4>2
      <4>4. \A k \in 1 .. 1 : k = 1
        OBVIOUS
      <4>5. \A k \in 1 .. 1 : loan(s, roles[k]) \in L
        BY <4>1, <4>3, <4>4, Zenon
      <4> QED
        BY <4>3, <4>5
    <3> QED
      BY <3>1, <3>2, <3>3
  <2>2. PICK m \in Nat : DOMAIN roles = 1 .. m /\ \A k \in 1 .. m : loan(s, roles[k]) \in L
    BY <2>1
  <2> HIDE DEF roles
  <2>3. lend(j) = [k \in 1 .. m |-> loan(s, roles[k])]
    BY <2>2 DEF s
  <2> HIDE DEF lend
  <2>4. lend(j) \in [1 .. m -> L]
    BY <2>2, <2>3
  <2> QED
    BY <2>4, ListType
<1>7. lends \in [1 .. n -> Seq(L)]
  <2> HIDE DEF lend
  <2> QED
    BY <1>2, <1>6
<1> HIDE DEF lends
<1>8. lends \in Seq(Seq(L))
  BY <1>7, ListType
<1> QED
  BY <1>1, <1>8 DEF L

(* The candidates of a line of which one name at least is not blamed. *)
LEMMA CandidatesAre ==
  ASSUME NEW pair, NEW joker, NEW blamed, ~(ToSet(pair) \subseteq blamed), NEW volunteers
  PROVE  BookingSubstitutionCandidates(pair, joker, blamed, volunteers)
           = FlattenSeq(Lends(pair, blamed, Excluding(volunteers, ToSet(pair))))
               \o SubstitutionCandidates(pair, joker, blamed)
BY Zenon DEF BookingSubstitutionCandidates, Lends, Lend, Roles

(* The candidates for one name of the line: the volunteers in its place, in turn. *)
LEMMA CandidatesType ==
  ASSUME NEW P, NoOne \notin P, NEW pair \in P \X P, NEW joker \in P \cup {NoOne}, NEW blamed,
         NEW free \in SUBSET P, NEW volunteers \in Seq(free)
  PROVE  BookingSubstitutionCandidates(pair, joker, blamed, volunteers)
           \in Seq(Loans(pair, joker, blamed, free, P))
<1> DEFINE L == Loans(pair, joker, blamed, free, P)
           subs == Excluding(volunteers, ToSet(pair))
<1>1. subs \in Seq(free \ ToSet(pair))
  BY ExcludingType
<1> HIDE DEF subs
<1>2. CASE ToSet(pair) \subseteq blamed
  <2>1. BookingSubstitutionCandidates(pair, joker, blamed, volunteers)
          = BothRefusedCandidates(pair, joker, subs)
    BY <1>2 DEF BookingSubstitutionCandidates, subs
  <2> QED
    BY <1>1, <1>2, <2>1, BothRefusedType
<1>3. CASE ~(ToSet(pair) \subseteq blamed)
  <2>1. PICK lends \in Seq(Seq(L)) : lends = Lends(pair, blamed, subs)
    BY <1>1, <1>3, LendsType
  <2>2. BookingSubstitutionCandidates(pair, joker, blamed, volunteers)
          = FlattenSeq(lends) \o SubstitutionCandidates(pair, joker, blamed)
    BY <1>3, <2>1, CandidatesAre DEF subs
  <2>3. FlattenSeq(lends) \in Seq(L)
    BY FlattenType
  <2>4. SubstitutionCandidates(pair, joker, blamed) \in Seq(L)
    BY SubstitutionType DEF L
  <2> QED
    BY <2>2, <2>3, <2>4, ConcatProperties DEF L
<1> QED
  BY <1>2, <1>3

(* One candidate of the joker, or of a volunteer, puts him in the place of a name q of the
   line: q is the only one blamed, or nobody is. *)
Takes(c, pair, q, p) == ToSet(c.pair) = (ToSet(pair) \ {q}) \cup {p}

LEMMA JokerTakes ==
  ASSUME NEW P, NEW pair \in P \X P, pair[1] # pair[2], NEW q \in ToSet(pair),
         NEW blamed \in {{}, {q}}, NEW joker, joker # NoOne, joker \notin ToSet(pair)
  PROVE  \E c \in ToSet(SubstitutionCandidates(pair, joker, blamed)) : Takes(c, pair, q, joker)
<1> DEFINE a == Candidate(pair[2], joker, "joker", <<pair[1], joker>>)
           b == Candidate(pair[1], joker, "joker", <<pair[2], joker>>)
<1>1. ToSet(pair) = {pair[1], pair[2]}
  BY PairFacts
<1>2. SubstitutionCandidates(pair, joker, blamed) =
        IF blamed = {} THEN <<a, b>> ELSE IF pair[2] \in blamed THEN <<a>> ELSE <<b>>
  BY <1>1 DEF SubstitutionCandidates
<1>3. ToSet(<<a, b>>) = {a, b}
  BY PairNames
<1>4. ToSet(<<a>>) = {a} /\ ToSet(<<b>>) = {b}
  BY DEF ToSet
<1>5. ToSet(a.pair) = {pair[1], joker} /\ ToSet(b.pair) = {pair[2], joker}
  BY PairNames DEF Candidate
<1> HIDE DEF a, b
<1>6. CASE q = pair[2]
  <2>1. Takes(a, pair, q, joker)
    BY <1>1, <1>5, <1>6 DEF Takes
  <2>2. a \in ToSet(SubstitutionCandidates(pair, joker, blamed))
    BY <1>2, <1>3, <1>4, <1>6
  <2> QED
    BY <2>1, <2>2
<1>7. CASE q = pair[1]
  <2>1. Takes(b, pair, q, joker)
    BY <1>1, <1>5, <1>7 DEF Takes
  <2>2. b \in ToSet(SubstitutionCandidates(pair, joker, blamed))
    BY <1>2, <1>3, <1>4, <1>7
  <2> QED
    BY <2>1, <2>2
<1> QED
  BY <1>1, <1>6, <1>7

LEMMA VolunteerTakes ==
  ASSUME NEW P, NEW pair \in P \X P, pair[1] # pair[2], NEW q \in ToSet(pair),
         NEW blamed \in {{}, {q}}, NEW subs, NEW j \in DOMAIN subs
  PROVE  \E c \in ToSet(Lends(pair, blamed, subs)[j]) : Takes(c, pair, q, subs[j])
<1> DEFINE roles == Roles(pair, blamed)
           lent == [k \in DOMAIN roles |-> Lend(pair, subs[j], roles[k])]
<1>1. /\ ToSet(pair) = {pair[1], pair[2]}
      /\ \A x : [pair EXCEPT ![1] = x] = <<x, pair[2]>> /\ [pair EXCEPT ![2] = x] = <<pair[1], x>>
  BY PairFacts
<1>2. Lends(pair, blamed, subs)[j] = lent
  BY DEF Lends
<1>3. \E k \in DOMAIN roles : roles[k] \in {1, 2} /\ pair[roles[k]] = q
  <2>1. CASE blamed = {}
    <3>1. roles = <<2, 1>>
      BY <2>1 DEF Roles
    <3> HIDE DEF roles
    <3>2. DOMAIN roles = 1 .. 2 /\ roles[1] = 2 /\ roles[2] = 1 /\ 1 \in 1 .. 2 /\ 2 \in 1 .. 2
      BY <3>1
    <3> QED
      BY <1>1, <3>2
  <2>2. CASE blamed = {q} /\ q = pair[2]
    <3>1. roles = <<2>>
      BY <2>2 DEF Roles
    <3> HIDE DEF roles
    <3>2. DOMAIN roles = 1 .. 1 /\ roles[1] = 2 /\ 1 \in 1 .. 1
      BY <3>1
    <3> QED
      BY <2>2, <3>2
  <2>3. CASE blamed = {q} /\ q = pair[1]
    <3>1. roles = <<1>>
      BY <2>3 DEF Roles
    <3> HIDE DEF roles
    <3>2. DOMAIN roles = 1 .. 1 /\ roles[1] = 1 /\ 1 \in 1 .. 1
      BY <3>1
    <3> QED
      BY <2>3, <3>2
  <2> QED
    BY <1>1, <2>1, <2>2, <2>3
<1> HIDE DEF roles
<1>4. PICK k \in DOMAIN roles : roles[k] \in {1, 2} /\ pair[roles[k]] = q
  BY <1>3
<1>5. lent[k] \in ToSet(lent) /\ lent[k] = Lend(pair, subs[j], roles[k])
  BY DEF ToSet
<1>6. Takes(Lend(pair, subs[j], roles[k]), pair, q, subs[j])
  <2>1. CASE roles[k] = 1
    <3>1. Lend(pair, subs[j], roles[k]).pair = <<subs[j], pair[2]>>
      BY <1>1, <2>1 DEF Lend, Candidate
    <3>2. ToSet(<<subs[j], pair[2]>>) = {subs[j], pair[2]}
      BY PairNames
    <3> QED
      BY <1>1, <1>4, <2>1, <3>1, <3>2 DEF Takes
  <2>2. CASE roles[k] = 2
    <3>1. Lend(pair, subs[j], roles[k]).pair = <<pair[1], subs[j]>>
      BY <1>1, <2>2 DEF Lend, Candidate
    <3>2. ToSet(<<pair[1], subs[j]>>) = {subs[j], pair[1]}
      BY PairNames
    <3> QED
      BY <1>1, <1>4, <2>2, <3>1, <3>2 DEF Takes
  <2> QED
    BY <1>4, <2>1, <2>2
<1> QED
  BY <1>2, <1>5, <1>6

LEMMA CandidatesHave ==
  ASSUME NEW P, NoOne \notin P, NEW pair \in P \X P, pair[1] # pair[2], NEW q \in ToSet(pair),
         NEW blamed \in {{}, {q}}, NEW joker \in P \cup {NoOne},
         NEW free \in SUBSET P, NEW volunteers \in Seq(free),
         NEW p \in P, p \notin ToSet(pair), p = joker \/ p \in ToSet(volunteers)
  PROVE  \E c \in ToSet(BookingSubstitutionCandidates(pair, joker, blamed, volunteers)) :
           Takes(c, pair, q, p)
<1> DEFINE L == Loans(pair, joker, blamed, free, P)
           subs == Excluding(volunteers, ToSet(pair))
<1>1. ~(ToSet(pair) \subseteq blamed)
  BY PairFacts
<1>2. subs \in Seq(free \ ToSet(pair)) /\ ToSet(volunteers) \ ToSet(pair) \subseteq ToSet(subs)
  BY ExcludingType
<1> HIDE DEF subs
<1>3. PICK lends \in Seq(Seq(L)) : lends = Lends(pair, blamed, subs)
  BY <1>1, <1>2, LendsType
<1>4. PICK t \in Seq(L) : t = SubstitutionCandidates(pair, joker, blamed)
  BY SubstitutionType
<1>5. /\ FlattenSeq(lends) \in Seq(L)
      /\ \A k \in DOMAIN lends : ToSet(lends[k]) \subseteq ToSet(FlattenSeq(lends))
  BY FlattenType
<1>6. BookingSubstitutionCandidates(pair, joker, blamed, volunteers) = FlattenSeq(lends) \o t
  BY <1>1, <1>3, <1>4, CandidatesAre DEF subs
<1> HIDE DEF L
<1>7. ToSet(FlattenSeq(lends)) \subseteq ToSet(FlattenSeq(lends) \o t) /\ ToSet(t) \subseteq ToSet(FlattenSeq(lends) \o t)
  BY <1>5, ConcatHolds
<1>8. CASE p = joker
  <2>1. PICK c \in ToSet(t) : Takes(c, pair, q, joker)
    BY <1>4, <1>8, JokerTakes
  <2> QED
    BY <1>6, <1>7, <1>8, <2>1
<1>9. CASE p \in ToSet(volunteers)
  <2>1. PICK j \in DOMAIN subs : subs[j] = p
    BY <1>2, <1>9 DEF ToSet
  <2>2. PICK c \in ToSet(lends[j]) : Takes(c, pair, q, p)
    BY <1>3, <2>1, VolunteerTakes
  <2>3. j \in DOMAIN lends
    BY <1>3 DEF Lends
  <2> QED
    BY <1>5, <1>6, <1>7, <2>2, <2>3
<1> QED
  BY <1>8, <1>9

-----------------------------------------------------------------------------
(* What the node learns from the refusals is true and used.                   *)

Joker == inp.joker
Volunteers == ToSet(inp.volunteers)
Limited == Volunteers \ {Joker}

(* What a candidate is, and which ones may still be tried: no name that is known to have
   no credit, and a volunteer whose day is not full or the joker. *)
Candidates == [replaced : Players, by : Players, kind : {"substitute", "joker"},
               pair : Players \X Players]
Worth(c) ==
  /\ ToSet(c.pair) \cap batch.exhausted = {}
  /\ c.kind = "substitute" => c.by \in Volunteers /\ batch.daily[c.by] < inp.maxDaily
  /\ c.kind = "joker" => c.by = Joker
WorthTrying == {c \in Candidates : Worth(c)}

(* The name a candidate replaces is the one without credit, if the club accepts it. *)
Explains(c) ==
  /\ c.replaced \in ToSet(Pair)
  /\ ToSet(Pair) \subseteq Spent(Pair) \/ ToSet(Pair) \subseteq ToSet(c.pair) \cup {c.replaced}
Explanations == {c \in Candidates : Explains(c)}

(* The lines a volunteer has lent his name to. *)
Loan == [line : Lines, by : Players, replaced : Players]
LinesLent(p) == {s.line : s \in {t \in batch.subs : t.by = p}}

Batches ==
  [daily : [Players -> Nat], exhausted : SUBSET Players, suspect : Players \cup {NoOne},
   subs : SUBSET Loan, failures : SUBSET Lines, cands : Seq(Candidates),
   error : {"none", "known"} \cup SubstitutableReasons, holder : Players \cup {NoOne}]

KnownIsSpent == \A p \in batch.exhausted \ {Joker} : credits[p] = 0
SuspectOrJoker ==
  batch.suspect # NoOne => Joker \in Players /\ (credits[Joker] = 0 \/ credits[batch.suspect] = 0)
AskedIsNotKnown == pc = "call" => ToSet(Pair) \cap batch.exhausted = {}
CascadeOnly == pc \notin {"cascade", "failed"} => batch.cands = << >>
TriedIsWorth == batch.cands \in Seq(WorthTrying)
Unexplained ==
  pc = "cascade" /\ batch.error = "PLAYER_BOOKING_LIMIT_REACHED" /\ batch.holder = NoOne
LimitExplained == Unexplained => Spent(Pair) # {} /\ batch.cands \in Seq(Explanations)
DayCounted ==
  \A p \in Limited :
    /\ LinesLent(p) \subseteq 1 .. i - 1
    /\ batch.daily[p] = Cardinality(LinesOf(p)) + Cardinality(LinesLent(p))
    /\ LinesLent(p) # {} => batch.daily[p] <= inp.maxDaily

Learnt == batch \in Batches /\ KnownIsSpent /\ SuspectOrJoker /\ DayCounted
Queued == AskedIsNotKnown /\ CascadeOnly /\ TriedIsWorth /\ LimitExplained

(* A list is made of its elements. *)
LEMMA OwnElements ==
  ASSUME NEW S, NEW s \in Seq(S)
  PROVE  s \in Seq(ToSet(s)) /\ ToSet(s) \subseteq S
<1>1. PICK n \in Nat : n = Len(s) /\ DOMAIN s = 1 .. n /\ \A k \in 1 .. n : s[k] \in S
  BY LenProperties, ElementOfSeq
<1>2. \A x : x \in ToSet(s) <=> \E k \in 1 .. n : x = s[k]
  BY <1>1 DEF ToSet
<1>3. s \in [1 .. n -> ToSet(s)]
  <2>1. s = [k \in 1 .. n |-> s[k]]
    BY <1>1
  <2>2. \A k \in 1 .. n : s[k] \in ToSet(s)
    BY <1>2
  <2> QED
    BY <2>1, <2>2
<1>4. ToSet(s) \subseteq S
  BY <1>1, <1>2
<1> QED
  BY <1>3, <1>4, ListType

(* A list of one set is a list of a wider one. *)
LEMMA WiderList ==
  ASSUME NEW S, NEW T, S \subseteq T, NEW s \in Seq(S)
  PROVE  s \in Seq(T)
OBVIOUS

(* The names of the plan, of the volunteers and of the joker are those of players. *)
LEMMA InputFacts ==
  ASSUME Sound
  PROVE  /\ inp.volunteers \in Seq(Players) /\ Volunteers \subseteq Players
         /\ Joker \in Players \cup {NoOne} /\ NoOne \notin Players /\ inp.maxDaily \in Nat
         /\ i \in Lines => Pair \in Players \X Players /\ ToSet(Pair) \subseteq Players
                           /\ Pair[1] \in ToSet(Pair) /\ ToSet(Pair) = {Pair[1], Pair[2]}
<1>1. inp \in Inputs
  BY DEF Sound, Counted
<1>2. /\ inp.lines \in Seq(Players \X Players) /\ inp.volunteers \in Seq(Players)
      /\ Joker \in Players \cup {NoOne} /\ NoOne \notin Players /\ inp.maxDaily \in Nat
  BY <1>1, NamesArePlayers DEF Players, Joker
<1>3. Volunteers \subseteq Players
  BY <1>2, OwnElements DEF Volunteers
<1>4. ASSUME i \in Lines PROVE Pair \in Players \X Players
  BY <1>2, <1>4, LenProperties, ElementOfSeq DEF Lines, Pair
<1>5. ASSUME i \in Lines
      PROVE  ToSet(Pair) \subseteq Players /\ Pair[1] \in ToSet(Pair) /\ ToSet(Pair) = {Pair[1], Pair[2]}
  <2>1. \A pair \in Players \X Players :
          pair[1] \in Players /\ pair[2] \in Players /\ ToSet(pair) = {pair[1], pair[2]}
    BY PairFacts
  <2> QED
    BY <1>4, <1>5, <2>1
<1> QED
  BY <1>2, <1>3, <1>4, <1>5

(* Who has no credit gets none back by a call, and no call that is accepted is for him. *)
ZeroStays == \A p \in Players : credits[p] = 0 => credits'[p] = 0

LEMMA CallKnows ==
  ASSUME Sound, NEW pair
  PROVE  /\ Refusals(pair) = {} => Spent(pair) = {}
         /\ Accepted(pair) => Spent(pair) = {} /\ ZeroStays
         /\ (\E r : Refused(pair, r)) \/ Broken(pair) => ZeroStays
<1>1. Refusals(pair) = {} => Spent(pair) = {}
  <2>1. {} \in Blamed(Spent(pair))
    BY DEF Blamed
  <2>2. Spent(pair) # {} =>
          [reason |-> "PLAYER_BOOKING_LIMIT_REACHED", blamed |-> {}] \in Refusals(pair)
    BY <2>1 DEF Refusals
  <2> QED
    BY <2>2
<1>2. ASSUME Refusals(pair) = {}, Reserves(pair) PROVE ZeroStays
  <2>1. credits \in [Players -> Nat]
    BY DEF Sound, Counted
  <2>2. \A p \in ToSet(pair) : credits[p] # 0
    BY <1>1, <1>2 DEF Spent
  <2>3. \A p \in Players : credits'[p] = IF p \in ToSet(pair) THEN credits[p] - 1 ELSE credits[p]
    BY <1>2, <2>1 DEF Reserves
  <2> QED
    BY <2>2, <2>3 DEF ZeroStays
<1>3. credits' = credits => ZeroStays
  BY DEF ZeroStays
<1> QED
  BY <1>1, <1>2, <1>3 DEF Accepted, Refused, Broken

(* The volunteers that may be proposed: their day is not full and they have credit, as far
   as is known. *)
FreeNow == Volunteers \ (AtLimit \cup batch.exhausted)

LEMMA AvailableType ==
  ASSUME Sound
  PROVE  Available \in Seq(FreeNow) /\ FreeNow \subseteq Players
<1>1. inp.volunteers \in Seq(Volunteers) /\ Volunteers \subseteq Players
  BY InputFacts, OwnElements DEF Volunteers
<1>2. Available \in Seq(Volunteers \ (AtLimit \cup batch.exhausted))
  BY <1>1, ExcludingType DEF Available
<1> QED
  BY <1>1, <1>2 DEF FreeNow

(* What the cascade is given for the current line, whoever is blamed for the refusal. *)
Proposed(blamed) == Loans(Pair, UsableJoker, blamed, FreeNow, Players)

LEMMA ProposedType ==
  ASSUME Sound, i \in Lines, NEW blamed
  PROVE  BookingSubstitutionCandidates(Pair, UsableJoker, blamed, Available) \in Seq(Proposed(blamed))
<1>1. Available \in Seq(FreeNow) /\ FreeNow \in SUBSET Players
  BY AvailableType
<1>2. Pair \in Players \X Players /\ NoOne \notin Players /\ UsableJoker \in Players \cup {NoOne}
  BY InputFacts DEF UsableJoker, Joker
<1> QED
  BY <1>1, <1>2, CandidatesType DEF Proposed

(* They have credit as far as is known, are not blamed, and their day is not full. *)
LEMMA ProposedFacts ==
  ASSUME Sound, Learnt, i \in Lines, NEW blamed, ToSet(Pair) \cap batch.exhausted \subseteq blamed,
         NEW c \in Proposed(blamed)
  PROVE  /\ c \in Candidates /\ c.replaced \in ToSet(Pair)
         /\ ToSet(c.pair) \cap batch.exhausted = {}
         /\ ToSet(c.pair) \cap (ToSet(Pair) \cap blamed) = {}
         /\ c.kind = "substitute" => c.by \in Volunteers /\ batch.daily[c.by] < inp.maxDaily
         /\ c.kind = "joker" => c.by = Joker
         /\ ToSet(Pair) \subseteq blamed \/ ToSet(Pair) \subseteq ToSet(c.pair) \cup {c.replaced}
<1>1. /\ c \in Candidates /\ c.replaced \in ToSet(Pair) /\ c.by \in Players
      /\ c.kind = "substitute" => c.by \in FreeNow
      /\ c.kind = "joker" => c.by = UsableJoker
      /\ ToSet(c.pair) \subseteq (FreeNow \ ToSet(Pair)) \cup ({UsableJoker} \ (ToSet(Pair) \cup {NoOne}))
                                \cup (ToSet(Pair) \ blamed)
      /\ ToSet(Pair) \subseteq blamed \/ ToSet(Pair) \subseteq ToSet(c.pair) \cup {c.replaced}
  BY DEF Proposed, Loans, Candidates
<1>2. FreeNow \cap batch.exhausted = {} /\ FreeNow \subseteq Volunteers \ AtLimit
  BY DEF FreeNow
<1>3. UsableJoker # NoOne => UsableJoker = Joker /\ UsableJoker \notin batch.exhausted
  BY DEF UsableJoker, Joker
<1>4. NoOne \notin Players /\ Volunteers \subseteq Players /\ inp.maxDaily \in Nat
  BY InputFacts
<1>5. ToSet(c.pair) \cap batch.exhausted = {} /\ ToSet(c.pair) \cap (ToSet(Pair) \cap blamed) = {}
  BY <1>1, <1>2, <1>3
<1>6. ASSUME c.kind = "substitute" PROVE c.by \in Volunteers /\ batch.daily[c.by] < inp.maxDaily
  <2>1. c.by \in Volunteers /\ c.by \notin AtLimit /\ batch.daily[c.by] \in Nat
    BY <1>1, <1>2, <1>4, <1>6 DEF Sound, Counted
  <2>2. ~(batch.daily[c.by] >= inp.maxDaily)
    BY <2>1 DEF AtLimit, Volunteers
  <2> QED
    BY <2>1, <2>2, <1>4
<1>7. c.kind = "joker" => c.by = Joker
  BY <1>1, <1>3, <1>4
<1> QED
  BY <1>1, <1>5, <1>6, <1>7

(* What counts the day, when no name is lent. *)
LEMMA DayKept ==
  ASSUME Sound, DayCounted, inp' = inp, batch'.subs = batch.subs, batch'.daily = batch.daily,
         i' = i \/ i' = i + 1
  PROVE  DayCounted'
<1>1. Limited' = Limited /\ 1 .. i - 1 \subseteq (1 .. i - 1)'
  BY DEF Limited, Volunteers, Joker, Sound, IInv, LinesInv
<1>2. \A p : LinesLent(p)' = LinesLent(p) /\ LinesOf(p)' = LinesOf(p)
  BY DEF LinesLent, LinesOf, Lines
<1> QED
  BY <1>1, <1>2 DEF DayCounted

(* The types, when the lines and the players stay. *)
LEMMA TypesKept ==
  ASSUME inp' = inp
  PROVE  Batches' = Batches /\ Players' = Players /\ Joker' = Joker /\ Volunteers' = Volunteers
         /\ Candidates' = Candidates
BY DEF Batches, Loan, Lines, Candidates, Players, Joker, Volunteers

(* Learning that more players have no credit: those that are added have none. *)
LEMMA LearntMore ==
  ASSUME Sound, Learnt, inp' = inp, ZeroStays, batch' \in Batches,
         batch'.subs = batch.subs, batch'.daily = batch.daily, i' = i \/ i' = i + 1,
         \A p \in batch'.exhausted \ (batch.exhausted \cup {Joker}) : credits[p] = 0,
         \/ batch'.suspect = NoOne
         \/ batch'.suspect = batch.suspect
         \/ Joker \in Players /\ (credits[Joker] = 0 \/ credits[batch'.suspect] = 0)
  PROVE  Learnt'
<1>1. Batches' = Batches /\ Players' = Players /\ Joker' = Joker
  BY TypesKept
<1>2. DayCounted'
  BY DayKept DEF Learnt
<1>3. KnownIsSpent'
  <2>1. \A p \in batch'.exhausted \ {Joker} : credits[p] = 0 /\ p \in Players
    BY DEF Learnt, KnownIsSpent, Batches
  <2> QED
    BY <1>1, <2>1 DEF KnownIsSpent, ZeroStays
<1>4. SuspectOrJoker'
  <2> SUFFICES ASSUME batch'.suspect # NoOne
               PROVE  Joker \in Players /\ (credits'[Joker] = 0 \/ credits'[batch'.suspect] = 0)
    BY <1>1 DEF SuspectOrJoker
  <2>1. batch'.suspect \in Players
    BY DEF Batches
  <2>2. Joker \in Players /\ (credits[Joker] = 0 \/ credits[batch'.suspect] = 0)
    BY DEF Learnt, SuspectOrJoker
  <2> QED
    BY <2>1, <2>2 DEF ZeroStays
<1> QED
  BY <1>1, <1>2, <1>3, <1>4 DEF Learnt

(* The queue of an execution that is not in the middle of a line is empty. *)
LEMMA NothingQueued ==
  ASSUME batch.cands = << >>
  PROVE  TriedIsWorth /\ CascadeOnly
BY EmptySeq DEF TriedIsWorth, CascadeOnly

LEMMA NothingQueuedNext ==
  ASSUME batch'.cands = << >>, pc' = "line"
  PROVE  Queued'
<1>1. << >> \in Seq(WorthTrying')
  BY EmptySeq
<1>2. TriedIsWorth' /\ CascadeOnly'
  BY <1>1 DEF TriedIsWorth, CascadeOnly
<1>3. AskedIsNotKnown' /\ LimitExplained'
  BY DEF AskedIsNotKnown, LimitExplained, Unexplained
<1> QED
  BY <1>2, <1>3 DEF Queued

(* What the cascade is given is worth trying, when only players to blame are added to those
   who have no credit. *)
LEMMA ProposedIsWorth ==
  ASSUME Sound, Learnt, i \in Lines, inp' = inp, NEW blamed, ToSet(Pair) \cap batch.exhausted \subseteq blamed,
         batch'.daily = batch.daily,
         batch'.exhausted \subseteq batch.exhausted \cup (ToSet(Pair) \cap blamed),
         batch'.cands = BookingSubstitutionCandidates(Pair, UsableJoker, blamed, Available)
  PROVE  TriedIsWorth' /\ batch'.cands \in Seq(Proposed(blamed)) /\ batch'.cands \in Seq(Candidates)
<1>1. batch'.cands \in Seq(Proposed(blamed))
  BY ProposedType
<1>2. Candidates' = Candidates /\ Volunteers' = Volunteers /\ Joker' = Joker
  BY TypesKept
<1>3. ASSUME NEW c \in Proposed(blamed) PROVE c \in WorthTrying' /\ c \in Candidates
  <2>1. /\ c \in Candidates
        /\ ToSet(c.pair) \cap batch.exhausted = {}
        /\ ToSet(c.pair) \cap (ToSet(Pair) \cap blamed) = {}
        /\ c.kind = "substitute" => c.by \in Volunteers /\ batch.daily[c.by] < inp.maxDaily
        /\ c.kind = "joker" => c.by = Joker
    BY <1>3, ProposedFacts
  <2>2. ToSet(c.pair) \cap batch'.exhausted = {}
    BY <2>1
  <2> QED
    BY <1>2, <2>1, <2>2 DEF WorthTrying, Worth
<1>4. Proposed(blamed) \subseteq WorthTrying' /\ Proposed(blamed) \subseteq Candidates
  BY <1>3
<1> HIDE DEF Candidates
<1>5. batch'.cands \in Seq(WorthTrying') /\ batch'.cands \in Seq(Candidates)
  BY <1>1, <1>4, WiderList
<1> QED
  BY <1>1, <1>5 DEF TriedIsWorth

(* One lemma per step of a line: the next line, booked, refused for a name. *)
LEMMA NextLineKnows ==
  ASSUME Sound, Learnt, Queued, NextLine
  PROVE  Learnt' /\ Queued'
<1> DEFINE known == ToSet(Pair) \cap batch.exhausted
<1>1. /\ pc = "line" /\ i \in Lines /\ UNCHANGED <<inp, credits, i>> /\ batch \in Batches
      /\ batch.cands = << >> /\ ZeroStays
  BY DEF NextLine, Sound, IInv, LinesInv, Learnt, Queued, CascadeOnly, ZeroStays
<1>2. CASE known = {}
  <2>1. pc' = "call" /\ batch' = batch
    BY <1>2 DEF NextLine
  <2>2. Learnt'
    BY <1>1, <2>1, LearntMore
  <2>3. TriedIsWorth' /\ CascadeOnly'
    BY <1>1, <2>1, EmptySeq DEF TriedIsWorth, CascadeOnly
  <2>4. AskedIsNotKnown' /\ LimitExplained'
    BY <1>1, <1>2, <2>1 DEF AskedIsNotKnown, LimitExplained, Unexplained, Pair
  <2> QED
    BY <2>2, <2>3, <2>4 DEF Queued
<1>3. CASE known # {}
  <2>1. pc' = "cascade" /\ batch' = [batch EXCEPT !.error = "known",
          !.cands = BookingSubstitutionCandidates(Pair, UsableJoker, known, Available)]
    BY <1>3 DEF NextLine
  <2> HIDE DEF known
  <2>2. /\ batch'.daily = batch.daily /\ batch'.exhausted = batch.exhausted
        /\ batch'.subs = batch.subs /\ batch'.suspect = batch.suspect /\ batch'.error = "known"
        /\ batch'.cands = BookingSubstitutionCandidates(Pair, UsableJoker, known, Available)
    BY <1>1, <2>1 DEF Batches
  <2>3. TriedIsWorth' /\ batch'.cands \in Seq(Candidates)
    BY <1>1, <2>2, ProposedIsWorth DEF known
  <2>4. batch' \in Batches
    <3> HIDE DEF Candidates
    <3> QED
      BY <1>1, <2>1, <2>2, <2>3 DEF Batches
  <2>5. Learnt'
    BY <1>1, <2>2, <2>4, LearntMore
  <2>6. AskedIsNotKnown' /\ LimitExplained' /\ CascadeOnly'
    BY <2>1, <2>2 DEF AskedIsNotKnown, LimitExplained, Unexplained, CascadeOnly
  <2> QED
    BY <2>3, <2>5, <2>6 DEF Queued
<1> QED
  BY <1>2, <1>3

(* The other player of a line of the joker. *)
LEMMA OtherFacts ==
  ASSUME Sound, i \in Lines, Joker \in ToSet(Pair)
  PROVE  Other(Pair) \in Players /\ ToSet(Pair) = {Joker, Other(Pair)} /\ Joker \in Players
BY InputFacts DEF Other, Joker

LEMMA BookedKnows ==
  ASSUME Sound, Learnt, Queued, Booked
  PROVE  Learnt' /\ Queued'
<1>1. /\ pc = "call" /\ i \in Lines /\ inp' = inp /\ i' = i + 1 /\ pc' = "line" /\ Accepted(Pair)
      /\ batch \in Batches /\ batch.cands = << >> /\ batch' = ClearJokerSuspicion(batch)
  BY DEF Booked, Sound, IInv, PlaceInv, Learnt, Queued, CascadeOnly
<1>2. ZeroStays /\ Spent(Pair) = {}
  BY <1>1, CallKnows
<1>3. CASE batch' = batch
  <2>1. Learnt'
    BY <1>1, <1>2, <1>3, LearntMore
  <2> QED
    BY <1>1, <1>3, <2>1, NothingQueuedNext
<1>4. CASE batch' # batch
  <2>1. /\ batch.suspect # NoOne /\ Joker \in ToSet(Pair)
        /\ batch' = [batch EXCEPT !.suspect = NoOne, !.exhausted = @ \cup {batch.suspect}]
    BY <1>1, <1>4 DEF ClearJokerSuspicion, Joker
  <2>2. batch.suspect \in Players
    BY <1>1, <2>1 DEF Batches
  <2>3. /\ batch' \in Batches /\ batch'.daily = batch.daily /\ batch'.subs = batch.subs
        /\ batch'.suspect = NoOne /\ batch'.exhausted = batch.exhausted \cup {batch.suspect}
        /\ batch'.cands = << >>
    <3>1. PICK x \in Players : x = batch.suspect
      BY <2>2
    <3>2. batch' = [batch EXCEPT !.suspect = NoOne, !.exhausted = batch.exhausted \cup {x}]
      BY <2>1, <3>1
    <3>3. /\ batch'.daily = batch.daily /\ batch'.subs = batch.subs
          /\ batch'.suspect = NoOne /\ batch'.exhausted = batch.exhausted \cup {x}
          /\ batch'.cands = << >>
      BY <1>1, <3>2 DEF Batches
    <3>4. batch' \in Batches
      <4>1. PICK e \in SUBSET Players : e = batch.exhausted \cup {x}
        BY <1>1, <3>1 DEF Batches
      <4>2. batch' = [batch EXCEPT !.suspect = NoOne, !.exhausted = e]
        BY <3>2, <4>1
      <4> QED
        BY <1>1, <4>2 DEF Batches
    <3> QED
      BY <3>1, <3>3, <3>4
  <2>4. credits[Joker] # 0
    BY <1>2, <2>1 DEF Spent
  <2>5. credits[batch.suspect] = 0
    BY <2>1, <2>4 DEF Learnt, SuspectOrJoker
  <2>6. /\ batch'.suspect = NoOne
        /\ \A p \in batch'.exhausted \ (batch.exhausted \cup {Joker}) : credits[p] = 0
    BY <2>3, <2>5
  <2>7. Learnt'
    BY <1>1, <1>2, <2>3, <2>6, LearntMore
  <2> QED
    BY <1>1, <2>3, <2>7, NothingQueuedNext
<1> QED
  BY <1>3, <1>4

(* The one the refusal names has no credit; when it names nobody, it is about one or both. *)
LEMMA HolderFacts ==
  ASSUME Sound, i \in Lines, NEW r \in Refusals(Pair), r.reason \in SubstitutableReasons
  PROVE  /\ r.blamed \subseteq ToSet(Pair) /\ Holder(r) \in Players \cup {NoOne}
         /\ NoteHolder(r) \subseteq r.blamed
         /\ r.reason = "PLAYER_BOOKING_LIMIT_REACHED" => r.blamed \subseteq Spent(Pair) /\ Spent(Pair) # {}
         /\ \A p \in NoteHolder(r) : credits[p] = 0
<1>1. \/ \E b \in Blamed(Unable(Pair)) : r = [reason |-> "PLAYER_NOT_REGISTERED", blamed |-> b]
      \/ /\ Spent(Pair) # {}
         /\ \E b \in Blamed(Spent(Pair)) \cup Quoted(Spent(Pair)) :
              r = [reason |-> "PLAYER_BOOKING_LIMIT_REACHED", blamed |-> b]
  BY DEF Refusals, SubstitutableReasons
<1>2. CASE \E b \in Blamed(Unable(Pair)) : r = [reason |-> "PLAYER_NOT_REGISTERED", blamed |-> b]
  <2>1. r.reason = "PLAYER_NOT_REGISTERED" /\ r.blamed \subseteq ToSet(Pair)
    BY <1>2 DEF Blamed, Unable
  <2>2. Holder(r) = NoOne /\ NoteHolder(r) = {}
    BY <2>1 DEF Holder, NoteHolder
  <2> QED
    BY <2>1, <2>2
<1>3. CASE /\ Spent(Pair) # {}
           /\ \E b \in Blamed(Spent(Pair)) \cup Quoted(Spent(Pair)) :
                r = [reason |-> "PLAYER_BOOKING_LIMIT_REACHED", blamed |-> b]
  <2>1. PICK b \in Blamed(Spent(Pair)) \cup Quoted(Spent(Pair)) :
          r = [reason |-> "PLAYER_BOOKING_LIMIT_REACHED", blamed |-> b]
    BY <1>3
  <2>2. r.blamed \subseteq Spent(Pair)
    BY <2>1 DEF Blamed, Quoted
  <2>3. Spent(Pair) \subseteq ToSet(Pair) /\ ToSet(Pair) \subseteq Players /\ \A p \in Spent(Pair) : credits[p] = 0
    BY InputFacts DEF Spent
  <2>4. Holder(r) = NoOne \/ Holder(r) \in r.blamed
    <3>1. CASE Cardinality(r.blamed) = 1
      <4>1. r.blamed # {}
        BY <3>1, FS_EmptySet
      <4>2. (CHOOSE p \in r.blamed : TRUE) \in r.blamed
        BY <4>1
      <4> QED
        BY <3>1, <2>1, <4>2 DEF Holder
    <3>2. CASE Cardinality(r.blamed) # 1
      BY <3>2 DEF Holder
    <3> QED
      BY <3>1, <3>2
  <2>5. NoteHolder(r) \subseteq r.blamed /\ Holder(r) \in Players \cup {NoOne}
    BY <2>2, <2>3, <2>4 DEF NoteHolder
  <2> QED
    BY <1>3, <2>2, <2>3, <2>5
<1> QED
  BY <1>1, <1>2, <1>3

LEMMA ReplaceKnows ==
  ASSUME Sound, Learnt, Queued, Replace
  PROVE  Learnt' /\ Queued'
<1>1. /\ pc = "call" /\ i \in Lines /\ UNCHANGED <<inp, i>> /\ pc' = "cascade" /\ batch \in Batches
      /\ ToSet(Pair) \cap batch.exhausted = {}
  BY DEF Replace, Sound, IInv, PlaceInv, Learnt, Queued, AskedIsNotKnown
<1>2. PICK r \in Refusals(Pair) :
        /\ Refused(Pair, r) /\ r.reason \in SubstitutableReasons
        /\ batch' = [batch EXCEPT
             !.error = r.reason, !.holder = Holder(r),
             !.exhausted = @ \cup NoteHolder(r),
             !.cands = BookingSubstitutionCandidates(Pair, UsableJoker, r.blamed, Available)]
  BY DEF Replace
<1>3. ZeroStays /\ credits' = credits
  BY <1>2, CallKnows DEF Refused
<1>4. /\ batch'.daily = batch.daily /\ batch'.exhausted = batch.exhausted \cup NoteHolder(r)
      /\ batch'.subs = batch.subs /\ batch'.suspect = batch.suspect /\ batch'.error = r.reason
      /\ batch'.holder = Holder(r)
      /\ batch'.cands = BookingSubstitutionCandidates(Pair, UsableJoker, r.blamed, Available)
  BY <1>1, <1>2 DEF Batches
<1>5. /\ r.blamed \subseteq ToSet(Pair) /\ ToSet(Pair) \subseteq Players
      /\ Holder(r) \in Players \cup {NoOne} /\ NoteHolder(r) \subseteq r.blamed
      /\ r.reason = "PLAYER_BOOKING_LIMIT_REACHED" => r.blamed \subseteq Spent(Pair) /\ Spent(Pair) # {}
      /\ \A p \in NoteHolder(r) : credits[p] = 0
  BY <1>1, <1>2, HolderFacts, InputFacts
<1>6. TriedIsWorth' /\ batch'.cands \in Seq(Proposed(r.blamed)) /\ batch'.cands \in Seq(Candidates)
  <2>1. batch'.exhausted \subseteq batch.exhausted \cup (ToSet(Pair) \cap r.blamed)
    BY <1>4, <1>5
  <2> QED
    BY <1>1, <1>4, <2>1, ProposedIsWorth
<1>7. batch' \in Batches
  <2> HIDE DEF Candidates
  <2> QED
    BY <1>1, <1>2, <1>4, <1>5, <1>6 DEF Batches
<1>8. Learnt'
  BY <1>1, <1>3, <1>4, <1>5, <1>7, LearntMore
<1>9. AskedIsNotKnown' /\ CascadeOnly'
  BY <1>1 DEF AskedIsNotKnown, CascadeOnly
<1>10. LimitExplained'
  <2> SUFFICES ASSUME Unexplained' PROVE (Spent(Pair) # {} /\ batch.cands \in Seq(Explanations))'
    BY DEF LimitExplained
  <2>1. r.reason = "PLAYER_BOOKING_LIMIT_REACHED"
    BY <1>4 DEF Unexplained
  <2>2. Pair' = Pair /\ Spent(Pair)' = Spent(Pair) /\ Candidates' = Candidates
    BY <1>1, <1>3, TypesKept DEF Pair, Spent
  <2>3. ASSUME NEW c \in Proposed(r.blamed) PROVE c \in Explanations'
    <3>1. /\ c \in Candidates /\ c.replaced \in ToSet(Pair)
          /\ ToSet(Pair) \subseteq r.blamed \/ ToSet(Pair) \subseteq ToSet(c.pair) \cup {c.replaced}
      BY <1>1, <2>3, ProposedFacts
    <3>2. ToSet(Pair) \subseteq Spent(Pair) \/ ToSet(Pair) \subseteq ToSet(c.pair) \cup {c.replaced}
      BY <1>5, <2>1, <3>1
    <3> QED
      BY <2>2, <3>1, <3>2 DEF Explanations, Explains
  <2>4. Proposed(r.blamed) \subseteq Explanations'
    BY <2>3
  <2>5. batch'.cands \in Seq(Explanations')
    BY <1>6, <2>4, WiderList
  <2> QED
    BY <1>5, <2>1, <2>2, <2>5
<1> QED
  BY <1>6, <1>8, <1>9, <1>10 DEF Queued

(* A line that fails empties the queue and teaches nothing else. *)
LEMMA LineFailsLearns ==
  ASSUME i \in Lines, NEW b \in Batches, LineFails(b)
  PROVE  /\ batch' \in Batches /\ batch'.daily = b.daily /\ batch'.subs = b.subs
         /\ batch'.suspect = b.suspect /\ batch'.exhausted = b.exhausted
         /\ batch'.cands = << >> /\ pc' = "line" /\ i' = i + 1
<1>1. PICK f \in SUBSET Lines : f = b.failures \cup {i}
  BY DEF Batches
<1>2. batch' = [b EXCEPT !.failures = f, !.cands = << >>, !.error = "none", !.holder = NoOne]
      /\ pc' = "line" /\ i' = i + 1
  BY <1>1 DEF LineFails
<1>3. /\ batch'.daily = b.daily /\ batch'.subs = b.subs /\ batch'.suspect = b.suspect
      /\ batch'.exhausted = b.exhausted /\ batch'.cands = << >>
  BY <1>2 DEF Batches
<1>4. batch' \in Batches
  <2>1. << >> \in Seq(Candidates)
    BY EmptySeq
  <2> HIDE DEF Candidates
  <2> QED
    BY <1>2, <2>1 DEF Batches
<1> QED
  BY <1>2, <1>3, <1>4

LEMMA GiveUpKnows ==
  ASSUME Sound, Learnt, Queued, GiveUp
  PROVE  Learnt' /\ Queued'
<1>1. /\ i \in Lines /\ inp' = inp /\ batch \in Batches /\ LineFails(batch)
      /\ (\E r : Refused(Pair, r)) \/ Broken(Pair)
  BY DEF GiveUp, Sound, IInv, PlaceInv, Learnt
<1>2. ZeroStays
  BY <1>1, CallKnows
<1>3. /\ batch' \in Batches /\ batch'.daily = batch.daily /\ batch'.subs = batch.subs
      /\ batch'.suspect = batch.suspect /\ batch'.exhausted = batch.exhausted
      /\ batch'.cands = << >> /\ pc' = "line" /\ i' = i + 1
  BY <1>1, LineFailsLearns
<1>4. Learnt'
  BY <1>1, <1>2, <1>3, LearntMore
<1> QED
  BY <1>3, <1>4, NothingQueuedNext

(* A line that no name could carry: the joker may be suspected, or held to have no credit. *)
LEMMA SuspectLearns ==
  ASSUME Sound, Learnt, Queued, pc = "cascade", i \in Lines, NEW b, b = SuspectJoker(batch)
  PROVE  /\ b \in Batches /\ b.daily = batch.daily /\ b.subs = batch.subs
         /\ b.exhausted \subseteq batch.exhausted \cup {Joker}
         /\ \/ b.suspect = NoOne
            \/ b.suspect = batch.suspect
            \/ Joker \in Players /\ (credits[Joker] = 0 \/ credits[b.suspect] = 0)
<1>1. batch \in Batches
  BY DEF Learnt
<1>2. CASE b = batch
  BY <1>1, <1>2
<1>3. CASE b # batch
  <2>1. /\ batch.error = "PLAYER_BOOKING_LIMIT_REACHED" /\ batch.holder = NoOne /\ Joker \in ToSet(Pair)
        /\ \/ batch.suspect = NoOne /\ b = [batch EXCEPT !.suspect = Other(Pair)]
           \/ b = [batch EXCEPT !.suspect = NoOne, !.exhausted = @ \cup {Joker}]
    BY <1>3 DEF SuspectJoker, Joker
  <2>2. PICK x \in Players : x = Other(Pair) /\ ToSet(Pair) = {Joker, x} /\ Joker \in Players
    BY <2>1, OtherFacts
  <2>3. credits[Joker] = 0 \/ credits[x] = 0
    <3>1. Spent(Pair) # {}
      BY <2>1 DEF Queued, LimitExplained, Unexplained
    <3> QED
      BY <2>2, <3>1 DEF Spent
  <2>4. CASE b = [batch EXCEPT !.suspect = Other(Pair)]
    <3>1. b = [batch EXCEPT !.suspect = x]
      BY <2>2, <2>4
    <3>2. b \in Batches
      BY <1>1, <2>2, <3>1 DEF Batches
    <3>3. b.daily = batch.daily /\ b.subs = batch.subs /\ b.exhausted = batch.exhausted /\ b.suspect = x
      BY <1>1, <3>1 DEF Batches
    <3> QED
      BY <2>2, <2>3, <3>2, <3>3
  <2>5. CASE b = [batch EXCEPT !.suspect = NoOne, !.exhausted = @ \cup {Joker}]
    <3>1. PICK e \in SUBSET Players : e = batch.exhausted \cup {Joker}
      BY <1>1, <2>2 DEF Batches
    <3>2. b = [batch EXCEPT !.suspect = NoOne, !.exhausted = e]
      BY <2>5, <3>1
    <3>3. b \in Batches
      BY <1>1, <3>2 DEF Batches
    <3>4. b.daily = batch.daily /\ b.subs = batch.subs /\ b.exhausted = e /\ b.suspect = NoOne
      BY <1>1, <3>2 DEF Batches
    <3> QED
      BY <3>1, <3>3, <3>4
  <2> QED
    BY <2>1, <2>4, <2>5
<1> QED
  BY <1>2, <1>3

LEMMA CascadeFailsKnows ==
  ASSUME Sound, Learnt, Queued, CascadeFails
  PROVE  Learnt' /\ Queued'
<1>1. /\ pc = "cascade" /\ i \in Lines /\ inp' = inp /\ credits' = credits
      /\ LineFails(SuspectJoker(batch))
  BY DEF CascadeFails, Sound, IInv, PlaceInv
<1>2. ZeroStays
  BY <1>1 DEF ZeroStays
<1>3. PICK b : b = SuspectJoker(batch)
  OBVIOUS
<1>4. /\ b \in Batches /\ b.daily = batch.daily /\ b.subs = batch.subs
      /\ b.exhausted \subseteq batch.exhausted \cup {Joker}
      /\ \/ b.suspect = NoOne
         \/ b.suspect = batch.suspect
         \/ Joker \in Players /\ (credits[Joker] = 0 \/ credits[b.suspect] = 0)
  BY <1>1, <1>3, SuspectLearns
<1>5. /\ batch' \in Batches /\ batch'.daily = b.daily /\ batch'.subs = b.subs
      /\ batch'.suspect = b.suspect /\ batch'.exhausted = b.exhausted
      /\ batch'.cands = << >> /\ pc' = "line" /\ i' = i + 1
  BY <1>1, <1>3, <1>4, LineFailsLearns
<1>6. \A p \in batch'.exhausted \ (batch.exhausted \cup {Joker}) : credits[p] = 0
  BY <1>4, <1>5
<1>7. batch'.daily = batch.daily /\ batch'.subs = batch.subs
  BY <1>4, <1>5
<1>8. \/ batch'.suspect = NoOne
      \/ batch'.suspect = batch.suspect
      \/ Joker \in Players /\ (credits[Joker] = 0 \/ credits[batch'.suspect] = 0)
  BY <1>4, <1>5
<1>9. Learnt'
  BY <1>1, <1>2, <1>5, <1>6, <1>7, <1>8, LearntMore
<1> QED
  BY <1>5, <1>9, NothingQueuedNext

(* The first of the queue, and the rest of it. *)
LEMMA HeadTail ==
  ASSUME NEW S, NEW s \in Seq(S), s # << >>
  PROVE  Head(s) \in S /\ Tail(s) \in Seq(S)
BY HeadTailProperties

(* A name is refused, or the call breaks: the next one is tried. *)
LEMMA TriedInVainKnows ==
  ASSUME Sound, Learnt, Queued, pc = "cascade", i \in Lines, UNCHANGED <<inp, pc, i>>, NEW c,
         (\E r : Refused(c.pair, r)) \/ Broken(c.pair), batch.cands # << >>,
         batch' = [batch EXCEPT !.cands = Tail(@)]
  PROVE  Learnt' /\ Queued'
<1>1. ZeroStays
  BY CallKnows
<1>2. batch \in Batches /\ batch.cands \in Seq(Candidates)
  BY DEF Learnt, Batches
<1>3. PICK t \in Seq(Candidates) : t = Tail(batch.cands)
  BY <1>2, HeadTail
<1>4. batch' = [batch EXCEPT !.cands = t]
  BY <1>3
<1>5. /\ batch'.daily = batch.daily /\ batch'.exhausted = batch.exhausted
      /\ batch'.subs = batch.subs /\ batch'.suspect = batch.suspect /\ batch'.error = batch.error
      /\ batch'.holder = batch.holder /\ batch'.cands = t
  BY <1>2, <1>4 DEF Batches
<1>6. batch' \in Batches
  <2> HIDE DEF Candidates
  <2> QED
    BY <1>2, <1>3, <1>4 DEF Batches
<1>7. Learnt'
  BY <1>1, <1>5, <1>6, LearntMore
<1>8. AskedIsNotKnown' /\ CascadeOnly'
  BY DEF AskedIsNotKnown, CascadeOnly
<1>9. TriedIsWorth'
  <2>1. WorthTrying' = WorthTrying
    BY <1>5, TypesKept DEF WorthTrying, Worth
  <2>2. t \in Seq(WorthTrying)
    BY <1>3, HeadTail DEF Queued, TriedIsWorth
  <2> QED
    BY <1>5, <2>1, <2>2 DEF TriedIsWorth
<1>10. LimitExplained'
  <2> SUFFICES ASSUME Unexplained' PROVE (Spent(Pair) # {} /\ batch.cands \in Seq(Explanations))'
    BY DEF LimitExplained
  <2>1. Spent(Pair) # {} /\ batch.cands \in Seq(Explanations)
    BY <1>5 DEF Unexplained, Queued, LimitExplained
  <2>2. Pair' = Pair /\ ToSet(Pair) \subseteq Players /\ Candidates' = Candidates
    BY InputFacts, TypesKept DEF Pair
  <2>3. Spent(Pair) \subseteq Spent(Pair)'
    BY <1>1, <2>2 DEF Spent, ZeroStays
  <2>4. Explanations \subseteq Explanations'
    BY <2>2, <2>3 DEF Explanations, Explains
  <2>5. t \in Seq(Explanations)
    BY <1>3, <2>1, HeadTail
  <2>6. t \in Seq(Explanations')
    BY <2>4, <2>5, WiderList
  <2> QED
    BY <1>5, <2>1, <2>3, <2>6
<1> QED
  BY <1>7, <1>8, <1>9, <1>10 DEF Queued

(* How many lines a player has, and has lent his name to, is a number. *)
LEMMA LinesFinite ==
  ASSUME Sound, NEW s \in SUBSET Lines
  PROVE  IsFiniteSet(s) /\ Cardinality(s) \in Nat
<1>1. Lines = 1 .. Len(inp.lines) /\ Len(inp.lines) \in Nat
  BY DEF Sound, IInv, LinesInv
<1>2. IsFiniteSet(Lines)
  BY <1>1, FS_Interval
<1> QED
  BY <1>2, FS_Subset, FS_CardinalityType

(* One more loan is one more line of the day, of a volunteer whose day was not full. *)
LEMMA LoanCounted ==
  ASSUME Sound, Learnt, i \in Lines, inp' = inp, i' = i + 1, NEW c \in WorthTrying,
         batch'.subs = batch.subs \cup {[line |-> i, by |-> c.by, replaced |-> c.replaced]},
         batch'.daily = Lent(batch.daily, c)
  PROVE  DayCounted'
<1>1. Limited' = Limited /\ Limited \subseteq Players /\ inp.maxDaily \in Nat /\ i \in Nat
      /\ batch.daily \in [Players -> Nat]
  BY InputFacts DEF Limited, Volunteers, Joker, Sound, Counted, IInv, LinesInv
<1>2. c \in Candidates /\ c.by \in Players /\ c.kind \in {"substitute", "joker"}
      /\ (c.kind = "substitute" => batch.daily[c.by] < inp.maxDaily)
      /\ (c.kind = "joker" => c.by \notin Limited)
  BY DEF WorthTrying, Worth, Candidates, Limited
<1> SUFFICES ASSUME NEW p \in Limited
             PROVE  /\ LinesLent(p)' \subseteq 1 .. i
                    /\ batch'.daily[p] = Cardinality(LinesOf(p)) + Cardinality(LinesLent(p)')
                    /\ LinesLent(p)' # {} => batch'.daily[p] <= inp.maxDaily
  <2>1. \A p : LinesOf(p)' = LinesOf(p)
    BY DEF LinesOf, Lines
  <2>2. (1 .. i - 1)' = 1 .. i
    BY <1>1
  <2> QED
    BY <1>1, <2>1, <2>2 DEF DayCounted
<1>3. /\ LinesLent(p) \subseteq 1 .. i - 1
      /\ batch.daily[p] = Cardinality(LinesOf(p)) + Cardinality(LinesLent(p))
      /\ LinesLent(p) # {} => batch.daily[p] <= inp.maxDaily
  BY DEF Learnt, DayCounted
<1>4. IsFiniteSet(LinesLent(p)) /\ Cardinality(LinesLent(p)) \in Nat /\ Cardinality(LinesOf(p)) \in Nat
  <2>1. LinesLent(p) \subseteq Lines /\ LinesOf(p) \subseteq Lines
    BY <1>1, <1>3 DEF LinesOf, Sound, IInv, LinesInv
  <2> QED
    BY <2>1, LinesFinite
<1>5. 1 .. i - 1 \subseteq 1 .. i /\ i \in 1 .. i /\ i \notin 1 .. i - 1
  BY <1>1, LinesAreASequence DEF Sound, IInv, LinesInv
<1> DEFINE new == [line |-> i, by |-> c.by, replaced |-> c.replaced]
<1>6. new.line = i /\ new.by = c.by /\ batch'.subs = batch.subs \cup {new}
  OBVIOUS
<1> HIDE DEF new
<1>7. CASE c.by = p
  <2>1. LinesLent(p)' = LinesLent(p) \cup {i}
    BY <1>6, <1>7 DEF LinesLent
  <2>2. c.kind = "substitute"
    BY <1>2, <1>7
  <2>3. batch'.daily[p] = batch.daily[p] + 1
    BY <1>1, <1>2, <1>7, <2>2 DEF Lent
  <2>4. Cardinality(LinesLent(p) \cup {i}) = Cardinality(LinesLent(p)) + 1
    BY <1>3, <1>4, <1>5, FS_AddElement
  <2>5. batch.daily[p] \in Nat /\ batch.daily[p] < inp.maxDaily
    BY <1>1, <1>2, <1>7, <2>2
  <2> QED
    BY <1>1, <1>3, <1>4, <1>5, <2>1, <2>3, <2>4, <2>5
<1>8. CASE c.by # p
  <2>1. LinesLent(p)' = LinesLent(p)
    BY <1>6, <1>8 DEF LinesLent
  <2>2. batch'.daily[p] = batch.daily[p]
    BY <1>1, <1>8 DEF Lent
  <2> QED
    BY <1>3, <1>5, <2>1, <2>2
<1> QED
  BY <1>7, <1>8

(* The name a candidate replaces had no credit, when it is noted. *)
LEMMA ReplacedIsSpent ==
  ASSUME Sound, Learnt, Queued, pc = "cascade", batch.cands # << >>, NEW c, c = Head(batch.cands),
         Accepted(c.pair)
  PROVE  \A p \in NoteReplaced(c) : p = c.replaced /\ credits[p] = 0
<1>0. Spent(c.pair) = {}
  BY CallKnows
<1> SUFFICES ASSUME NEW p \in NoteReplaced(c) PROVE p = c.replaced /\ credits[p] = 0
  OBVIOUS
<1>1. p = c.replaced /\ batch.error = "PLAYER_BOOKING_LIMIT_REACHED" /\ batch.holder = NoOne
  BY DEF NoteReplaced
<1>2. Spent(Pair) # {} /\ batch.cands \in Seq(Explanations)
  BY <1>1 DEF Queued, LimitExplained, Unexplained
<1>3. c \in Explanations
  BY <1>2, HeadTail
<1>4. c.replaced \in ToSet(Pair)
      /\ (ToSet(Pair) \subseteq Spent(Pair) \/ ToSet(Pair) \subseteq ToSet(c.pair) \cup {c.replaced})
  BY <1>3 DEF Explanations, Explains
<1>5. \A q \in ToSet(c.pair) : credits[q] # 0
  BY <1>0 DEF Spent
<1>6. c.replaced \in Spent(Pair)
  BY <1>2, <1>4, <1>5 DEF Spent
<1> QED
  BY <1>1, <1>6 DEF Spent

(* The club accepts the first name of the queue. *)
LEMMA AcceptedKnows ==
  ASSUME Sound, Learnt, Queued, pc = "cascade", i \in Lines, inp' = inp, i' = i + 1, pc' = "line",
         batch.cands # << >>, NEW c, c = Head(batch.cands), Accepted(c.pair),
         batch' = [batch EXCEPT
                !.subs = @ \cup {[line |-> i, by |-> c.by, replaced |-> c.replaced]},
                !.daily = Lent(@, c),
                !.exhausted = @ \cup NoteReplaced(c),
                !.cands = << >>, !.error = "none", !.holder = NoOne]
  PROVE  Learnt' /\ Queued'
<1>1. ZeroStays /\ Spent(c.pair) = {}
  BY CallKnows
<1>2. batch \in Batches /\ c \in WorthTrying /\ c \in Candidates /\ c.by \in Players /\ c.replaced \in Players
  <2>1. batch.cands \in Seq(WorthTrying)
    BY DEF Queued, TriedIsWorth
  <2>2. c \in WorthTrying
    BY <2>1, HeadTail
  <2>3. c \in Candidates
    BY <2>2 DEF WorthTrying
  <2> QED
    BY <2>2, <2>3 DEF Learnt, Candidates
<1>3. \A p \in NoteReplaced(c) : p = c.replaced /\ credits[p] = 0
  BY ReplacedIsSpent
<1>4. PICK s \in SUBSET Loan, d \in [Players -> Nat], e \in SUBSET Players :
        /\ s = batch.subs \cup {[line |-> i, by |-> c.by, replaced |-> c.replaced]}
        /\ d = Lent(batch.daily, c) /\ e = batch.exhausted \cup NoteReplaced(c)
  <2>1. [line |-> i, by |-> c.by, replaced |-> c.replaced] \in Loan
    BY <1>2 DEF Loan
  <2>2. batch.subs \in SUBSET Loan /\ batch.daily \in [Players -> Nat] /\ batch.exhausted \in SUBSET Players
    BY <1>2 DEF Batches
  <2>3. Lent(batch.daily, c) \in [Players -> Nat]
    BY <2>2, LoanCounts
  <2>4. batch.exhausted \cup NoteReplaced(c) \in SUBSET Players
    BY <1>2, <1>3, <2>2
  <2> QED
    BY <2>1, <2>2, <2>3, <2>4
<1>5. batch' = [batch EXCEPT !.subs = s, !.daily = d, !.exhausted = e,
                             !.cands = << >>, !.error = "none", !.holder = NoOne]
  BY <1>4
<1>6. /\ batch'.subs = s /\ batch'.daily = d /\ batch'.exhausted = e
      /\ batch'.suspect = batch.suspect /\ batch'.cands = << >>
  BY <1>2, <1>5 DEF Batches
<1>7. batch' \in Batches
  <2>1. << >> \in Seq(Candidates)
    BY EmptySeq
  <2> HIDE DEF Candidates, Loan
  <2> QED
    BY <1>2, <1>4, <1>5, <2>1 DEF Batches
<1>8. DayCounted'
  BY <1>2, <1>4, <1>6, LoanCounted
<1>9. Batches' = Batches /\ Players' = Players /\ Joker' = Joker
  BY TypesKept
<1>10. KnownIsSpent'
  <2>1. \A p \in batch'.exhausted \ {Joker} : credits[p] = 0 /\ p \in Players
    BY <1>3, <1>4, <1>6 DEF Learnt, KnownIsSpent
  <2> QED
    BY <1>1, <1>9, <2>1 DEF KnownIsSpent, ZeroStays
<1>11. SuspectOrJoker'
  <2> SUFFICES ASSUME batch'.suspect # NoOne
               PROVE  Joker \in Players /\ (credits'[Joker] = 0 \/ credits'[batch'.suspect] = 0)
    BY <1>9 DEF SuspectOrJoker
  <2>1. batch.suspect \in Players /\ Joker \in Players
        /\ (credits[Joker] = 0 \/ credits[batch.suspect] = 0)
    BY <1>2, <1>6 DEF Batches, Learnt, SuspectOrJoker
  <2> QED
    BY <1>1, <1>6, <2>1 DEF ZeroStays
<1> QED
  BY <1>6, <1>7, <1>8, <1>9, <1>10, <1>11, NothingQueuedNext DEF Learnt

LEMMA TryCandidateKnows ==
  ASSUME Sound, Learnt, Queued, TryCandidate
  PROVE  Learnt' /\ Queued'
<1>1. pc = "cascade" /\ i \in Lines /\ inp' = inp /\ batch.cands # << >>
  BY DEF TryCandidate, Sound, IInv, PlaceInv
<1>2. PICK c : c = Head(batch.cands)
  OBVIOUS
<1>3. \/ /\ Accepted(c.pair) /\ pc' = "line" /\ i' = i + 1
         /\ batch' = [batch EXCEPT
              !.subs = @ \cup {[line |-> i, by |-> c.by, replaced |-> c.replaced]},
              !.daily = Lent(@, c),
              !.exhausted = @ \cup NoteReplaced(c),
              !.cands = << >>, !.error = "none", !.holder = NoOne]
      \/ /\ (\E r : Refused(c.pair, r)) \/ Broken(c.pair)
         /\ batch' = [batch EXCEPT !.cands = Tail(@)]
         /\ UNCHANGED <<pc, i>>
  BY <1>2 DEF TryCandidate
<1> QED
  BY <1>1, <1>2, <1>3, AcceptedKnows, TriedInVainKnows

(* Steps that learn nothing and are not in the middle of a line. *)
LEMMA SilentKnows ==
  ASSUME Sound, Learnt, Queued, UNCHANGED <<inp, credits, i, batch>>,
         pc' = pc \/ (pc' \notin {"call", "cascade"} /\ (pc' # "failed" => pc \notin {"cascade", "failed"}))
  PROVE  Learnt' /\ Queued'
<1>1. ZeroStays /\ batch \in Batches
  BY DEF ZeroStays, Learnt
<1>2. Learnt'
  BY <1>1, LearntMore
<1>3. TriedIsWorth'
  <2>1. WorthTrying' = WorthTrying
    BY TypesKept DEF WorthTrying, Worth
  <2> QED
    BY <2>1 DEF Queued, TriedIsWorth
<1>4. CascadeOnly' /\ AskedIsNotKnown'
  BY DEF Queued, CascadeOnly, AskedIsNotKnown, Pair
<1>5. LimitExplained'
  <2>1. Explanations' = Explanations /\ Spent(Pair)' = Spent(Pair)
    BY TypesKept DEF Explanations, Explains, Spent, Pair
  <2> QED
    BY <2>1 DEF Queued, LimitExplained, Unexplained
<1> QED
  BY <1>2, <1>3, <1>4, <1>5 DEF Queued

(* An execution starts with nothing learnt. *)
Fresh == batch = NewBatch /\ i = 1 /\ pc = "go"

LEMMA FreshKnows == Sound /\ Fresh => Learnt /\ Queued
<1> SUFFICES ASSUME Sound, batch = NewBatch, i = 1, pc = "go" PROVE Learnt /\ Queued
  BY DEF Fresh
<1>1. /\ batch.daily = [p \in Players |-> Cardinality(LinesOf(p))] /\ batch.daily \in [Players -> Nat]
      /\ batch.subs = {} /\ batch.exhausted = {} /\ batch.suspect = NoOne /\ batch.cands = << >>
  BY NewBatchCounts DEF NewBatch, Players, Sound
<1>2. batch \in Batches
  <2>1. << >> \in Seq(Candidates)
    BY EmptySeq
  <2>2. batch = [daily |-> batch.daily, exhausted |-> {}, suspect |-> NoOne, subs |-> {}, failures |-> {},
                 cands |-> << >>, error |-> "none", holder |-> NoOne]
    BY DEF NewBatch
  <2>3. PICK d \in [Players -> Nat] : d = batch.daily
    BY <1>1
  <2>4. [daily |-> d, exhausted |-> {}, suspect |-> NoOne, subs |-> {}, failures |-> {},
         cands |-> << >>, error |-> "none", holder |-> NoOne] \in Batches
    <3> HIDE DEF Candidates, Loan
    <3> QED
      BY <2>1 DEF Batches
  <2> QED
    BY <2>2, <2>3, <2>4
<1>3. KnownIsSpent /\ SuspectOrJoker
  BY <1>1 DEF KnownIsSpent, SuspectOrJoker
<1>4. DayCounted
  <2> SUFFICES ASSUME NEW p \in Limited
               PROVE  /\ LinesLent(p) = {}
                      /\ batch.daily[p] = Cardinality(LinesOf(p)) + Cardinality({})
    BY DEF DayCounted
  <2>1. p \in Players /\ LinesOf(p) \subseteq Lines
    BY InputFacts DEF Limited, LinesOf
  <2>2. Cardinality(LinesOf(p)) \in Nat /\ Cardinality({}) = 0
    BY <2>1, LinesFinite, FS_EmptySet
  <2> QED
    BY <1>1, <2>1, <2>2 DEF LinesLent
<1>5. TriedIsWorth /\ CascadeOnly
  BY <1>1, NothingQueued
<1> QED
  BY <1>2, <1>3, <1>4, <1>5 DEF Learnt, Queued, AskedIsNotKnown, LimitExplained, Unexplained

LEMMA FreshKnowsNext == Sound' /\ Fresh' => Learnt' /\ Queued'
BY FreshKnows, PTL

(* Every step. *)
LEMMA NextKnows == Sound /\ Learnt /\ Queued /\ [Next]_vars => Learnt' /\ Queued'
<1> SUFFICES ASSUME Sound, Learnt, Queued, [Next]_vars PROVE Learnt' /\ Queued'
  OBVIOUS
<1>1. Sound'
  BY NextSound
<1>2. CASE UNCHANGED vars
  BY <1>2, SilentKnows DEF vars
<1>3. CASE Retry
  <2>1. NewBatch' = NewBatch
    BY <1>3 DEF Retry, NewBatch, LinesOf, Lines
  <2> QED
    BY <1>1, <1>3, <2>1, FreshKnowsNext DEF Retry, Fresh
<1>4. CASE Ends \/ Take
  <2>1. UNCHANGED <<inp, credits, i, batch>>
    BY <1>4 DEF Ends, Start, TotalFailure, LinesDone, Announce, AnnounceRefused, Report, Crash, Take
  <2>2. pc' = pc \/ (pc' \notin {"call", "cascade"} /\ (pc' # "failed" => pc \notin {"cascade", "failed"}))
    BY <1>4 DEF Ends, Start, TotalFailure, LinesDone, Announce, AnnounceRefused, Report, Crash, Take
  <2> QED
    BY <2>1, <2>2, SilentKnows
<1> QED
  BY <1>2, <1>3, <1>4, NextLineKnows, BookedKnows, ReplaceKnows, GiveUpKnows, TryCandidateKnows,
     CascadeFailsKnows DEF Next, Ends

(* What is learnt is true and used. *)
LEMMA LearntEnough == Sound /\ Learnt /\ Queued => NamesSound
<1> SUFFICES ASSUME Sound, Learnt, Queued PROVE NamesSound
  OBVIOUS
<1>1. ExhaustedIsTrue
  BY DEF Learnt, Batches, KnownIsSpent, Joker, ExhaustedIsTrue
<1>2. NeverInVain
  <2>1. \A k \in DOMAIN batch.cands : batch.cands[k] \in WorthTrying
    BY LenProperties, ElementOfSeq DEF Queued, TriedIsWorth
  <2> QED
    BY <2>1 DEF WorthTrying, Worth, NeverInVain
<1>3. VolunteersCapped
  <2> SUFFICES ASSUME NEW p \in Limited, Cardinality(LinesLent(p)) > 0,
                      NEW planned, planned = {l \in LinesOf(p) \cap Ours : p \in ToSet(club[l].pair)}
               PROVE  Cardinality(LinesLent(p) \cup planned) <= inp.maxDaily
    BY DEF VolunteersCapped, Limited, Volunteers, Joker, LinesLent
  <2>1. /\ LinesLent(p) \subseteq 1 .. i - 1
        /\ batch.daily[p] = Cardinality(LinesOf(p)) + Cardinality(LinesLent(p))
        /\ LinesLent(p) # {} => batch.daily[p] <= inp.maxDaily
    BY DEF Learnt, DayCounted
  <2>2. LinesLent(p) # {} /\ planned \subseteq LinesOf(p)
    BY FS_EmptySet
  <2>3. LinesLent(p) \subseteq Lines /\ LinesOf(p) \subseteq Lines
    BY <2>1 DEF LinesOf, Sound, IInv, LinesInv
  <2>4. PICK s \in SUBSET Lines : s = LinesLent(p)
    BY <2>3
  <2>5. PICK q \in SUBSET Lines : q = LinesOf(p) /\ planned \subseteq q
    BY <2>2, <2>3
  <2>6. /\ IsFiniteSet(s) /\ IsFiniteSet(q) /\ IsFiniteSet(planned)
        /\ Cardinality(s) \in Nat /\ Cardinality(q) \in Nat /\ Cardinality(planned) \in Nat
        /\ Cardinality(s \cap planned) \in Nat
    <3>1. planned \in SUBSET Lines /\ s \cap planned \in SUBSET Lines
      BY <2>5
    <3> QED
      BY <2>4, <2>5, <3>1, LinesFinite
  <2>7. Cardinality(planned) <= Cardinality(q)
    BY <2>5, <2>6, FS_Subset
  <2>8. Cardinality(s \cup planned) = Cardinality(s) + Cardinality(planned) - Cardinality(s \cap planned)
    BY <2>6, FS_Union
  <2>9. Cardinality(s \cup planned) <= Cardinality(q) + Cardinality(s)
    BY <2>6, <2>7, <2>8
  <2>10. Cardinality(q) + Cardinality(s) <= inp.maxDaily
    BY <2>1, <2>2, <2>4, <2>5
  <2>11. Cardinality(s \cup planned) \in Int /\ Cardinality(q) + Cardinality(s) \in Int /\ inp.maxDaily \in Int
    BY <2>6, <2>8, InputFacts
  <2> QED
    BY <2>4, <2>9, <2>10, <2>11
<1> QED
  BY <1>1, <1>2, <1>3 DEF NamesSound

(* A player held to have no credit left has none, the cascade never names him, and no
   volunteer but the joker exceeds the daily limit of the rule by the first names he lends,
   the lines of the plan included (announce.ts, jokerSubstitution.ts): NamesSound of the run,
   for any plan, volunteers, credits, club, number of mishaps and of retries. *)
THEOREM NamesLearntAreTrue == Spec => []NamesSound
<1>1. Init => Sound /\ Learnt /\ Queued
  <2>1. Init => Sound
    BY InitSound
  <2>2. Init => Fresh
    BY DEF Init, Fresh
  <2> QED
    BY <2>1, <2>2, FreshKnows
<1>2. Sound /\ Learnt /\ Queued /\ [Next]_vars => Sound' /\ Learnt' /\ Queued'
  BY NextSound, NextKnows
<1>3. Sound /\ Learnt /\ Queued => NamesSound
  BY LearntEnough
<1> QED
  BY <1>1, <1>2, <1>3, PTL DEF Spec

-----------------------------------------------------------------------------
(* No rescue is missed.                                                       *)

(* Who could carry a line for the club, and a volunteer whose day is not full. *)
Able(p) == credits[p] > 0 /\ p \notin inp.unregistered
NobodyLeft == \A p \in Limited : Able(p) => batch.daily[p] >= inp.maxDaily

(* As long as nothing technical has failed, the lines to come and those refused are free,
   and an execution that fails has had all its lines refused. *)
StillFree ==
  /\ \A l \in Lines : l >= i \/ l \in batch.failures => club[l].by = "nobody"
  /\ pc = "failed" => AllRefused

(* The joker is held to have no credit wrongly only once no volunteer is left. *)
JokerWronged == Joker \in batch.exhausted /\ Able(Joker) => NobodyLeft

(* A line that could be rescued has a name in the queue that the club accepts. *)
Accepts == \E c \in ToSet(batch.cands) : Refusals(c.pair) = {}
RescueQueued == pc = "cascade" /\ CouldBeRescued => Accepts

Unharmed == mishaps = 0 => StillFree /\ JokerWronged /\ RescueQueued

(* A line names two players. *)
LEMMA TwoNames ==
  ASSUME Sound, i \in Lines
  PROVE  Pair[1] # Pair[2]
BY NamesArePlayers DEF Sound, Counted, Lines, Pair

(* The one name of the line that is wrong. *)
LEMMA OneWrong ==
  ASSUME Sound, i \in Lines, Cardinality(Unable(Pair) \cup Spent(Pair)) = 1
  PROVE  \E q \in ToSet(Pair) : Unable(Pair) \cup Spent(Pair) = {q}
<1>1. ToSet(Pair) = {Pair[1]} \cup {Pair[2]}
  BY InputFacts
<1>2. IsFiniteSet(ToSet(Pair))
  <2>1. IsFiniteSet({Pair[1]})
    BY FS_Singleton
  <2>2. IsFiniteSet({Pair[1]} \cup {Pair[2]})
    BY <2>1, FS_AddElement
  <2> QED
    BY <1>1, <2>2
<1>3. Unable(Pair) \cup Spent(Pair) \in SUBSET ToSet(Pair)
  BY DEF Unable, Spent
<1>4. IsFiniteSet(Unable(Pair) \cup Spent(Pair))
  BY <1>2, <1>3, FS_Subset
<1>5. PICK q : Unable(Pair) \cup Spent(Pair) = {q}
  BY <1>4, FS_Singleton
<1> QED
  BY <1>3, <1>5

(* Who rescues the line is in the hands of the node, and no name of the line is held wrongly
   to have no credit. *)
LEMMA Rescuer ==
  ASSUME Sound, Learnt, JokerWronged, i \in Lines, CouldBeRescued
  PROVE  /\ ToSet(Pair) \cap batch.exhausted \subseteq Unable(Pair) \cup Spent(Pair)
         /\ \E p \in Players : CanCarry(p) /\ (p = UsableJoker \/ p \in ToSet(Available))
<1>1. /\ inp.volunteers \in Seq(Players) /\ Volunteers \subseteq Players /\ inp.maxDaily \in Nat
      /\ Joker \in Players \cup {NoOne} /\ ToSet(Pair) \subseteq Players
      /\ credits \in [Players -> Nat] /\ batch.daily \in [Players -> Nat]
  BY InputFacts DEF Sound, Counted
<1>2. \/ CanCarry(UsableJoker)
      \/ \E p \in Limited : CanCarry(p) /\ batch.daily[p] < inp.maxDaily
  BY DEF CouldBeRescued, Limited, Volunteers, Joker, ToSet
<1>3. ASSUME NEW x \in ToSet(Pair) \cap batch.exhausted, x \notin Unable(Pair) \cup Spent(Pair) PROVE FALSE
  <2>1. Able(x) /\ credits[x] # 0
    BY <1>1, <1>3 DEF Unable, Spent, Able
  <2>2. x = Joker
    BY <2>1 DEF Learnt, KnownIsSpent
  <2>3. NobodyLeft /\ UsableJoker = NoOne
    BY <2>1, <2>2 DEF JokerWronged, UsableJoker, Joker
  <2>4. PICK p \in Limited : CanCarry(p) /\ batch.daily[p] < inp.maxDaily
    BY <1>2, <2>3 DEF CanCarry
  <2>5. Able(p) /\ batch.daily[p] \in Nat
    BY <1>1, <2>4 DEF CanCarry, Able, Limited
  <2>6. batch.daily[p] >= inp.maxDaily
    BY <2>3, <2>5 DEF NobodyLeft
  <2> QED
    BY <1>1, <2>4, <2>5, <2>6
<1>4. CASE CanCarry(UsableJoker)
  <2>1. UsableJoker # NoOne /\ UsableJoker \in Players \cup {NoOne}
    BY <1>1, <1>4 DEF CanCarry, UsableJoker, Joker
  <2> QED
    BY <1>3, <1>4, <2>1
<1>5. CASE \E p \in Limited : CanCarry(p) /\ batch.daily[p] < inp.maxDaily
  <2>1. PICK p \in Limited : CanCarry(p) /\ batch.daily[p] < inp.maxDaily
    BY <1>5
  <2>2. p \in Volunteers /\ p # Joker /\ p \in Players /\ batch.daily[p] \in Nat
    BY <1>1 DEF Limited
  <2>3. p \notin AtLimit
    BY <1>1, <2>1, <2>2 DEF AtLimit
  <2>4. p \notin batch.exhausted
    BY <1>1, <2>1, <2>2 DEF Learnt, KnownIsSpent, CanCarry
  <2>5. Volunteers \ (AtLimit \cup batch.exhausted) \subseteq ToSet(Available)
    BY <1>1, ExcludingType DEF Available, Volunteers
  <2> QED
    BY <1>3, <2>1, <2>2, <2>3, <2>4, <2>5
<1> QED
  BY <1>2, <1>4, <1>5

(* The club accepts the line when the one name that is wrong gives way. *)
LEMMA GoodName ==
  ASSUME Sound, i \in Lines, NEW q \in ToSet(Pair), Unable(Pair) \cup Spent(Pair) = {q},
         NEW p \in Players, CanCarry(p), club[i].by = "nobody", NEW c, Takes(c, Pair, q, p)
  PROVE  Refusals(c.pair) = {}
<1>1. credits \in [Players -> Nat]
  BY DEF Sound, Counted
<1>2. credits[p] # 0 /\ p \notin inp.unregistered
  BY <1>1 DEF CanCarry
<1>3. ASSUME NEW x \in ToSet(c.pair) PROVE credits[x] # 0 /\ x \notin inp.unregistered
  <2>1. x = p \/ (x \in ToSet(Pair) /\ x \notin Unable(Pair) /\ x \notin Spent(Pair))
    BY DEF Takes
  <2> QED
    BY <1>2, <2>1 DEF Unable, Spent
<1>4. Unable(c.pair) = {} /\ Spent(c.pair) = {}
  BY <1>3 DEF Unable, Spent
<1> QED
  BY <1>4 DEF Refusals

(* Whoever is blamed among the names that are wrong, the queue has such a name. *)
LEMMA RescueProposed ==
  ASSUME Sound, Learnt, JokerWronged, i \in Lines, CouldBeRescued,
         NEW blamed \in SUBSET (Unable(Pair) \cup Spent(Pair))
  PROVE  \E c \in ToSet(BookingSubstitutionCandidates(Pair, UsableJoker, blamed, Available)) :
           Refusals(c.pair) = {}
<1>1. PICK q \in ToSet(Pair) : Unable(Pair) \cup Spent(Pair) = {q}
  BY OneWrong DEF CouldBeRescued
<1>2. PICK p \in Players : CanCarry(p) /\ (p = UsableJoker \/ p \in ToSet(Available))
  BY Rescuer
<1>3. /\ Pair \in Players \X Players /\ Pair[1] # Pair[2] /\ NoOne \notin Players
      /\ UsableJoker \in Players \cup {NoOne} /\ p \notin ToSet(Pair)
  BY <1>2, InputFacts, TwoNames DEF UsableJoker, Joker, CanCarry
<1>4. Available \in Seq(FreeNow) /\ FreeNow \in SUBSET Players
  BY AvailableType
<1>5. blamed \in {{}, {q}}
  BY <1>1
<1>6. PICK c \in ToSet(BookingSubstitutionCandidates(Pair, UsableJoker, blamed, Available)) :
        Takes(c, Pair, q, p)
  BY <1>2, <1>3, <1>4, <1>5, CandidatesHave
<1> QED
  BY <1>1, <1>2, <1>6, GoodName DEF CouldBeRescued

(* Nothing technical has failed before a step either, and it does not in it. *)
NoMishap == \A kind : ~Mishap(kind)

LEMMA Calm ==
  ASSUME Sound, [Next]_vars, mishaps' = 0
  PROVE  mishaps = 0 /\ NoMishap
<1>1. mishaps \in Nat
  BY DEF Sound, Counted
<1>2. NoMishap
  BY <1>1 DEF NoMishap, Mishap
<1>3. mishaps' = mishaps
  <2>1. CASE UNCHANGED vars
    BY <2>1 DEF vars
  <2>2. CASE Ends \/ Take \/ Retry
    BY <1>2, <2>2 DEF Ends, Start, TotalFailure, LinesDone, Announce, AnnounceRefused, Report,
       Crash, Retry, Take, NoMishap
  <2>3. CASE NextLine \/ Booked \/ Replace \/ GiveUp \/ CascadeFails
    BY <1>2, <2>3 DEF NextLine, Booked, Replace, GiveUp, CascadeFails, Accepted, Refused, Broken, NoMishap
  <2>4. CASE TryCandidate
    BY <1>2, <2>4 DEF TryCandidate, Accepted, Refused, Broken, NoMishap
  <2> QED
    BY <2>1, <2>2, <2>3, <2>4 DEF Next, Ends
<1> QED
  BY <1>2, <1>3

(* A line that could be rescued is so before the node has learnt more. *)
LEMMA RescueSeen ==
  ASSUME UNCHANGED <<inp, club, credits, i>>, batch'.daily = batch.daily,
         batch.exhausted \subseteq batch'.exhausted, CouldBeRescued'
  PROVE  CouldBeRescued
<1>1. /\ Pair' = Pair /\ Unable(Pair)' = Unable(Pair) /\ Spent(Pair)' = Spent(Pair)
      /\ \A p : CanCarry(p)' = CanCarry(p)
  BY DEF Pair, Unable, Spent, CanCarry
<1>2. CanCarry(UsableJoker)' => CanCarry(UsableJoker)
  BY DEF Pair, UsableJoker, CanCarry
<1> QED
  BY <1>1, <1>2 DEF CouldBeRescued

(* The joker stays held rightly, or for want of a volunteer, when credits and days only
   get used up. *)
LEMMA StaysWronged ==
  ASSUME Sound, Learnt, JokerWronged, inp' = inp, ZeroStays, batch' \in Batches,
         \A p \in Players : batch'.daily[p] >= batch.daily[p],
         Joker \in batch'.exhausted \ batch.exhausted => credits[Joker] = 0 \/ ~Able(Joker) \/ NobodyLeft
  PROVE  JokerWronged'
<1>1. Limited' = Limited /\ Limited \subseteq Players /\ Joker' = Joker /\ Players' = Players /\ inp.maxDaily \in Nat
  BY InputFacts DEF Limited, Volunteers, Joker, Players
<1>2. credits \in [Players -> Nat] /\ batch.daily \in [Players -> Nat] /\ batch'.daily \in [Players -> Nat]
  BY DEF Sound, Counted, Batches
<1>3. ASSUME NEW p \in Players, Able(p)' PROVE Able(p)
  <2>1. credits[p] # 0 /\ credits[p] \in Nat /\ p \notin inp.unregistered
    BY <1>2, <1>3 DEF Able, ZeroStays
  <2> QED
    BY <2>1 DEF Able
<1> SUFFICES ASSUME Joker \in batch'.exhausted, Able(Joker)', NEW p \in Limited, Able(p)'
             PROVE  batch'.daily[p] >= inp.maxDaily
  BY <1>1 DEF JokerWronged, NobodyLeft
<1>4. Joker \in Players
  BY DEF Batches
<1>5. Able(Joker) /\ Able(p)
  BY <1>1, <1>3, <1>4
<1>6. NobodyLeft
  BY <1>5 DEF JokerWronged, Able
<1>7. batch.daily[p] >= inp.maxDaily /\ batch'.daily[p] >= batch.daily[p]
      /\ batch.daily[p] \in Nat /\ batch'.daily[p] \in Nat
  BY <1>1, <1>2, <1>5, <1>6 DEF NobodyLeft
<1> QED
  BY <1>1, <1>7

(* The next line is free, and so are those refused, when the others have not changed. *)
LEMMA StaysFree ==
  ASSUME Sound, StillFree, i \in Lines, inp' = inp, pc' = "line", i' = i + 1,
         \A l \in Lines \ {i} : club'[l] = club[l],
         batch'.failures \subseteq batch.failures \cup {i},
         i \in batch'.failures => club' = club
  PROVE  StillFree'
<1>1. i \in Nat /\ Lines \subseteq Nat /\ Lines' = Lines /\ i \notin batch.failures
  <2>1. i \in Nat /\ Lines \subseteq Nat /\ i \notin batch.failures
    BY DEF Sound, IInv, LinesInv
  <2> QED
    BY <2>1 DEF Lines
<1> SUFFICES ASSUME NEW l \in Lines, l >= i + 1 \/ l \in batch'.failures
             PROVE  club'[l].by = "nobody"
  BY <1>1 DEF StillFree
<1>2. l >= i \/ l \in batch.failures
  <2>1. l \in Nat /\ (l >= i + 1 => l >= i) /\ (l = i => l >= i)
    BY <1>1
  <2>2. l \in batch'.failures => l = i \/ l \in batch.failures
    OBVIOUS
  <2> QED
    BY <2>1, <2>2
<1>3. club[l].by = "nobody"
  BY <1>2 DEF StillFree
<1>4. CASE l = i
  <2>1. i \in batch'.failures
    BY <1>1, <1>4
  <2> QED
    BY <1>3, <2>1
<1>5. CASE l # i
  BY <1>3, <1>5
<1> QED
  BY <1>4, <1>5

(* Where nothing has changed but the place. *)
LEMMA FreeKept ==
  ASSUME StillFree, UNCHANGED <<inp, club, i>>, batch'.failures = batch.failures,
         pc' = "failed" => pc = "failed" \/ AllRefused
  PROVE  StillFree'
BY DEF StillFree, AllRefused, Lines

LEMMA NextLineRescues ==
  ASSUME Sound, Learnt, Queued, StillFree, JokerWronged, NextLine
  PROVE  StillFree' /\ JokerWronged' /\ RescueQueued'
<1> DEFINE known == ToSet(Pair) \cap batch.exhausted
<1>1. /\ i \in Lines /\ UNCHANGED <<inp, club, credits, i>> /\ batch \in Batches /\ Learnt'
      /\ pc' \in {"call", "cascade"} /\ ZeroStays
  BY NextLineKnows DEF NextLine, Sound, IInv, LinesInv, Learnt, ZeroStays
<1>2. /\ batch'.daily = batch.daily /\ batch'.exhausted = batch.exhausted /\ batch'.failures = batch.failures
      /\ pc' = "cascade" =>
           batch'.cands = BookingSubstitutionCandidates(Pair, UsableJoker, known, Available)
  <2>1. CASE known = {}
    BY <2>1 DEF NextLine
  <2>2. CASE known # {}
    <3>1. pc' = "cascade" /\ batch' = [batch EXCEPT !.error = "known",
            !.cands = BookingSubstitutionCandidates(Pair, UsableJoker, known, Available)]
      BY <2>2 DEF NextLine
    <3> HIDE DEF known
    <3> QED
      BY <1>1, <3>1 DEF Batches
  <2> QED
    BY <2>1, <2>2
<1>3. batch' \in Batches
  BY <1>1, TypesKept DEF Learnt
<1>4. StillFree'
  BY <1>1, <1>2, FreeKept
<1>5. \A p \in Players : batch'.daily[p] >= batch.daily[p]
  BY <1>1, <1>2 DEF Batches
<1>6. JokerWronged'
  BY <1>1, <1>2, <1>3, <1>5, StaysWronged
<1>7. RescueQueued'
  <2> SUFFICES ASSUME pc' = "cascade", CouldBeRescued' PROVE Accepts'
    BY DEF RescueQueued
  <2>1. CouldBeRescued
    BY <1>1, <1>2, RescueSeen
  <2>2. known \in SUBSET (Unable(Pair) \cup Spent(Pair))
    BY <1>1, <2>1, Rescuer
  <2>3. PICK c \in ToSet(batch'.cands) : Refusals(c.pair) = {}
    BY <1>1, <1>2, <2>1, <2>2, RescueProposed
  <2>4. Refusals(c.pair)' = Refusals(c.pair)
    BY <1>1 DEF Refusals, Unable, Spent
  <2> QED
    BY <2>3, <2>4 DEF Accepts
<1> QED
  BY <1>4, <1>6, <1>7

LEMMA ReplaceRescues ==
  ASSUME Sound, Learnt, Queued, StillFree, JokerWronged, Replace
  PROVE  StillFree' /\ JokerWronged' /\ RescueQueued'
<1>1. /\ pc' = "cascade" /\ i \in Lines /\ UNCHANGED <<inp, i>> /\ batch \in Batches /\ Learnt'
  BY ReplaceKnows DEF Replace, Sound, IInv, PlaceInv, Learnt
<1>2. PICK r \in Refusals(Pair) :
        /\ Refused(Pair, r) /\ r.reason \in SubstitutableReasons
        /\ batch' = [batch EXCEPT
             !.error = r.reason, !.holder = Holder(r),
             !.exhausted = @ \cup NoteHolder(r),
             !.cands = BookingSubstitutionCandidates(Pair, UsableJoker, r.blamed, Available)]
  BY DEF Replace
<1>3. ZeroStays /\ credits' = credits /\ club' = club
  BY <1>2, CallKnows DEF Refused
<1>4. /\ batch'.daily = batch.daily /\ batch'.exhausted = batch.exhausted \cup NoteHolder(r)
      /\ batch'.failures = batch.failures
      /\ batch'.cands = BookingSubstitutionCandidates(Pair, UsableJoker, r.blamed, Available)
  BY <1>1, <1>2 DEF Batches
<1>5. \A p \in NoteHolder(r) : credits[p] = 0
  BY <1>1, <1>2, HolderFacts
<1>6. r.blamed \in SUBSET (Unable(Pair) \cup Spent(Pair))
  BY <1>2 DEF Refusals, Blamed, Quoted
<1>7. batch' \in Batches
  BY <1>1, TypesKept DEF Learnt
<1>8. StillFree'
  BY <1>1, <1>3, <1>4, FreeKept
<1>9. JokerWronged'
  <2>1. \A p \in Players : batch'.daily[p] >= batch.daily[p]
    BY <1>1, <1>4 DEF Batches
  <2>2. Joker \in batch'.exhausted \ batch.exhausted => credits[Joker] = 0
    BY <1>4, <1>5
  <2> QED
    BY <1>1, <1>3, <1>7, <2>1, <2>2, StaysWronged
<1>10. RescueQueued'
  <2> SUFFICES ASSUME CouldBeRescued' PROVE Accepts'
    BY DEF RescueQueued
  <2>1. CouldBeRescued
    BY <1>1, <1>3, <1>4, RescueSeen
  <2>2. PICK c \in ToSet(batch'.cands) : Refusals(c.pair) = {}
    BY <1>1, <1>4, <1>6, <2>1, RescueProposed
  <2>3. Refusals(c.pair)' = Refusals(c.pair)
    BY <1>1, <1>3 DEF Refusals, Unable, Spent
  <2> QED
    BY <2>2, <2>3 DEF Accepts
<1> QED
  BY <1>8, <1>9, <1>10

(* A line that is booked leaves the others as they are. *)
LEMMA ReservesOne ==
  ASSUME Sound, i \in Lines, NEW pair, Reserves(pair)
  PROVE  \A l \in Lines \ {i} : club'[l] = club[l]
BY DEF Reserves, Sound, IInv, LinesInv

LEMMA BookedRescues ==
  ASSUME Sound, Learnt, Queued, StillFree, JokerWronged, Booked
  PROVE  StillFree' /\ JokerWronged' /\ RescueQueued'
<1>1. /\ pc = "call" /\ i \in Lines /\ inp' = inp /\ i' = i + 1 /\ pc' = "line" /\ Accepted(Pair)
      /\ batch \in Batches /\ batch' = ClearJokerSuspicion(batch) /\ Learnt'
  BY BookedKnows DEF Booked, Sound, IInv, PlaceInv, Learnt
<1>2. ZeroStays /\ Spent(Pair) = {} /\ Reserves(Pair)
  BY <1>1, CallKnows DEF Accepted
<1>3. /\ batch'.daily = batch.daily /\ batch'.failures = batch.failures
      /\ Joker \in batch'.exhausted \ batch.exhausted => batch.suspect = Joker /\ Joker \in ToSet(Pair)
                                                          /\ batch.suspect # NoOne
  BY <1>1 DEF ClearJokerSuspicion, Batches, Joker
<1>4. batch' \in Batches
  BY <1>1, TypesKept DEF Learnt
<1>5. StillFree'
  <2>1. \A l \in Lines \ {i} : club'[l] = club[l]
    BY <1>1, <1>2, ReservesOne
  <2>2. i \notin batch.failures
    BY DEF Sound, IInv, LinesInv
  <2> QED
    BY <1>1, <1>3, <2>1, <2>2, StaysFree
<1>6. JokerWronged'
  <2>1. \A p \in Players : batch'.daily[p] >= batch.daily[p]
    BY <1>1, <1>3 DEF Batches
  <2>2. Joker \in batch'.exhausted \ batch.exhausted => credits[Joker] = 0
    BY <1>3 DEF Learnt, SuspectOrJoker
  <2> QED
    BY <1>1, <1>2, <1>4, <2>1, <2>2, StaysWronged
<1> QED
  BY <1>1, <1>5, <1>6 DEF RescueQueued

(* The club refuses a free line for its names only: it is not given up without a name tried. *)
LEMMA NotGivenUp ==
  ASSUME Sound, StillFree, NoMishap, GiveUp
  PROVE  FALSE
<1>1. i \in Lines /\ i \in Nat
  BY DEF GiveUp, Sound, IInv, PlaceInv, LinesInv
<1>2. club[i].by = "nobody"
  BY <1>1 DEF StillFree
<1>3. [reason |-> "SLOT_ALREADY_BOOKED", blamed |-> {}] \in Refusals(Pair)
  BY DEF GiveUp, Broken, NoMishap, Refused
<1> QED
  BY <1>2, <1>3 DEF Refusals

(* The club accepts a name: it is one more line of his day, at most. *)
LEMMA AcceptedRescues ==
  ASSUME Sound, Learnt, Queued, StillFree, JokerWronged, pc = "cascade", i \in Lines, inp' = inp,
         i' = i + 1, pc' = "line", batch.cands # << >>, NEW c, c = Head(batch.cands), Accepted(c.pair),
         batch' = [batch EXCEPT
                !.subs = @ \cup {[line |-> i, by |-> c.by, replaced |-> c.replaced]},
                !.daily = Lent(@, c),
                !.exhausted = @ \cup NoteReplaced(c),
                !.cands = << >>, !.error = "none", !.holder = NoOne]
  PROVE  StillFree' /\ JokerWronged' /\ RescueQueued'
<1>1. batch \in Batches /\ Learnt'
  BY AcceptedKnows DEF Learnt
<1>2. ZeroStays /\ Reserves(c.pair)
  BY CallKnows DEF Accepted
<1>3. /\ batch'.daily = Lent(batch.daily, c) /\ batch'.failures = batch.failures
      /\ batch'.exhausted = batch.exhausted \cup NoteReplaced(c)
  <2>1. PICK s, d, e : /\ s = batch.subs \cup {[line |-> i, by |-> c.by, replaced |-> c.replaced]}
                       /\ d = Lent(batch.daily, c) /\ e = batch.exhausted \cup NoteReplaced(c)
    OBVIOUS
  <2>2. batch' = [batch EXCEPT !.subs = s, !.daily = d, !.exhausted = e,
                             !.cands = << >>, !.error = "none", !.holder = NoOne]
    BY <2>1
  <2> QED
    BY <1>1, <2>1, <2>2 DEF Batches
<1>4. batch' \in Batches
  BY <1>1, TypesKept DEF Learnt
<1>5. StillFree'
  <2>1. \A l \in Lines \ {i} : club'[l] = club[l]
    BY <1>2, ReservesOne
  <2>2. i \notin batch.failures
    BY DEF Sound, IInv, LinesInv
  <2> QED
    BY <1>3, <2>1, <2>2, StaysFree
<1>6. JokerWronged'
  <2>1. batch.daily \in [Players -> Nat]
    BY <1>1 DEF Batches
  <2>2. \A p \in Players : batch'.daily[p] >= batch.daily[p]
    BY <1>3, <2>1 DEF Lent
  <2>3. Joker \in batch'.exhausted \ batch.exhausted => credits[Joker] = 0
    BY <1>3, ReplacedIsSpent
  <2> QED
    BY <1>2, <1>4, <2>2, <2>3, StaysWronged
<1> QED
  BY <1>5, <1>6 DEF RescueQueued

(* A name is tried in vain: the one that can rescue the line comes later. *)
LEMMA InVainRescues ==
  ASSUME Sound, Learnt, Queued, StillFree, JokerWronged, RescueQueued, NoMishap, pc = "cascade",
         i \in Lines, UNCHANGED <<inp, pc, i>>, batch.cands # << >>, NEW c, c = Head(batch.cands),
         (\E r \in Refusals(c.pair) : Refused(c.pair, r)) \/ Broken(c.pair),
         batch' = [batch EXCEPT !.cands = Tail(@)]
  PROVE  StillFree' /\ JokerWronged' /\ RescueQueued'
<1>1. /\ batch \in Batches /\ Learnt' /\ Refusals(c.pair) # {} /\ UNCHANGED <<club, credits>>
  BY TriedInVainKnows DEF Learnt, Broken, NoMishap, Refused
<1>2. PICK t : t = Tail(batch.cands)
  OBVIOUS
<1>3. batch' = [batch EXCEPT !.cands = t]
  BY <1>2
<1>4. /\ batch'.daily = batch.daily /\ batch'.exhausted = batch.exhausted
      /\ batch'.failures = batch.failures /\ batch'.cands = t
  BY <1>1, <1>3 DEF Batches
<1>5. batch' \in Batches /\ ZeroStays
  BY <1>1, TypesKept DEF Learnt, ZeroStays
<1>6. StillFree'
  BY <1>1, <1>4, FreeKept
<1>7. JokerWronged'
  <2>1. \A p \in Players : batch'.daily[p] >= batch.daily[p]
    BY <1>1, <1>4 DEF Batches
  <2> QED
    BY <1>4, <1>5, <2>1, StaysWronged
<1>8. RescueQueued'
  <2> SUFFICES ASSUME CouldBeRescued' PROVE Accepts'
    BY DEF RescueQueued
  <2>1. CouldBeRescued
    BY <1>1, <1>4, RescueSeen
  <2>2. PICK d \in ToSet(batch.cands) : Refusals(d.pair) = {}
    BY <2>1 DEF RescueQueued, Accepts
  <2>3. d \in ToSet(t)
    <3>1. PICK s \in Seq(Candidates) : s = batch.cands
      BY <1>1 DEF Batches
    <3>2. PICK n \in Nat : n = Len(s) /\ DOMAIN s = 1 .. n
      BY LenProperties
    <3>3. /\ t \in Seq(Candidates) /\ Len(t) = n - 1 /\ \A k \in 1 .. n - 1 : t[k] = s[k + 1]
      BY <1>2, <3>1, <3>2, HeadTailProperties
    <3>4. DOMAIN t = 1 .. n - 1
      BY <3>3, LenProperties
    <3>5. PICK k \in 1 .. n : s[k] = d
      BY <2>2, <3>1, <3>2 DEF ToSet
    <3>6. k # 1
      <4>1. c = s[1]
        BY <3>1
      <4> QED
        BY <1>1, <2>2, <3>5, <4>1
    <3>7. k - 1 \in 1 .. n - 1 /\ (k - 1) + 1 = k
      BY <3>2, <3>5, <3>6
    <3>8. t[k - 1] = d
      BY <3>3, <3>5, <3>7
    <3> QED
      BY <3>4, <3>7, <3>8 DEF ToSet
  <2>4. Refusals(d.pair)' = Refusals(d.pair)
    BY <1>1 DEF Refusals, Unable, Spent
  <2> QED
    BY <1>4, <2>2, <2>3, <2>4 DEF Accepts
<1> QED
  BY <1>6, <1>7, <1>8

LEMMA TryCandidateRescues ==
  ASSUME Sound, Learnt, Queued, StillFree, JokerWronged, RescueQueued, NoMishap, TryCandidate
  PROVE  StillFree' /\ JokerWronged' /\ RescueQueued'
<1>1. pc = "cascade" /\ i \in Lines /\ inp' = inp /\ batch.cands # << >>
  BY DEF TryCandidate, Sound, IInv, PlaceInv
<1>2. PICK c : c = Head(batch.cands)
  OBVIOUS
<1>3. \/ /\ Accepted(c.pair) /\ pc' = "line" /\ i' = i + 1
         /\ batch' = [batch EXCEPT
              !.subs = @ \cup {[line |-> i, by |-> c.by, replaced |-> c.replaced]},
              !.daily = Lent(@, c),
              !.exhausted = @ \cup NoteReplaced(c),
              !.cands = << >>, !.error = "none", !.holder = NoOne]
      \/ /\ (\E r \in Refusals(c.pair) : Refused(c.pair, r)) \/ Broken(c.pair)
         /\ batch' = [batch EXCEPT !.cands = Tail(@)]
         /\ UNCHANGED <<pc, i>>
  BY <1>2 DEF TryCandidate
<1> QED
  BY <1>1, <1>2, <1>3, AcceptedRescues, InVainRescues

(* No name could carry the line, and if it could be rescued there would be one: the joker
   of the line, held to have no credit from now on, is held so rightly or there is no
   volunteer either. *)
LEMMA JokerRightlyHeld ==
  ASSUME Sound, Learnt, Queued, StillFree, i \in Lines, ~CouldBeRescued,
         pc = "cascade", Joker \in ToSet(Pair), Able(Joker),
         batch.error = "PLAYER_BOOKING_LIMIT_REACHED", batch.holder = NoOne
  PROVE  NobodyLeft
<1>1. /\ Volunteers \subseteq Players /\ NoOne \notin Players /\ inp.maxDaily \in Nat
      /\ credits \in [Players -> Nat] /\ batch.daily \in [Players -> Nat] /\ ToSet(Pair) \subseteq Players
  BY InputFacts DEF Sound, Counted
<1>2. PICK x : ToSet(Pair) = {Joker, x}
  BY OtherFacts
<1>3. Spent(Pair) # {}
  BY DEF Queued, LimitExplained, Unexplained
<1>4. Unable(Pair) \cup Spent(Pair) = {x} /\ credits[x] = 0
  BY <1>1, <1>2, <1>3 DEF Unable, Spent, Able
<1>5. Cardinality(Unable(Pair) \cup Spent(Pair)) = 1
  BY <1>4, FS_Singleton
<1>6. club[i].by = "nobody"
  BY DEF StillFree, Sound, IInv, LinesInv
<1> SUFFICES ASSUME NEW p \in Limited, Able(p), ~(batch.daily[p] >= inp.maxDaily) PROVE FALSE
  BY DEF NobodyLeft
<1>7. p \in Volunteers /\ p # Joker /\ p \in Players /\ p # NoOne /\ batch.daily[p] < inp.maxDaily
  BY <1>1 DEF Limited
<1>8. CanCarry(p)
  BY <1>2, <1>4, <1>7 DEF CanCarry, Able
<1>9. \E k \in DOMAIN inp.volunteers : inp.volunteers[k] = p
  BY <1>7 DEF Volunteers, ToSet
<1> QED
  BY <1>5, <1>6, <1>7, <1>8, <1>9 DEF CouldBeRescued, Joker

LEMMA CascadeFailsRescues ==
  ASSUME Sound, Learnt, Queued, StillFree, JokerWronged, RescueQueued, CascadeFails
  PROVE  StillFree' /\ JokerWronged' /\ RescueQueued' /\ ~CouldBeRescued
<1>1. /\ pc = "cascade" /\ i \in Lines /\ UNCHANGED <<inp, credits, club>> /\ batch.cands = << >>
      /\ LineFails(SuspectJoker(batch)) /\ batch \in Batches /\ Learnt'
  BY CascadeFailsKnows DEF CascadeFails, Sound, IInv, PlaceInv, Learnt
<1>2. ~CouldBeRescued
  BY <1>1 DEF RescueQueued, Accepts, ToSet
<1>3. PICK b : b = SuspectJoker(batch)
  OBVIOUS
<1>4. /\ b \in Batches /\ b.daily = batch.daily /\ b.exhausted \subseteq batch.exhausted \cup {Joker}
  BY <1>1, <1>3, SuspectLearns
<1>5. b.failures = batch.failures
  BY <1>1, <1>3 DEF SuspectJoker, Batches
<1>6. /\ batch' \in Batches /\ batch'.daily = b.daily /\ batch'.exhausted = b.exhausted
      /\ pc' = "line" /\ i' = i + 1
  BY <1>1, <1>3, <1>4, LineFailsLearns
<1>7. batch'.failures = batch.failures \cup {i}
  <2>1. batch' = [b EXCEPT !.failures = @ \cup {i}, !.cands = << >>, !.error = "none", !.holder = NoOne]
    BY <1>1, <1>3 DEF LineFails
  <2> QED
    BY <1>4, <1>5, <2>1 DEF Batches
<1>8. StillFree'
  BY <1>1, <1>6, <1>7, StaysFree
<1>9. JokerWronged'
  <2>1. \A p \in Players : batch'.daily[p] >= batch.daily[p]
    BY <1>1, <1>4, <1>6 DEF Batches
  <2>2. ZeroStays
    BY <1>1 DEF ZeroStays
  <2>3. ASSUME Joker \in batch'.exhausted \ batch.exhausted, Able(Joker) PROVE NobodyLeft
    <3>1. b # batch
      BY <1>6, <2>3
    <3>2. batch.error = "PLAYER_BOOKING_LIMIT_REACHED" /\ batch.holder = NoOne /\ Joker \in ToSet(Pair)
      BY <1>3, <3>1 DEF SuspectJoker, Joker
    <3> QED
      BY <1>1, <1>2, <2>3, <3>2, JokerRightlyHeld
  <2> QED
    BY <1>1, <1>6, <2>1, <2>2, <2>3, StaysWronged
<1> QED
  BY <1>2, <1>6, <1>8, <1>9 DEF RescueQueued

(* The steps that are not in the middle of a line. *)
LEMMA EndsRescues ==
  ASSUME StillFree, JokerWronged, NoMishap, Ends
  PROVE  StillFree' /\ JokerWronged' /\ RescueQueued'
<1>1. /\ UNCHANGED <<inp, club, credits, i, batch>> /\ pc' # "cascade"
      /\ pc' = "failed" => AllRefused
  BY DEF Ends, Start, TotalFailure, LinesDone, Announce, AnnounceRefused, Report, Crash, NoMishap
<1>2. StillFree'
  BY <1>1, FreeKept
<1>3. JokerWronged'
  BY <1>1 DEF JokerWronged, Joker, Able, NobodyLeft, Limited, Volunteers
<1> QED
  BY <1>1, <1>2, <1>3 DEF RescueQueued

LEMMA RetryRescues ==
  ASSUME StillFree, Retry
  PROVE  StillFree' /\ JokerWronged' /\ RescueQueued'
<1>1. inp' = inp /\ club' = club /\ pc' = "go" /\ batch' = NewBatch /\ AllRefused
  BY DEF Retry, StillFree
<1>2. \A l \in Lines : club[l].by = "nobody"
  BY <1>1 DEF StillFree, AllRefused
<1>3. StillFree'
  BY <1>1, <1>2 DEF StillFree, Lines
<1>4. batch'.exhausted = {}
  BY <1>1 DEF NewBatch
<1> QED
  BY <1>1, <1>3, <1>4 DEF JokerWronged, RescueQueued

LEMMA StutterRescues ==
  ASSUME StillFree, JokerWronged, RescueQueued, UNCHANGED vars
  PROVE  StillFree' /\ JokerWronged' /\ RescueQueued'
<1>1. UNCHANGED <<inp, club, credits, i, batch, pc>>
  BY DEF vars
<1>2. StillFree'
  BY <1>1, FreeKept
<1>3. JokerWronged'
  BY <1>1 DEF JokerWronged, Joker, Able, NobodyLeft, Limited, Volunteers
<1>4. RescueQueued'
  <2> SUFFICES ASSUME pc' = "cascade", CouldBeRescued' PROVE Accepts'
    BY DEF RescueQueued
  <2>1. CouldBeRescued
    BY <1>1, RescueSeen
  <2>2. PICK c \in ToSet(batch.cands) : Refusals(c.pair) = {}
    BY <1>1, <2>1 DEF RescueQueued, Accepts
  <2>3. Refusals(c.pair)' = Refusals(c.pair)
    BY <1>1 DEF Refusals, Unable, Spent
  <2> QED
    BY <1>1, <2>2, <2>3 DEF Accepts
<1> QED
  BY <1>2, <1>3, <1>4

LEMMA NextRescues == Sound /\ Learnt /\ Queued /\ Unharmed /\ [Next]_vars => Unharmed'
<1> SUFFICES ASSUME Sound, Learnt, Queued, Unharmed, [Next]_vars, mishaps' = 0
             PROVE  StillFree' /\ JokerWronged' /\ RescueQueued'
  BY DEF Unharmed
<1>1. NoMishap /\ StillFree /\ JokerWronged /\ RescueQueued
  BY Calm DEF Unharmed
<1>2. ~Take /\ ~GiveUp
  BY <1>1, NotGivenUp DEF Take, NoMishap
<1> QED
  BY <1>1, <1>2, StutterRescues, RetryRescues, EndsRescues, NextLineRescues, BookedRescues,
     ReplaceRescues, TryCandidateRescues, CascadeFailsRescues DEF Next, Ends

LEMMA InitRescues == Init => Unharmed
<1> SUFFICES ASSUME Init PROVE StillFree /\ JokerWronged /\ RescueQueued
  BY DEF Unharmed
<1>1. pc = "go" /\ batch.exhausted = {} /\ \A l \in Lines : club[l].by = "nobody"
  BY DEF Init, NewBatch, Free, Held
<1> QED
  BY <1>1 DEF StillFree, JokerWronged, RescueQueued

(* A line is given up at the end of its cascade only, when nothing technical fails. *)
LEMMA OnlyUnrescued ==
  ASSUME Sound, Learnt, Queued, Unharmed, [Next]_vars, batch'.failures \ batch.failures # {}, mishaps' = 0
  PROVE  ~CouldBeRescued
<1>1. NoMishap /\ StillFree /\ JokerWronged /\ RescueQueued /\ batch \in Batches
  BY Calm DEF Unharmed, Learnt
<1>2. ~UNCHANGED vars /\ ~Ends /\ ~Take
  <2>1. UNCHANGED vars \/ Ends \/ Take => batch' = batch
    BY DEF vars, Ends, Start, TotalFailure, LinesDone, Announce, AnnounceRefused, Report, Crash, Take
  <2> QED
    BY <2>1
<1>3. ~Retry
  BY DEF Retry, NewBatch
<1>4. ~NextLine
  <2> DEFINE known == ToSet(Pair) \cap batch.exhausted
             tried == BookingSubstitutionCandidates(Pair, UsableJoker, known, Available)
  <2>1. NextLine => batch' = batch \/ batch' = [batch EXCEPT !.error = "known", !.cands = tried]
    BY DEF NextLine
  <2> HIDE DEF tried
  <2>2. NextLine => batch'.failures = batch.failures
    BY <1>1, <2>1 DEF Batches
  <2> QED
    BY <2>2
<1>5. ~Booked
  <2>1. Booked => batch'.failures = batch.failures
    BY <1>1 DEF Booked, ClearJokerSuspicion, Batches
  <2> QED
    BY <2>1
<1>6. ~Replace
  <2>1. ASSUME Replace PROVE batch'.failures = batch.failures
    <3>1. PICK r, tried : batch' = [batch EXCEPT !.error = r.reason, !.holder = Holder(r),
                                      !.exhausted = @ \cup NoteHolder(r), !.cands = tried]
      BY <2>1 DEF Replace
    <3> QED
      BY <1>1, <3>1 DEF Batches
  <2> QED
    BY <2>1
<1>7. ~TryCandidate
  <2>1. ASSUME TryCandidate PROVE batch'.failures = batch.failures
    <3>1. PICK c : c = Head(batch.cands)
      OBVIOUS
    <3>2. PICK s, d, e, t : /\ s = batch.subs \cup {[line |-> i, by |-> c.by, replaced |-> c.replaced]}
                            /\ d = Lent(batch.daily, c) /\ e = batch.exhausted \cup NoteReplaced(c)
                            /\ t = Tail(batch.cands)
      OBVIOUS
    <3>3. \/ batch' = [batch EXCEPT !.subs = s, !.daily = d, !.exhausted = e,
                             !.cands = << >>, !.error = "none", !.holder = NoOne]
          \/ batch' = [batch EXCEPT !.cands = t]
      BY <2>1, <3>1, <3>2 DEF TryCandidate
    <3> QED
      BY <1>1, <3>3 DEF Batches
  <2> QED
    BY <2>1
<1>8. ~GiveUp
  BY <1>1, NotGivenUp
<1>9. CascadeFails
  BY <1>2, <1>3, <1>4, <1>5, <1>6, <1>7, <1>8 DEF Next, Ends
<1> QED
  BY <1>1, <1>9, CascadeFailsRescues

(* As long as nothing technical fails, no line is refused while one of its names was wrong
   and the court was free, if the joker, or a volunteer whose day was not full, could have
   carried it (announce.ts, jokerSubstitution.ts): NoRescueMissed of the run, for any plan,
   volunteers, credits and number of retries. *)
THEOREM NobodyIsSkipped == Spec => NoRescueMissed
<1> DEFINE Inv == Sound /\ Learnt /\ Queued /\ Unharmed
<1>1. Init => Inv
  <2>1. Init => Sound
    BY InitSound
  <2>2. Init => Fresh
    BY DEF Init, Fresh
  <2> QED
    BY <2>1, <2>2, FreshKnows, InitRescues
<1>2. Inv /\ [Next]_vars => Inv'
  BY NextSound, NextKnows, NextRescues
<1>3. Inv /\ [Next]_vars => [batch'.failures \ batch.failures # {} /\ mishaps' = 0 => ~CouldBeRescued]_vars
  BY OnlyUnrescued
<1> HIDE DEF Inv
<1> QED
  BY <1>1, <1>2, <1>3, PTL DEF Spec, NoRescueMissed
=============================================================================
