-------------------------- MODULE DayOfMatchProofs --------------------------
(***************************************************************************)
(* What DayOfMatch promises of its messages, for any number of tasks that    *)
(* overlap, of operations and of mishaps: reminder and confirmation once, no *)
(* vote lost with its poll, no pin forgotten.                                *)
(***************************************************************************)
EXTENDS DayOfMatch, TLAPS

Places == {"idle", "claim", "remind", "release", "confirm", "mark", "unpin", "forget", "read",
           "close", "delete", "note", "unmark", "recap", "pin", "remember", "deleteAgain", "noteAgain",
           "withdraw", "closure", "cancel"}
TaskType == [at : Places, recap : Nat]

RowType == [cancelled : BOOLEAN, confirmed : BOOLEAN, claimed : BOOLEAN, recap : Nat,
            closed : BOOLEAN, deleted : BOOLEAN, votes : {"none", "true"}]

(* Only readings of an open poll are recorded. *)
TypeInv ==
  /\ row \in RowType /\ row.recap <= recaps
  /\ announced \in BOOLEAN /\ clock \in 1 .. 5 /\ poll \in {"open", "collected", "withdrawn"}
  /\ recaps \in Nat /\ pinned \subseteq 1 .. recaps
  /\ sent \in [reminder : Nat, confirmation : Nat]
  /\ task \in [Tasks -> TaskType]
  /\ \A t \in Tasks : /\ task[t].recap <= recaps
                      /\ task[t].at \in {"unpin", "forget", "remember"} => task[t].recap # None
  /\ ops \in 0 .. MaxOps /\ mishaps \in 0 .. MaxMishaps

(* The claim is held by one task at most, which has sent nothing yet. *)
Taken == {"remind", "release"}
ReminderInv ==
  /\ \A t, u \in Tasks : task[t].at \in Taken /\ task[u].at \in Taken => t = u
  /\ \A t \in Tasks : task[t].at \in Taken => row.claimed
  /\ "lost" \notin excuse =>
       /\ \A t \in Tasks : task[t].at \in Taken => sent.reminder = 0
       /\ ~row.claimed => sent.reminder = 0
       /\ sent.reminder <= 1
  /\ ClaimMeansSent

(* As long as all goes well, what has been sent is marked or about to be. *)
ConfirmInv ==
  excuse = {} =>
    /\ \A t, u \in Tasks :
         task[t].at \in {"confirm", "mark"} /\ task[u].at \in {"confirm", "mark"} => t = u
    /\ \A t \in Tasks : task[t].at = "confirm" => sent.confirmation = 0
    /\ sent.confirmation <= 1
    /\ (\A t \in Tasks : task[t].at # "mark") /\ ~row.confirmed => sent.confirmation = 0

(* A collection that has read has recorded; one that may still take the mark back has
   not deleted the poll, and no other has. *)
CollectInv ==
  /\ VotesKept
  /\ \A t \in Tasks : task[t].at \in Collecting \ {"read"} => row.votes = "true"
  /\ excuse \cap {"lost", "overlap"} = {} =>
       /\ \A t, u \in Tasks : task[t].at \in Collecting /\ task[u].at \in Collecting => t = u
       /\ \A t \in Tasks : task[t].at \in {"delete", "note", "deleteAgain", "noteAgain"} => row.closed
       /\ \A t \in Tasks : task[t].at \in {"read", "close", "delete", "unmark"} => poll # "collected"
       /\ poll = "collected" => row.closed

(* Only an unpinned or an old recap is about to leave the row. *)
RecapInv ==
  /\ \A t \in Tasks : task[t].at = "forget" => IsStale \/ task[t].recap \notin pinned
  /\ RecapTracked

IInv == TypeInv /\ ReminderInv /\ ConfirmInv /\ CollectInv /\ RecapInv

LEMMA StaleIs == clock \in 1 .. 5 => (IsStale <=> clock = 5)
BY DEF IsStale, Times

LEMMA MoveType ==
  /\ Idle \in TaskType
  /\ \A p \in Places, m \in Nat : With(p, m) \in TaskType /\ At(p) \in TaskType
BY DEF Idle, TaskType, Places, With, At, None

LEMMA InitInv == Init => IInv
<1> SUFFICES ASSUME Init PROVE IInv
  OBVIOUS
<1>1. TypeInv
  <2>1. row \in RowType /\ row.recap = 0 /\ sent \in [reminder : Nat, confirmation : Nat]
    BY DEF Init, RowType, None
  <2>2. task \in [Tasks -> TaskType] /\ \A t \in Tasks : task[t] = Idle
    BY MoveType DEF Init
  <2>3. /\ clock = 1 /\ poll = "open" /\ recaps = 0 /\ pinned = {}
        /\ ops = 0 /\ mishaps = 0
    BY DEF Init
  <2>4. ops \in 0 .. MaxOps /\ mishaps \in 0 .. MaxMishaps
    BY <2>3, BoundsAreNumbers
  <2>5. \A t \in Tasks : task[t].at = "idle" /\ task[t].recap = 0
    <3>1. Idle.at = "idle" /\ Idle.recap = 0
      BY DEF Idle, None
    <3> QED
      BY <2>2, <3>1
  <2>6. \A t \in Tasks : /\ task[t].recap <= recaps
                         /\ task[t].at \in {"unpin", "forget", "remember"} => task[t].recap # None
    <3> SUFFICES ASSUME NEW t \in Tasks
                 PROVE  /\ task[t].recap <= recaps
                        /\ task[t].at \in {"unpin", "forget", "remember"} => task[t].recap # None
      OBVIOUS
    <3>1. task[t].at \notin {"unpin", "forget", "remember"}
      BY <2>5
    <3>2. task[t].recap <= recaps
      BY <2>3, <2>5
    <3> QED
      BY <3>1, <3>2
  <2>7. row.recap <= recaps /\ pinned \subseteq 1 .. recaps /\ recaps \in Nat /\ clock \in 1 .. 5
        /\ poll \in {"open", "collected", "withdrawn"}
    BY <2>1, <2>3
  <2>8. announced \in BOOLEAN
    BY Zenon DEF Init
  <2> QED
    BY <2>1, <2>2, <2>4, <2>6, <2>7, <2>8 DEF TypeInv
<1>2. ReminderInv /\ ConfirmInv
  BY DEF Init, ReminderInv, ConfirmInv, Taken, Idle, ClaimMeansSent
<1>3. CollectInv /\ RecapInv
  BY DEF Init, CollectInv, RecapInv, Collecting, Idle, VotesKept, RecapTracked
<1> QED
  BY <1>1, <1>2, <1>3 DEF IInv

LEMMA InvGivesParts == IInv => SentOnce /\ CollectionSound
<1> SUFFICES ASSUME IInv PROVE SentOnce /\ CollectionSound
  OBVIOUS
<1> USE DEF IInv
<1>1. TypeOK
  BY DEF TypeInv, TypeOK, RowType, TaskType, Times
<1>2. ReminderOnce /\ ClaimMeansSent /\ ConfirmationOnce
  BY DEF ReminderInv, ConfirmInv, ReminderOnce, ConfirmationOnce
<1>3. VotesKept /\ GoneIsClosed /\ RecapTracked
  BY DEF CollectInv, RecapInv, GoneIsClosed
<1> QED
  BY <1>1, <1>2, <1>3 DEF SentOnce, CollectionSound

-----------------------------------------------------------------------------
(* What a step that does not concern a part leaves of it.                    *)

LEMMA ReminderFrame ==
  ASSUME ReminderInv, sent'.reminder = sent.reminder, row'.claimed = row.claimed,
         excuse \subseteq excuse',
         \A t \in Tasks : task'[t].at \in Taken <=> task[t].at \in Taken
  PROVE  ReminderInv'
<1>1. ClaimMeansSent'
  BY DEF ReminderInv, ClaimMeansSent, Busy, Taken
<1> QED
  BY <1>1 DEF ReminderInv

LEMMA ConfirmFrame ==
  ASSUME ConfirmInv, sent'.confirmation = sent.confirmation, row'.confirmed = row.confirmed,
         excuse \subseteq excuse',
         \A t \in Tasks : /\ task'[t].at = "confirm" <=> task[t].at = "confirm"
                          /\ task'[t].at = "mark" <=> task[t].at = "mark"
  PROVE  ConfirmInv'
<1>1. excuse' = {} => excuse = {}
  OBVIOUS
<1> QED
  BY <1>1 DEF ConfirmInv

(* A task may leave the collection, and the poll be withdrawn. *)
LEMMA CollectFrame ==
  ASSUME CollectInv, row'.votes = row.votes, row'.closed = row.closed,
         poll' \in {poll, "withdrawn"}, excuse \subseteq excuse',
         \A t \in Tasks : task'[t].at = task[t].at \/ task'[t].at \notin Collecting
  PROVE  CollectInv'
<1>1. excuse' \cap {"lost", "overlap"} = {} => excuse \cap {"lost", "overlap"} = {}
  OBVIOUS
<1>2. VotesKept' /\ (poll' = "collected" => poll = "collected")
  BY DEF CollectInv, VotesKept
<1>3. \A t \in Tasks : task'[t].at \in Collecting => task'[t].at = task[t].at
  OBVIOUS
<1>4. \A t \in Tasks : task'[t].at \in Collecting \ {"read"} => row'.votes = "true"
  BY <1>3 DEF CollectInv
<1>5. ASSUME excuse' \cap {"lost", "overlap"} = {}
      PROVE  /\ \A t, u \in Tasks : task'[t].at \in Collecting /\ task'[u].at \in Collecting => t = u
             /\ \A t \in Tasks : task'[t].at \in {"delete", "note", "deleteAgain", "noteAgain"} => row'.closed
             /\ \A t \in Tasks : task'[t].at \in {"read", "close", "delete", "unmark"} => poll' # "collected"
             /\ poll' = "collected" => row'.closed
  BY <1>1, <1>2, <1>3, <1>5 DEF CollectInv, Collecting
<1> QED
  BY <1>2, <1>4, <1>5 DEF CollectInv, Collecting

LEMMA RecapFrame ==
  ASSUME RecapInv, row'.recap = row.recap, pinned' = pinned, recaps' = recaps, clock' = clock,
         excuse \subseteq excuse',
         \A t \in Tasks : /\ task'[t] = task[t] \/ task'[t].at # "forget"
                          /\ task[t].at = "remember" => task'[t] = task[t]
  PROVE  RecapInv'
<1>1. IsStale' = IsStale
  BY DEF IsStale
<1>2. \A t \in Tasks : task'[t].at = "forget" => IsStale' \/ task'[t].recap \notin pinned'
  BY <1>1 DEF RecapInv
<1>3. RecapTracked'
  <2> SUFFICES ASSUME NEW m \in pinned'
               PROVE  (\/ IsStale \/ row.recap = m \/ \E t \in Tasks : task[t] = With("remember", m)
                       \/ excuse \cap {"pin", "crash", "db"} # {} \/ recaps > 1)'
    BY DEF RecapTracked
  <2>1. \/ IsStale \/ row.recap = m \/ \E t \in Tasks : task[t] = With("remember", m)
        \/ excuse \cap {"pin", "crash", "db"} # {} \/ recaps > 1
    BY DEF RecapInv, RecapTracked
  <2>2. \A t \in Tasks : task[t] = With("remember", m) => task'[t] = With("remember", m)
    BY DEF With
  <2> QED
    BY <1>1, <2>1, <2>2
<1> QED
  BY <1>2, <1>3 DEF RecapInv

(* One task moves. *)
LEMMA GoesFacts ==
  ASSUME TypeInv, NEW t \in Tasks, NEW to, Goes(t, to)
  PROVE  /\ task'[t] = to /\ \A o \in Tasks : o # t => task'[o] = task[o]
         /\ to \in TaskType => task' \in [Tasks -> TaskType]
BY DEF TypeInv, Goes

LEMMA CountsFacts ==
  ASSUME TypeInv
  PROVE  /\ Fine => mishaps' \in 0 .. MaxMishaps /\ excuse' = excuse
         /\ \A kind, why : Mishap(kind, why) =>
              mishaps' \in 0 .. MaxMishaps /\ excuse' = excuse \cup why
BY BoundsAreNumbers DEF TypeInv, Fine, Mishap

-----------------------------------------------------------------------------
(* The reminder: a claim is taken by one task, and given back only unsent.     *)

ReminderStep(t) == Remind(t) \/ Claim(t) \/ SendReminder(t) \/ Release(t)

LEMMA ReminderMoves ==
  ASSUME IInv, NEW t \in Tasks, ReminderStep(t)
  PROVE  /\ UNCHANGED <<announced, clock, poll, pinned, recaps, ops>>
         /\ mishaps' \in 0 .. MaxMishaps /\ excuse \subseteq excuse'
         /\ row' \in {row, [row EXCEPT !.claimed = TRUE], [row EXCEPT !.claimed = FALSE]}
         /\ sent' \in {sent, [sent EXCEPT !.reminder = @ + 1]}
         /\ \E p \in {"idle", "claim", "remind", "release"} : Goes(t, At(p))
         /\ task[t].at \in {"idle", "claim", "remind", "release"}
<1> USE DEF World, Group, Column
<1>1. Idle = At("idle") /\ Idle.at = "idle"
  BY DEF Idle, At
<1>2. TypeInv
  BY DEF IInv
<1>3. CASE Remind(t)
  BY <1>1, <1>2, <1>3 DEF Remind, TypeInv
<1>4. CASE Claim(t)
  BY <1>1, <1>2, <1>4, CountsFacts DEF Claim
<1>5. CASE SendReminder(t)
  BY <1>1, <1>2, <1>5, CountsFacts DEF SendReminder
<1>6. CASE Release(t)
  BY <1>1, <1>2, <1>6, CountsFacts DEF Release, Writes
<1> QED
  BY <1>3, <1>4, <1>5, <1>6 DEF ReminderStep

LEMMA ReminderStepInv == ASSUME IInv, NEW t \in Tasks, ReminderStep(t) PROVE IInv'
<1> USE DEF IInv
<1>1. PICK p \in {"idle", "claim", "remind", "release"} : Goes(t, At(p))
  BY ReminderMoves
<1>2. /\ task'[t] = At(p) /\ \A o \in Tasks : o # t => task'[o] = task[o]
      /\ task' \in [Tasks -> TaskType] /\ At(p).at = p /\ At(p).recap = 0
  BY <1>1, GoesFacts, MoveType DEF Places, At, None
<1>3. /\ row' \in RowType /\ row'.votes = row.votes /\ row'.closed = row.closed
      /\ row'.recap = row.recap /\ row'.confirmed = row.confirmed
  BY ReminderMoves DEF TypeInv, RowType
<1>9. sent' \in [reminder : Nat, confirmation : Nat] /\ sent'.confirmation = sent.confirmation
  BY ReminderMoves DEF TypeInv
<1>4. TypeInv'
  BY <1>2, <1>3, <1>9, ReminderMoves DEF TypeInv
<1>5. ConfirmInv'
  BY <1>2, <1>3, <1>9, ReminderMoves, ConfirmFrame
<1>6. CollectInv'
  BY <1>2, <1>3, <1>9, ReminderMoves, CollectFrame DEF Collecting
<1>7. RecapInv'
  BY <1>2, <1>3, <1>9, ReminderMoves, RecapFrame
<1>8. ReminderInv'
  <2>1. CASE Remind(t)
    BY <2>1, <1>2, ReminderFrame DEF Remind, Goes, At, Taken, Idle, TypeInv, Group
  <2>2. CASE Claim(t)
    <3>1. CASE Claimable /\ Column("claimed", TRUE) /\ Goes(t, At("remind")) /\ Fine
      <4>1. /\ ~row.claimed /\ row'.claimed = TRUE /\ task'[t] = At("remind") /\ excuse' = excuse
            /\ At("remind").at = "remind" /\ sent' = sent
        BY <2>2, <3>1, GoesFacts, CountsFacts DEF Claim, Claimable, Column, TypeInv, RowType, Group, At
      <4>2. \A o \in Tasks : o # t => task[o].at \notin Taken /\ task'[o] = task[o]
        BY <4>1, <1>2 DEF ReminderInv
      <4>3. ClaimMeansSent'
        BY <4>1 DEF ClaimMeansSent, Busy
      <4> QED
        BY <4>1, <4>2, <4>3 DEF ReminderInv
    <3>2. CASE UNCHANGED row /\ Goes(t, Idle) /\ ((~Claimable /\ Fine) \/ Mishap("db", {"db"}))
      <4>1. task'[t] = Idle /\ Idle.at = "idle" /\ task[t].at = "claim" /\ row' = row /\ sent' = sent
        BY <2>2, <3>2, GoesFacts DEF Claim, Group, Idle
      <4> QED
        BY <1>2, <4>1, ReminderMoves, ReminderFrame DEF Taken
    <3> QED
      BY <2>2, <3>1, <3>2 DEF Claim
  <2>3. CASE SendReminder(t)
    <3>1. /\ task[t].at = "remind" /\ row' = row
          /\ \A o \in Tasks : o # t => task[o].at \notin Taken /\ task'[o] = task[o]
      BY <2>3, <1>2 DEF SendReminder, ReminderInv, Taken
    <3>2. \/ task'[t].at = "idle" /\ sent'.reminder = sent.reminder + 1 /\ excuse' = excuse
          \/ task'[t].at = "release" /\ "lost" \in excuse'
          \/ task'[t].at = "release" /\ sent' = sent /\ excuse' = excuse
      <4>1. Idle.at = "idle" /\ At("release").at = "release"
        BY DEF Idle, At
      <4>2. \/ sent' = [sent EXCEPT !.reminder = @ + 1] /\ Goes(t, Idle) /\ Fine
            \/ Goes(t, At("release")) /\ Mishap("lose", {"lost"})
            \/ sent' = sent /\ Goes(t, At("release")) /\ Mishap("refuse", {})
        BY <2>3 DEF SendReminder
      <4>3. CASE sent' = [sent EXCEPT !.reminder = @ + 1] /\ Goes(t, Idle) /\ Fine
        <5>1. sent'.reminder = sent.reminder + 1
          BY <4>3 DEF TypeInv
        <5> QED
          BY <4>1, <4>3, <5>1, GoesFacts, CountsFacts
      <4>4. CASE Goes(t, At("release")) /\ Mishap("lose", {"lost"})
        BY <4>1, <4>4, GoesFacts, CountsFacts
      <4>5. CASE sent' = sent /\ Goes(t, At("release")) /\ Mishap("refuse", {})
        <5>1. excuse' = excuse
          BY <4>5, CountsFacts
        <5> QED
          BY <4>1, <4>5, <5>1, GoesFacts
      <4> QED
        BY <4>2, <4>3, <4>4, <4>5
    <3>3. ClaimMeansSent'
      BY <3>1, <3>2 DEF ClaimMeansSent, Busy, TypeInv
    <3> QED
      BY <3>1, <3>2, <3>3, ReminderMoves DEF ReminderInv, Taken, TypeInv
  <2>4. CASE Release(t)
    <3>1. /\ task[t].at = "release" /\ sent' = sent /\ task'[t].at = "idle"
          /\ \A o \in Tasks : o # t => task[o].at \notin Taken /\ task'[o] = task[o]
      <4>1. Idle.at = "idle"
        BY DEF Idle
      <4> QED
        BY <2>4, <4>1, <1>2, GoesFacts DEF Release, Writes, ReminderInv, Taken, Group
    <3>2. \/ row'.claimed = FALSE /\ excuse' = excuse
          \/ row' = row /\ "db" \in excuse'
      BY <2>4, CountsFacts DEF Release, Writes, Column, TypeInv, RowType
    <3>3. ClaimMeansSent'
      BY <3>1, <3>2 DEF ClaimMeansSent
    <3> QED
      BY <3>1, <3>2, <3>3, ReminderMoves DEF ReminderInv, Taken
  <2> QED
    BY <2>1, <2>2, <2>3, <2>4 DEF ReminderStep
<1> QED
  BY <1>4, <1>5, <1>6, <1>7, <1>8

-----------------------------------------------------------------------------
(* The confirmation: two of them only when triggers overlap or a write is lost. *)

ConfirmStep(t) == Confirm(t) \/ SendConfirmation(t) \/ Mark(t)

LEMMA ConfirmMoves ==
  ASSUME IInv, NEW t \in Tasks, ConfirmStep(t)
  PROVE  /\ UNCHANGED <<announced, clock, poll, pinned, recaps>>
         /\ ops' \in 0 .. MaxOps /\ mishaps' \in 0 .. MaxMishaps /\ excuse \subseteq excuse'
         /\ row' \in {row, [row EXCEPT !.confirmed = TRUE]}
         /\ sent' \in {sent, [sent EXCEPT !.confirmation = @ + 1]}
         /\ \E p \in {"idle", "confirm", "mark"} : Goes(t, At(p))
         /\ task[t].at \in {"idle", "confirm", "mark"}
<1> USE DEF World, Group, Column
<1>1. Idle = At("idle") /\ Idle.at = "idle"
  BY DEF Idle, At
<1>2. TypeInv
  BY DEF IInv
<1>3. CASE Confirm(t)
  <2>1. /\ UNCHANGED <<row, announced, clock, poll, pinned, sent, recaps, mishaps>>
        /\ excuse \subseteq excuse' /\ task[t] = Idle /\ Goes(t, At("confirm"))
        /\ ops < MaxOps /\ ops' = ops + 1
    BY <1>3 DEF Confirm, StartsAt
  <2> QED
    BY <1>1, <1>2, <2>1, BoundsAreNumbers DEF TypeInv
<1>4. CASE SendConfirmation(t)
  <2>1. /\ UNCHANGED <<row, announced, clock, poll, pinned, recaps, ops>>
        /\ sent' \in {sent, [sent EXCEPT !.confirmation = @ + 1]} /\ task[t].at = "confirm"
        /\ Goes(t, At("mark")) \/ Goes(t, Idle)
        /\ \/ Fine \/ Mishap("lose", {"lost"}) \/ Mishap("refuse", {})
    BY <1>4 DEF SendConfirmation
  <2> QED
    BY <1>1, <1>2, <2>1, CountsFacts DEF TypeInv
<1>5. CASE Mark(t)
  BY <1>1, <1>2, <1>5, CountsFacts DEF Mark, Writes, TypeInv
<1> QED
  BY <1>3, <1>4, <1>5 DEF ConfirmStep

LEMMA ConfirmStepInv == ASSUME IInv, NEW t \in Tasks, ConfirmStep(t) PROVE IInv'
<1> USE DEF IInv
<1>1. PICK p \in {"idle", "confirm", "mark"} : Goes(t, At(p))
  BY ConfirmMoves
<1>2. /\ task'[t] = At(p) /\ \A o \in Tasks : o # t => task'[o] = task[o]
      /\ task' \in [Tasks -> TaskType] /\ At(p).at = p /\ At(p).recap = 0
  BY <1>1, GoesFacts, MoveType DEF Places, At, None
<1>3. /\ row' \in RowType /\ row'.votes = row.votes /\ row'.closed = row.closed
      /\ row'.recap = row.recap /\ row'.claimed = row.claimed
  BY ConfirmMoves DEF TypeInv, RowType
<1>4. sent' \in [reminder : Nat, confirmation : Nat] /\ sent'.reminder = sent.reminder
  BY ConfirmMoves DEF TypeInv
<1>5. TypeInv'
  BY <1>2, <1>3, <1>4, ConfirmMoves DEF TypeInv
<1>6. ReminderInv'
  BY <1>2, <1>3, <1>4, ConfirmMoves, ReminderFrame DEF Taken
<1>7. CollectInv'
  BY <1>2, <1>3, ConfirmMoves, CollectFrame DEF Collecting
<1>8. RecapInv'
  BY <1>2, <1>3, ConfirmMoves, RecapFrame
<1>9. ASSUME excuse' = {} PROVE ConfirmInv'
  <2>1. excuse = {}
    BY <1>9, ConfirmMoves
  <2>2. Idle.at = "idle" /\ At("confirm").at = "confirm" /\ At("mark").at = "mark"
    BY DEF Idle, At
  <2>3. CASE Confirm(t)
    <3>1. ~Busy({"confirm", "mark"}) /\ ~row.confirmed /\ row' = row /\ sent' = sent
      BY <1>9, <2>3 DEF Confirm, ToConfirm, Group
    <3>2. sent.confirmation = 0 /\ \A o \in Tasks : o # t => task'[o].at \notin {"confirm", "mark"}
      BY <1>2, <2>1, <3>1 DEF ConfirmInv, Busy
    <3> QED
      BY <3>1, <3>2 DEF ConfirmInv
  <2>4. CASE SendConfirmation(t)
    <3>1. sent.confirmation = 0 /\ \A o \in Tasks : o # t => task'[o].at \notin {"confirm", "mark"}
      BY <1>2, <2>1, <2>4 DEF SendConfirmation, ConfirmInv
    <3>2. \/ sent' = [sent EXCEPT !.confirmation = @ + 1] /\ Goes(t, At("mark"))
          \/ sent' = sent /\ Goes(t, Idle)
          \/ Mishap("lose", {"lost"})
      BY <2>4 DEF SendConfirmation
    <3>3. ~Mishap("lose", {"lost"})
      BY <1>9, CountsFacts
    <3>4. CASE sent' = [sent EXCEPT !.confirmation = @ + 1] /\ Goes(t, At("mark"))
      <4>1. sent'.confirmation = 1 /\ task'[t].at = "mark"
        BY <2>2, <3>1, <3>4, GoesFacts DEF TypeInv
      <4> QED
        BY <3>1, <4>1 DEF ConfirmInv
    <3>5. CASE sent' = sent /\ Goes(t, Idle)
      <4>1. sent'.confirmation = 0 /\ task'[t].at = "idle"
        BY <2>2, <3>1, <3>5, GoesFacts
      <4> QED
        BY <3>1, <4>1 DEF ConfirmInv
    <3> QED
      BY <3>2, <3>3, <3>4, <3>5
  <2>5. CASE Mark(t)
    <3>1. ~Mishap("db", {"db"}) /\ task[t].at = "mark" /\ Goes(t, Idle) /\ sent' = sent
      BY <1>9, <2>5, CountsFacts DEF Mark, Writes, Group
    <3>2. row'.confirmed = TRUE /\ task'[t].at = "idle"
      BY <2>2, <2>5, <3>1, GoesFacts DEF Mark, Writes, Column, TypeInv, RowType
    <3>3. \A o \in Tasks : o # t => task'[o].at \notin {"confirm", "mark"}
      BY <1>2, <2>1, <3>1 DEF ConfirmInv
    <3> QED
      BY <2>1, <3>1, <3>2, <3>3 DEF ConfirmInv
  <2> QED
    BY <2>3, <2>4, <2>5 DEF ConfirmStep
<1>10. ConfirmInv'
  BY <1>9 DEF ConfirmInv
<1> QED
  BY <1>5, <1>6, <1>7, <1>8, <1>10

-----------------------------------------------------------------------------
(* Unpinning, and the cancellation, which ends with it.                       *)

PinPlaces == {"idle", "unpin", "forget", "withdraw", "closure", "cancel"}
PinStep(t) == UnpinTick(t) \/ NextPoll(t) \/ Unpin(t) \/ Forget(t)
              \/ Cancel(t) \/ WithdrawPoll(t) \/ CancelRow(t)

(* Where such a step goes, and that it forgets only what is unpinned, or old. *)
PinTo(t, p, m) ==
  /\ Goes(t, With(p, m))
  /\ p \in PinPlaces /\ m \in {None, row.recap, task[t].recap}
  /\ p \in {"unpin", "forget"} => m # None
  /\ p = "forget" => IsStale \/ m \notin pinned'

PinChanges(t) ==
  /\ UNCHANGED <<announced, clock, sent, recaps>>
  /\ row' \in {row, [row EXCEPT !.recap = None], [row EXCEPT !.cancelled = TRUE]}
  /\ task[t].at # "forget" => row'.recap = row.recap
  /\ poll' \in {poll, "withdrawn"} /\ pinned' \subseteq pinned
  /\ task[t].at \in PinPlaces

PinCounts == ops' \in 0 .. MaxOps /\ mishaps' \in 0 .. MaxMishaps /\ excuse \subseteq excuse'

LEMMA PinMoves ==
  ASSUME IInv, NEW t \in Tasks, PinStep(t)
  PROVE  PinChanges(t) /\ PinCounts /\ \E p, m : PinTo(t, p, m)
<1> USE DEF World, Group, Column
<1>1. Goes(t, Idle) => PinTo(t, "idle", None)
  BY DEF Idle, With, PinTo, PinPlaces
<1>2. TypeInv /\ Idle.at = "idle" /\ (Fine => mishaps' \in 0 .. MaxMishaps /\ excuse' = excuse)
      /\ \A kind, why : Mishap(kind, why) => mishaps' \in 0 .. MaxMishaps /\ excuse \subseteq excuse'
  BY CountsFacts DEF IInv, Idle
<1>3. /\ ops' = ops => ops' \in 0 .. MaxOps
      /\ ops < MaxOps /\ ops' = ops + 1 => ops' \in 0 .. MaxOps
      /\ UNCHANGED <<mishaps, excuse>> => mishaps' \in 0 .. MaxMishaps /\ excuse' = excuse
  BY <1>2, BoundsAreNumbers DEF TypeInv
<1>4. CASE UnpinTick(t)
  <2>1. PinTo(t, "forget", row.recap) \/ PinTo(t, "unpin", row.recap)
    BY <1>4 DEF UnpinTick, Listed, PinTo, PinPlaces
  <2> QED
    BY <1>2, <1>3, <1>4, <2>1 DEF UnpinTick, PinChanges, PinCounts, PinPlaces
<1>5. CASE NextPoll(t)
  <2>1. PinTo(t, "unpin", row.recap)
    BY <1>5 DEF NextPoll, StartsAt, PreviousRecap, PinTo, PinPlaces
  <2> QED
    BY <1>2, <1>3, <1>5, <2>1 DEF NextPoll, StartsAt, PinChanges, PinCounts, PinPlaces
<1>6. CASE Unpin(t)
  <2>1. \/ pinned' = pinned \ {task[t].recap} /\ Goes(t, With("forget", task[t].recap)) /\ Fine
        \/ pinned' = pinned \ {task[t].recap} /\ Goes(t, Idle) /\ Mishap("lose", {})
        \/ UNCHANGED pinned /\ Goes(t, Idle) /\ (Mishap("refuse", {}) \/ Fine)
    BY <1>6 DEF Unpin, UnpinRefused
  <2>2. task[t].recap # None
    BY <1>2, <1>6 DEF Unpin, TypeInv
  <2>3. PinTo(t, "forget", task[t].recap) \/ PinTo(t, "idle", None)
    BY <1>1, <2>1, <2>2 DEF PinTo, PinPlaces
  <2> QED
    BY <1>2, <1>3, <1>6, <2>1, <2>3 DEF Unpin, PinChanges, PinCounts, PinPlaces
<1>7. CASE Forget(t)
  <2>1. /\ UNCHANGED <<announced, clock, sent, recaps, poll, pinned, ops>> /\ Goes(t, Idle)
        /\ task[t].at = "forget" /\ row' \in {row, [row EXCEPT !.recap = None]}
        /\ Fine \/ Mishap("db", {"db"})
    BY <1>7 DEF Forget, Writes
  <2> QED
    BY <1>1, <1>2, <1>3, <2>1 DEF PinChanges, PinCounts, PinPlaces
<1>8. CASE Cancel(t)
  <2>1. /\ UNCHANGED <<row, announced, clock, sent, recaps, poll, pinned>> /\ Fine
        /\ task[t] = Idle /\ ops < MaxOps /\ ops' = ops + 1
    BY <1>8 DEF Cancel, StartsAt
  <2>2. \E p \in {"withdraw", "closure", "cancel"} : PinTo(t, p, row.recap)
    BY <1>8 DEF Cancel, StartsAt, PinTo, PinPlaces
  <2> QED
    BY <1>2, <1>3, <2>1, <2>2 DEF PinChanges, PinCounts, PinPlaces
<1>9. CASE WithdrawPoll(t)
  <2>1. /\ UNCHANGED <<row, announced, clock, pinned, sent, recaps, ops>>
        /\ poll' \in {poll, "withdrawn"} /\ (Fine \/ Mishap("lose", {}) \/ Mishap("refuse", {}))
        /\ task[t].at \in {"withdraw", "closure"}
        /\ Goes(t, With("cancel", task[t].recap)) \/ Goes(t, Idle)
    BY <1>9 DEF WithdrawPoll
  <2>2. PinTo(t, "cancel", task[t].recap) \/ PinTo(t, "idle", None)
    BY <1>1, <2>1 DEF PinTo, PinPlaces
  <2> QED
    BY <1>2, <1>3, <2>1, <2>2 DEF PinChanges, PinCounts, PinPlaces
<1>10. CASE CancelRow(t)
  <2>1. /\ UNCHANGED <<announced, clock, poll, pinned, sent, recaps, ops>>
        /\ (row' = [row EXCEPT !.cancelled = TRUE] /\ Fine) \/ (row' = row /\ Mishap("db", {"db"}))
        /\ task[t].at = "cancel"
        /\ Goes(t, Idle) \/ (task[t].recap # None /\ Goes(t, With("unpin", task[t].recap)))
    BY <1>10 DEF CancelRow
  <2>2. row'.recap = row.recap
    BY <1>2, <2>1 DEF TypeInv, RowType
  <2>3. PinTo(t, "unpin", task[t].recap) \/ PinTo(t, "idle", None)
    BY <1>1, <2>1 DEF PinTo, PinPlaces
  <2> QED
    BY <1>2, <1>3, <2>1, <2>2, <2>3 DEF PinChanges, PinCounts, PinPlaces
<1> QED
  BY <1>4, <1>5, <1>6, <1>7, <1>8, <1>9, <1>10 DEF PinStep

LEMMA PinStepInv == ASSUME IInv, NEW t \in Tasks, PinStep(t) PROVE IInv'
<1> USE DEF IInv
<1>0. PinChanges(t) /\ PinCounts
  BY PinMoves
<1>1. PICK p, m : PinTo(t, p, m)
  BY PinMoves
<1>2. m \in Nat /\ m <= recaps /\ PinPlaces \subseteq Places
  BY <1>1 DEF PinTo, TypeInv, RowType, TaskType, None, PinPlaces, Places
<1>3. /\ task'[t] = With(p, m) /\ \A o \in Tasks : o # t => task'[o] = task[o]
      /\ task' \in [Tasks -> TaskType] /\ With(p, m).at = p /\ With(p, m).recap = m
  BY <1>1, <1>2, GoesFacts, MoveType DEF With, PinTo
<1>4. /\ row' \in RowType /\ row'.votes = row.votes /\ row'.closed = row.closed
      /\ row'.confirmed = row.confirmed /\ row'.claimed = row.claimed /\ row'.recap \in {row.recap, 0}
  <2>1. row \in RowType /\ 0 \in Nat
    BY DEF TypeInv
  <2>2. CASE row' = row
    BY <2>1, <2>2 DEF RowType
  <2>3. CASE row' = [row EXCEPT !.recap = 0]
    BY <2>1, <2>3 DEF RowType
  <2>4. CASE row' = [row EXCEPT !.cancelled = TRUE]
    BY <2>1, <2>4 DEF RowType
  <2> QED
    BY <1>0, <2>2, <2>3, <2>4 DEF PinChanges, None
<1>5. TypeInv'
  <2>1. \A o \in Tasks : /\ task'[o].recap <= recaps
                         /\ task'[o].at \in {"unpin", "forget", "remember"} => task'[o].recap # None
    BY <1>1, <1>2, <1>3 DEF TypeInv, PinTo, PinPlaces
  <2>2. row'.recap <= recaps /\ poll' \in {"open", "collected", "withdrawn"} /\ pinned' \subseteq 1 .. recaps
    BY <1>0, <1>4 DEF TypeInv, PinChanges
  <2>3. UNCHANGED <<announced, clock, sent, recaps>>
    BY <1>0 DEF PinChanges
  <2> QED
    BY <1>0, <1>3, <1>4, <2>1, <2>2, <2>3 DEF TypeInv, PinCounts
<1>6. ReminderInv'
  BY <1>3, <1>4, <1>0, <1>1, ReminderFrame DEF Taken, PinPlaces, PinChanges, PinCounts, PinTo
<1>7. ConfirmInv'
  BY <1>3, <1>4, <1>0, <1>1, ConfirmFrame DEF PinPlaces, PinChanges, PinCounts, PinTo
<1>8. CollectInv'
  BY <1>3, <1>4, <1>0, <1>1, CollectFrame DEF Collecting, PinPlaces, PinChanges, PinCounts, PinTo
<1>9. IsStale' = IsStale
  BY <1>0 DEF IsStale, PinChanges
<1>10. \A o \in Tasks : task'[o].at = "forget" => IsStale' \/ task'[o].recap \notin pinned'
  BY <1>0, <1>1, <1>3, <1>9 DEF RecapInv, PinTo, PinChanges
<1>11. RecapTracked'
  <2> SUFFICES ASSUME NEW n \in pinned', ~IsStale, excuse \cap {"pin", "crash", "db"} = {}, recaps <= 1
               PROVE  row'.recap = n \/ \E o \in Tasks : task'[o] = With("remember", n)
    BY <1>0, <1>9 DEF RecapTracked, TypeInv, PinChanges, PinCounts
  <2>1. n \in pinned /\ n = 1
    BY <1>0 DEF TypeInv, PinChanges
  <2>2. row.recap = n \/ \E o \in Tasks : task[o] = With("remember", n)
    BY <2>1 DEF RecapInv, RecapTracked, TypeInv
  <2>3. CASE row.recap = n
    <3>1. ASSUME task[t].at = "forget" PROVE FALSE
      BY <2>1, <3>1 DEF RecapInv, TypeInv, TaskType, None
    <3> QED
      BY <1>0, <2>3, <3>1 DEF PinChanges
  <2>4. ASSUME NEW o \in Tasks, task[o] = With("remember", n) PROVE task'[o] = task[o]
    BY <1>0, <1>3, <2>4 DEF With, PinPlaces, PinChanges
  <2> QED
    BY <2>2, <2>3, <2>4
<1> QED
  BY <1>5, <1>6, <1>7, <1>8, <1>10, <1>11 DEF RecapInv

-----------------------------------------------------------------------------
(* The collection.                                                            *)

CollectStep(t) ==
  \/ Collect(t) \/ ReadVotes(t) \/ LeavesPoll(t) \/ MarkClosed(t) \/ DeletePoll(t)
  \/ Unmark(t) \/ Note(t) \/ SendRecap(t) \/ PinRecap(t) \/ Remember(t)

AllIsWell == excuse \cap {"lost", "overlap"} = {}

(* What the task that moves owes to the part of the invariant about collections. *)
PlaceSound(p) ==
  /\ p \in {"delete", "note", "deleteAgain", "noteAgain"} => row.closed
  /\ p \in {"read", "close", "delete", "unmark"} => poll # "collected"
  /\ poll = "collected" => row.closed

LEMMA CollectFromPlace ==
  ASSUME CollectInv, NEW t \in Tasks, NEW p, task'[t].at = p,
         \A o \in Tasks : o # t => task'[o] = task[o],
         row'.votes \in {row.votes, "true"}, VotesKept',
         p \in Collecting \ {"read"} => row'.votes = "true",
         excuse \subseteq excuse',
         AllIsWell' => PlaceSound(p)' /\ \A o \in Tasks : o # t => task[o].at \notin Collecting
  PROVE  CollectInv'
<1>1. \A o \in Tasks : task'[o].at \in Collecting \ {"read"} => row'.votes = "true"
  BY DEF CollectInv
<1>2. ASSUME AllIsWell'
      PROVE  /\ \A o, u \in Tasks : task'[o].at \in Collecting /\ task'[u].at \in Collecting => o = u
             /\ \A o \in Tasks : task'[o].at \in {"delete", "note", "deleteAgain", "noteAgain"} => row'.closed
             /\ \A o \in Tasks : task'[o].at \in {"read", "close", "delete", "unmark"} => poll' # "collected"
             /\ poll' = "collected" => row'.closed
  <2>1. PlaceSound(p)' /\ \A o \in Tasks : o # t => task'[o].at \notin Collecting
    BY <1>2
  <2> QED
    BY <2>1 DEF PlaceSound, Collecting
<1> QED
  BY <1>1, <1>2 DEF CollectInv, AllIsWell, Collecting

(* As long as all is well, the collection under way is the only one. *)
LEMMA OnlyCollection ==
  ASSUME IInv, NEW t \in Tasks, task[t].at \in Collecting, excuse \subseteq excuse', AllIsWell'
  PROVE  AllIsWell /\ PlaceSound(task[t].at) /\ \A o \in Tasks : o # t => task[o].at \notin Collecting
<1>1. AllIsWell
  BY DEF AllIsWell
<1> QED
  BY <1>1 DEF IInv, CollectInv, AllIsWell, PlaceSound, Collecting

CollectChanges(t) ==
  /\ UNCHANGED <<announced, clock, sent>>
  /\ row' \in RowType /\ row'.confirmed = row.confirmed /\ row'.claimed = row.claimed
  /\ row'.recap <= recaps' /\ recaps' \in Nat /\ pinned' \subseteq 1 .. recaps'
  /\ recaps <= recaps' /\ poll' \in {"open", "collected", "withdrawn"}
  /\ task[t].at \in Collecting \cup {"idle"}

CollectTo(t, p, m) ==
  /\ Goes(t, With(p, m))
  /\ p \in Collecting \cup {"idle"} /\ m \in Nat /\ m <= recaps'
  /\ p = "remember" => m # None

LEMMA CollectOthers ==
  ASSUME IInv, NEW t \in Tasks, CollectChanges(t), PinCounts, NEW p, NEW m, CollectTo(t, p, m)
  PROVE  /\ TypeInv' /\ ReminderInv' /\ ConfirmInv'
         /\ task'[t] = With(p, m) /\ task'[t].at = p /\ task'[t].recap = m
         /\ \A o \in Tasks : o # t => task'[o] = task[o]
<1> USE DEF IInv
<1>1. Collecting \cup {"idle"} \subseteq Places
  BY DEF Collecting, Places
<1>2. /\ task'[t] = With(p, m) /\ \A o \in Tasks : o # t => task'[o] = task[o]
      /\ task' \in [Tasks -> TaskType] /\ With(p, m).at = p /\ With(p, m).recap = m
  BY <1>1, GoesFacts, MoveType DEF With, CollectTo
<1>3. \A o \in Tasks : /\ task'[o].recap <= recaps'
                       /\ task'[o].at \in {"unpin", "forget", "remember"} => task'[o].recap # None
  <2>1. p \notin {"unpin", "forget"}
    BY DEF CollectTo, Collecting
  <2>2. \A o \in Tasks : task[o].recap \in Nat /\ task[o].recap <= recaps /\ recaps \in Nat
    BY DEF TypeInv, TaskType
  <2>3. \A o \in Tasks : task'[o].recap <= recaps'
    BY <1>2, <2>2 DEF CollectTo, CollectChanges
  <2> QED
    BY <1>2, <2>1, <2>3 DEF TypeInv, CollectTo
<1>4. TypeInv'
  BY <1>2, <1>3 DEF TypeInv, CollectChanges, PinCounts
<1>5. ReminderInv'
  BY <1>2, ReminderFrame DEF Taken, Collecting, CollectChanges, PinCounts, CollectTo
<1>6. ConfirmInv'
  BY <1>2, ConfirmFrame DEF Collecting, CollectChanges, PinCounts, CollectTo
<1> QED
  BY <1>2, <1>4, <1>5, <1>6

LEMMA CollectRecap ==
  ASSUME IInv, NEW t \in Tasks, CollectChanges(t), PinCounts, NEW p, NEW m, CollectTo(t, p, m),
         row'.recap = row.recap, UNCHANGED <<pinned, recaps>>, task[t].at # "remember"
  PROVE  RecapInv'
BY CollectOthers, RecapFrame DEF IInv, CollectChanges, CollectTo, PinCounts, Collecting

(* One column is written. *)
SameBut(c) ==
  /\ row' \in RowType /\ row'.confirmed = row.confirmed /\ row'.claimed = row.claimed
  /\ c # "closed" => row'.closed = row.closed
  /\ c # "votes" => row'.votes = row.votes
  /\ c # "recap" => row'.recap = row.recap

LEMMA ColumnFacts ==
  ASSUME TypeInv
  PROVE  /\ row' = row => \A c : SameBut(c)
         /\ \A b \in BOOLEAN : Column("closed", b) => SameBut("closed") /\ row'.closed = b
         /\ Column("deleted", TRUE) => SameBut("deleted")
         /\ Column("votes", "true") => SameBut("votes") /\ row'.votes = "true"
         /\ \A m \in Nat : Column("recap", m) => SameBut("recap") /\ row'.recap = m
<1> USE DEF TypeInv, SameBut, Column
<1>1. row' = row => \A c : SameBut(c)
  OBVIOUS
<1>2. ASSUME NEW b \in BOOLEAN, Column("closed", b) PROVE SameBut("closed") /\ row'.closed = b
  BY <1>2 DEF RowType
<1>3. ASSUME Column("deleted", TRUE) PROVE SameBut("deleted")
  BY <1>3 DEF RowType
<1>4. ASSUME Column("votes", "true") PROVE SameBut("votes") /\ row'.votes = "true"
  BY <1>4 DEF RowType
<1>5. ASSUME NEW m \in Nat, Column("recap", m) PROVE SameBut("recap") /\ row'.recap = m
  BY <1>5 DEF RowType
<1> QED
  BY <1>1, <1>2, <1>3, <1>4, <1>5

LEMMA CountsSteps ==
  ASSUME TypeInv
  PROVE  /\ ops' = ops /\ Fine => PinCounts /\ excuse' = excuse
         /\ \A kind, why : ops' = ops /\ Mishap(kind, why) => PinCounts /\ why \subseteq excuse'
BY CountsFacts DEF TypeInv, PinCounts

(* The rest of the row, the group and the pins are as they were. *)
LEMMA CollectKeeps ==
  ASSUME TypeInv, NEW t \in Tasks, NEW c, SameBut(c), c # "recap",
         task[t].at \in Collecting \cup {"idle"}, UNCHANGED <<announced, clock, sent, pinned, recaps>>,
         poll' \in {"open", "collected", "withdrawn"}
  PROVE  CollectChanges(t) /\ row'.recap = row.recap
BY DEF CollectChanges, SameBut, TypeInv

LEMMA CollectGoes ==
  ASSUME TypeInv, NEW t \in Tasks, recaps' = recaps
  PROVE  /\ \A p \in Collecting \ {"remember"} : Goes(t, At(p)) => CollectTo(t, p, None)
         /\ Goes(t, Idle) => CollectTo(t, "idle", None)
<1>1. Idle = With("idle", None) /\ \A p : At(p) = With(p, None)
  BY DEF Idle, With, At
<1> QED
  BY <1>1 DEF CollectTo, TypeInv, None

(* A collection starts on a row that says whether the poll has been read. *)
LEMMA CollectStart == ASSUME IInv, NEW t \in Tasks, Collect(t) PROVE IInv'
<1> USE DEF IInv
<1>1. /\ UNCHANGED <<row, announced, clock, poll, pinned, sent, recaps, mishaps>>
      /\ task[t] = Idle /\ ops < MaxOps /\ ops' = ops + 1 /\ excuse \subseteq excuse'
      /\ "overlap" \notin excuse' => ~Busy(Collecting)
  BY DEF Collect, StartsAt, World, Group
<1>2. \/ Goes(t, At("read")) /\ ~row.closed
      \/ Goes(t, At("deleteAgain")) /\ row.closed /\ row.votes # "none"
      \/ Goes(t, Idle)
  BY DEF Collect, StartsAt, VotesOfLastCollect
<1>3. PICK p \in {"read", "deleteAgain", "idle"} :
        /\ CollectTo(t, p, None)
        /\ p = "read" => ~row.closed
        /\ p = "deleteAgain" => row.closed /\ row.votes = "true"
  BY <1>1, <1>2, CollectGoes DEF Collecting, TypeInv, RowType
<1>4. CollectChanges(t) /\ PinCounts
  <2>1. Idle.at = "idle"
    BY DEF Idle
  <2> QED
    BY <1>1, <2>1, BoundsAreNumbers DEF CollectChanges, PinCounts, TypeInv
<1>5. TypeInv' /\ ReminderInv' /\ ConfirmInv' /\ task'[t].at = p
      /\ \A o \in Tasks : o # t => task'[o] = task[o]
  BY <1>3, <1>4, CollectOthers
<1>6. RecapInv'
  BY <1>1, <1>3, <1>4, CollectRecap DEF Idle
<1>7. ASSUME AllIsWell' PROVE PlaceSound(p)' /\ \A o \in Tasks : o # t => task[o].at \notin Collecting
  <2>1. AllIsWell /\ ~Busy(Collecting)
    BY <1>1, <1>7 DEF AllIsWell
  <2> QED
    BY <1>1, <1>3, <2>1 DEF CollectInv, AllIsWell, PlaceSound, Busy
<1>8. VotesKept' /\ row'.votes = row.votes /\ (p \in Collecting \ {"read"} => row'.votes = "true")
  BY <1>1, <1>3 DEF CollectInv, VotesKept, Collecting
<1>9. CollectInv'
  BY <1>1, <1>5, <1>7, <1>8, CollectFromPlace
<1> QED
  BY <1>5, <1>6, <1>9

(* Reading, closing and the message of the recap: what is deleted has been recorded. *)
LEMMA CollectReads ==
  ASSUME IInv, NEW t \in Tasks, ReadVotes(t) \/ LeavesPoll(t) \/ MarkClosed(t) \/ SendRecap(t)
  PROVE  IInv'
<1> USE DEF IInv
<1>1. /\ UNCHANGED <<announced, clock, poll, pinned, sent, recaps, ops>>
      /\ task[t].at \in {"read", "close", "deleteAgain", "recap"}
  BY DEF ReadVotes, LeavesPoll, MarkClosed, SendRecap, World, Group
<1>2. PICK p \in {"close", "recap", "delete", "pin", "idle"}, c \in {"votes", "closed", "none"} :
        /\ CollectTo(t, p, None) /\ SameBut(c) /\ PinCounts
        /\ row'.votes \in {row.votes, "true"} /\ row'.closed \in {row.closed, TRUE}
        /\ p = "close" => row'.votes = "true" /\ task[t].at = "read"
        /\ p = "recap" => task[t].at = "close"
        /\ p = "pin" => task[t].at = "recap"
        /\ p = "delete" => row'.closed /\ task[t].at = "close"
  <2>1. CASE ReadVotes(t)
    <3>1. \/ Column("votes", "true") /\ Goes(t, At("close")) /\ Fine
          \/ UNCHANGED row /\ Goes(t, Idle) /\ (Fine \/ Mishap("refuse", {}))
      BY <2>1 DEF ReadVotes, ReadingOf
    <3> QED
      BY <1>1, <2>1, <3>1, CollectGoes, ColumnFacts, CountsSteps DEF ReadVotes, Collecting, SameBut
  <2>2. CASE LeavesPoll(t)
    BY <1>1, <2>2, CollectGoes, ColumnFacts, CountsSteps DEF LeavesPoll, Collecting, SameBut
  <2>3. CASE MarkClosed(t)
    BY <1>1, <2>3, CollectGoes, ColumnFacts, CountsSteps DEF MarkClosed, Collecting, SameBut
  <2>4. CASE SendRecap(t)
    <3>1. /\ row' = row /\ task[t].at = "recap"
          /\ Goes(t, At("pin")) \/ Goes(t, Idle)
          /\ Fine \/ Mishap("lose", {}) \/ Mishap("refuse", {})
      BY <2>4 DEF SendRecap
    <3>2. PinCounts
      BY <1>1, <3>1, CountsSteps
    <3>3. SameBut("none")
      BY <3>1, ColumnFacts
    <3>4. CollectTo(t, "pin", None) \/ CollectTo(t, "idle", None)
      BY <1>1, <3>1, CollectGoes DEF Collecting
    <3> QED
      BY <3>1, <3>2, <3>3, <3>4
  <2> QED
    BY <2>1, <2>2, <2>3, <2>4
<1>3. CollectChanges(t) /\ row'.recap = row.recap
  BY <1>1, <1>2, CollectKeeps DEF Collecting, TypeInv
<1>4. TypeInv' /\ ReminderInv' /\ ConfirmInv' /\ task'[t].at = p
      /\ \A o \in Tasks : o # t => task'[o] = task[o]
  BY <1>2, <1>3, CollectOthers
<1>5. RecapInv'
  BY <1>1, <1>2, <1>3, CollectRecap
<1>6. ASSUME AllIsWell' PROVE PlaceSound(p)' /\ \A o \in Tasks : o # t => task[o].at \notin Collecting
  <2>1. PlaceSound(task[t].at) /\ \A o \in Tasks : o # t => task[o].at \notin Collecting
    BY <1>1, <1>2, <1>6, OnlyCollection DEF Collecting, PinCounts
  <2> QED
    BY <1>1, <1>2, <2>1 DEF PlaceSound
<1>7. VotesKept' /\ (p \in Collecting \ {"read"} => row'.votes = "true")
  BY <1>1, <1>2 DEF CollectInv, VotesKept, Collecting
<1>8. CollectInv'
  BY <1>2, <1>4, <1>6, <1>7, CollectFromPlace DEF PinCounts
<1> QED
  BY <1>4, <1>5, <1>8

(* Deleting the poll, and taking the mark back when it is still there. *)
LEMMA CollectDeletes ==
  ASSUME IInv, NEW t \in Tasks, DeletePoll(t) \/ Unmark(t) \/ Note(t)
  PROVE  IInv'
<1> USE DEF IInv
<1>1. /\ UNCHANGED <<announced, clock, pinned, sent, recaps, ops>> /\ poll' \in {poll, "collected"}
      /\ task[t].at \in {"delete", "deleteAgain", "unmark", "note", "noteAgain"}
  BY DEF DeletePoll, Unmark, Note, Writes, World, Group
<1>2. PICK p \in {"note", "noteAgain", "unmark", "recap", "idle"}, c \in {"closed", "deleted", "none"} :
        /\ CollectTo(t, p, None) /\ SameBut(c) /\ PinCounts
        /\ row'.votes = row.votes
        /\ row'.closed = row.closed \/ (task[t].at = "unmark" /\ poll' = poll)
        /\ poll' = poll \/ task[t].at \in {"delete", "deleteAgain"}
        /\ poll' = poll \/ p # "unmark" \/ "lost" \in excuse'
        /\ p = "unmark" => task[t].at = "delete"
        /\ p \in {"note", "noteAgain"} => task[t].at \in {"delete", "deleteAgain"}
  <2>1. CASE DeletePoll(t)
    <3>1. /\ row' = row /\ task[t].at \in {"delete", "deleteAgain"}
          /\ \/ Goes(t, Answered(t)) /\ Fine
             \/ Goes(t, Unanswered(t)) /\ Mishap("lose", {"lost"})
             \/ poll' = poll /\ Goes(t, Unanswered(t)) /\ (Mishap("refuse", {}) \/ Fine)
      BY <2>1 DEF DeletePoll
    <3>2. /\ Goes(t, Answered(t)) => Goes(t, At("note")) \/ Goes(t, At("noteAgain"))
          /\ Goes(t, Unanswered(t)) => (task[t].at = "delete" /\ Goes(t, At("unmark"))) \/ Goes(t, Idle)
      BY DEF Answered, Unanswered
    <3>3. PinCounts /\ (Mishap("lose", {"lost"}) => "lost" \in excuse')
      BY <1>1, <3>1, CountsSteps
    <3>4. SameBut("none") /\ row'.votes = row.votes /\ row'.closed = row.closed
      BY <3>1, ColumnFacts
    <3>5. CASE Goes(t, Answered(t))
      <4>1. CollectTo(t, "note", None) \/ CollectTo(t, "noteAgain", None)
        BY <1>1, <3>2, <3>5, CollectGoes DEF Collecting
      <4> QED
        BY <1>1, <3>1, <3>3, <3>4, <4>1
    <3>6. CASE Goes(t, Unanswered(t)) /\ (poll' = poll \/ "lost" \in excuse')
      <4>1. (task[t].at = "delete" /\ CollectTo(t, "unmark", None)) \/ CollectTo(t, "idle", None)
        BY <1>1, <3>2, <3>6, CollectGoes DEF Collecting
      <4> QED
        BY <1>1, <3>1, <3>3, <3>4, <3>6, <4>1
    <3> QED
      BY <3>1, <3>3, <3>5, <3>6
  <2>2. CASE Unmark(t)
    <3>1. /\ (Column("closed", FALSE) /\ Fine) \/ (row' = row /\ Mishap("db", {"db"}))
          /\ task[t].at = "unmark" /\ Goes(t, At("recap")) /\ poll' = poll
      BY <2>2 DEF Unmark, Writes, Group
    <3> QED
      BY <1>1, <3>1, CollectGoes, ColumnFacts, CountsSteps DEF Collecting, SameBut
  <2>3. CASE Note(t)
    <3>1. /\ (Column("deleted", TRUE) /\ Fine) \/ (row' = row /\ Mishap("db", {"db"}))
          /\ Goes(t, At("recap")) \/ Goes(t, Idle)
          /\ poll' = poll
      BY <2>3 DEF Note, Writes, Group
    <3> QED
      BY <1>1, <3>1, CollectGoes, ColumnFacts, CountsSteps DEF Collecting, SameBut
  <2> QED
    BY <2>1, <2>2, <2>3
<1>3. CollectChanges(t) /\ row'.recap = row.recap
  BY <1>1, <1>2, CollectKeeps DEF Collecting, TypeInv
<1>4. TypeInv' /\ ReminderInv' /\ ConfirmInv' /\ task'[t].at = p
      /\ \A o \in Tasks : o # t => task'[o] = task[o]
  BY <1>2, <1>3, CollectOthers
<1>5. RecapInv'
  BY <1>1, <1>2, <1>3, CollectRecap
<1>6. ASSUME AllIsWell' PROVE PlaceSound(p)' /\ \A o \in Tasks : o # t => task[o].at \notin Collecting
  <2>1. PlaceSound(task[t].at) /\ \A o \in Tasks : o # t => task[o].at \notin Collecting
    BY <1>1, <1>2, <1>6, OnlyCollection DEF Collecting, PinCounts
  <2>2. "lost" \notin excuse'
    BY <1>6 DEF AllIsWell
  <2> QED
    BY <1>1, <1>2, <2>1, <2>2 DEF PlaceSound
<1>7. VotesKept' /\ (p \in Collecting \ {"read"} => row'.votes = "true")
  BY <1>1, <1>2 DEF CollectInv, VotesKept, Collecting
<1>8. CollectInv'
  BY <1>2, <1>4, <1>6, <1>7, CollectFromPlace DEF PinCounts
<1> QED
  BY <1>4, <1>5, <1>8

(* The recap, pinned then remembered. *)
LEMMA CollectTells == ASSUME IInv, NEW t \in Tasks, PinRecap(t) \/ Remember(t) PROVE IInv'
<1> USE DEF IInv
<1>1. /\ UNCHANGED <<announced, clock, poll, sent, ops>> /\ task[t].at \in {"pin", "remember"}
      /\ row'.votes = row.votes /\ row'.closed = row.closed
  <2>1. task[t].recap \in Nat
    BY DEF TypeInv, TaskType
  <2> QED
    BY <2>1, ColumnFacts DEF PinRecap, Remember, Writes, World, Group, SameBut
<1>2. PICK p \in {"remember", "idle"}, m \in Nat :
        /\ CollectTo(t, p, m) /\ CollectChanges(t) /\ PinCounts
        /\ \/ p = "remember" /\ m = recaps + 1 /\ recaps' = m /\ row' = row /\ pinned' = pinned \cup {m}
           \/ /\ p = "idle" /\ recaps' = recaps + 1 /\ row' = row /\ pinned' = pinned \cup {recaps + 1}
              /\ "pin" \in excuse'
           \/ UNCHANGED <<recaps, pinned>> /\ p = "idle" /\ task[t].at = "pin" /\ row' = row
           \/ /\ UNCHANGED <<recaps, pinned>> /\ p = "idle" /\ task[t].at = "remember"
              /\ row'.recap = task[t].recap \/ "db" \in excuse'
  <2>1. recaps \in Nat /\ recaps + 1 \in Nat /\ recaps + 1 # None /\ None \in Nat
    BY DEF TypeInv, None
  <2>2. CASE PinRecap(t)
    <3>1. /\ row' = row /\ task[t].at = "pin"
          /\ \/ /\ recaps' = recaps + 1 /\ pinned' = pinned \cup {recaps + 1} /\ Fine
                /\ Goes(t, With("remember", recaps + 1))
             \/ /\ recaps' = recaps + 1 /\ pinned' = pinned \cup {recaps + 1} /\ Goes(t, Idle)
                /\ Mishap("lose", {"pin"})
             \/ UNCHANGED <<recaps, pinned>> /\ Mishap("refuse", {}) /\ Goes(t, Idle)
      BY <2>2 DEF PinRecap
    <3>2. PinCounts /\ (Mishap("lose", {"pin"}) => "pin" \in excuse')
      BY <1>1, <3>1, CountsSteps
    <3>3. CollectChanges(t)
      <4>1. pinned \subseteq 1 .. recaps /\ row \in RowType /\ row.recap \in Nat /\ row.recap <= recaps
        BY DEF TypeInv, RowType
      <4>2. recaps' \in {recaps, recaps + 1} /\ pinned' \subseteq 1 .. recaps'
        <5>1. pinned \subseteq 1 .. recaps + 1 /\ {recaps + 1} \subseteq 1 .. recaps + 1
          BY <2>1, <4>1
        <5> QED
          BY <3>1, <4>1, <5>1
      <4>3. row.recap <= recaps' /\ recaps' \in Nat /\ recaps <= recaps'
        BY <2>1, <4>1, <4>2
      <4>4. poll' \in {"open", "collected", "withdrawn"}
        BY <1>1 DEF TypeInv
      <4> QED
        BY <1>1, <3>1, <4>1, <4>2, <4>3, <4>4 DEF CollectChanges, Collecting
    <3>4. CASE recaps' = recaps + 1 /\ pinned' = pinned \cup {recaps + 1} /\ Goes(t, With("remember", recaps + 1))
      BY <2>1, <3>1, <3>2, <3>3, <3>4 DEF CollectTo, Collecting
    <3>5. CASE UNCHANGED <<recaps, pinned>> /\ Goes(t, Idle)
      BY <2>1, <3>1, <3>2, <3>3, <3>5, CollectGoes
    <3>6. CASE /\ recaps' = recaps + 1 /\ pinned' = pinned \cup {recaps + 1} /\ Goes(t, Idle)
               /\ Mishap("lose", {"pin"})
      <4>1. Idle = With("idle", 0)
        BY DEF Idle, With, None
      <4>2. CollectTo(t, "idle", 0)
        BY <2>1, <3>6, <4>1 DEF CollectTo
      <4> QED
        BY <2>1, <3>1, <3>2, <3>3, <3>6, <4>2
    <3> QED
      BY <3>1, <3>4, <3>5, <3>6
  <2>3. CASE Remember(t)
    <3>1. /\ UNCHANGED <<recaps, pinned>> /\ task[t].at = "remember" /\ Goes(t, Idle)
          /\ (Column("recap", task[t].recap) /\ Fine) \/ (row' = row /\ Mishap("db", {"db"}))
      BY <2>3 DEF Remember, Writes, Group
    <3>2. PinCounts /\ (Mishap("db", {"db"}) => "db" \in excuse')
      BY <1>1, <3>1, CountsSteps
    <3>3. task[t].recap \in Nat /\ task[t].recap <= recaps
      BY DEF TypeInv, TaskType
    <3>4. SameBut("recap") /\ (row'.recap = task[t].recap \/ (row' = row /\ "db" \in excuse'))
      BY <3>1, <3>2, <3>3, ColumnFacts
    <3>5. CollectChanges(t)
      BY <1>1, <2>1, <3>1, <3>3, <3>4 DEF CollectChanges, TypeInv, Collecting, SameBut
    <3> QED
      BY <2>1, <3>1, <3>2, <3>4, <3>5, CollectGoes
  <2> QED
    BY <2>2, <2>3
<1>3. TypeInv' /\ ReminderInv' /\ ConfirmInv' /\ task'[t] = With(p, m) /\ task'[t].at = p
      /\ \A o \in Tasks : o # t => task'[o] = task[o]
  BY <1>2, CollectOthers
<1>4. CollectInv'
  <2>1. ASSUME AllIsWell' PROVE PlaceSound(p)' /\ \A o \in Tasks : o # t => task[o].at \notin Collecting
    <3>1. PlaceSound(task[t].at) /\ \A o \in Tasks : o # t => task[o].at \notin Collecting
      BY <1>1, <1>2, <2>1, OnlyCollection DEF Collecting, PinCounts
    <3> QED
      BY <1>1, <3>1 DEF PlaceSound
  <2>2. VotesKept' /\ row'.votes = "true"
    BY <1>1 DEF CollectInv, VotesKept, Collecting
  <2> QED
    BY <1>2, <1>3, <2>1, <2>2, CollectFromPlace DEF PinCounts
<1>5. IsStale' = IsStale
  BY <1>1 DEF IsStale
<1>6. \A o \in Tasks : task'[o].at = "forget" => IsStale' \/ task'[o].recap \notin pinned'
  <2> SUFFICES ASSUME NEW o \in Tasks, task'[o].at = "forget", ~IsStale
               PROVE  task'[o].recap \notin pinned'
    BY <1>5
  <2>1. o # t /\ task'[o] = task[o]
    BY <1>2, <1>3
  <2>2. task[o].recap \notin pinned /\ task[o].recap <= recaps /\ task[o].recap \in Nat
    BY <2>1 DEF RecapInv, TypeInv, TaskType
  <2> QED
    BY <1>2, <2>1, <2>2 DEF TypeInv
<1>7. RecapTracked'
  <2> SUFFICES ASSUME NEW n \in pinned', ~IsStale, excuse' \cap {"pin", "crash", "db"} = {}, recaps' <= 1
               PROVE  row'.recap = n \/ \E o \in Tasks : task'[o] = With("remember", n)
    BY <1>2, <1>3, <1>5 DEF RecapTracked, TypeInv
  <2>1. n = 1 /\ recaps \in Nat
    BY <1>3 DEF TypeInv
  <2>2. CASE p = "remember" /\ m = recaps + 1 /\ recaps' = m
    BY <1>3, <2>1, <2>2
  <2>3. CASE UNCHANGED <<recaps, pinned>> /\ task[t].at = "pin" /\ row' = row
    <3>1. row.recap = n \/ \E o \in Tasks : task[o] = With("remember", n)
      BY <1>2, <2>1, <2>3 DEF RecapInv, RecapTracked, PinCounts
    <3>2. \A o \in Tasks : task[o] = With("remember", n) => task'[o] = task[o]
      BY <1>3, <2>3 DEF With
    <3> QED
      BY <2>3, <3>1, <3>2
  <2>4. CASE UNCHANGED <<recaps, pinned>> /\ task[t].at = "remember" /\ row'.recap = task[t].recap
    BY <2>1, <2>4 DEF TypeInv, TaskType, None
  <2> QED
    BY <1>2, <2>2, <2>3, <2>4
<1> QED
  BY <1>3, <1>4, <1>6, <1>7 DEF RecapInv

-----------------------------------------------------------------------------
(* Time, the announcement, a restart.                                         *)

LEMMA OutsideInv == IInv /\ (Announced \/ Advance \/ Crash) => IInv'
<1> SUFFICES ASSUME IInv, Announced \/ Advance \/ Crash PROVE IInv'
  OBVIOUS
<1> USE DEF IInv
<1>1. /\ UNCHANGED <<row, poll, pinned, sent, recaps, ops>> /\ excuse \subseteq excuse'
      /\ task' = task \/ task' = [t \in Tasks |-> Idle]
  BY CountsFacts DEF Announced, Advance, Crash, World, Group
<1>2. announced' \in BOOLEAN
  BY Zenon DEF Announced, Advance, Crash, World, TypeInv
<1>3. clock' \in 1 .. 5 /\ (IsStale => IsStale')
  <2>1. Len(Times) = 5
    BY DEF Times
  <2> QED
    BY <2>1, StaleIs DEF Announced, Advance, Crash, World, TypeInv, IsStale
<1>4. mishaps' \in 0 .. MaxMishaps
  BY CountsFacts DEF Announced, Advance, Crash, TypeInv
<1>5. Idle.at = "idle" /\ Idle.recap = 0 /\ Idle \in TaskType
  BY MoveType DEF Idle, None
<1>6. \A t \in Tasks : task'[t] = task[t] \/ task'[t] = Idle
  BY <1>1
<1>7. TypeInv'
  <2>1. task' \in [Tasks -> TaskType]
    BY <1>1, <1>5 DEF TypeInv
  <2>2. \A t \in Tasks : /\ task'[t].recap <= recaps
                         /\ task'[t].at \in {"unpin", "forget", "remember"} => task'[t].recap # None
    BY <1>5, <1>6 DEF TypeInv
  <2> QED
    BY <1>1, <1>2, <1>3, <1>4, <2>1, <2>2 DEF TypeInv
<1>8. CollectInv'
  BY <1>1, <1>5, <1>6, CollectFrame DEF Collecting
<1>9. task' = task \/ "crash" \in excuse'
  <2>1. CASE Crash
    <3>1. (\A t \in Tasks : task[t] = Idle) \/ Mishap("crash", {"crash"})
      BY <2>1 DEF Crash
    <3>2. (\A t \in Tasks : task[t] = Idle) => task' = task
      BY <2>1 DEF Crash, TypeInv
    <3> QED
      BY <3>1, <3>2, CountsFacts
  <2> QED
    BY <2>1 DEF Announced, Advance
<1>10. ReminderInv'
  <2>1. CASE task' = task
    BY <1>1, <2>1, ReminderFrame
  <2>2. CASE "crash" \in excuse'
    <3>1. ClaimMeansSent'
      BY <2>2 DEF ClaimMeansSent
    <3> QED
      BY <1>1, <1>5, <1>6, <3>1 DEF ReminderInv, Taken
  <2> QED
    BY <1>9, <2>1, <2>2
<1>11. ConfirmInv'
  <2>1. CASE task' = task
    BY <1>1, <2>1, ConfirmFrame
  <2>2. CASE "crash" \in excuse'
    BY <2>2 DEF ConfirmInv
  <2> QED
    BY <1>9, <2>1, <2>2
<1>12. RecapInv'
  <2>1. \A t \in Tasks : task'[t].at = "forget" => IsStale' \/ task'[t].recap \notin pinned'
    BY <1>1, <1>3, <1>5, <1>6 DEF RecapInv
  <2>2. RecapTracked'
    BY <1>1, <1>3, <1>9 DEF RecapInv, RecapTracked
  <2> QED
    BY <2>1, <2>2 DEF RecapInv
<1> QED
  BY <1>7, <1>8, <1>10, <1>11, <1>12

LEMMA NextInv == IInv /\ [Next]_vars => IInv'
<1> SUFFICES ASSUME IInv, [Next]_vars PROVE IInv'
  OBVIOUS
<1>1. CASE UNCHANGED vars
  <2>1. TypeInv'
    BY <1>1 DEF vars, IInv, TypeInv
  <2>2. (ReminderInv /\ ConfirmInv)'
    BY <1>1 DEF vars, IInv, ReminderInv, ConfirmInv, ClaimMeansSent, Busy
  <2>3. (CollectInv /\ RecapInv)'
    BY <1>1 DEF vars, IInv, CollectInv, VotesKept, RecapInv, RecapTracked, IsStale
  <2> QED
    BY <2>1, <2>2, <2>3 DEF IInv
<1>2. CASE Announced \/ Advance \/ Crash
  BY <1>2, OutsideInv
<1>3. ASSUME NEW t \in Tasks,
             \/ ReminderStep(t) \/ ConfirmStep(t) \/ PinStep(t) \/ CollectStep(t)
      PROVE  IInv'
  BY <1>3, ReminderStepInv, ConfirmStepInv, PinStepInv, CollectStart, CollectReads, CollectDeletes,
     CollectTells DEF CollectStep
<1>4. ASSUME NEW t \in Tasks, Step(t) \/ Remind(t) \/ UnpinTick(t) \/ Confirm(t) \/ NextPoll(t)
                              \/ Collect(t) \/ Cancel(t)
      PROVE  IInv'
  BY <1>3, <1>4 DEF Step, ReminderStep, ConfirmStep, PinStep, CollectStep
<1> QED
  BY <1>1, <1>2, <1>4 DEF Next

-----------------------------------------------------------------------------

(* Reminder and confirmation reach the group once, and a reminder taken is a reminder
   sent, for any number of ticks, pods and requests that overlap: SentOnce of the run
   (startReminder.ts and its claim in jobRuns.ts, scheduler.ts). *)
THEOREM MessagesOnce == Spec => []SentOnce
<1>1. Init => IInv
  BY InitInv
<1>2. IInv /\ [Next]_vars => IInv'
  BY NextInv
<1>3. IInv => SentOnce
  BY InvGivesParts
<1> QED
  BY <1>1, <1>2, <1>3, PTL DEF Spec

(* No collection loses a vote with its poll, the mark of a deleted poll or a pin, for any
   number of tasks: CollectionSound of the run (collectVotes.ts, recapUnpin.ts,
   pinning.ts). *)
THEOREM CollectionKeeps == Spec => []CollectionSound
<1>1. Init => IInv
  BY InitInv
<1>2. IInv /\ [Next]_vars => IInv'
  BY NextInv
<1>3. IInv => CollectionSound
  BY InvGivesParts
<1> QED
  BY <1>1, <1>2, <1>3, PTL DEF Spec
=============================================================================
