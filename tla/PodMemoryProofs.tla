-------------------------- MODULE PodMemoryProofs --------------------------
(***************************************************************************)
(* Theorems about what the pods keep in memory: the offset of Telegram, with *)
(* the waits that share it (TelegramGo), the tasks and timers of the crons   *)
(* (CronRegistry), the event being relayed and the copies of the listener    *)
(* (Listener).  They hold for any number of waits, messages and faults, for  *)
(* any valid rule, horizon, number of edits, reloads and restarts, for any   *)
(* groups, events and failures.                                             *)
(***************************************************************************)
EXTENDS TelegramGo, CronRegistry, Listener, WellFoundedInduction, FiniteSetTheorems,
        SequenceTheorems, TLAPS

-----------------------------------------------------------------------------
(* The offset of Telegram.                                                  *)

WaitType == [Waits -> [pc : {"idle", "ready", "asked", "replied"}, from : Nat, upto : Nat,
                       old : SUBSET Ids]]

\* A reply begins at an update that Telegram kept when it was sent and ends in the
\* chat, and all that lies before what Telegram keeps, or before the offset, has
\* been looked at.  The offset itself may go back.
OffsetInv ==
  /\ \A w \in Waits : wait[w].pc = "replied" =>
       wait[w].from \in 1..kept /\ wait[w].upto \in wait[w].from..(Len(sent) + 1)
  /\ \A m \in Ids : m < kept \/ m < offset => m \in heard

\* As long as the waits come one after the other, the offset does not go back: it is
\* past every "go" that was spent, and no request or reply in flight is behind it.
SpentInv ==
  /\ \A w \in Waits : wait[w].old \subseteq spent
  /\ ~mixed =>
       /\ \A v, w \in Waits : wait[v].pc # "idle" /\ wait[w].pc # "idle" => v = w
       /\ \A m \in spent : m < offset
       /\ \A w \in Waits : /\ wait[w].pc = "asked" => offset <= kept
                           /\ wait[w].pc = "replied" => offset <= wait[w].from

GoInv == GoTypeOK /\ OffsetInv /\ SpentInv

\* At first nothing is written, kept, looked at or spent.
LEMMA GoInitInv == ConstantsAssumption /\ GoInit => GoInv
<1> SUFFICES ASSUME ConstantsAssumption, GoInit PROVE GoInv
  OBVIOUS
<1>1. GoTypeOK
  <2>1. sent \in Seq({"go", "other"}) /\ Len(sent) = 0
    BY DEF GoInit
  <2>2. wait \in WaitType
    BY DEF GoInit, NoWait, WaitType
  <2>3. used \in [waits : Nat, faults : Nat]
    BY DEF GoInit
  <2>4. kept = 1 /\ offset = 0 /\ heard \subseteq Ids /\ spent \subseteq Ids
    BY DEF GoInit
  <2>5. mixed \in BOOLEAN /\ MaxMessages \in Nat
    BY DEF GoInit, ConstantsAssumption
  <2>6. Len(sent) <= MaxMessages /\ kept \in 1..(Len(sent) + 1) /\ offset \in 0..(Len(sent) + 1)
    BY <2>1, <2>4, <2>5
  <2>7. QED BY <2>1, <2>2, <2>3, <2>4, <2>5, <2>6 DEF GoTypeOK, WaitType
<1>2. OffsetInv
  BY DEF GoInit, OffsetInv, NoWait, Ids
<1>3. SpentInv
  BY DEF GoInit, SpentInv, NoWait
<1>4. QED BY <1>1, <1>2, <1>3 DEF GoInv

\* Setting a wait changes that wait only.
LEMMA SetFacts ==
  ASSUME GoTypeOK, NEW w \in Waits, NEW r, Set(w, r)
  PROVE  wait'[w] = r /\ \A v \in Waits \ {w} : wait'[v] = wait[v]
BY DEF GoTypeOK, Set

\* A wait that is set to a well-typed record leaves all of them well typed.
LEMMA SetType ==
  ASSUME GoTypeOK, NEW w \in Waits, NEW old \in SUBSET Ids, NEW from \in Nat, NEW upto \in Nat,
         NEW pc \in {"idle", "ready", "asked", "replied"},
         Set(w, [pc |-> pc, from |-> from, upto |-> upto, old |-> old])
  PROVE  wait' \in WaitType
BY DEF GoTypeOK, Set, WaitType

\* The parts of a well-typed wait.
LEMMA Parts ==
  ASSUME GoTypeOK, NEW w \in Waits
  PROVE  wait[w].from \in Nat /\ wait[w].upto \in Nat /\ wait[w].old \in SUBSET Ids
BY DEF GoTypeOK

\* A wait that has asked.
LEMMA AskedRecord ==
  ASSUME GoTypeOK, NEW w \in Waits
  PROVE  [wait[w] EXCEPT !.pc = "asked"]
           = [pc |-> "asked", from |-> wait[w].from, upto |-> wait[w].upto, old |-> wait[w].old]
BY DEF GoTypeOK

\* A wait that ends touches nothing but itself.
LEMMA EndInv ==
  ASSUME GoInv, NEW w \in Waits, Set(w, NoWait), UNCHANGED <<sent, kept, offset, heard, spent, mixed>>,
         used' \in [waits : Nat, faults : Nat]
  PROVE  GoInv'
<1>1. wait'[w] = NoWait /\ \A v \in Waits \ {w} : wait'[v] = wait[v]
  BY SetFacts DEF GoInv
<1>2. wait' \in WaitType
  BY SetType DEF GoInv, NoWait
<1>3. GoTypeOK'
  BY <1>2 DEF GoInv, GoTypeOK, WaitType
<1>4. OffsetInv'
  BY <1>1 DEF NoWait, GoInv, OffsetInv
<1>5. SpentInv'
  BY <1>1 DEF NoWait, GoInv, SpentInv
<1>6. QED BY <1>3, <1>4, <1>5 DEF GoInv

\* A wait that begins: were another one pending, the two would be mixed.
LEMMA StartInv ==
  ASSUME GoInv, NEW w \in Waits, StartWait(w)
  PROVE  GoInv'
<1>1. wait'[w] = [pc |-> "ready", from |-> 0, upto |-> 0, old |-> spent]
      /\ \A v \in Waits \ {w} : wait'[v] = wait[v]
  BY SetFacts DEF StartWait, GoInv, Ready
<1>2. wait' \in WaitType
  <2>1. Set(w, [pc |-> "ready", from |-> 0, upto |-> 0, old |-> spent]) /\ spent \in SUBSET Ids
    BY DEF StartWait, GoInv, GoTypeOK, Ready
  <2>2. QED BY <2>1, SetType DEF GoInv
<1>3. mixed' \in BOOLEAN /\ (~mixed' => ~mixed /\ \A v \in Waits : wait[v].pc = "idle")
  BY DEF StartWait
<1>4. UNCHANGED <<sent, kept, offset, heard, spent>> /\ used' \in [waits : Nat, faults : Nat]
  BY DEF StartWait, GoInv, GoTypeOK
<1>5. GoTypeOK'
  BY <1>2, <1>3, <1>4 DEF GoInv, GoTypeOK, WaitType
<1>6. OffsetInv'
  BY <1>1, <1>4 DEF GoInv, OffsetInv
<1>7. SpentInv'
  BY <1>1, <1>3, <1>4 DEF GoInv, SpentInv
<1>8. QED BY <1>5, <1>6, <1>7 DEF GoInv

\* A request moves what Telegram keeps to the offset at most: all before it has
\* been looked at.
LEMMA AskInv ==
  ASSUME GoInv, NEW w \in Waits, Ask(w)
  PROVE  GoInv'
<1>1. wait'[w] = [pc |-> "asked", from |-> wait[w].from, upto |-> wait[w].upto, old |-> wait[w].old]
      /\ \A v \in Waits \ {w} : wait'[v] = wait[v]
  BY SetFacts, AskedRecord DEF Ask, GoInv
<1>2. wait' \in WaitType
  <2>1. Set(w, [pc |-> "asked", from |-> wait[w].from, upto |-> wait[w].upto, old |-> wait[w].old])
    BY AskedRecord DEF Ask, GoInv
  <2>2. QED BY <2>1, SetType, Parts DEF GoInv
<1>3. UNCHANGED <<sent, offset, heard, spent, mixed, used>> /\ wait[w].pc = "ready"
  BY DEF Ask
<1>4. Len(sent) \in Nat /\ kept \in 1..(Len(sent) + 1) /\ offset \in 0..(Len(sent) + 1)
  BY DEF GoInv, GoTypeOK
<1>5. /\ kept' \in 1..(Len(sent) + 1) /\ kept <= kept' /\ offset <= kept'
      /\ kept' = kept \/ kept' = offset
  BY <1>4 DEF Ask
<1>6. GoTypeOK'
  BY <1>2, <1>3, <1>5 DEF GoInv, GoTypeOK, WaitType
<1>7. \A v \in Waits : wait'[v].pc = "replied" =>
        wait'[v].from \in 1..kept' /\ wait'[v].upto \in wait'[v].from..(Len(sent') + 1)
  BY <1>1, <1>3, <1>4, <1>5, AskedRecord, Parts DEF GoInv, OffsetInv
<1>8. OffsetInv'
  BY <1>3, <1>5, <1>7 DEF GoInv, OffsetInv
<1>9. SpentInv'
  BY <1>1, <1>3, <1>4, <1>5 DEF GoInv, SpentInv
<1>10. QED BY <1>6, <1>8, <1>9 DEF GoInv

\* A reply is all that Telegram keeps.
LEMMA ReplyInv ==
  ASSUME GoInv, NEW w \in Waits, Reply(w)
  PROVE  GoInv'
<1>1. wait'[w] = [pc |-> "replied", from |-> kept, upto |-> Len(sent) + 1, old |-> wait[w].old]
      /\ \A v \in Waits \ {w} : wait'[v] = wait[v]
  BY SetFacts DEF Reply, GoInv
<1>2. Len(sent) \in Nat /\ kept \in 1..(Len(sent) + 1) /\ offset \in 0..(Len(sent) + 1)
  BY DEF GoInv, GoTypeOK
<1>3. wait' \in WaitType
  <2>1. Len(sent) + 1 \in Nat /\ kept \in Nat
    BY <1>2
  <2>2. Set(w, [pc |-> "replied", from |-> kept, upto |-> Len(sent) + 1, old |-> wait[w].old])
    BY DEF Reply
  <2>3. QED BY <2>1, <2>2, SetType, Parts DEF GoInv
<1>4. UNCHANGED <<sent, kept, offset, heard, spent, mixed, used>> /\ wait[w].pc = "asked"
  BY DEF Reply
<1>5. GoTypeOK'
  BY <1>3, <1>4 DEF GoInv, GoTypeOK, WaitType
<1>6. OffsetInv'
  BY <1>1, <1>2, <1>4 DEF GoInv, OffsetInv
<1>7. SpentInv'
  BY <1>1, <1>2, <1>4 DEF GoInv, SpentInv
<1>8. QED BY <1>5, <1>6, <1>7 DEF GoInv

\* The loop over a reply looks at a contiguous piece of the chat that begins where
\* all has been looked at, and puts the offset at its end.
LEMMA HandleInv ==
  ASSUME ConstantsAssumption, GoInv, NEW w \in Waits, Handle(w)
  PROVE  GoInv'
<1> DEFINE r == wait[w]
<1>1. PICK s \in r.from..r.upto :
        /\ heard' = heard \cup LookedAt(r, s)
        /\ offset' = OffsetAfter(r, s)
        /\ spent' = IF s < r.upto THEN spent \cup {s} ELSE spent
        /\ Set(w, IF s < r.upto THEN NoWait ELSE Ready(r.old))
  BY DEF Handle
<1>2. r.pc = "replied" /\ UNCHANGED <<sent, kept, mixed, used>>
  BY DEF Handle
<1>3. /\ r.from \in 1..kept /\ r.upto \in r.from..(Len(sent) + 1) /\ r.old \in SUBSET Ids
      /\ kept \in Nat /\ offset \in 0..(Len(sent) + 1) /\ Len(sent) \in Nat /\ s \in Nat
      /\ Len(sent) <= MaxMessages /\ MaxMessages \in Nat
  BY <1>2, Parts DEF GoInv, GoTypeOK, OffsetInv, ConstantsAssumption
<1>4. PICK pc \in {"idle", "ready"}, old \in SUBSET r.old :
        Set(w, [pc |-> pc, from |-> 0, upto |-> 0, old |-> old])
  BY <1>1, <1>3 DEF NoWait, Ready
<1>5. wait' \in WaitType /\ \A v \in Waits \ {w} : wait'[v] = wait[v]
  BY <1>3, <1>4, SetType, SetFacts DEF GoInv
<1>6. wait'[w].pc \in {"idle", "ready"} /\ wait'[w].old \subseteq r.old
  BY <1>4, SetFacts DEF GoInv
<1>7. /\ offset' \in 0..(Len(sent) + 1)
      /\ offset' = offset \/ (r.from <= offset' /\ \A m \in r.from..(offset' - 1) : m \in LookedAt(r, s))
      /\ s < r.upto => offset' = s + 1
      /\ offset <= r.from => offset <= offset'
  BY <1>1, <1>3 DEF OffsetAfter, LookedAt
<1>8. LookedAt(r, s) \subseteq Ids /\ spent \subseteq Ids /\ spent' \subseteq Ids
  BY <1>1, <1>3 DEF LookedAt, Ids, GoInv, GoTypeOK
<1>9. GoTypeOK'
  BY <1>1, <1>2, <1>5, <1>7, <1>8 DEF GoInv, GoTypeOK, WaitType
<1>10. OffsetInv'
  <2>1. \A m \in Ids : m < kept \/ m < offset' => m \in heard'
    <3> SUFFICES ASSUME NEW m \in Ids, m < kept \/ m < offset'
                 PROVE  m \in heard \/ m \in LookedAt(r, s)
      BY <1>1
    <3>1. CASE m < kept \/ m < offset
      BY <3>1 DEF GoInv, OffsetInv
    <3>2. CASE ~(m < kept) /\ ~(m < offset)
      <4>1. m \in Nat /\ offset' \in Nat /\ m < offset' /\ offset' # offset /\ r.from <= m
        BY <3>2, <1>3, <1>7 DEF Ids
      <4>2. m \in r.from..(offset' - 1)
        BY <4>1, <1>3
      <4>3. QED BY <4>1, <4>2, <1>7
    <3>3. QED BY <3>1, <3>2
  <2>2. QED BY <1>2, <1>5, <1>6, <2>1 DEF GoInv, OffsetInv
<1>11. SpentInv'
  <2>1. spent \subseteq spent'
    BY <1>1
  <2>2. ASSUME ~mixed
        PROVE  offset <= r.from /\ \A v \in Waits \ {w} : wait[v].pc = "idle"
    BY <1>2, <2>2 DEF GoInv, SpentInv
  <2>3. ASSUME ~mixed PROVE \A m \in spent' : m < offset'
    BY <1>1, <1>3, <1>7, <1>8, <2>2, <2>3 DEF GoInv, SpentInv, Ids
  <2>4. \A v \in Waits : wait'[v].old \subseteq spent'
    BY <1>5, <1>6, <2>1 DEF GoInv, SpentInv
  <2>5. QED BY <1>2, <1>5, <1>6, <2>2, <2>3, <2>4 DEF SpentInv
<1>12. QED BY <1>9, <1>10, <1>11 DEF GoInv

\* Every step keeps the invariant.
LEMMA GoStepInv == ConstantsAssumption /\ GoInv /\ [GoNext]_goVars => GoInv'
<1> SUFFICES ASSUME ConstantsAssumption, GoInv, [GoNext]_goVars PROVE GoInv'
  OBVIOUS
<1>1. CASE Write
  <2>1. PICK text \in {"go", "other"} : sent' = Append(sent, text)
    BY <1>1 DEF Write
  <2>2. sent' \in Seq({"go", "other"}) /\ Len(sent') = Len(sent) + 1 /\ Len(sent) \in Nat
    BY <2>1 DEF GoInv, GoTypeOK
  <2>3. UNCHANGED <<kept, offset, wait, heard, spent, mixed, used>> /\ Len(sent) < MaxMessages
    BY <1>1 DEF Write
  <2>4. GoTypeOK'
    BY <2>2, <2>3 DEF GoInv, GoTypeOK, ConstantsAssumption
  <2>5. OffsetInv' /\ SpentInv'
    BY <2>2, <2>3, Parts DEF GoInv, OffsetInv, SpentInv
  <2>6. QED BY <2>4, <2>5 DEF GoInv
<1>2. CASE Restart
  <2>1. wait' \in WaitType /\ \A v \in Waits : wait'[v] = NoWait
    BY <1>2 DEF Restart, WaitType, NoWait
  <2>2. offset' = 0 /\ mixed' = TRUE /\ UNCHANGED <<sent, kept, heard, spent>>
        /\ used' \in [waits : Nat, faults : Nat]
    BY <1>2 DEF Restart, Fault, GoInv, GoTypeOK
  <2>3. GoTypeOK'
    BY <2>1, <2>2 DEF GoInv, GoTypeOK, WaitType
  <2>4. OffsetInv'
    BY <2>1, <2>2 DEF NoWait, GoInv, GoTypeOK, OffsetInv, Ids
  <2>5. SpentInv'
    BY <2>1, <2>2 DEF NoWait, SpentInv
  <2>6. QED BY <2>3, <2>4, <2>5 DEF GoInv
<1>3. ASSUME NEW w \in Waits, Expire(w) \/ Fail(w) PROVE GoInv'
  <2>1. Set(w, NoWait) /\ UNCHANGED <<sent, kept, offset, heard, spent, mixed>>
    BY <1>3 DEF Expire, Fail
  <2>2. used' \in [waits : Nat, faults : Nat]
    BY <1>3 DEF Expire, Fail, Fault, GoInv, GoTypeOK
  <2>3. QED BY <2>1, <2>2, EndInv
<1>4. CASE UNCHANGED goVars
  BY <1>4 DEF goVars, GoInv, GoTypeOK, OffsetInv, SpentInv
<1>5. QED
  BY <1>1, <1>2, <1>3, <1>4, StartInv, AskInv, ReplyInv, HandleInv DEF GoNext, Step

\* The invariant holds in every reachable state.
LEMMA GoInvCorrect == GoSpec => []GoInv
<1>1. GoInv /\ [GoNext]_goVars => GoInv'
  BY GoStepInv, ConstantsAssumption
<1>2. GoInit => GoInv
  BY GoInitInv, ConstantsAssumption
<1>3. QED BY <1>1, <1>2, PTL DEF GoSpec

\* Every reachable state is well typed: the offset of waitForGoConfirmation never
\* runs ahead of the chat, however the replies of the waits overlap.
THEOREM GoTypeCorrect == GoSpec => []GoTypeOK
<1>1. GoInv => GoTypeOK
  BY DEF GoInv
<1>2. QED BY <1>1, GoInvCorrect, PTL

\* getUpdates never makes Telegram forget an update that no wait has looked at, for
\* any number of waits that share the offset, restarts and failed requests.
THEOREM NothingLost == GoSpec => []NoneSkipped
<1>1. GoInv => NoneSkipped
  BY ConstantsAssumption DEF ConstantsAssumption, GoInv, GoTypeOK, OffsetInv, NoneSkipped, Ids
<1>2. QED BY <1>1, GoInvCorrect, PTL

\* As long as waitForGoConfirmation is called for one job after the other, a "go"
\* that ended the wait of one job never ends that of a later one.
THEOREM GoesSpentOnce == GoSpec => []GoSpentOnce
<1>1. ASSUME GoInv, ~mixed, NEW w \in Waits, wait[w].pc = "replied",
             NEW m \in wait[w].from..(wait[w].upto - 1), m \in wait[w].old
      PROVE  FALSE
  <2>1. m < offset /\ offset <= wait[w].from
    BY <1>1 DEF GoInv, SpentInv
  <2>2. m \in Nat /\ offset \in Nat /\ wait[w].from \in Nat /\ wait[w].from <= m
    BY <1>1, Parts DEF GoInv, GoTypeOK
  <2>3. QED BY <2>1, <2>2
<1>2. GoInv => GoSpentOnce
  BY <1>1 DEF GoSpentOnce, NoStaleGo
<1>3. QED BY <1>2, GoInvCorrect, PTL

-----------------------------------------------------------------------------
(* The registry of the crons: its inductive invariant.                      *)

\* What the schedule of a rule may be.
ValidSchedules == {r.schedule : r \in Rows}

-----------------------------------------------------------------------------
(* The tasks in memory are those of the rule.                                *)

Steps == [at : {"idle", "clear", "load"}] \cup [at : {"schedule"}, row : Rows]

(* What is in memory belongs to generations that exist, and no timer is past. *)
TypeInv ==
  /\ row \in Rows /\ now \in 0 .. Horizon /\ up \in BOOLEAN /\ gen \in Nat
  /\ \/ handles = {}
     \/ \E s \in ValidSchedules, g \in 1 .. gen : handles = {[schedule |-> s, gen |-> g]}
  /\ timers \subseteq [kind : {"poll", "confirmation"}, gen : 1 .. gen, schedule : ValidSchedules, at : Nat]
  /\ \A t \in timers : t.at >= now
  /\ reading \subseteq [kind : Kinds, gen : 1 .. gen]
  /\ creating \subseteq [date : Nat, by : 1 .. gen]
  /\ (\A j \in jobs : j.date \in Nat) /\ decided \subseteq Nat
  /\ reload \in [Reloads -> Steps]

AtRest == \A r \in Reloads : reload[r] = Idle
Current == {h.schedule : h \in handles} = (IF row.enabled THEN {row.schedule} ELSE {})

(* A pod that is down has nothing in memory.  As long as no reload overlaps another, the
   one under way schedules over an empty registry, and has read the row as it is unless
   it was saved since without a reload. *)
ReloadInv ==
  /\ ~up => /\ handles = {} /\ timers = {} /\ reading = {} /\ creating = {}
            /\ AtRest
  /\ ~overlap =>
       /\ \A r, o \in Reloads : reload[r] # Idle /\ reload[o] # Idle => r = o
       /\ \A r \in Reloads :
            /\ reload[r].at \in {"load", "schedule"} => handles = {}
            /\ reload[r].at = "schedule" /\ ~unheard => reload[r].row = row
       /\ up /\ AtRest /\ ~unheard => Current

-----------------------------------------------------------------------------
(* One job per date.                                                        *)

Generations == {h.gen : h \in handles}

(* All polls that are looking for a job, or will within the minute, are of the same
   tasks: the timers of former tasks are cleared, and new tasks do not ring before the
   next minute. *)
JobInv ==
  ~late =>
    /\ \A j \in jobs : j.number = 1
    /\ \A p \in creating : ~HasJob(p.date)
    /\ \A p, q \in creating : p.by = q.by
    /\ \A t \in timers : t.gen \in Generations
    /\ \A p \in creating, t \in timers : t.gen = p.by
    /\ \A p \in creating, c \in reading : c.gen = p.by \/ c.gen \notin Generations
    /\ \A p \in creating, h \in handles :
         h.gen = p.by \/ \A k \in Kinds : <<h.gen, k>> \in rung

-----------------------------------------------------------------------------
(* The right day.                                                           *)

OnDay(s, kind, t) == TargetDate(s, kind, t) % 7 = s.targetWeekday

(* A callback reads in the minute in which its task rings. *)
DayInv ==
  ~late /\ ~stale /\ ~overlap =>
    /\ \A t \in timers : OnDay(t.schedule, t.kind, t.at) \/ StraddlesMidnight(t.schedule, t.kind)
    /\ \A c \in reading, h \in handles : c.gen = h.gen => Rings(CronOf(h.schedule, c.kind), now)

-----------------------------------------------------------------------------
(* The week, while nobody edits the rule and the pod runs.                   *)

(* When the poll and the decision of a date are due. *)
Asked(s, d) == (d - s.pollDaysBefore) * DayLength + s.pollTime
Decides(s, d) == (d - s.decisionDaysBefore) * DayLength + s.decisionTime

(* An instant in the window of the poll of a date. *)
InWindow(s, d, t) == t = Asked(s, d) \/ (Asked(s, d) < t /\ t < Asked(s, d) + s.jitter)

Plays(s, d) == d % 7 = s.targetWeekday

(* A cron is behind: its instant is past, or it has rung in this minute. *)
Gone(t, kind) == t < now \/ (t = now /\ <<1, kind>> \in rung)

PollFollows(s, d) ==
  \/ HasJob(d)
  \/ \E p \in creating : p.date = d
  \/ \E t \in timers : t.kind = "poll" /\ InWindow(s, d, t.at)
  \/ Asked(s, d) = now /\ \E c \in reading : c.kind = "poll"

DecisionFollows(s, d) ==
  \/ \E e \in log : e.kind = "decision" /\ e.target = d /\ (e.found => d \in decided)
  \/ Decides(s, d) = now /\ \E c \in reading : c.kind = "decision"

\* The pod goes on with the rule as it was.
Calm ==
  /\ up /\ AtRest /\ ~late /\ ~stale /\ ~overlap /\ ~unheard
  /\ handles = IF row.enabled THEN {[schedule |-> row.schedule, gen |-> 1]} ELSE {}
  /\ \A t \in timers : t.schedule = row.schedule
  /\ \A c \in reading : c.gen = 1

\* Delays end in their windows.
WindowInv(s) ==
  /\ ~StraddlesMidnight(s, "confirmation") =>
       \A t \in timers : t.kind = "confirmation" => MinuteOf(t.at) >= s.confirmationTime - HalfWindow
  /\ ~StraddlesMidnight(s, "poll") =>
       /\ \A p \in creating : InWindow(s, p.date, now)
       /\ \A t \in timers : t.kind = "poll" => InWindow(s, TargetDate(s, "poll", t.at), t.at)

\* A poll that was due is under way or has its job; a decision that was due has run.
PollInv(s) ==
  row.enabled /\ ~StraddlesMidnight(s, "poll") =>
    \A d \in Nat : Plays(s, d) /\ Asked(s, d) >= 0 /\ Gone(Asked(s, d), "poll") => PollFollows(s, d)
DecisionInv(s) ==
  row.enabled =>
    \A d \in Nat :
      Plays(s, d) /\ Decides(s, d) >= 0 /\ Gone(Decides(s, d), "decision") => DecisionFollows(s, d)

WeekInv ==
  /\ edits \in Nat /\ restarts \in Nat /\ failures \in Nat
  /\ Undisturbed =>
       /\ Calm /\ WindowInv(row.schedule) /\ PollInv(row.schedule) /\ DecisionInv(row.schedule)
       /\ DecisionFindsJob /\ ConfirmationAfterDecision

-----------------------------------------------------------------------------
(* The calendar.                                                             *)

\* What is known of a schedule.
LEMMA ScheduleFacts ==
  ASSUME NEW s \in ValidSchedules
  PROVE  /\ s.targetWeekday \in 0 .. 6
         /\ s.pollTime \in 0 .. 1439 /\ s.decisionTime \in 0 .. 1439
         /\ s.confirmationTime \in 0 .. 1439
         /\ s.pollDaysBefore \in Nat \ {0} /\ s.decisionDaysBefore \in 0 .. s.pollDaysBefore
         /\ s.decisionDaysBefore = s.pollDaysBefore => s.decisionTime > s.pollTime
         /\ s.confirmationTime > s.decisionTime /\ s.jitter \in Nat
<1>1. Valid(s) /\ s.jitter \in Nat
  BY RowsAreValid DEF ValidSchedules
<1>2. 0 .. DayLength - 1 = 0 .. 1439
  BY DEF DayLength
<1>3. {s.pollTime, s.decisionTime, s.confirmationTime} \subseteq 0 .. 1439
  <2>1. {s.pollTime, s.decisionTime, s.confirmationTime} \subseteq 0 .. DayLength - 1
    BY <1>1 DEF Valid
  <2>2. QED
    BY <1>2, <2>1
<1>4. s.pollTime \in 0 .. 1439 /\ s.decisionTime \in 0 .. 1439 /\ s.confirmationTime \in 0 .. 1439
  BY <1>3
<1>5. QED
  BY <1>1, <1>4 DEF Valid

\* A time has a day and a minute.
LEMMA DayType ==
  ASSUME NEW t \in Nat
  PROVE  \E D \in Nat, m \in 0 .. 1439 : D = DayOf(t) /\ m = MinuteOf(t)
<1>1. DayOf(t) \in Nat /\ MinuteOf(t) \in 0 .. 1439
  BY DEF DayOf, MinuteOf, DayLength
<1>2. QED
  BY <1>1

\* The crons of a schedule are minutes of days of the week.
LEMMA CronFacts ==
  ASSUME NEW s \in ValidSchedules, NEW kind \in Kinds
  PROVE  CronOf(s, kind).minute \in 0 .. 1439 /\ CronOf(s, kind).weekday \in 0 .. 6
<1>1. ASSUME NEW n \in Nat
      PROVE  TriggerWeekday(s.targetWeekday, n) \in 0 .. 6
  BY ScheduleFacts DEF TriggerWeekday
<1>2. CASE kind = "poll"
  BY <1>1, <1>2, ScheduleFacts DEF CronOf, Cron
<1>3. CASE kind = "decision"
  BY <1>1, <1>3, ScheduleFacts DEF CronOf, Cron
<1>4. CASE kind = "confirmation"
  <2>1. PICK w \in 0 .. 6 : w = TriggerWeekday(s.targetWeekday, s.decisionDaysBefore)
    BY <1>1, ScheduleFacts
  <2>2. PICK m \in 0 .. 1439 : m = s.confirmationTime
    BY ScheduleFacts
  <2>3. CronOf(s, kind) = [minute |-> (m - 10) % 1440, weekday |-> (w + (m - 10) \div 1440) % 7]
    BY <1>4, <2>1, <2>2 DEF CronOf, Cron, Earlier, HalfWindow, DayLength
  <2>4. (m - 10) % 1440 \in 0 .. 1439 /\ (w + (m - 10) \div 1440) % 7 \in 0 .. 6
    OBVIOUS
  <2>5. QED
    BY <2>3, <2>4
<1>5. QED
  BY <1>2, <1>3, <1>4 DEF Kinds

\* The next ring of a task comes after now, and before every other ring to come.
LEMMA NextRingFacts ==
  ASSUME now \in Nat, NEW h, h.schedule \in ValidSchedules, NEW kind \in Kinds
  PROVE  /\ NextRing(h, kind) \in Nat /\ NextRing(h, kind) > now
         /\ \A t \in Nat : t > now /\ Rings(CronOf(h.schedule, kind), t) => NextRing(h, kind) <= t
<1>1. PICK f, g : f = CronOf(h.schedule, kind).minute /\ g = CronOf(h.schedule, kind).weekday
  OBVIOUS
<1>2. f \in 0 .. 1439 /\ g \in 0 .. 6
  BY <1>1, CronFacts
<1>3. PICK m \in 0 .. 1439, w \in 0 .. 6 : m = f /\ w = g
  BY <1>2
<1>4. m = CronOf(h.schedule, kind).minute /\ w = CronOf(h.schedule, kind).weekday
  BY <1>1, <1>3
<1>5. PICK D \in Nat, n \in 0 .. 1439 : D = DayOf(now) /\ n = MinuteOf(now)
  BY DayType
<1>6. now = 1440 * D + n
  BY <1>5 DEF DayOf, MinuteOf, DayLength
<1>7. PICK k \in 0 .. 6 : k = (w - D) % 7 /\ (D + k) % 7 = w
  OBVIOUS
<1>8. PICK u \in Nat : u = 1440 * (D + k) + m
  OBVIOUS
<1>9. NextRing(h, kind) = IF u > now THEN u ELSE u + 10080
  <2>1. (D + ((w - D) % 7)) * DayLength + m = u
    BY <1>7, <1>8 DEF DayLength
  <2>2. u + 7 * DayLength = u + 10080
    BY DEF DayLength
  <2>3. QED
    BY <1>4, <1>5, <2>1, <2>2 DEF NextRing
<1>10. NextRing(h, kind) \in Nat /\ NextRing(h, kind) > now
  <2>1. CASE u > now
    BY <1>9, <2>1
  <2>2. CASE ~(u > now)
    <3>1. u + 10080 \in Nat /\ u + 10080 > 1440 * D + n
      BY <1>8
    <3>2. QED
      BY <1>6, <1>9, <2>2, <3>1
  <2>3. QED
    BY <2>1, <2>2
<1>11. ASSUME NEW t \in Nat, t > now, Rings(CronOf(h.schedule, kind), t)
      PROVE  NextRing(h, kind) <= t
  <2>1. PICK E \in Nat, e \in 0 .. 1439 : E = DayOf(t) /\ e = MinuteOf(t)
    BY DayType
  <2>2. t = 1440 * E + e
    BY <2>1 DEF DayOf, MinuteOf, DayLength
  <2>3. E % 7 = w /\ e = m
    BY <1>4, <1>11, <2>1 DEF Rings
  <2>4. E >= D
    BY <1>5, <1>11, <2>1 DEF DayOf, DayLength
  <2>5. E >= D + k /\ (E > D + k => E >= D + k + 7)
    BY <1>7, <2>3, <2>4
  <2>6. QED
    BY <1>6, <1>8, <1>9, <1>11, <2>2, <2>3, <2>5
<1>12. QED
  BY <1>10, <1>11

\* A set of times that is not empty has a first one.
LEMMA MinType ==
  ASSUME NEW S, S \subseteq Nat, S # {}
  PROVE  Min(S) \in S /\ \A t \in S : Min(S) <= t
<1>1. PICK n \in S : \A m \in S : ~(<<m, n>> \in OpToRel(<, Nat))
  BY NatLessThanWellFounded, WFMin
<1>2. \A m \in S : n <= m
  <2>1. ASSUME NEW m \in S PROVE n <= m
    <3>1. n \in Nat /\ m \in Nat /\ ~(m < n)
      BY <1>1 DEF OpToRel
    <3>2. QED
      BY <3>1
  <2>2. QED
    BY <2>1
<1>3. QED
  BY <1>2 DEF Min

-----------------------------------------------------------------------------
(* Types.                                                                    *)

\* What the rule may be is a valid schedule; the task of a rule is one of its schedules.
LEMMA RowFacts ==
  ASSUME TypeInv
  PROVE  row.schedule \in ValidSchedules /\ \A h \in handles : h.schedule \in ValidSchedules
BY DEF TypeInv, ValidSchedules

\* At first the tasks are those of the rule, of the first generation.
LEMMA TypeInit == Init => TypeInv
<1> SUFFICES ASSUME Init PROVE TypeInv
  OBVIOUS
<1>1. now \in 0 .. Horizon
  BY HorizonIsATime DEF Init
<1>2. handles = {} \/ \E s \in ValidSchedules, g \in 1 .. gen : handles = {[schedule |-> s, gen |-> g]}
  <2>1. row.schedule \in ValidSchedules /\ 1 \in 1 .. gen
    BY DEF Init, ValidSchedules
  <2>2. QED
    BY <2>1 DEF Init
<1>3. reload \in [Reloads -> Steps]
  BY DEF Init, Idle, Steps
<1>4. QED
  BY <1>1, <1>2, <1>3 DEF Init, TypeInv

\* The instants at which time may stop are times to come.
LEMMA InstantsType ==
  ASSUME TypeInv, \A t \in timers : t.at > now
  PROVE  /\ Instants \subseteq Nat
         /\ \A t \in Instants : t > now
<1>1. now \in Nat
  BY HorizonIsATime DEF TypeInv
<1>2. \A t \in timers : t.at \in Nat
  BY DEF TypeInv
<1>3. \A h \in handles, k \in Kinds : NextRing(h, k) \in Nat /\ NextRing(h, k) > now
  BY <1>1, RowFacts, NextRingFacts
<1>4. DayOf(now + DayLength) * DayLength \in Nat /\ DayOf(now + DayLength) * DayLength > now
  BY <1>1 DEF DayOf, DayLength
<1>5. QED
  BY <1>2, <1>3, <1>4 DEF Instants

\* Time goes on to the first of them.
LEMMA AdvanceFacts ==
  ASSUME TypeInv, Advance
  PROVE  /\ now \in Nat /\ now' \in 0 .. Horizon /\ now' > now
         /\ \A t \in timers : t.at >= now'
         /\ \A h \in handles, k \in Kinds : NextRing(h, k) >= now'
<1>1. Instants \subseteq Nat /\ \A t \in Instants : t > now
  BY InstantsType DEF Advance
<1>2. now' \in Instants /\ now' <= Horizon /\ \A t \in Instants : now' <= t
  <2>1. Min(Instants) \in Instants /\ \A t \in Instants : Min(Instants) <= t
    BY <1>1, MinType DEF Advance
  <2>2. QED
    BY <2>1 DEF Advance
<1>3. now \in Nat /\ now' \in 0 .. Horizon /\ now' > now
  BY <1>1, <1>2, HorizonIsATime DEF TypeInv
<1>4. \A t \in timers : t.at \in Instants
  BY DEF Instants
<1>5. \A h \in handles, k \in Kinds : NextRing(h, k) \in Instants
  BY DEF Instants
<1>6. ASSUME NEW t \in Instants PROVE t >= now'
  BY <1>1, <1>2
<1>7. QED
  BY <1>3, <1>4, <1>5, <1>6

\* The date a trigger works for.
LEMMA TargetType ==
  ASSUME NEW s \in ValidSchedules, NEW kind \in Kinds, NEW t \in Nat
  PROVE  TargetDate(s, kind, t) \in Nat
<1>1. DaysBefore(s, kind) \in Nat
  BY ScheduleFacts DEF DaysBefore
<1>2. DayOf(t) \in Nat
  BY DEF DayOf, DayLength
<1>3. QED
  BY <1>1, <1>2 DEF TargetDate

\* A delay is a number of minutes.
LEMMA DelayType ==
  ASSUME NEW s \in ValidSchedules, NEW kind \in Kinds, NEW d \in Delays(WindowOf(s, kind))
  PROVE  d \in Nat
<1>1. WindowOf(s, kind) \in Nat
  BY ScheduleFacts DEF WindowOf, HalfWindow, Kinds
<1>2. PICK n \in Nat : n = WindowOf(s, kind)
  BY <1>1
<1>3. d \in Delays(n)
  BY <1>2
<1>4. d \in IF n <= 0 THEN {0} ELSE {0, n - 1}
  BY <1>3 DEF Delays
<1>5. QED
  BY <1>2, <1>4

\* Reads and triggers leave what is in memory well typed.
LEMMA TypeTrigger ==
  ASSUME TypeInv,
         \/ \E h \in handles, k \in Kinds : Ring(h, k)
         \/ \E c \in reading : ReadAndDrop(c) \/ ReadAndDelay(c) \/ ReadAndDecide(c) \/ ReadFails(c)
         \/ \E t \in timers : Poll(t) \/ Confirm(t)
         \/ \E p \in creating : CreateJob(p) \/ CreateFails(p)
  PROVE  TypeInv'
<1>1. CASE \E h \in handles, k \in Kinds : Ring(h, k)
  <2>1. PICK h \in handles, k \in Kinds : Ring(h, k)
    BY <1>1
  <2>2. [kind |-> k, gen |-> h.gen] \in [kind : Kinds, gen : 1 .. gen]
    BY DEF TypeInv
  <2>3. QED
    BY <2>1, <2>2 DEF TypeInv, Ring
<1>2. CASE \E c \in reading : ReadAndDrop(c) \/ ReadFails(c)
  BY <1>2 DEF TypeInv, ReadAndDrop, ReadFails
<1>3. CASE \E c \in reading : ReadAndDelay(c)
  <2>1. PICK c \in reading : ReadAndDelay(c)
    BY <1>3
  <2>2. PICK d \in Delays(WindowOf(row.schedule, c.kind)) :
          timers' = timers \cup {[kind |-> c.kind, gen |-> c.gen, schedule |-> row.schedule, at |-> now + d]}
    BY <2>1 DEF ReadAndDelay
  <2>3. c \in [kind : Kinds, gen : 1 .. gen] /\ c.kind \in {"poll", "confirmation"}
    BY <2>1 DEF ReadAndDelay, TypeInv, Kinds
  <2>4. d \in Nat /\ now \in Nat
    BY <2>3, RowFacts, DelayType, HorizonIsATime DEF TypeInv
  <2>5. [kind |-> c.kind, gen |-> c.gen, schedule |-> row.schedule, at |-> now + d]
          \in [kind : {"poll", "confirmation"}, gen : 1 .. gen, schedule : ValidSchedules, at : Nat]
    BY <2>3, <2>4, RowFacts
  <2>6. now + d >= now
    BY <2>4
  <2>7. QED
    BY <2>1, <2>2, <2>5, <2>6 DEF TypeInv, ReadAndDelay
<1>4. CASE \E c \in reading : ReadAndDecide(c)
  <2>1. TargetDate(row.schedule, "decision", now) \in Nat
    BY RowFacts, TargetType, HorizonIsATime DEF TypeInv, Kinds
  <2>2. decided' \subseteq Nat
    BY <1>4, <2>1 DEF TypeInv, ReadAndDecide
  <2>3. QED
    BY <1>4, <2>2 DEF TypeInv, ReadAndDecide
<1>5. CASE \E t \in timers : Poll(t)
  <2>1. PICK t \in timers : Poll(t)
    BY <1>5
  <2>2. t.schedule \in ValidSchedules /\ t.gen \in 1 .. gen
    BY DEF TypeInv
  <2>3. TargetDate(t.schedule, "poll", now) \in Nat
    BY <2>2, TargetType, HorizonIsATime DEF TypeInv, Kinds
  <2>4. creating' \subseteq [date : Nat, by : 1 .. gen]
    BY <2>1, <2>2, <2>3 DEF TypeInv, Poll, ToCreate
  <2>5. QED
    BY <2>1, <2>4 DEF TypeInv, Poll
<1>6. CASE \E t \in timers : Confirm(t)
  BY <1>6 DEF TypeInv, Confirm
<1>7. CASE \E p \in creating : CreateJob(p)
  <2>1. PICK p \in creating : CreateJob(p)
    BY <1>7
  <2>2. p.date \in Nat
    BY DEF TypeInv
  <2>3. \A j \in jobs' : j.date \in Nat
    BY <2>1, <2>2 DEF TypeInv, CreateJob
  <2>4. QED
    BY <2>1, <2>3 DEF TypeInv, CreateJob
<1>8. CASE \E p \in creating : CreateFails(p)
  BY <1>8 DEF TypeInv, CreateFails
<1>9. QED
  BY <1>1, <1>2, <1>3, <1>4, <1>5, <1>6, <1>7, <1>8

\* New tasks belong to the next generation.
LEMMA NewGeneration ==
  ASSUME TypeInv, gen' = gen + 1
  PROVE  /\ gen' \in Nat /\ gen' \in 1 .. gen' /\ 1 .. gen \subseteq 1 .. gen' /\ gen' \notin 1 .. gen
         /\ \A t \in timers : t \in [kind : {"poll", "confirmation"}, gen : 1 .. gen',
                                     schedule : ValidSchedules, at : Nat]
         /\ \A c \in reading : c \in [kind : Kinds, gen : 1 .. gen']
         /\ \A p \in creating : p \in [date : Nat, by : 1 .. gen']
<1>1. gen' \in Nat /\ gen' \in 1 .. gen' /\ 1 .. gen \subseteq 1 .. gen' /\ gen' \notin 1 .. gen
  BY DEF TypeInv
<1>2. QED
  BY <1>1 DEF TypeInv

\* So do edits, reloads and restarts.
LEMMA TypeReload ==
  ASSUME TypeInv,
         \/ \E r \in Reloads : Edit(r) \/ Clear(r) \/ Load(r) \/ LoadFails(r) \/ Schedule(r)
         \/ EditUnheard \/ Stop \/ Start
  PROVE  TypeInv'
<1>1. CASE \E r \in Reloads : Edit(r)
  BY <1>1, RowsAreValid DEF TypeInv, Edit, Save, Steps
<1>2. CASE \E r \in Reloads : Clear(r)
  BY <1>2 DEF TypeInv, Clear, Steps
<1>3. CASE \E r \in Reloads : Load(r)
  BY <1>3 DEF TypeInv, Load, Steps
<1>4. CASE \E r \in Reloads : Schedule(r)
  <2>1. PICK r \in Reloads : Schedule(r)
    BY <1>4
  <2>2. reload' \in [Reloads -> Steps]
    BY <2>1 DEF TypeInv, Schedule, Steps, Idle
  <2>3. CASE reload[r].row.enabled
    <3>1. reload[r].row \in Rows
      BY <2>1 DEF TypeInv, Schedule, Steps
    <3>2. reload[r].row.schedule \in ValidSchedules
      BY <3>1 DEF ValidSchedules
    <3>3. handles' = {[schedule |-> reload[r].row.schedule, gen |-> gen']} /\ gen' = gen + 1
          /\ timers' \subseteq timers
      BY <2>1, <2>3 DEF Schedule, TasksFor
    <3>4. QED
      BY <2>1, <2>2, <3>2, <3>3, NewGeneration DEF TypeInv, Schedule
  <2>4. CASE ~reload[r].row.enabled
    BY <2>1, <2>2, <2>4 DEF TypeInv, Schedule
  <2>5. QED
    BY <2>3, <2>4
<1>5. CASE Stop
  BY <1>5 DEF TypeInv, Stop, Steps, Idle
<1>6. CASE Start
  <2>1. handles' = {} \/ handles' = {[schedule |-> row.schedule, gen |-> gen']}
    BY <1>6 DEF Start, TasksFor
  <2>2. gen' = gen + 1
    BY <1>6 DEF Start
  <2>3. QED
    BY <1>6, <2>1, <2>2, NewGeneration, RowFacts DEF TypeInv, Start
<1>7. CASE \E r \in Reloads : LoadFails(r)
  BY <1>7 DEF TypeInv, LoadFails, Steps, Idle
<1>8. CASE EditUnheard
  BY <1>8, RowsAreValid DEF TypeInv, EditUnheard, Save
<1>9. QED
  BY <1>1, <1>2, <1>3, <1>4, <1>5, <1>6, <1>7, <1>8

\* Every step leaves what is in memory well typed.
LEMMA TypeNext == TypeInv /\ [Next]_vars => TypeInv'
<1> SUFFICES ASSUME TypeInv, [Next]_vars PROVE TypeInv'
  OBVIOUS
<1>1. CASE Advance
  BY <1>1, AdvanceFacts DEF TypeInv, Advance
<1>2. CASE UNCHANGED vars
  BY <1>2 DEF TypeInv, vars
<1>3. QED
  BY <1>1, <1>2, TypeTrigger, TypeReload DEF Next

\* The tasks are of one generation.
LEMMA OneTask ==
  ASSUME TypeInv
  PROVE  /\ \A h, o \in handles : h = o
         /\ \A g, o \in Generations : g = o
         /\ Generations \subseteq 1 .. gen
<1>1. CASE handles = {}
  BY <1>1 DEF Generations
<1>2. CASE handles # {}
  <2>1. PICK s \in ValidSchedules, g \in 1 .. gen : handles = {[schedule |-> s, gen |-> g]}
    BY <1>2 DEF TypeInv
  <2>2. QED
    BY <2>1 DEF Generations
<1>3. QED
  BY <1>1, <1>2

-----------------------------------------------------------------------------
(* Reloads.                                                                  *)

\* The schedules of the tasks of a rule.
LEMMA SchedulesOf ==
  /\ \A s, g : {h.schedule : h \in {[schedule |-> s, gen |-> g]}} = {s}
  /\ {h.schedule : h \in {}} = {}
OBVIOUS

\* At first no reload is under way.
LEMMA ReloadInit == Init => ReloadInv
<1> SUFFICES ASSUME Init PROVE ReloadInv
  OBVIOUS
<1>1. AtRest /\ up
  BY DEF Init, AtRest
<1>2. Current
  <2>1. CASE row.enabled
    BY <2>1, SchedulesOf DEF Init, Current
  <2>2. CASE ~row.enabled
    BY <2>2, SchedulesOf DEF Init, Current
  <2>3. QED
    BY <2>1, <2>2
<1>3. QED
  BY <1>1, <1>2 DEF ReloadInv, AtRest, Idle

\* Every step keeps the reload under way in line with the row.
LEMMA ReloadNext == TypeInv /\ ReloadInv /\ [Next]_vars => ReloadInv'
<1> SUFFICES ASSUME TypeInv, ReloadInv, [Next]_vars PROVE ReloadInv'
  OBVIOUS
<1> USE DEF ReloadInv
<1>1. CASE Advance
  BY <1>1 DEF Advance, AtRest, Current
<1>2. CASE \E h \in handles, k \in Kinds : Ring(h, k)
  BY <1>2 DEF Ring, AtRest, Current
<1>3. CASE \E c \in reading : ReadAndDrop(c) \/ ReadAndDelay(c) \/ ReadAndDecide(c) \/ ReadFails(c)
  BY <1>3 DEF ReadAndDrop, ReadAndDelay, ReadAndDecide, ReadFails, AtRest, Current
<1>4. CASE \E t \in timers : Poll(t) \/ Confirm(t)
  BY <1>4 DEF Poll, Confirm, AtRest, Current
<1>5. CASE \E p \in creating : CreateJob(p) \/ CreateFails(p)
  BY <1>5 DEF CreateJob, CreateFails, AtRest, Current
<1>6. CASE \E r \in Reloads : Edit(r)
  <2>1. PICK r \in Reloads : Edit(r)
    BY <1>6
  <2>2. up' /\ ~(AtRest')
    BY <2>1 DEF Edit, AtRest, Idle, TypeInv
  <2>3. ASSUME ~overlap' PROVE \A o \in Reloads : o # r => reload'[o] = Idle
    BY <2>1, <2>3 DEF Edit, TypeInv
  <2>4. reload'[r].at = "clear"
    BY <2>1 DEF Edit, TypeInv
  <2>5. QED
    BY <2>2, <2>3, <2>4 DEF Idle
<1>7. CASE \E r \in Reloads : Clear(r)
  <2>1. PICK r \in Reloads : Clear(r)
    BY <1>7
  <2>2. reload[r] # Idle /\ up /\ reload'[r] = [at |-> "load"] /\ ~(AtRest')
    BY <2>1 DEF Clear, AtRest, Idle, TypeInv
  <2>3. \A o \in Reloads : o # r => reload'[o] = reload[o]
    BY <2>1 DEF Clear, TypeInv
  <2>4. ASSUME ~overlap' PROVE \A o \in Reloads : o # r => reload'[o] = Idle
    BY <2>1, <2>2, <2>3, <2>4 DEF Clear
  <2>5. handles' = {} /\ up'
    BY <2>1, <2>2 DEF Clear
  <2>6. QED
    BY <2>2, <2>4, <2>5 DEF Idle
<1>8. CASE \E r \in Reloads : Load(r)
  <2>1. PICK r \in Reloads : Load(r)
    BY <1>8
  <2>2. reload[r] # Idle /\ up /\ reload'[r] = [at |-> "schedule", row |-> row] /\ ~(AtRest')
    BY <2>1 DEF Load, AtRest, Idle, TypeInv
  <2>3. \A o \in Reloads : o # r => reload'[o] = reload[o]
    BY <2>1 DEF Load, TypeInv
  <2>4. ASSUME ~overlap' PROVE \A o \in Reloads : o # r => reload'[o] = Idle
    BY <2>1, <2>2, <2>3, <2>4 DEF Load
  <2>5. (~overlap' => handles' = {}) /\ up' /\ row' = row
    BY <2>1, <2>2 DEF Load
  <2>6. QED
    BY <2>2, <2>4, <2>5 DEF Idle
<1>9. CASE \E r \in Reloads : Schedule(r)
  <2>1. PICK r \in Reloads : Schedule(r)
    BY <1>9
  <2>2. reload[r] # Idle /\ up /\ up' /\ reload'[r] = Idle
    BY <2>1 DEF Schedule, AtRest, Idle, TypeInv
  <2>3. \A o \in Reloads : o # r => reload'[o] = reload[o]
    BY <2>1 DEF Schedule, TypeInv
  <2>4. ASSUME ~overlap' PROVE (\A o \in Reloads : reload'[o] = Idle) /\ (~unheard' => Current')
    <3>1. \A o \in Reloads : reload'[o] = Idle
      BY <2>1, <2>2, <2>3, <2>4 DEF Schedule
    <3>2. handles = {} /\ row' = row /\ (~unheard' => reload[r].row = row)
      BY <2>1, <2>4 DEF Schedule
    <3>3. ASSUME ~unheard' PROVE Current'
      <4> reload[r].row = row
        BY <3>2, <3>3
      <4>1. CASE row.enabled
        <5>1. handles' = {[schedule |-> row.schedule, gen |-> gen + 1]} /\ row'.enabled
              /\ row'.schedule = row.schedule
          BY <2>1, <3>2, <4>1 DEF Schedule, TasksFor
        <5>2. {h.schedule : h \in handles'} = {row.schedule}
          BY <5>1, SchedulesOf
        <5>3. QED
          BY <5>1, <5>2 DEF Current
      <4>2. CASE ~row.enabled
        <5>1. handles' = {} /\ ~row'.enabled
          BY <2>1, <3>2, <4>2 DEF Schedule
        <5>2. {h.schedule : h \in handles'} = {}
          BY <5>1
        <5>3. QED
          BY <5>1, <5>2 DEF Current
      <4>3. QED
        BY <4>1, <4>2
    <3>4. QED
      BY <3>1, <3>3
  <2>5. ASSUME ~overlap' PROVE \A o \in Reloads : reload'[o].at = "idle"
    BY <2>4, <2>5 DEF Idle
  <2>6. ~overlap' => /\ \A o, q \in Reloads : reload'[o] # Idle /\ reload'[q] # Idle => o = q
                     /\ \A o \in Reloads :
                          /\ reload'[o].at \in {"load", "schedule"} => handles' = {}
                          /\ reload'[o].at = "schedule" => reload'[o].row = row'
                     /\ up' /\ AtRest' /\ ~unheard' => Current'
    BY <2>4, <2>5
  <2>7. QED
    BY <2>2, <2>6
<1>10. CASE Stop
  BY <1>10 DEF Stop, AtRest, Idle
<1>11. CASE Start
  <2>1. up' /\ AtRest' /\ row' = row
    BY <1>11 DEF Start, AtRest
  <2>2. Current'
    <3>1. CASE row.enabled
      <4>1. handles' = {[schedule |-> row.schedule, gen |-> gen + 1]}
        BY <1>11, <3>1 DEF Start, TasksFor
      <4>2. {h.schedule : h \in handles'} = {row.schedule}
        BY <4>1, SchedulesOf
      <4>3. QED
        BY <2>1, <3>1, <4>2 DEF Current
    <3>2. CASE ~row.enabled
      <4>1. handles' = {}
        BY <1>11, <3>2 DEF Start, TasksFor
      <4>2. {h.schedule : h \in handles'} = {}
        BY <4>1
      <4>3. QED
        BY <2>1, <3>2, <4>2 DEF Current
    <3>3. QED
      BY <3>1, <3>2
  <2>3. \A r \in Reloads : reload'[r] = Idle /\ reload'[r].at = "idle"
    BY <2>1 DEF AtRest, Idle
  <2>4. QED
    BY <2>1, <2>2, <2>3
<1>12. CASE \E r \in Reloads : LoadFails(r)
  <2>1. PICK r \in Reloads : LoadFails(r)
    BY <1>12
  <2>2. reload[r] # Idle /\ up /\ up' /\ reload'[r] = Idle /\ unheard'
    BY <2>1 DEF LoadFails, AtRest, Idle, TypeInv
  <2>3. \A o \in Reloads : o # r => reload'[o] = reload[o]
    BY <2>1 DEF LoadFails, TypeInv
  <2>4. ASSUME ~overlap' PROVE \A o \in Reloads : reload'[o] = Idle /\ reload'[o].at = "idle"
    BY <2>1, <2>2, <2>3, <2>4 DEF LoadFails, Idle
  <2>5. QED
    BY <2>2, <2>4
<1>13. CASE EditUnheard
  BY <1>13 DEF EditUnheard, AtRest
<1>14. CASE UNCHANGED vars
  BY <1>14 DEF vars, AtRest, Current
<1>15. QED
  BY <1>1, <1>2, <1>3, <1>4, <1>5, <1>6, <1>7, <1>8, <1>9, <1>10, <1>11, <1>12, <1>13, <1>14
     DEF Next

-----------------------------------------------------------------------------
(* One job per date.                                                        *)

\* At first there are no jobs, polls or timers.
LEMMA JobInit == Init => JobInv
BY DEF Init, JobInv

\* A poll that finds no job is of the tasks of the polls already under way.
LEMMA JobPoll ==
  ASSUME TypeInv, JobInv, ~late, NEW t \in timers, Poll(t)
  PROVE  JobInv'
<1> DEFINE date == TargetDate(t.schedule, "poll", now)
<1>1. /\ timers' \subseteq timers /\ jobs' = jobs /\ handles' = handles /\ reading' = reading
      /\ rung' = rung /\ late' = late
  BY DEF Poll
<1>2. /\ \A p \in creating' : p \in creating \/ p.by = t.gen
      /\ \A p \in creating' : ~HasJob(p.date)
  BY DEF Poll, ToCreate, JobInv
<1>3. t.gen \in Generations /\ \A g \in Generations : g = t.gen
  BY OneTask DEF JobInv
<1>4. \A p \in creating' : p.by = t.gen
  BY <1>2 DEF JobInv
<1>5. \A p \in creating' : ~HasJob(p.date)'
  BY <1>1, <1>2 DEF HasJob
<1>6. \A o \in timers' : o.gen = t.gen
  BY <1>1, <1>3 DEF JobInv
<1>7. \A h \in handles' : h.gen = t.gen
  BY <1>1, <1>3 DEF Generations
<1>8. Generations' = Generations
  BY <1>1 DEF Generations
<1>9. \A c \in reading' : c.gen = t.gen \/ c.gen \notin Generations'
  BY <1>1, <1>3, <1>8
<1>10. QED
  BY <1>1, <1>3, <1>4, <1>5, <1>6, <1>7, <1>8 DEF JobInv

\* The job of a date that has none is its first, and no other poll is for that date.
LEMMA JobCreate ==
  ASSUME TypeInv, JobInv, ~late, NEW p \in creating, CreateJob(p)
  PROVE  JobInv'
<1>1. {j \in jobs : j.date = p.date} = {}
  BY DEF JobInv, HasJob
<1>2. jobs' = jobs \cup {[date |-> p.date, number |-> 1]}
  BY <1>1, FS_EmptySet DEF CreateJob
<1>3. \A q \in creating' : q \in creating /\ q.date # p.date
  <2>1. \A q \in creating' : q \in creating /\ q # p /\ q.by = p.by
    BY DEF CreateJob, JobInv
  <2>2. \A q \in creating : q = [date |-> q.date, by |-> q.by]
    BY DEF TypeInv
  <2>3. QED
    BY <2>1, <2>2
<1>4. \A q \in creating' : ~HasJob(q.date)'
  BY <1>2, <1>3 DEF HasJob, JobInv
<1>5. \A j \in jobs' : j.number = 1
  BY <1>2 DEF JobInv
<1>6. QED
  BY <1>3, <1>4, <1>5 DEF JobInv, CreateJob, Generations

\* Every step keeps the polls under way to the same tasks, and each date to one job.
LEMMA JobNext == TypeInv /\ ReloadInv /\ JobInv /\ [Next]_vars => JobInv'
<1> SUFFICES ASSUME TypeInv, ReloadInv, JobInv, [Next]_vars, ~late' PROVE JobInv'
  BY DEF JobInv
<1>1. ~late
  BY DEF Next, Advance, Ring, ReadAndDrop, ReadAndDelay, ReadAndDecide, ReadsLate, ReadFails, Poll,
         CreateJob, CreateFails, Confirm, Edit, EditUnheard, Clear, Load, LoadFails, Schedule, Stop,
         Start, vars
<1>2. CASE Advance
  BY <1>1, <1>2 DEF Advance, Quiet, JobInv, HasJob, Generations
<1>3. CASE \E h \in handles, k \in Kinds : Ring(h, k)
  <2>1. PICK h \in handles, k \in Kinds : Ring(h, k)
    BY <1>3
  <2>2. \A p \in creating : h.gen = p.by
    BY <1>1, <2>1 DEF Ring, Due, JobInv
  <2>3. QED
    BY <1>1, <2>1, <2>2 DEF Ring, JobInv, HasJob, Generations
<1>4. CASE \E c \in reading : ReadAndDrop(c) \/ ReadAndDecide(c) \/ ReadFails(c)
  BY <1>1, <1>4 DEF ReadAndDrop, ReadAndDecide, ReadFails, JobInv, HasJob, Generations
<1>5. CASE \E c \in reading : ReadAndDelay(c)
  <2>1. PICK c \in reading : ReadAndDelay(c)
    BY <1>5
  <2>2. c.gen \in Generations
    BY <2>1 DEF ReadAndDelay, ReadsLate, Generations
  <2>3. \A t \in timers' : t \in timers \/ t.gen = c.gen
    BY <2>1 DEF ReadAndDelay
  <2>4. \A p \in creating : c.gen = p.by
    BY <1>1, <2>1, <2>2 DEF JobInv
  <2>5. QED
    BY <1>1, <2>1, <2>2, <2>3, <2>4 DEF ReadAndDelay, JobInv, HasJob, Generations
<1>6. CASE \E t \in timers : Poll(t)
  BY <1>1, <1>6, JobPoll
<1>7. CASE \E t \in timers : Confirm(t)
  BY <1>1, <1>7 DEF Confirm, JobInv, HasJob, Generations
<1>8. CASE \E p \in creating : CreateJob(p)
  BY <1>1, <1>8, JobCreate
<1>9. CASE EditUnheard \/ \E r \in Reloads : Edit(r) \/ Load(r) \/ LoadFails(r)
  BY <1>1, <1>9 DEF Edit, EditUnheard, Load, LoadFails, JobInv, HasJob, Generations
<1>10. CASE \E r \in Reloads : Clear(r)
  <2>1. handles' = {} /\ timers' = {} /\ Generations' = {}
    BY <1>1, <1>10 DEF Clear, TimersOf, JobInv, Generations
  <2>2. QED
    BY <1>1, <1>10, <2>1 DEF Clear, JobInv, HasJob
<1>11. CASE \E r \in Reloads : Schedule(r)
  <2>1. PICK r \in Reloads : Schedule(r)
    BY <1>11
  <2>2. CASE reload[r].row.enabled
    <3>1. timers' = {}
      BY <1>1, <2>1, <2>2 DEF Schedule, TimersOf, JobInv, Generations
    <3>2. Generations' = {gen'} /\ \A h \in handles' : h.gen = gen'
      <4>1. handles' = {[schedule |-> reload[r].row.schedule, gen |-> gen']}
        BY <2>1, <2>2 DEF Schedule, TasksFor
      <4>2. QED
        BY <4>1 DEF Generations
    <3>3. gen' \notin 1 .. gen
      BY <2>1, <2>2, NewGeneration DEF Schedule
    <3>4. \A c \in reading' : c.gen \notin Generations'
      BY <2>1, <3>2, <3>3 DEF Schedule, TypeInv
    <3>5. \A h \in handles', k \in Kinds : <<h.gen, k>> \in rung'
      BY <2>1, <2>2, <3>2 DEF Schedule, NotThisMinute
    <3>6. QED
      BY <1>1, <2>1, <3>1, <3>4, <3>5 DEF Schedule, JobInv, HasJob
  <2>3. CASE ~reload[r].row.enabled
    BY <1>1, <2>1, <2>3 DEF Schedule, JobInv, HasJob, Generations
  <2>4. QED
    BY <2>2, <2>3
<1>12. CASE Stop
  BY <1>1, <1>12 DEF Stop, JobInv
<1>13. CASE Start
  BY <1>1, <1>13 DEF Start, JobInv, ReloadInv
<1>14. CASE UNCHANGED vars
  BY <1>1, <1>14 DEF vars, JobInv, HasJob, Generations
<1>15. CASE \E p \in creating : CreateFails(p)
  BY <1>1, <1>15 DEF CreateFails, JobInv, HasJob, Generations
<1>16. QED
  BY <1>2, <1>3, <1>4, <1>5, <1>6, <1>7, <1>8, <1>9, <1>10, <1>11, <1>12, <1>13, <1>14, <1>15
     DEF Next

-----------------------------------------------------------------------------
(* The right day.                                                           *)

\* The day of a cron and the days before count to a day on which the rule plays.
LEMMA CountDays ==
  ASSUME NEW s \in ValidSchedules, NEW kind \in Kinds, NEW D \in Nat,
         D % 7 = TriggerWeekday(s.targetWeekday, DaysBefore(s, kind))
  PROVE  (D + DaysBefore(s, kind)) % 7 = s.targetWeekday
<1>1. PICK n \in Nat : n = DaysBefore(s, kind)
  BY ScheduleFacts DEF DaysBefore
<1>2. PICK w \in 0 .. 6 : w = s.targetWeekday
  BY ScheduleFacts
<1>3. D % 7 = (w - n) % 7
  BY <1>1, <1>2 DEF TriggerWeekday
<1>4. (D + n) % 7 = w
  BY <1>3
<1>5. QED
  BY <1>1, <1>2, <1>4

\* A decision works for a day on which the rule plays.
LEMMA DecisionOnDay ==
  ASSUME NEW s \in ValidSchedules, NEW t \in Nat, Rings(CronOf(s, "decision"), t)
  PROVE  OnDay(s, "decision", t)
<1>1. PICK D \in Nat : D = DayOf(t)
  BY DayType
<1>2. D % 7 = TriggerWeekday(s.targetWeekday, DaysBefore(s, "decision"))
  BY <1>1 DEF Rings, CronOf, Cron, DaysBefore
<1>3. QED
  BY <1>1, <1>2, CountDays DEF OnDay, TargetDate, Kinds

\* A delay that does not cross midnight ends on the day on which it began.
LEMMA DelayOnDay ==
  ASSUME NEW s \in ValidSchedules, NEW kind \in {"poll", "confirmation"}, NEW t \in Nat,
         Rings(CronOf(s, kind), t), NEW d \in Delays(WindowOf(s, kind))
  PROVE  OnDay(s, kind, t + d) \/ StraddlesMidnight(s, kind)
<1> SUFFICES ASSUME ~StraddlesMidnight(s, kind) PROVE OnDay(s, kind, t + d)
  OBVIOUS
<1>1. PICK D \in Nat, m \in 0 .. 1439 : D = DayOf(t) /\ m = MinuteOf(t)
  BY DayType
<1>2. t = 1440 * D + m
  BY <1>1 DEF DayOf, MinuteOf, DayLength
<1>3. PICK e \in Nat : e = d
  BY DelayType DEF Kinds
<1>4. m + e < 1440 /\ D % 7 = TriggerWeekday(s.targetWeekday, DaysBefore(s, kind))
  <2>1. CASE kind = "poll"
    <3>1. PICK a \in 0 .. 1439 : a = s.pollTime
      BY ScheduleFacts
    <3>2. PICK j \in Nat : j = s.jitter
      BY ScheduleFacts
    <3>3. a = s.pollTime /\ j = s.jitter
      BY <3>1, <3>2
    <3>4. ~(a + j > 1440)
      <4>1. DayLength = 1440
        BY DEF DayLength
      <4>2. QED
        BY <2>1, <3>3, <4>1 DEF StraddlesMidnight
    <3>5. a + j <= 1440
      BY <3>4
    <3>6. m = a /\ D % 7 = TriggerWeekday(s.targetWeekday, DaysBefore(s, kind))
      BY <1>1, <2>1, <3>3 DEF Rings, CronOf, Cron, DaysBefore
    <3>7. e \in IF j <= 0 THEN {0} ELSE {0, j - 1}
      BY <1>3, <2>1, <3>3 DEF Delays, WindowOf
    <3>8. m + e < 1440
      BY <3>5, <3>6, <3>7
    <3>9. QED
      BY <3>6, <3>8
  <2>2. CASE kind = "confirmation"
    <3>1. PICK a \in 0 .. 1439 : a = s.confirmationTime
      BY ScheduleFacts
    <3>2. ~(a < 10) /\ ~(a + 10 > 1440)
      <4>1. DayLength = 1440 /\ HalfWindow = 10
        BY DEF DayLength, HalfWindow
      <4>2. QED
        BY <2>2, <3>1, <4>1 DEF StraddlesMidnight
    <3>3. a >= 10 /\ a + 10 <= 1440
      BY <3>2
    <3>4. PICK n \in Nat : n = DaysBefore(s, kind)
      BY ScheduleFacts DEF DaysBefore
    <3>5. PICK w \in 0 .. 6 : w = TriggerWeekday(s.targetWeekday, n)
      <4>1. PICK v \in 0 .. 6 : v = s.targetWeekday
        BY ScheduleFacts
      <4>2. (v - n) % 7 \in 0 .. 6
        OBVIOUS
      <4>3. QED
        BY <4>1, <4>2 DEF TriggerWeekday
    <3>6. CronOf(s, kind) = [minute |-> (a - 10) % 1440, weekday |-> (w + (a - 10) \div 1440) % 7]
      BY <2>2, <3>1, <3>4, <3>5 DEF CronOf, Cron, Earlier, HalfWindow, DayLength, DaysBefore
    <3>7. (a - 10) % 1440 = a - 10 /\ (w + (a - 10) \div 1440) % 7 = w
      BY <3>3
    <3>8. m = a - 10 /\ D % 7 = w
      BY <1>1, <3>6, <3>7 DEF Rings
    <3>9. e \in {0, 19}
      BY <1>3, <2>2 DEF Delays, WindowOf, HalfWindow
    <3>10. m + e < 1440
      BY <3>3, <3>8, <3>9
    <3>11. QED
      BY <3>4, <3>5, <3>8, <3>10
  <2>3. QED
    BY <2>1, <2>2
<1>5. DayOf(t + d) = D
  <2>1. DayOf(1440 * D + m + e) = D
    <3>1. m + e < 1440
      BY <1>4
    <3>2. QED
      BY <3>1 DEF DayOf, DayLength
  <2>2. QED
    BY <1>2, <1>3, <2>1
<1>6. (D + DaysBefore(s, kind)) % 7 = s.targetWeekday
  BY <1>4, CountDays DEF Kinds
<1>7. QED
  BY <1>5, <1>6 DEF OnDay, TargetDate

\* At first nothing is due.
LEMMA DayInit == Init => DayInv /\ RightDay
BY DEF Init, DayInv, RightDay

\* Every step keeps the timers and the triggers to the days on which the rule plays.
LEMMA DayNext ==
  TypeInv /\ ReloadInv /\ DayInv /\ RightDay /\ [Next]_vars => DayInv' /\ RightDay'
<1> SUFFICES ASSUME TypeInv, ReloadInv, DayInv, RightDay, [Next]_vars, ~late', ~stale', ~overlap'
             PROVE  DayInv' /\ RightDay'
  BY DEF DayInv, RightDay
<1>1. ~late
  BY DEF Next, Advance, Ring, ReadAndDrop, ReadAndDelay, ReadAndDecide, ReadsLate, ReadFails, Poll,
         CreateJob, CreateFails, Confirm, Edit, EditUnheard, Clear, Load, LoadFails, Schedule, Stop,
         Start, vars
<1>2. ~overlap
  BY DEF Next, Advance, Ring, ReadAndDrop, ReadAndDelay, ReadAndDecide, ReadFails, Poll, CreateJob,
         CreateFails, Confirm, Edit, EditUnheard, Clear, Load, LoadFails, Schedule, Stop, Start, vars
<1>3. ~late /\ ~stale /\ ~overlap
  <2>1. ~stale
    BY DEF Next, Advance, Ring, ReadAndDrop, ReadAndDelay, ReadAndDecide, ReadsLate, ReadFails, Poll,
           CreateJob, CreateFails, Confirm, Edit, EditUnheard, Clear, Load, LoadFails, Schedule, Stop,
           Start, vars
  <2>2. QED
    BY <1>1, <1>2, <2>1
<1>4. CASE Advance
  BY <1>3, <1>4 DEF Advance, Quiet, DayInv, RightDay
<1>5. CASE \E h \in handles, k \in Kinds : Ring(h, k)
  <2>1. PICK h \in handles, k \in Kinds : Ring(h, k)
    BY <1>5
  <2>2. Rings(CronOf(h.schedule, k), now)
    BY <2>1 DEF Ring, Due
  <2>3. \A o \in handles : o = h
    BY OneTask
  <2>4. QED
    BY <1>3, <2>1, <2>2, <2>3 DEF Ring, DayInv, RightDay
<1>6. CASE \E c \in reading : ReadAndDrop(c) \/ ReadFails(c)
  BY <1>3, <1>6 DEF ReadAndDrop, ReadFails, DayInv, RightDay
<1>7. ASSUME NEW c \in reading, ReadAndDelay(c) \/ ReadAndDecide(c)
      PROVE  now \in Nat /\ row.schedule \in ValidSchedules /\ Rings(CronOf(row.schedule, c.kind), now)
  <2>1. up /\ AtRest /\ ~unheard
    BY <1>7 DEF ReloadInv, AtRest, ReadAndDelay, ReadAndDecide, ReadsLate
  <2>2. PICK h \in handles : h.gen = c.gen
    BY <1>7 DEF ReadAndDelay, ReadAndDecide, ReadsLate
  <2>3. h.schedule = row.schedule
    BY <1>3, <2>1 DEF ReloadInv, Current
  <2>4. QED
    BY <1>3, <2>2, <2>3, RowFacts, HorizonIsATime DEF DayInv, TypeInv
<1>8. CASE \E c \in reading : ReadAndDelay(c)
  <2>1. PICK c \in reading : ReadAndDelay(c)
    BY <1>8
  <2>2. PICK d \in Delays(WindowOf(row.schedule, c.kind)) :
          timers' = timers \cup {[kind |-> c.kind, gen |-> c.gen, schedule |-> row.schedule, at |-> now + d]}
    BY <2>1 DEF ReadAndDelay
  <2>3. c.kind \in {"poll", "confirmation"}
    BY <2>1 DEF ReadAndDelay, TypeInv, Kinds
  <2>4. OnDay(row.schedule, c.kind, now + d) \/ StraddlesMidnight(row.schedule, c.kind)
    BY <1>7, <2>1, <2>3, DelayOnDay
  <2>5. QED
    BY <1>3, <2>1, <2>2, <2>4 DEF ReadAndDelay, DayInv, RightDay
<1>9. CASE \E c \in reading : ReadAndDecide(c)
  <2>1. PICK c \in reading : ReadAndDecide(c)
    BY <1>9
  <2>2. OnDay(row.schedule, "decision", now)
    BY <1>7, <2>1, DecisionOnDay DEF ReadAndDecide
  <2>3. QED
    BY <1>3, <2>1, <2>2 DEF ReadAndDecide, Logged, OnDay, DayInv, RightDay
<1>10. CASE \E t \in timers : Poll(t)
  BY <1>3, <1>10 DEF Poll, Logged, OnDay, DayInv, RightDay
<1>11. CASE \E t \in timers : Confirm(t)
  BY <1>3, <1>11 DEF Confirm, Logged, OnDay, DayInv, RightDay
<1>12. CASE \E p \in creating : CreateJob(p) \/ CreateFails(p)
  BY <1>3, <1>12 DEF CreateJob, CreateFails, DayInv, RightDay
<1>13. CASE EditUnheard \/ \E r \in Reloads : Edit(r) \/ Clear(r) \/ Load(r) \/ LoadFails(r)
  BY <1>3, <1>13 DEF Edit, EditUnheard, Clear, Load, LoadFails, DayInv, RightDay
<1>14. CASE \E r \in Reloads : Schedule(r)
  <2>1. PICK r \in Reloads : Schedule(r)
    BY <1>14
  <2>2. CASE reload[r].row.enabled
    <3>1. gen' \notin 1 .. gen /\ \A c \in reading' : c.gen \in 1 .. gen
      BY <2>1, <2>2, NewGeneration DEF Schedule, TypeInv
    <3>2. \A h \in handles' : h.gen = gen'
      BY <2>1, <2>2 DEF Schedule, TasksFor
    <3>3. \A t \in timers' : t \in timers
      BY <2>1, <2>2 DEF Schedule
    <3>4. QED
      BY <1>3, <2>1, <3>1, <3>2, <3>3 DEF Schedule, DayInv, RightDay
  <2>3. CASE ~reload[r].row.enabled
    BY <1>3, <2>1, <2>3 DEF Schedule, DayInv, RightDay
  <2>4. QED
    BY <2>2, <2>3
<1>15. CASE Stop
  BY <1>3, <1>15 DEF Stop, DayInv, RightDay
<1>16. CASE Start
  BY <1>3, <1>16 DEF Start, ReloadInv, DayInv, RightDay
<1>17. CASE UNCHANGED vars
  BY <1>3, <1>17 DEF vars, DayInv, RightDay
<1>18. QED
  BY <1>4, <1>5, <1>6, <1>8, <1>9, <1>10, <1>11, <1>12, <1>13, <1>14, <1>15, <1>16, <1>17 DEF Next

-----------------------------------------------------------------------------
(* The times of a week.                                                      *)

\* When the poll and the decision of a date are due.
LEMMA TimesType ==
  ASSUME NEW s \in ValidSchedules, NEW d \in Nat
  PROVE  Asked(s, d) \in Int /\ Decides(s, d) \in Int
<1>1. PICK n \in Nat : n = s.pollDaysBefore
  BY ScheduleFacts
<1>2. PICK a \in 0 .. 1439 : a = s.pollTime
  BY ScheduleFacts
<1>3. PICK m \in Nat : m = s.decisionDaysBefore
  BY ScheduleFacts
<1>4. PICK b \in 0 .. 1439 : b = s.decisionTime
  BY ScheduleFacts
<1>5. Asked(s, d) = 1440 * (d - n) + a
  BY <1>1, <1>2 DEF Asked, DayLength
<1>6. Decides(s, d) = 1440 * (d - m) + b
  BY <1>3, <1>4 DEF Decides, DayLength
<1>7. QED
  BY <1>5, <1>6

\* The poll and the decision of a date are due when their crons ring.
LEMMA DueWhenRinging ==
  ASSUME NEW s \in ValidSchedules, NEW d \in Nat, Plays(s, d)
  PROVE  /\ Asked(s, d) >= 0 => Asked(s, d) \in Nat /\ Rings(CronOf(s, "poll"), Asked(s, d))
         /\ Decides(s, d) >= 0 => Decides(s, d) \in Nat /\ Rings(CronOf(s, "decision"), Decides(s, d))
<1>1. PICK w \in 0 .. 6 : w = s.targetWeekday
  BY ScheduleFacts
<1>2. d % 7 = w
  BY <1>1 DEF Plays
<1>3. PICK n \in Nat : n = s.pollDaysBefore
  BY ScheduleFacts
<1>4. PICK a \in 0 .. 1439 : a = s.pollTime
  BY ScheduleFacts
<1>5. PICK m \in Nat : m = s.decisionDaysBefore
  BY ScheduleFacts
<1>6. PICK b \in 0 .. 1439 : b = s.decisionTime
  BY ScheduleFacts
<1>7. ASSUME Asked(s, d) >= 0
      PROVE  Asked(s, d) \in Nat /\ Rings(CronOf(s, "poll"), Asked(s, d))
  <2>1. PICK t \in Int : t = 1440 * (d - n) + a
    OBVIOUS
  <2>2. Asked(s, d) = t
    BY <1>3, <1>4, <2>1 DEF Asked, DayLength
  <2>3. t \in Nat
    BY <1>7, <2>2
  <2>4. DayOf(t) = d - n /\ MinuteOf(t) = a
    BY <2>1 DEF DayOf, MinuteOf, DayLength
  <2>5. (d - n) % 7 = (w - n) % 7
    BY <1>2
  <2>6. CronOf(s, "poll") = [minute |-> a, weekday |-> (w - n) % 7]
    BY <1>1, <1>3, <1>4 DEF CronOf, Cron, TriggerWeekday
  <2>7. Rings(CronOf(s, "poll"), t)
    BY <2>4, <2>5, <2>6 DEF Rings
  <2>8. QED
    BY <2>2, <2>3, <2>7
<1>8. ASSUME Decides(s, d) >= 0
      PROVE  Decides(s, d) \in Nat /\ Rings(CronOf(s, "decision"), Decides(s, d))
  <2>1. PICK t \in Int : t = 1440 * (d - m) + b
    OBVIOUS
  <2>2. Decides(s, d) = t
    BY <1>5, <1>6, <2>1 DEF Decides, DayLength
  <2>3. t \in Nat
    BY <1>8, <2>2
  <2>4. DayOf(t) = d - m /\ MinuteOf(t) = b
    BY <2>1 DEF DayOf, MinuteOf, DayLength
  <2>5. (d - m) % 7 = (w - m) % 7
    BY <1>2
  <2>6. CronOf(s, "decision") = [minute |-> b, weekday |-> (w - m) % 7]
    BY <1>1, <1>5, <1>6 DEF CronOf, Cron, TriggerWeekday
  <2>7. Rings(CronOf(s, "decision"), t)
    BY <2>4, <2>5, <2>6 DEF Rings
  <2>8. QED
    BY <2>2, <2>3, <2>7
<1>9. QED
  BY <1>7, <1>8

\* A poll that goes out in the window of a date is for that date.
LEMMA WindowDate ==
  ASSUME NEW s \in ValidSchedules, NEW d \in Nat, NEW t \in Nat, ~StraddlesMidnight(s, "poll"),
         InWindow(s, d, t)
  PROVE  TargetDate(s, "poll", t) = d
<1>1. PICK n \in Nat : n = s.pollDaysBefore
  BY ScheduleFacts
<1>2. PICK a \in 0 .. 1439 : a = s.pollTime
  BY ScheduleFacts
<1>3. PICK j \in Nat : j = s.jitter
  BY ScheduleFacts
<1>4. ~(a + j > 1440)
  <2>1. DayLength = 1440
    BY DEF DayLength
  <2>2. QED
    BY <1>2, <1>3, <2>1 DEF StraddlesMidnight
<1>5. PICK A \in Int : A = 1440 * (d - n) + a
  OBVIOUS
<1>6. A = Asked(s, d)
  BY <1>1, <1>2, <1>5 DEF Asked, DayLength
<1>7. t = A \/ (A < t /\ t < A + j)
  BY <1>3, <1>6 DEF InWindow
<1>8. DayOf(t) = d - n
  BY <1>4, <1>5, <1>7 DEF DayOf, DayLength
<1>9. QED
  BY <1>1, <1>8 DEF TargetDate, DaysBefore

\* The date of a poll or of a decision that rings is the one that is due.
LEMMA RingDate ==
  ASSUME NEW s \in ValidSchedules, NEW t \in Nat
  PROVE  /\ Rings(CronOf(s, "poll"), t) => Asked(s, TargetDate(s, "poll", t)) = t
         /\ Rings(CronOf(s, "decision"), t) => Decides(s, TargetDate(s, "decision", t)) = t
         /\ \A d \in Nat : Decides(s, d) = t => TargetDate(s, "decision", t) = d
<1>1. PICK n \in Nat : n = s.pollDaysBefore
  BY ScheduleFacts
<1>2. PICK a \in 0 .. 1439 : a = s.pollTime
  BY ScheduleFacts
<1>3. PICK m \in Nat : m = s.decisionDaysBefore
  BY ScheduleFacts
<1>4. PICK b \in 0 .. 1439 : b = s.decisionTime
  BY ScheduleFacts
<1>5. PICK D \in Nat, e \in 0 .. 1439 : D = DayOf(t) /\ e = MinuteOf(t)
  BY DayType
<1>6. t = 1440 * D + e
  BY <1>5 DEF DayOf, MinuteOf, DayLength
<1>7. TargetDate(s, "poll", t) = D + n /\ TargetDate(s, "decision", t) = D + m
  BY <1>1, <1>3, <1>5 DEF TargetDate, DaysBefore
<1>8. ASSUME Rings(CronOf(s, "poll"), t) PROVE Asked(s, TargetDate(s, "poll", t)) = t
  <2>1. e = a
    BY <1>2, <1>5, <1>8 DEF Rings, CronOf, Cron
  <2>2. PICK d \in Nat : d = D + n
    OBVIOUS
  <2>3. Asked(s, d) = 1440 * (d - n) + a
    BY <1>1, <1>2 DEF Asked, DayLength
  <2>4. 1440 * (d - n) + a = t
    BY <1>6, <2>1, <2>2
  <2>5. QED
    BY <1>7, <2>2, <2>3, <2>4
<1>9. ASSUME Rings(CronOf(s, "decision"), t) PROVE Decides(s, TargetDate(s, "decision", t)) = t
  <2>1. e = b
    BY <1>4, <1>5, <1>9 DEF Rings, CronOf, Cron
  <2>2. PICK d \in Nat : d = D + m
    OBVIOUS
  <2>3. Decides(s, d) = 1440 * (d - m) + b
    BY <1>3, <1>4 DEF Decides, DayLength
  <2>4. 1440 * (d - m) + b = t
    BY <1>6, <2>1, <2>2
  <2>5. QED
    BY <1>7, <2>2, <2>3, <2>4
<1>10. ASSUME NEW d \in Nat, Decides(s, d) = t PROVE TargetDate(s, "decision", t) = d
  <2>1. t = 1440 * (d - m) + b
    BY <1>3, <1>4, <1>10 DEF Decides, DayLength
  <2>2. PICK q \in Int : q = d - m
    OBVIOUS
  <2>3. t = 1440 * q + b
    BY <2>1, <2>2
  <2>4. DayOf(t) = q
    BY <2>3 DEF DayOf, DayLength
  <2>5. q + m = d
    BY <2>2
  <2>6. QED
    BY <1>3, <2>4, <2>5 DEF TargetDate, DaysBefore
<1>11. QED
  BY <1>8, <1>9, <1>10

\* A poll whose delay stays within its day starts in the window of its date.
LEMMA DelayInWindow ==
  ASSUME NEW s \in ValidSchedules, NEW t \in Nat, Rings(CronOf(s, "poll"), t),
         NEW e \in Delays(WindowOf(s, "poll"))
  PROVE  /\ \A d \in Nat : Asked(s, d) = t => InWindow(s, d, t + e)
         /\ ~StraddlesMidnight(s, "poll") => InWindow(s, TargetDate(s, "poll", t + e), t + e)
<1>1. PICK j \in Nat : j = s.jitter
  BY ScheduleFacts
<1>2. PICK f \in Nat : f = e
  BY DelayType DEF Kinds
<1>3. f \in IF j <= 0 THEN {0} ELSE {0, j - 1}
  BY <1>1, <1>2 DEF Delays, WindowOf
<1>4. t + f = t \/ (t < t + f /\ t + f < t + j)
  BY <1>3
<1>5. ASSUME NEW d \in Nat, Asked(s, d) = t PROVE InWindow(s, d, t + e)
  BY <1>1, <1>2, <1>4, <1>5 DEF InWindow
<1>6. ASSUME ~StraddlesMidnight(s, "poll")
      PROVE  InWindow(s, TargetDate(s, "poll", t + e), t + e)
  <2>1. TargetDate(s, "poll", t) \in Nat /\ Asked(s, TargetDate(s, "poll", t)) = t
    BY RingDate, TargetType DEF Kinds
  <2>2. InWindow(s, TargetDate(s, "poll", t), t + e)
    BY <1>5, <2>1
  <2>3. t + e \in Nat
    BY <1>2
  <2>4. TargetDate(s, "poll", t + e) = TargetDate(s, "poll", t)
    BY <1>6, <2>1, <2>2, <2>3, WindowDate
  <2>5. QED
    BY <2>2, <2>4
<1>7. QED
  BY <1>5, <1>6

\* A confirmation whose delay stays within its day goes out after the start of its window.
LEMMA ConfirmationMinute ==
  ASSUME NEW s \in ValidSchedules, NEW t \in Nat, Rings(CronOf(s, "confirmation"), t),
         NEW d \in Delays(WindowOf(s, "confirmation")), ~StraddlesMidnight(s, "confirmation")
  PROVE  MinuteOf(t + d) >= s.confirmationTime - HalfWindow
<1>1. PICK a \in 0 .. 1439 : a = s.confirmationTime
  BY ScheduleFacts
<1>2. a >= 10 /\ a + 10 <= 1440
  <2>1. DayLength = 1440 /\ HalfWindow = 10
    BY DEF DayLength, HalfWindow
  <2>2. ~(a < 10) /\ ~(a + 10 > 1440)
    BY <1>1, <2>1 DEF StraddlesMidnight
  <2>3. QED
    BY <2>2
<1>3. PICK D \in Nat, m \in 0 .. 1439 : D = DayOf(t) /\ m = MinuteOf(t)
  BY DayType
<1>4. t = 1440 * D + m
  BY <1>3 DEF DayOf, MinuteOf, DayLength
<1>5. m = (a - 10) % 1440
  <2>1. PICK g : g = TriggerWeekday(s.targetWeekday, s.decisionDaysBefore)
    OBVIOUS
  <2>2. CronOf(s, "confirmation")
          = [minute |-> (a - 10) % 1440, weekday |-> (g + (a - 10) \div 1440) % 7]
    BY <1>1, <2>1 DEF CronOf, Cron, Earlier, HalfWindow, DayLength
  <2>3. MinuteOf(t) = CronOf(s, "confirmation").minute
    BY DEF Rings
  <2>4. QED
    BY <1>3, <2>2, <2>3
<1>6. m = a - 10
  <2>1. (a - 10) % 1440 = a - 10
    BY <1>2
  <2>2. QED
    BY <1>5, <2>1
<1>7. PICK e \in {0, 19} : e = d
  BY DEF Delays, WindowOf, HalfWindow
<1>8. MinuteOf(1440 * D + m + e) = m + e
  BY <1>2, <1>6, <1>7 DEF MinuteOf, DayLength
<1>9. t + d = 1440 * D + m + e
  BY <1>4, <1>7
<1>10. m + e >= a - 10
  BY <1>6, <1>7
<1>11. QED
  BY <1>1, <1>8, <1>9, <1>10 DEF HalfWindow

\* The decision of a date comes after its poll, at worst before the end of the delay.
LEMMA PollThenDecision ==
  ASSUME NEW s \in ValidSchedules, NEW d \in Nat, d >= s.pollDaysBefore
  PROVE  /\ Asked(s, d) >= 0 /\ Asked(s, d) < Decides(s, d)
         /\ \A t \in Nat : t >= Decides(s, d) /\ InWindow(s, d, t) => PollMayBeLate(s)
<1>1. PICK n \in Nat : n = s.pollDaysBefore
  BY ScheduleFacts
<1>2. PICK a \in 0 .. 1439 : a = s.pollTime
  BY ScheduleFacts
<1>3. PICK m \in 0 .. n : m = s.decisionDaysBefore
  BY <1>1, ScheduleFacts
<1>4. PICK b \in 0 .. 1439 : b = s.decisionTime
  BY ScheduleFacts
<1>5. PICK j \in Nat : j = s.jitter
  BY ScheduleFacts
<1>6. m = n => b > a
  <2>1. s.decisionDaysBefore = s.pollDaysBefore => s.decisionTime > s.pollTime
    BY ScheduleFacts
  <2>2. QED
    BY <1>1, <1>2, <1>3, <1>4, <2>1
<1>7. PICK A \in Int : A = 1440 * (d - n) + a
  OBVIOUS
<1>8. PICK B \in Int : B = 1440 * (d - m) + b
  OBVIOUS
<1>9. A = Asked(s, d) /\ B = Decides(s, d)
  BY <1>1, <1>2, <1>3, <1>4, <1>7, <1>8 DEF Asked, Decides, DayLength
<1>10. A >= 0 /\ A < B
  <2>1. d >= n
    BY <1>1
  <2>2. QED
    BY <1>6, <1>7, <1>8, <2>1
<1>11. ASSUME NEW t \in Nat, t >= Decides(s, d), InWindow(s, d, t) PROVE PollMayBeLate(s)
  <2>1. t >= B /\ (t = A \/ (A < t /\ t < A + j))
    BY <1>5, <1>9, <1>11 DEF InWindow
  <2>2. A + j > B
    BY <1>10, <2>1
  <2>3. CASE m = n
    <3>1. a + j > b
      BY <1>7, <1>8, <2>2, <2>3
    <3>2. QED
      BY <1>1, <1>2, <1>3, <1>4, <1>5, <2>3, <3>1 DEF PollMayBeLate
  <2>4. CASE m # n
    <3>1. a + j > 1440
      BY <1>7, <1>8, <2>2, <2>4
    <3>2. StraddlesMidnight(s, "poll")
      <4>1. DayLength = 1440
        BY DEF DayLength
      <4>2. QED
        BY <1>2, <1>5, <3>1, <4>1 DEF StraddlesMidnight
    <3>3. QED
      BY <3>2 DEF PollMayBeLate
  <2>5. QED
    BY <2>3, <2>4
<1>12. QED
  BY <1>9, <1>10, <1>11

\* The decision of the date of a confirmation was due before it.
LEMMA DecisionThenConfirmation ==
  ASSUME NEW s \in ValidSchedules, NEW t \in Nat, MinuteOf(t) >= s.confirmationTime - HalfWindow,
         ~(s.confirmationTime - HalfWindow <= s.decisionTime)
  PROVE  /\ Decides(s, TargetDate(s, "confirmation", t)) >= 0
         /\ Decides(s, TargetDate(s, "confirmation", t)) < t
<1>1. PICK a \in 0 .. 1439 : a = s.confirmationTime
  BY ScheduleFacts
<1>2. PICK m \in Nat : m = s.decisionDaysBefore
  BY ScheduleFacts
<1>3. PICK b \in 0 .. 1439 : b = s.decisionTime
  BY ScheduleFacts
<1>4. PICK D \in Nat, e \in 0 .. 1439 : D = DayOf(t) /\ e = MinuteOf(t)
  BY DayType
<1>5. t = 1440 * D + e
  BY <1>4 DEF DayOf, MinuteOf, DayLength
<1>6. e >= a - 10 /\ ~(a - 10 <= b)
  BY <1>1, <1>3, <1>4 DEF HalfWindow
<1>7. PICK d \in Nat : d = D + m
  OBVIOUS
<1>8. TargetDate(s, "confirmation", t) = d
  BY <1>2, <1>4, <1>7 DEF TargetDate, DaysBefore
<1>9. PICK B \in Int : B = 1440 * (d - m) + b
  OBVIOUS
<1>10. B = Decides(s, d)
  BY <1>2, <1>3, <1>9 DEF Decides, DayLength
<1>11. B >= 0 /\ B < t
  BY <1>5, <1>6, <1>7, <1>9
<1>12. QED
  BY <1>8, <1>10, <1>11

\* Time does not pass over a minute in which a task rings.
LEMMA NoRingMissed ==
  ASSUME TypeInv, Advance, NEW h \in handles, NEW kind \in Kinds, NEW t \in Nat, t < now',
         Rings(CronOf(h.schedule, kind), t)
  PROVE  t < now \/ (t = now /\ <<h.gen, kind>> \in rung)
<1>1. now \in Nat /\ now' \in Nat
  BY AdvanceFacts, HorizonIsATime
<1>2. CASE t = now
  BY <1>2 DEF Advance, Due
<1>3. CASE t > now
  <2>1. NextRing(h, kind) <= t
    BY <1>1, <1>3, RowFacts, NextRingFacts
  <2>2. NextRing(h, kind) >= now' /\ NextRing(h, kind) \in Nat
    BY <1>1, AdvanceFacts, RowFacts, NextRingFacts
  <2>3. QED
    BY <1>1, <2>1, <2>2
<1>4. QED
  BY <1>1, <1>2, <1>3

-----------------------------------------------------------------------------
(* The week in order.                                                        *)

\* What may happen while nobody edits the rule, the pod runs and the database answers.
WeekStep ==
  \/ Advance
  \/ \E h \in handles, k \in Kinds : Ring(h, k)
  \/ \E c \in reading : ReadAndDrop(c) \/ ReadAndDelay(c) \/ ReadAndDecide(c)
  \/ \E t \in timers : Poll(t) \/ Confirm(t)
  \/ \E p \in creating : CreateJob(p)

\* A rule that nobody edits, on a pod that runs, is not reloaded either.
LEMMA WeekSteps ==
  ASSUME WeekInv, Next, Undisturbed'
  PROVE  Undisturbed /\ WeekStep
<1>1. /\ ~\E r \in Reloads : Edit(r) \/ LoadFails(r)
      /\ ~\E c \in reading : ReadFails(c)
      /\ ~\E p \in creating : CreateFails(p)
      /\ ~EditUnheard /\ ~Stop
  BY DEF WeekInv, Undisturbed, Edit, EditUnheard, Save, LoadFails, ReadFails, CreateFails, Failure, Stop
<1>2. Undisturbed
  BY <1>1 DEF Next, Undisturbed, Advance, Ring, ReadAndDrop, ReadAndDelay, ReadAndDecide, Poll,
              CreateJob, Confirm, Clear, Load, Schedule, Start
<1>3. up /\ AtRest
  BY <1>2 DEF WeekInv, Calm
<1>4. /\ ~\E r \in Reloads : Clear(r) \/ Load(r) \/ Schedule(r)
      /\ ~Start
  <2>1. \A r \in Reloads : reload[r].at = "idle"
    BY <1>3 DEF AtRest, Idle
  <2>2. QED
    BY <1>3, <2>1 DEF Clear, Load, Schedule, Start
<1>5. QED
  BY <1>1, <1>2, <1>4 DEF Next, WeekStep

\* The steps of the week leave the tasks as they are.
LEMMA CalmNext ==
  ASSUME Calm, WeekStep
  PROVE  Calm' /\ row' = row
<1> USE DEF Calm
<1>1. CASE Advance
  BY <1>1 DEF Advance, AtRest
<1>2. CASE \E h \in handles, k \in Kinds : Ring(h, k)
  <2>1. PICK h \in handles, k \in Kinds : Ring(h, k)
    BY <1>2
  <2>2. h.gen = 1
    BY DEF Calm
  <2>3. QED
    BY <2>1, <2>2 DEF Ring, AtRest
<1>3. CASE \E c \in reading : ReadAndDrop(c)
  BY <1>3 DEF ReadAndDrop, AtRest
<1>4. CASE \E c \in reading : ReadAndDelay(c) \/ ReadAndDecide(c)
  <2>1. PICK c \in reading : ReadAndDelay(c) \/ ReadAndDecide(c)
    BY <1>4
  <2>2. row.enabled
    BY <2>1 DEF ReadAndDelay, ReadAndDecide, Wanted
  <2>3. c.gen \in {h.gen : h \in handles}
    <3>1. [schedule |-> row.schedule, gen |-> 1] \in handles
      BY <2>2
    <3>2. QED
      BY <3>1
  <2>4. ~late' /\ ~stale'
    BY <2>1, <2>3 DEF ReadAndDelay, ReadAndDecide, ReadsLate, AtRest
  <2>5. \A t \in timers' : t.schedule = row.schedule
    <3>1. CASE ReadAndDelay(c)
      BY <3>1 DEF ReadAndDelay
    <3>2. CASE ReadAndDecide(c)
      BY <3>2 DEF ReadAndDecide
    <3>3. QED
      BY <2>1, <3>1, <3>2
  <2>6. /\ row' = row /\ up' = up /\ reload' = reload /\ overlap' = overlap /\ handles' = handles
        /\ unheard' = unheard
        /\ \A o \in reading' : o \in reading
    BY <2>1 DEF ReadAndDelay, ReadAndDecide
  <2>7. QED
    BY <2>4, <2>5, <2>6 DEF AtRest
<1>5. CASE \E t \in timers : Poll(t)
  BY <1>5 DEF Poll, AtRest
<1>6. CASE \E t \in timers : Confirm(t)
  BY <1>6 DEF Confirm, AtRest
<1>7. CASE \E t \in timers : Poll(t) \/ Confirm(t)
  BY <1>7, <1>5, <1>6
<1>8. CASE \E p \in creating : CreateJob(p)
  BY <1>8 DEF CreateJob, AtRest
<1>9. QED
  BY <1>1, <1>2, <1>3, <1>4, <1>7, <1>8 DEF WeekStep

\* A callback that reads the rule reads it in the minute of its cron.
LEMMA ReadsInItsMinute ==
  ASSUME TypeInv, DayInv, Calm, NEW c \in reading, row.enabled
  PROVE  /\ now \in Nat /\ row.schedule \in ValidSchedules
         /\ Rings(CronOf(row.schedule, c.kind), now)
<1>1. PICK h \in handles : h.schedule = row.schedule /\ h.gen = 1
  <2>1. [schedule |-> row.schedule, gen |-> 1] \in handles
    BY DEF Calm
  <2>2. QED
    BY <2>1
<1>2. Rings(CronOf(h.schedule, c.kind), now)
  BY <1>1 DEF DayInv, Calm
<1>3. QED
  BY <1>1, <1>2, RowFacts, HorizonIsATime DEF TypeInv

\* They keep the delays and the polls under way in their windows.
LEMMA WindowNext ==
  ASSUME TypeInv, DayInv, Calm, NEW s, s = row.schedule, WindowInv(s), WeekStep
  PROVE  WindowInv(s)'
<1> USE DEF WindowInv
<1>1. CASE Advance
  BY <1>1 DEF Advance, Quiet
<1>2. CASE \E h \in handles, k \in Kinds : Ring(h, k)
  BY <1>2 DEF Ring
<1>3. CASE \E c \in reading : ReadAndDrop(c) \/ ReadAndDecide(c)
  BY <1>3 DEF ReadAndDrop, ReadAndDecide
<1>4. CASE \E c \in reading : ReadAndDelay(c)
  <2>1. PICK c \in reading : ReadAndDelay(c)
    BY <1>4
  <2>2. PICK d \in Delays(WindowOf(s, c.kind)) :
          timers' = timers \cup {[kind |-> c.kind, gen |-> c.gen, schedule |-> s, at |-> now + d]}
    BY <2>1 DEF ReadAndDelay
  <2>3. now \in Nat /\ s \in ValidSchedules /\ Rings(CronOf(s, c.kind), now)
    BY <2>1, ReadsInItsMinute DEF ReadAndDelay, Wanted
  <2>4. ASSUME c.kind = "poll", ~StraddlesMidnight(s, "poll")
        PROVE  InWindow(s, TargetDate(s, "poll", now + d), now + d)
    BY <2>2, <2>3, <2>4, DelayInWindow
  <2>5. ASSUME c.kind = "confirmation", ~StraddlesMidnight(s, "confirmation")
        PROVE  MinuteOf(now + d) >= s.confirmationTime - HalfWindow
    BY <2>2, <2>3, <2>5, ConfirmationMinute
  <2>6. creating' = creating /\ now' = now
    BY <2>1 DEF ReadAndDelay
  <2>7. ASSUME NEW t \in timers'
        PROVE  \/ t \in timers
               \/ t.kind = c.kind /\ t.at = now + d
    BY <2>2
  <2>8. QED
    BY <2>4, <2>5, <2>6, <2>7
<1>5. CASE \E t \in timers : Poll(t)
  <2>1. PICK t \in timers : Poll(t)
    BY <1>5
  <2>2. /\ t.kind = "poll" /\ t.at = now /\ t.schedule = s
        /\ timers' \subseteq timers /\ now' = now
        /\ \A p \in creating' : p \in creating \/ p.date = TargetDate(s, "poll", now)
    BY <2>1 DEF Poll, ToCreate, Calm
  <2>3. QED
    BY <2>2
<1>6. CASE \E t \in timers : Confirm(t)
  BY <1>6 DEF Confirm
<1>7. CASE \E p \in creating : CreateJob(p)
  BY <1>7 DEF CreateJob
<1>8. QED
  BY <1>1, <1>2, <1>3, <1>4, <1>5, <1>6, <1>7 DEF WeekStep

\* They leave no poll behind that was due.
LEMMA PollNext ==
  ASSUME TypeInv, DayInv, Calm, NEW s, s = row.schedule, WindowInv(s), PollInv(s), WeekStep
  PROVE  PollInv(s)'
<1>1. row' = row /\ now \in Nat /\ s \in ValidSchedules
  BY CalmNext, RowFacts, HorizonIsATime DEF TypeInv
<1> SUFFICES ASSUME row.enabled, ~StraddlesMidnight(s, "poll"),
                    NEW d \in Nat, Plays(s, d), Asked(s, d) >= 0, Gone(Asked(s, d), "poll")'
             PROVE  PollFollows(s, d)'
  BY <1>1 DEF PollInv
<1> DEFINE h == [schedule |-> s, gen |-> 1]
<1>2. h \in handles /\ h.schedule = s /\ h.gen = 1
  BY DEF Calm
<1>3. ASSUME Gone(Asked(s, d), "poll") PROVE PollFollows(s, d)
  BY <1>3 DEF PollInv
<1>4. CASE Advance
  <2>1. Asked(s, d) < now'
    BY <1>4 DEF Gone, Advance
  <2>2. Gone(Asked(s, d), "poll")
    <3>1. Asked(s, d) \in Nat /\ Rings(CronOf(h.schedule, "poll"), Asked(s, d))
      BY <1>1, <1>2, DueWhenRinging
    <3>2. QED
      BY <1>4, <1>2, <2>1, <3>1, NoRingMissed DEF Gone, Kinds
  <2>3. QED
    BY <1>4, <1>3, <2>2 DEF PollFollows, HasJob, Advance, Quiet
<1>5. CASE \E o \in handles, k \in Kinds : Ring(o, k)
  <2>1. PICK o \in handles, k \in Kinds : Ring(o, k)
    BY <1>5
  <2>2. /\ o.gen = 1 /\ now' = now /\ jobs' = jobs /\ creating' = creating /\ timers' = timers
        /\ reading' = reading \cup {[kind |-> k, gen |-> 1]} /\ rung' = rung \cup {<<1, k>>}
    BY <2>1 DEF Ring, Calm
  <2>3. CASE Gone(Asked(s, d), "poll")
    BY <1>3, <2>2, <2>3 DEF PollFollows, HasJob
  <2>4. CASE ~Gone(Asked(s, d), "poll")
    <3>1. Asked(s, d) = now /\ k = "poll"
      BY <2>2, <2>4 DEF Gone
    <3>2. [kind |-> "poll", gen |-> 1] \in reading'
      BY <2>2, <3>1
    <3>3. \E c \in reading' : c.kind = "poll"
      BY <3>2
    <3>4. QED
      BY <2>2, <3>1, <3>3 DEF PollFollows
  <2>5. QED
    BY <2>3, <2>4
<1>6. CASE \E c \in reading : ReadAndDrop(c) \/ ReadAndDecide(c)
  <2>1. PICK c \in reading : ReadAndDrop(c) \/ ReadAndDecide(c)
    BY <1>6
  <2>2. c.kind # "poll" /\ now' = now /\ rung' = rung /\ reading' = reading \ {c} /\ jobs' = jobs
        /\ creating' = creating /\ timers' = timers
    BY <2>1 DEF ReadAndDrop, ReadAndDecide, Wanted
  <2>3. PollFollows(s, d)
    BY <1>3, <2>2 DEF Gone
  <2>4. QED
    BY <2>2, <2>3 DEF PollFollows, HasJob
<1>7. CASE \E c \in reading : ReadAndDelay(c)
  <2>1. PICK c \in reading : ReadAndDelay(c)
    BY <1>7
  <2>2. PICK e \in Delays(WindowOf(s, c.kind)) :
          timers' = timers \cup {[kind |-> c.kind, gen |-> c.gen, schedule |-> s, at |-> now + e]}
    BY <2>1 DEF ReadAndDelay
  <2>3. reading' = reading \ {c} /\ now' = now /\ rung' = rung /\ jobs' = jobs /\ creating' = creating
    BY <2>1 DEF ReadAndDelay
  <2>4. PollFollows(s, d)
    BY <1>3, <2>3 DEF Gone
  <2>5. CASE c.kind = "poll" /\ Asked(s, d) = now
    <3>1. InWindow(s, d, now + e)
      BY <1>1, <2>2, <2>5, ReadsInItsMinute, DelayInWindow
    <3>2. PICK t \in timers' : t.kind = "poll" /\ t.at = now + e
      <4>1. PICK u : u = now + e
        OBVIOUS
      <4>2. [kind |-> c.kind, gen |-> c.gen, schedule |-> s, at |-> u] \in timers'
        BY <2>2, <4>1
      <4>3. QED
        BY <2>5, <4>1, <4>2
    <3>3. QED
      BY <3>1, <3>2 DEF PollFollows
  <2>6. CASE ~(c.kind = "poll" /\ Asked(s, d) = now)
    BY <2>2, <2>3, <2>4, <2>6 DEF PollFollows, HasJob
  <2>7. QED
    BY <2>5, <2>6
<1>8. CASE \E t \in timers : Poll(t)
  <2>1. PICK t \in timers : Poll(t)
    BY <1>8
  <2>2. /\ t.schedule = s /\ t.at = now /\ now' = now /\ rung' = rung /\ jobs' = jobs
        /\ reading' = reading /\ timers' = timers \ {t}
        /\ creating' = creating \cup ToCreate(TargetDate(s, "poll", now), t.gen)
    BY <2>1 DEF Poll, Calm
  <2>3. HasJob(TargetDate(s, "poll", now)) \/ \E p \in creating' : p.date = TargetDate(s, "poll", now)
    <3>1. CASE ~HasJob(TargetDate(s, "poll", now))
      <4>1. [date |-> TargetDate(s, "poll", now), by |-> t.gen] \in creating'
        BY <2>2, <3>1 DEF ToCreate
      <4>2. QED
        BY <4>1
    <3>2. QED
      BY <3>1
  <2>4. PollFollows(s, d)
    BY <1>3, <2>2 DEF Gone
  <2>5. CASE InWindow(s, d, now)
    <3>1. TargetDate(s, "poll", now) = d
      BY <1>1, <2>5, WindowDate
    <3>2. QED
      BY <2>2, <2>3, <3>1 DEF PollFollows, HasJob
  <2>6. CASE ~InWindow(s, d, now)
    BY <2>2, <2>4, <2>6 DEF PollFollows, HasJob
  <2>7. QED
    BY <2>5, <2>6
<1>9. CASE \E t \in timers : Confirm(t)
  <2>1. PICK t \in timers : Confirm(t)
    BY <1>9
  <2>2. /\ t.kind # "poll" /\ now' = now /\ rung' = rung /\ jobs' = jobs
        /\ reading' = reading /\ timers' = timers \ {t} /\ creating' = creating
    BY <2>1 DEF Confirm
  <2>3. PollFollows(s, d)
    BY <1>3, <2>2 DEF Gone
  <2>4. QED
    BY <2>2, <2>3 DEF PollFollows, HasJob
<1>10. CASE \E p \in creating : CreateJob(p)
  <2>1. PICK p \in creating : CreateJob(p)
    BY <1>10
  <2>2. /\ now' = now /\ rung' = rung /\ jobs \subseteq jobs' /\ reading' = reading
        /\ timers' = timers /\ creating' = creating \ {p}
    BY <2>1 DEF CreateJob
  <2>3. \E j \in jobs' : j.date = p.date
    <3>1. PICK n : n = Cardinality({j \in jobs : j.date = p.date}) + 1
      OBVIOUS
    <3>2. [date |-> p.date, number |-> n] \in jobs'
      BY <2>1, <3>1 DEF CreateJob
    <3>3. QED
      BY <3>2
  <2>4. PollFollows(s, d)
    BY <1>3, <2>2 DEF Gone
  <2>5. QED
    BY <2>2, <2>4, <2>3 DEF PollFollows, HasJob
<1>11. QED
  BY <1>4, <1>5, <1>6, <1>7, <1>8, <1>9, <1>10 DEF WeekStep

\* They leave no decision behind that was due.
LEMMA DecisionNext ==
  ASSUME TypeInv, Calm, NEW s, s = row.schedule, DecisionInv(s), WeekStep
  PROVE  DecisionInv(s)'
<1>1. row' = row /\ now \in Nat /\ s \in ValidSchedules
  BY CalmNext, RowFacts, HorizonIsATime DEF TypeInv
<1> SUFFICES ASSUME row.enabled, NEW d \in Nat, Plays(s, d), Decides(s, d) >= 0,
                    Gone(Decides(s, d), "decision")'
             PROVE  DecisionFollows(s, d)'
  BY <1>1 DEF DecisionInv
<1> DEFINE h == [schedule |-> s, gen |-> 1]
<1>2. h \in handles /\ h.schedule = s /\ h.gen = 1
  BY DEF Calm
<1>3. ASSUME Gone(Decides(s, d), "decision") PROVE DecisionFollows(s, d)
  BY <1>3 DEF DecisionInv
<1>4. CASE Advance
  <2>1. Decides(s, d) < now'
    BY <1>4 DEF Gone, Advance
  <2>2. Gone(Decides(s, d), "decision")
    <3>1. Decides(s, d) \in Nat /\ Rings(CronOf(h.schedule, "decision"), Decides(s, d))
      BY <1>1, <1>2, DueWhenRinging
    <3>2. QED
      BY <1>4, <1>2, <2>1, <3>1, NoRingMissed DEF Gone, Kinds
  <2>3. QED
    BY <1>4, <1>3, <2>2 DEF DecisionFollows, Advance, Quiet
<1>5. CASE \E o \in handles, k \in Kinds : Ring(o, k)
  <2>1. PICK o \in handles, k \in Kinds : Ring(o, k)
    BY <1>5
  <2>2. /\ o.gen = 1 /\ now' = now /\ log' = log /\ decided' = decided
        /\ reading' = reading \cup {[kind |-> k, gen |-> 1]} /\ rung' = rung \cup {<<1, k>>}
    BY <2>1 DEF Ring, Calm
  <2>3. CASE Gone(Decides(s, d), "decision")
    BY <1>3, <2>2, <2>3 DEF DecisionFollows
  <2>4. CASE ~Gone(Decides(s, d), "decision")
    <3>1. Decides(s, d) = now /\ k = "decision"
      BY <2>2, <2>4 DEF Gone
    <3>2. [kind |-> "decision", gen |-> 1] \in reading'
      BY <2>2, <3>1
    <3>3. \E c \in reading' : c.kind = "decision"
      BY <3>2
    <3>4. QED
      BY <2>2, <3>1, <3>3 DEF DecisionFollows
  <2>5. QED
    BY <2>3, <2>4
<1>6. CASE \E c \in reading : ReadAndDrop(c) \/ ReadAndDelay(c)
  <2>1. PICK c \in reading : ReadAndDrop(c) \/ ReadAndDelay(c)
    BY <1>6
  <2>2. c.kind # "decision" /\ now' = now /\ rung' = rung /\ reading' = reading \ {c}
        /\ log' = log /\ decided' = decided
    BY <2>1 DEF ReadAndDrop, ReadAndDelay, Wanted
  <2>3. DecisionFollows(s, d)
    BY <1>3, <2>2 DEF Gone
  <2>4. QED
    BY <2>2, <2>3 DEF DecisionFollows
<1>7. CASE \E c \in reading : ReadAndDecide(c)
  <2> DEFINE date == TargetDate(s, "decision", now)
             e == [kind |-> "decision", schedule |-> s, on |-> now, target |-> date,
                   found |-> HasJob(date)]
  <2>1. PICK c \in reading : ReadAndDecide(c)
    BY <1>7
  <2>2. /\ now' = now /\ rung' = rung /\ reading' = reading \ {c}
        /\ log' = log \cup {e}
        /\ decided' = IF HasJob(date) THEN decided \cup {date} ELSE decided
    BY <2>1 DEF ReadAndDecide, Logged
  <2>3. DecisionFollows(s, d)
    BY <1>3, <2>2 DEF Gone
  <2>4. CASE Decides(s, d) = now
    <3>1. date = d
      BY <1>1, <2>4, RingDate
    <3>2. e \in log' /\ e.kind = "decision" /\ e.target = d /\ (e.found => d \in decided')
      BY <2>2, <3>1
    <3>3. QED
      BY <3>2 DEF DecisionFollows
  <2>5. CASE Decides(s, d) # now
    <3>1. PICK f \in log : f.kind = "decision" /\ f.target = d /\ (f.found => d \in decided)
      BY <2>3, <2>5 DEF DecisionFollows
    <3>2. f \in log' /\ (f.found => d \in decided')
      BY <2>2, <3>1
    <3>3. QED
      BY <3>1, <3>2 DEF DecisionFollows
  <2>6. QED
    BY <2>4, <2>5
<1>8. CASE \E t \in timers : Poll(t) \/ Confirm(t)
  <2>1. PICK t \in timers : Poll(t) \/ Confirm(t)
    BY <1>8
  <2>2. now' = now /\ rung' = rung /\ reading' = reading /\ log \subseteq log' /\ decided' = decided
    BY <2>1 DEF Poll, Confirm, Logged
  <2>3. DecisionFollows(s, d)
    BY <1>3, <2>2 DEF Gone
  <2>4. QED
    BY <2>2, <2>3 DEF DecisionFollows
<1>9. CASE \E p \in creating : CreateJob(p)
  <2>1. now' = now /\ rung' = rung /\ reading' = reading /\ log' = log /\ decided' = decided
    BY <1>9 DEF CreateJob
  <2>2. DecisionFollows(s, d)
    BY <1>3, <2>1 DEF Gone
  <2>3. QED
    BY <2>1, <2>2 DEF DecisionFollows
<1>10. QED
  BY <1>4, <1>5, <1>6, <1>7, <1>8, <1>9 DEF WeekStep

\* A decision that runs finds the job of its date, unless the poll may be late.
LEMMA DecisionHasJob ==
  ASSUME TypeInv, DayInv, Calm, NEW s, s = row.schedule, WindowInv(s), PollInv(s),
         NEW c \in reading, ReadAndDecide(c),
         TargetDate(s, "decision", now) >= s.pollDaysBefore
  PROVE  HasJob(TargetDate(s, "decision", now)) \/ PollMayBeLate(s)
<1>1. now \in Nat /\ s \in ValidSchedules /\ Rings(CronOf(s, "decision"), now) /\ row.enabled
  BY ReadsInItsMinute DEF ReadAndDecide, Wanted
<1>2. PICK d \in Nat : d = TargetDate(s, "decision", now)
  BY <1>1, TargetType DEF Kinds
<1> SUFFICES ASSUME ~PollMayBeLate(s) PROVE HasJob(d)
  BY <1>2
<1>3. Decides(s, d) = now
  BY <1>1, <1>2, RingDate
<1>4. Asked(s, d) >= 0 /\ Asked(s, d) < now
  BY <1>1, <1>2, <1>3, PollThenDecision
<1>5. \A t \in Nat : t >= now => ~InWindow(s, d, t)
  BY <1>1, <1>2, <1>3, PollThenDecision
<1>6. Plays(s, d)
  BY <1>1, <1>2, DecisionOnDay DEF OnDay, Plays
<1>7. ~StraddlesMidnight(s, "poll")
  BY DEF PollMayBeLate
<1>8. PollFollows(s, d)
  BY <1>1, <1>4, <1>6, <1>7 DEF PollInv, Gone
<1>9. ~\E p \in creating : p.date = d
  BY <1>1, <1>5, <1>7 DEF WindowInv
<1>10. ~\E t \in timers : t.kind = "poll" /\ InWindow(s, d, t.at)
  BY <1>5 DEF TypeInv
<1>11. Asked(s, d) # now
  <2>1. Asked(s, d) \in Int
    BY <1>1, TimesType
  <2>2. QED
    BY <1>1, <1>4, <2>1
<1>12. QED
  BY <1>8, <1>9, <1>10, <1>11 DEF PollFollows

\* A confirmation that runs finds that the decision of its date has run.
LEMMA ConfirmationHasDecision ==
  ASSUME TypeInv, JobInv, DayInv, Calm, NEW s, s = row.schedule, WindowInv(s), DecisionInv(s),
         NEW t \in timers, t.kind = "confirmation", t.at = now,
         ~(s.confirmationTime - HalfWindow <= s.decisionTime), ~StraddlesMidnight(s, "confirmation")
  PROVE  \E e \in log : /\ e.kind = "decision" /\ e.target = TargetDate(s, "confirmation", now)
                        /\ e.found => TargetDate(s, "confirmation", now) \in decided
<1>1. now \in Nat /\ s \in ValidSchedules
  BY RowFacts, HorizonIsATime DEF TypeInv
<1>2. PICK d \in Nat : d = TargetDate(s, "confirmation", now)
  BY <1>1, TargetType DEF Kinds
<1>3. row.enabled
  BY DEF JobInv, Calm, Generations
<1>4. MinuteOf(now) >= s.confirmationTime - HalfWindow
  BY DEF WindowInv
<1>5. Decides(s, d) >= 0 /\ Decides(s, d) < now
  BY <1>1, <1>2, <1>4, DecisionThenConfirmation
<1>6. Plays(s, d)
  BY <1>2 DEF DayInv, Calm, OnDay, Plays
<1>7. DecisionFollows(s, d)
  BY <1>3, <1>5, <1>6 DEF DecisionInv, Gone
<1>8. Decides(s, d) # now
  <2>1. Decides(s, d) \in Int
    BY <1>1, TimesType
  <2>2. QED
    BY <1>1, <1>5, <2>1
<1>9. QED
  BY <1>2, <1>7, <1>8 DEF DecisionFollows

\* What has run stays in order.
LEMMA HistoryNext ==
  ASSUME TypeInv, JobInv, DayInv, WeekInv, Undisturbed, WeekStep
  PROVE  DecisionFindsJob' /\ ConfirmationAfterDecision'
<1>1. /\ Calm /\ WindowInv(row.schedule) /\ PollInv(row.schedule) /\ DecisionInv(row.schedule)
      /\ DecisionFindsJob /\ ConfirmationAfterDecision
  BY DEF WeekInv
<1>2. PICK s : s = row.schedule
  OBVIOUS
<1>3. CASE log' = log
  BY <1>1, <1>3 DEF DecisionFindsJob, ConfirmationAfterDecision, Undisturbed
<1>4. ASSUME NEW e, log' = log \cup {e},
             e.kind = "decision" /\ e.target >= e.schedule.pollDaysBefore =>
               e.found \/ PollMayBeLate(e.schedule),
             e.kind = "confirmation" =>
               \/ e.found
               \/ e.schedule.confirmationTime - HalfWindow <= e.schedule.decisionTime
               \/ StraddlesMidnight(e.schedule, "confirmation")
               \/ \E d \in log : d.kind = "decision" /\ d.target = e.target /\ ~d.found
      PROVE  DecisionFindsJob' /\ ConfirmationAfterDecision'
  <2>1. \A f \in log' : f \in log \/ f = e
    BY <1>4
  <2>2. log \subseteq log'
    BY <1>4
  <2>3. DecisionFindsJob'
    BY <1>1, <1>4, <2>1 DEF DecisionFindsJob, Undisturbed
  <2>4. ConfirmationAfterDecision'
    BY <1>1, <1>4, <2>1, <2>2 DEF ConfirmationAfterDecision, Undisturbed
  <2>5. QED
    BY <2>3, <2>4
<1>5. CASE \E c \in reading : ReadAndDecide(c)
  <2>1. PICK c \in reading : ReadAndDecide(c)
    BY <1>5
  <2> DEFINE date == TargetDate(s, "decision", now)
             e == [kind |-> "decision", schedule |-> s, on |-> now, target |-> date,
                   found |-> HasJob(date)]
  <2>2. log' = log \cup {e}
    BY <1>2, <2>1 DEF ReadAndDecide, Logged
  <2>3. date >= s.pollDaysBefore => HasJob(date) \/ PollMayBeLate(s)
    BY <1>1, <1>2, <2>1, DecisionHasJob
  <2>4. e.kind = "decision" /\ e.target >= e.schedule.pollDaysBefore =>
          e.found \/ PollMayBeLate(e.schedule)
    BY <2>3
  <2>5. e.kind # "confirmation"
    OBVIOUS
  <2>6. QED
    BY <1>4, <2>2, <2>4, <2>5
<1>6. CASE \E t \in timers : Poll(t)
  <2>1. PICK t \in timers : Poll(t)
    BY <1>6
  <2> DEFINE date == TargetDate(t.schedule, "poll", now)
             e == [kind |-> "poll", schedule |-> t.schedule, on |-> now, target |-> date,
                   found |-> HasJob(date)]
  <2>2. log' = log \cup {e} /\ e.kind = "poll"
    BY <2>1 DEF Poll, Logged
  <2>3. QED
    BY <1>4, <2>2
<1>7. CASE \E t \in timers : Confirm(t)
  <2>1. PICK t \in timers : Confirm(t)
    BY <1>7
  <2> DEFINE date == TargetDate(s, "confirmation", now)
             e == [kind |-> "confirmation", schedule |-> s, on |-> now, target |-> date,
                   found |-> date \in decided]
  <2>2. log' = log \cup {e} /\ t.kind = "confirmation" /\ t.at = now
    BY <1>1, <1>2, <2>1 DEF Confirm, Logged, Calm
  <2>3. ASSUME ~(s.confirmationTime - HalfWindow <= s.decisionTime),
               ~StraddlesMidnight(s, "confirmation"), date \notin decided
        PROVE  \E d \in log : d.kind = "decision" /\ d.target = date /\ ~d.found
    BY <1>1, <1>2, <2>2, <2>3, ConfirmationHasDecision
  <2>4. \/ e.found
        \/ e.schedule.confirmationTime - HalfWindow <= e.schedule.decisionTime
        \/ StraddlesMidnight(e.schedule, "confirmation")
        \/ \E d \in log : d.kind = "decision" /\ d.target = e.target /\ ~d.found
    BY <2>3
  <2>5. e.kind # "decision"
    OBVIOUS
  <2>6. QED
    BY <1>4, <2>2, <2>4, <2>5
<1>8. QED
  BY <1>3, <1>5, <1>6, <1>7 DEF WeekStep, Advance, Ring, ReadAndDrop, ReadAndDelay, CreateJob

\* At first no poll or decision is past.
LEMMA WeekInit == Init => WeekInv
<1> SUFFICES ASSUME Init PROVE WeekInv
  OBVIOUS
<1>1. Calm /\ WindowInv(row.schedule) /\ DecisionFindsJob /\ ConfirmationAfterDecision
  BY DEF Init, Calm, AtRest, WindowInv, DecisionFindsJob, ConfirmationAfterDecision
<1>2. row.schedule \in ValidSchedules
  BY DEF Init, ValidSchedules
<1>3. \A d \in Nat : Asked(row.schedule, d) \in Int /\ Decides(row.schedule, d) \in Int
  BY <1>2, TimesType
<1>4. ASSUME NEW t \in Int, t >= 0, NEW k PROVE ~Gone(t, k)
  BY <1>4 DEF Init, Gone
<1>5. PollInv(row.schedule) /\ DecisionInv(row.schedule)
  BY <1>3, <1>4 DEF PollInv, DecisionInv
<1>6. QED
  BY <1>1, <1>5 DEF Init, WeekInv

\* Every step keeps the week in order, as long as the rule is not edited, the pod runs and
\* the database answers.
LEMMA WeekNext ==
  TypeInv /\ ReloadInv /\ JobInv /\ DayInv /\ WeekInv /\ [Next]_vars => WeekInv'
<1> SUFFICES ASSUME TypeInv, ReloadInv, JobInv, DayInv, WeekInv, [Next]_vars PROVE WeekInv'
  OBVIOUS
<1>1. CASE UNCHANGED vars
  BY <1>1 DEF vars, WeekInv, Undisturbed, Calm, AtRest, WindowInv, PollInv, DecisionInv, Gone,
              PollFollows, DecisionFollows, HasJob, DecisionFindsJob, ConfirmationAfterDecision
<1>2. CASE Next
  <2>1. edits' \in Nat /\ restarts' \in Nat /\ failures' \in Nat
    BY <1>2 DEF WeekInv, Next, Advance, Ring, ReadAndDrop, ReadAndDelay, ReadAndDecide, ReadFails, Poll,
                CreateJob, CreateFails, Failure, Confirm, Edit, EditUnheard, Save, Clear, Load, LoadFails,
                Schedule, Stop, Start
  <2>2. ASSUME Undisturbed'
        PROVE  /\ Calm' /\ WindowInv(row.schedule)' /\ PollInv(row.schedule)'
               /\ DecisionInv(row.schedule)' /\ DecisionFindsJob' /\ ConfirmationAfterDecision'
    <3>1. Undisturbed /\ WeekStep
      BY <1>2, <2>2, WeekSteps
    <3>2. Calm' /\ row' = row
      BY <3>1, CalmNext DEF WeekInv
    <3>3. PICK s : s = row.schedule
      OBVIOUS
    <3>4. Calm /\ WindowInv(s) /\ PollInv(s) /\ DecisionInv(s)
      BY <3>1, <3>3 DEF WeekInv
    <3>5. WindowInv(s)' /\ PollInv(s)' /\ DecisionInv(s)'
      BY <3>1, <3>3, <3>4, WindowNext, PollNext, DecisionNext
    <3>6. s = row'.schedule
      BY <3>2, <3>3
    <3>7. WindowInv(row.schedule)' /\ PollInv(row.schedule)' /\ DecisionInv(row.schedule)'
      BY <3>5, <3>6
    <3>8. QED
      BY <3>1, <3>2, <3>7, HistoryNext
  <2>3. QED
    BY <2>1, <2>2 DEF WeekInv
<1>3. QED
  BY <1>1, <1>2

\* A date whose window is over has its job.
LEMMA WindowOver ==
  ASSUME TypeInv, WeekInv
  PROVE  PollEveryWeek
<1> DEFINE s == row.schedule
<1> SUFFICES ASSUME Undisturbed, row.enabled, Quiet, ~StraddlesMidnight(s, "poll"),
                    NEW d \in Nat, Plays(s, d), Asked(s, d) >= 0, Asked(s, d) + s.jitter < now
             PROVE  HasJob(d)
  <2>1. s \in ValidSchedules
    BY RowFacts
  <2>2. \A d \in 0 .. DayOf(Horizon) + s.pollDaysBefore : d \in Nat
    BY <2>1, ScheduleFacts
  <2>3. QED
    BY <2>2 DEF PollEveryWeek, Plays, Asked
<1>1. s \in ValidSchedules /\ now \in Nat
  BY RowFacts, HorizonIsATime DEF TypeInv
<1>2. PICK A \in Int : A = Asked(s, d)
  BY <1>1, TimesType
<1>3. PICK j \in Nat : j = s.jitter
  BY <1>1, ScheduleFacts
<1>4. A + j < now
  BY <1>2, <1>3
<1>5. A >= 0 /\ A < now
  BY <1>1, <1>2, <1>3, <1>4
<1>6. PollFollows(s, d)
  BY <1>2, <1>5 DEF WeekInv, PollInv, Gone
<1>7. ASSUME NEW t \in timers, InWindow(s, d, t.at) PROVE FALSE
  <2>1. PICK u \in Nat : u = t.at
    BY DEF TypeInv
  <2>2. u >= now
    BY <2>1 DEF TypeInv
  <2>3. u = A \/ (A < u /\ u < A + j)
    BY <1>2, <1>3, <1>7, <2>1 DEF InWindow
  <2>4. QED
    BY <1>1, <1>4, <1>5, <2>2, <2>3
<1>8. QED
  BY <1>6, <1>7 DEF PollFollows, Quiet

-----------------------------------------------------------------------------
(* What holds.                                                               *)

CronInv == TypeInv /\ ReloadInv /\ JobInv /\ DayInv /\ RightDay /\ WeekInv

\* The invariant holds in every reachable state.
LEMMA CronInvHolds == Spec => []CronInv
<1>1. Init => CronInv
  BY TypeInit, ReloadInit, JobInit, DayInit, WeekInit DEF CronInv
<1>2. CronInv /\ [Next]_vars => CronInv'
  BY TypeNext, ReloadNext, JobNext, DayNext, WeekNext DEF CronInv
<1>3. QED
  BY <1>1, <1>2, PTL DEF Spec

\* What is in memory is well typed, and once nothing is under way the tasks are those of
\* the rule as it is stored, unless reloads overlapped or the rule was saved and no reload
\* has read it since (TasksSound: TypeOK and ScheduledAsStored).
THEOREM TasksAreTheRules == Spec => []TasksSound
<1>1. CronInv => TypeOK
  <2> SUFFICES ASSUME TypeInv PROVE TypeOK
    BY DEF CronInv
  <2>1. Cardinality(handles) <= 1
    <3>1. CASE handles = {}
      BY <3>1, FS_EmptySet
    <3>2. CASE handles # {}
      <4>1. PICK h : handles = {h}
        BY <3>2, OneTask
      <4>2. QED
        BY <4>1, FS_Singleton
    <3>3. QED
      BY <3>1, <3>2
  <2>2. {h.gen : h \in handles} \subseteq 1 .. gen
    BY OneTask DEF Generations
  <2>3. {t.gen : t \in timers} \subseteq 1 .. gen
    BY DEF TypeInv
  <2>4. \A t \in timers : t.kind \in {"poll", "confirmation"} /\ t.at >= now
    BY DEF TypeInv
  <2>5. {j.date : j \in jobs} \cup decided \subseteq Nat
    BY DEF TypeInv
  <2>6. row \in Rows /\ now \in 0 .. Horizon /\ up \in BOOLEAN /\ gen \in Nat
    BY DEF TypeInv
  <2>7. {h.gen : h \in handles} \cup {t.gen : t \in timers} \subseteq 1 .. gen
    BY <2>2, <2>3
  <2>8. QED
    BY <2>1, <2>4, <2>5, <2>6, <2>7 DEF TypeOK
<1>2. CronInv => ScheduledAsStored
  BY DEF CronInv, ReloadInv, ScheduledAsStored, Quiet, AtRest, Current
<1>3. QED
  BY <1>1, <1>2, CronInvHolds, PTL DEF TasksSound

\* A trigger creates one job per date, unless a callback read the rule while its tasks were
\* being replaced; and works for a day on which the rule plays, unless, besides, reloads
\* overlapped, a callback read a row that no reload had read, or the delay crosses midnight
\* (DatesSound: OneJobPerDate and RightDay).
THEOREM DatesAreRight == Spec => []DatesSound
<1>1. CronInv => OneJobPerDate
  BY DEF CronInv, JobInv, OneJobPerDate
<1>2. CronInv => RightDay
  BY DEF CronInv
<1>3. QED
  BY <1>1, <1>2, CronInvHolds, PTL DEF DatesSound

\* As long as nobody edits the rule, the pod runs and the database answers, the week goes in order: each date gets
\* its job once the window of its poll is over, its decision finds the job, and its
\* confirmation comes after the decision, whatever the schedule (WeekInOrder:
\* PollEveryWeek, DecisionFindsJob and ConfirmationAfterDecision, with the exceptions they state).
THEOREM TheWeekIsInOrder == Spec => []WeekInOrder
<1>1. CronInv => PollEveryWeek
  BY WindowOver DEF CronInv
<1>2. CronInv => DecisionFindsJob /\ ConfirmationAfterDecision
  BY DEF CronInv, WeekInv, DecisionFindsJob, ConfirmationAfterDecision
<1>3. QED
  BY <1>1, <1>2, CronInvHolds, PTL DEF WeekInOrder

-----------------------------------------------------------------------------
(* The relay of the listener.                                               *)

Copied(of) == IF of = "allow" THEN SUBSET (Groups \ {VincentAll}) ELSE SUBSET ResaKinds

ReadUnderWay == {r \in [of : {"allow", "relay"}, got : SUBSET (Groups \cup ResaKinds)] :
              r.got \in Copied(r.of)}

CopiesType ==
  /\ rules \in [enabled : SUBSET Groups, relay : SUBSET ResaKinds]
  /\ memory \in [allow : SUBSET (Groups \ {VincentAll}), relay : SUBSET ResaKinds]
  /\ reads \in Seq(ReadUnderWay)

StreamType ==
  /\ events \in Seq([chat : Groups, kind : EventKinds])
  /\ delivered \in Nat /\ delivered <= Len(events)
  /\ acked \subseteq 1 .. delivered

HandlingType ==
  /\ handling \in [id : Nat, step : {"none", "persist", "broadcast", "relay"}, relays : BOOLEAN]
  /\ IF handling.step = "none" THEN handling = Nothing ELSE handling.id \in 1 .. delivered

OutcomeType ==
  /\ stored \subseteq 1 .. delivered
  /\ relayed \in Seq(Nat) /\ Len(relayed) = Len(events)
  /\ page \in [connected : BOOLEAN, due : BOOLEAN, shows : SUBSET (1 .. Len(events))]

CountsType == changes \in 0 .. MaxChanges /\ mishaps \in 0 .. MaxMishaps

\* The event being handled is of another group than the organiser's, is stored
\* before it is broadcast and relayed, and not acknowledged.
HandlingSound ==
  /\ handling.step # "none" => /\ events[handling.id].chat # VincentAll
                               /\ handling.id \notin acked
  /\ handling.step \in {"broadcast", "relay"} => handling.id \in stored

\* An event relayed is never delivered again unless the relay has left no trace.
RelaysSound ==
  \A id \in 1 .. Len(events) :
    relayed[id] > 0 => /\ events[id].chat # VincentAll
                       /\ id \in stored
                       /\ id \in acked \cup again
                       /\ relayed[id] <= 1 \/ id \in again

RelayInv ==
  /\ CopiesType /\ StreamType /\ HandlingType /\ OutcomeType /\ CountsType
  /\ HandlingSound /\ RelaysSound

LEMMA ListenerInitInv == ListenerInit => RelayInv
<1> SUFFICES ASSUME ListenerInit PROVE RelayInv
  OBVIOUS
<1> USE DEF ListenerInit
<1>1. CopiesType /\ CountsType
  BY GroupsOfTheSystem, BoundsAreNumbers DEF CopiesType, CountsType, ReadUnderWay, ResaKinds
<1>2. StreamType /\ OutcomeType
  BY DEF StreamType, OutcomeType
<1>3. HandlingType /\ HandlingSound
  BY DEF HandlingType, HandlingSound, Nothing
<1>4. RelaysSound
  BY DEF RelaysSound
<1> QED
  BY <1>1, <1>2, <1>3, <1>4 DEF RelayInv

LEMMA RelaySoundFromInv == RelayInv => RelaySound
<1> SUFFICES ASSUME RelayInv PROVE RelaySound
  OBVIOUS
<1> USE DEF RelayInv
<1>1. EventIds = 1 .. Len(events) /\ DOMAIN relayed = EventIds /\ \A id \in EventIds : relayed[id] \in Nat
  BY DEF StreamType, OutcomeType, EventIds
<1>2. ListenerTypeOK
  BY <1>1 DEF ListenerTypeOK, CopiesType, StreamType, HandlingType, OutcomeType, CountsType
<1>3. NoEcho /\ RelayedIsStored /\ RelayedOnce
  BY <1>1 DEF NoEcho, RelayedIsStored, RelayedOnce, RelaysSound
<1> QED
  BY <1>2, <1>3 DEF RelaySound

LEMMA IdsAre == RelayInv => /\ EventIds = 1 .. Len(events) /\ DOMAIN relayed = EventIds
                        /\ \A id \in EventIds : relayed[id] \in Nat /\ events[id] \in [chat : Groups, kind : EventKinds]
<1> SUFFICES ASSUME RelayInv
             PROVE  /\ EventIds = 1 .. Len(events) /\ DOMAIN relayed = EventIds
                    /\ \A id \in EventIds : relayed[id] \in Nat /\ events[id] \in [chat : Groups, kind : EventKinds]
  OBVIOUS
<1>1. events \in Seq([chat : Groups, kind : EventKinds]) /\ relayed \in Seq(Nat) /\ Len(relayed) = Len(events)
  BY DEF RelayInv, StreamType, OutcomeType
<1>2. DOMAIN events = 1 .. Len(events) /\ DOMAIN relayed = 1 .. Len(events)
  BY <1>1
<1>3. \A id \in 1 .. Len(events) : events[id] \in [chat : Groups, kind : EventKinds]
  BY <1>1, ElementOfSeq
<1>4. \A id \in 1 .. Len(events) : relayed[id] \in Nat
  BY <1>1, ElementOfSeq
<1> QED
  BY <1>2, <1>3, <1>4 DEF EventIds

\* Nothing is handled once a handler is over.
LEMMA IdleHandling == handling' = Nothing => (HandlingType /\ HandlingSound)'
BY DEF HandlingType, HandlingSound, Nothing

\* An event more leaves the former ones as they are, and has not been relayed.
LEMMA PublishInv == RelayInv /\ Publish => RelayInv'
<1> SUFFICES ASSUME RelayInv, Publish PROVE RelayInv'
  OBVIOUS
<1> USE DEF RelayInv
<1>1. PICK g \in Groups, k \in EventKinds : events' = Append(events, [chat |-> g, kind |-> k])
  BY DEF Publish
<1>2. /\ UNCHANGED <<Copies, delivered, acked, handling, stored, page, Counts, Past>>
      /\ relayed' = Append(relayed, 0)
  BY DEF Publish
<1> USE <1>2 DEF Copies, Counts, Past
<1>3. /\ Len(events') = Len(events) + 1 /\ Len(relayed') = Len(events')
      /\ events' \in Seq([chat : Groups, kind : EventKinds]) /\ relayed' \in Seq(Nat)
      /\ \A id \in 1 .. Len(events) : events'[id] = events[id] /\ relayed'[id] = relayed[id]
      /\ relayed'[Len(events) + 1] = 0
  BY <1>1 DEF StreamType, OutcomeType
<1>4. (CopiesType /\ CountsType)'
  BY DEF CopiesType, CountsType
<1>5. (StreamType /\ HandlingType /\ OutcomeType)'
  BY <1>3 DEF StreamType, HandlingType, OutcomeType, Nothing
<1>6. HandlingSound'
  <2>1. handling' = handling /\ acked' = acked /\ stored' = stored
    OBVIOUS
  <2>2. ASSUME handling.step # "none" PROVE events'[handling.id] = events[handling.id]
    <3>1. handling.id \in 1 .. delivered
      BY <2>2 DEF HandlingType
    <3>2. handling.id \in 1 .. Len(events)
      BY <3>1 DEF StreamType
    <3>3. QED
      BY <1>3, <3>2
  <2>3. QED
    BY <2>1, <2>2 DEF HandlingSound
<1>7. RelaysSound'
  <2>1. SUFFICES ASSUME NEW id \in 1 .. Len(events'), relayed'[id] > 0
                 PROVE  /\ events'[id].chat # VincentAll /\ id \in stored' /\ id \in (acked \cup again)'
                        /\ relayed'[id] <= 1 \/ id \in again'
    BY DEF RelaysSound
  <2>2. id \in 1 .. Len(events)
    BY <1>3, <2>1 DEF StreamType
  <2> QED
    BY <1>3, <2>1, <2>2 DEF RelaysSound
<1> QED
  BY <1>4, <1>5, <1>6, <1>7

\* The rules and their copies: the list never has the organiser's group.
LEMMA CopiesInv == RelayInv /\ (Change \/ StartReads \/ EndReads \/ StartListener) => RelayInv'
<1> SUFFICES ASSUME RelayInv, Change \/ StartReads \/ EndReads \/ StartListener PROVE RelayInv'
  OBVIOUS
<1> USE DEF RelayInv
<1>1. UNCHANGED <<Stream, acked, handling, stored, relayed, page, Past>> /\ CountsType'
  <2> USE BoundsAreNumbers DEF Counts, CountsType
  <2>1. CASE Change
    BY <2>1 DEF Change
  <2>2. CASE StartReads
    BY <2>2 DEF StartReads, StartRead
  <2>3. CASE EndReads
    <3>1. PICK n \in DOMAIN reads : EndRead(n)
      BY <2>3 DEF EndReads
    <3>2. Fine \/ Mishap("db")
      BY <3>1 DEF EndRead
    <3>3. CountsType'
      BY <3>2 DEF Fine, Mishap
    <3> QED
      BY <3>1, <3>3 DEF EndRead
  <2>4. CASE StartListener
    BY <2>4 DEF StartListener
  <2> QED
    BY <2>1, <2>2, <2>3, <2>4
<1>2. (StreamType /\ HandlingType /\ OutcomeType /\ HandlingSound /\ RelaysSound)'
  BY <1>1 DEF Stream, Past, StreamType, HandlingType, OutcomeType, HandlingSound, RelaysSound, Nothing
<1>3. CopyOf(rules) \in [allow : SUBSET (Groups \ {VincentAll}), relay : SUBSET ResaKinds]
  BY DEF CopiesType, CopyOf, BuildAllowlist
<1>4. CASE Change
  <2>1. rules' \in [enabled : SUBSET Groups, relay : SUBSET ResaKinds]
    BY <1>4 DEF Change, CopiesType, ResaKinds
  <2> QED
    BY <1>1, <1>2, <1>4, <2>1 DEF Change, CopiesType
<1>5. CASE StartListener
  BY <1>1, <1>2, <1>3, <1>5 DEF StartListener, CopiesType
<1>6. CASE StartReads
  <2>1. PICK copy \in DOMAIN memory : StartRead(copy)
    BY <1>6 DEF StartReads
  <2>2. copy \in {"allow", "relay"}
    BY DEF CopiesType
  <2>3. [of |-> copy, got |-> CopyOf(rules)[copy]] \in ReadUnderWay
    <3>1. CASE copy = "allow"
      BY <1>3, <3>1 DEF ReadUnderWay, Copied
    <3>2. CASE copy = "relay"
      BY <1>3, <3>2 DEF ReadUnderWay, Copied
    <3> QED
      BY <2>2, <3>1, <3>2
  <2> QED
    BY <1>1, <1>2, <2>1, <2>3 DEF StartRead, CopiesType
<1>7. CASE EndReads
  <2>1. PICK n \in DOMAIN reads : EndRead(n)
    BY <1>7 DEF EndReads
  <2>2. reads[n] \in ReadUnderWay /\ n \in 1 .. Len(reads)
    BY DEF CopiesType
  <2>3. memory' \in [allow : SUBSET (Groups \ {VincentAll}), relay : SUBSET ResaKinds]
    <3>1. CASE UNCHANGED memory
      BY <3>1 DEF CopiesType
    <3>2. CASE memory' = [memory EXCEPT ![reads[n].of] = reads[n].got] /\ reads[n].of = "allow"
      BY <2>2, <3>2 DEF CopiesType, ReadUnderWay, Copied
    <3>3. CASE memory' = [memory EXCEPT ![reads[n].of] = reads[n].got] /\ reads[n].of = "relay"
      BY <2>2, <3>3 DEF CopiesType, ReadUnderWay, Copied
    <3> QED
      BY <2>1, <2>2, <3>1, <3>2, <3>3 DEF EndRead, ReadUnderWay
  <2>4. SubSeq(reads, 1, n - 1) \in Seq(ReadUnderWay) /\ SubSeq(reads, n + 1, Len(reads)) \in Seq(ReadUnderWay)
    <3>1. \A i \in 1 .. n - 1 : reads[i] \in ReadUnderWay
      BY <2>2 DEF CopiesType
    <3>2. \A i \in n + 1 .. Len(reads) : reads[i] \in ReadUnderWay
      BY <2>2 DEF CopiesType
    <3>3. n \in Int /\ Len(reads) \in Int
      BY <2>2 DEF CopiesType
    <3> QED
      BY <3>1, <3>2, <3>3, SubSeqProperties
  <2>5. reads' \in Seq(ReadUnderWay)
    BY <2>1, <2>4, ConcatProperties DEF EndRead
  <2> QED
    BY <1>1, <1>2, <2>1, <2>3, <2>5 DEF EndRead, CopiesType
<1> QED
  BY <1>4, <1>5, <1>6, <1>7

\* The page and a crash leave stream, history and relays alone.
LEMMA AroundInv == RelayInv /\ (Connect \/ Cut \/ Refresh \/ Crash) => RelayInv'
<1> SUFFICES ASSUME RelayInv, Connect \/ Cut \/ Refresh \/ Crash PROVE RelayInv'
  OBVIOUS
<1> USE DEF RelayInv
<1>1. UNCHANGED <<rules, memory, Stream, acked, stored, relayed, Past>> /\ CountsType'
  BY BoundsAreNumbers DEF Connect, Cut, Refresh, Crash, Copies, Counts, Mishap, CountsType
<1>2. handling' \in {handling, Nothing} /\ (reads' = reads \/ reads' = << >>)
  BY DEF Connect, Cut, Refresh, Crash, Copies
<1>3. page' \in [connected : BOOLEAN, due : BOOLEAN, shows : SUBSET (1 .. Len(events))]
  BY IdsAre DEF Connect, Cut, Refresh, Crash, OutcomeType
<1>4. (StreamType /\ OutcomeType /\ RelaysSound)'
  BY <1>1, <1>3 DEF Stream, Past, StreamType, OutcomeType, RelaysSound
<1>5. CopiesType'
  <2>1. << >> \in Seq(ReadUnderWay)
    OBVIOUS
  <2> QED
    BY <1>1, <1>2, <2>1 DEF CopiesType
<1>6. (HandlingType /\ HandlingSound)'
  <2>1. CASE handling' = handling
    BY <1>1, <2>1 DEF Stream, HandlingType, HandlingSound, Nothing
  <2> QED
    BY <1>2, <2>1, IdleHandling
<1> QED
  BY <1>1, <1>4, <1>5, <1>6

\* A delivered event is handled when it is of a group of the list, else it is
\* acknowledged.
LEMMA DeliverInv == RelayInv /\ Deliveries => RelayInv'
<1> SUFFICES ASSUME RelayInv, NEW id \in EventIds, Deliver(id) PROVE RelayInv'
  BY DEF Deliveries
<1> USE DEF RelayInv
<1>1. UNCHANGED <<Copies, events, stored, relayed, page, again>> /\ CountsType'
  <2>1. Fine \/ Mishap("ack")
    BY DEF Deliver, Acknowledge
  <2>2. CountsType'
    BY <2>1, BoundsAreNumbers DEF Mishap, Fine, Counts, CountsType
  <2> QED
    BY <2>2 DEF Deliver
<1>6. /\ id \in 1 .. Len(events) /\ id \notin acked /\ id <= delivered'
      /\ delivered' \in Nat /\ delivered <= delivered' /\ delivered' <= Len(events)
  <2>1. id \in 1 .. Len(events)
    BY IdsAre
  <2> QED
    BY <2>1 DEF Deliver, StreamType
<1>2. /\ acked' \subseteq acked \cup {id} /\ acked \subseteq acked'
      /\ \/ handling' = Nothing
         \/ /\ ShouldRelay(events[id]) /\ acked' = acked
            /\ handling' = [id |-> id, step |-> "persist", relays |-> events[id].kind \in memory.relay]
  BY DEF Deliver, Acknowledge
<1>3. (CopiesType /\ StreamType /\ OutcomeType)'
  BY <1>1, <1>2, <1>6 DEF Copies, CopiesType, StreamType, OutcomeType
<1>4. RelaysSound'
  BY <1>1, <1>2 DEF RelaysSound
<1>5. (HandlingType /\ HandlingSound)'
  <2>1. CASE handling' = Nothing
    BY <2>1, IdleHandling
  <2>2. CASE handling' # Nothing
    <3>1. /\ handling' = [id |-> id, step |-> "persist", relays |-> events[id].kind \in memory.relay]
          /\ events[id].chat # VincentAll /\ acked' = acked
      BY <1>2, <2>2 DEF ShouldRelay
    <3>2. id \in 1 .. delivered' /\ id \in Nat
      BY <1>6
    <3> QED
      BY <1>1, <1>6, <3>1, <3>2 DEF HandlingType, HandlingSound
  <2> QED
    BY <2>1, <2>2
<1> QED
  BY <1>1, <1>3, <1>4, <1>5

\* The event being handled is stored, then broadcast, then relayed.
LEMMA EventInv == RelayInv /\ (Persist \/ Broadcast \/ Relay) => RelayInv'
<1> SUFFICES ASSUME RelayInv, Persist \/ Broadcast \/ Relay PROVE RelayInv'
  OBVIOUS
<1> USE DEF RelayInv
<1> DEFINE id == handling.id
<1>1. /\ UNCHANGED <<Copies, Stream>> /\ CountsType'
      /\ id \in 1 .. delivered /\ id \in 1 .. Len(events) /\ id \notin acked
      /\ events[id].chat # VincentAll
  BY BoundsAreNumbers DEF Persist, PersistEvent, Broadcast, Relay, Acknowledge, Mishap, Fine, Counts,
     CountsType, StreamType, HandlingType, HandlingSound
<1>2. CASE Persist
  <2>1. /\ UNCHANGED <<relayed, page, again, acked>>
        /\ \/ stored' = stored \cup {id} /\ handling' = [handling EXCEPT !.step = "broadcast"]
           \/ stored' = stored /\ handling' = Nothing
    BY <1>2 DEF Persist, PersistEvent, Past, Nak
  <2>2. (HandlingType /\ HandlingSound)'
    <3>1. CASE handling' = [handling EXCEPT !.step = "broadcast"] /\ stored' = stored \cup {id}
      BY <1>1, <2>1, <3>1 DEF HandlingType, HandlingSound, Stream
    <3> QED
      BY <2>1, <3>1, IdleHandling
  <2>3. (CopiesType /\ StreamType /\ OutcomeType /\ RelaysSound)'
    BY <1>1, <2>1 DEF Copies, Stream, CopiesType, StreamType, OutcomeType, RelaysSound
  <2> QED
    BY <1>1, <2>2, <2>3
<1>3. CASE Broadcast
  <2>1. /\ UNCHANGED <<relayed, stored, again>> /\ id \in stored
        /\ \/ acked' = acked /\ handling' = [handling EXCEPT !.step = "relay"]
           \/ acked' \in {acked, acked \cup {id}} /\ handling' = Nothing
    BY <1>3 DEF Broadcast, Acknowledge, HandlingSound
  <2>2. page' \in [connected : BOOLEAN, due : BOOLEAN, shows : SUBSET (1 .. Len(events))]
    <3>1. page' = [page EXCEPT !.due = @ \/ Hears(events[id])]
      BY <1>3 DEF Broadcast
    <3> QED
      BY <3>1 DEF OutcomeType, Hears
  <2>3. (HandlingType /\ HandlingSound)'
    <3>1. CASE handling' = [handling EXCEPT !.step = "relay"] /\ acked' = acked
      BY <1>1, <2>1, <3>1 DEF HandlingType, HandlingSound, Stream
    <3> QED
      BY <2>1, <3>1, IdleHandling
  <2>4. (CopiesType /\ StreamType /\ OutcomeType /\ RelaysSound)'
    BY <1>1, <2>1, <2>2 DEF Copies, Stream, CopiesType, StreamType, OutcomeType, RelaysSound
  <2> QED
    BY <1>1, <2>3, <2>4
<1>4. CASE Relay
  <2>1. /\ UNCHANGED <<page, stored>> /\ id \in stored /\ handling' = Nothing
        /\ acked' \in {acked, acked \cup {id}} /\ again' \in {again, again \cup {id}}
        /\ \/ relayed' = relayed
           \/ relayed' = [relayed EXCEPT ![id] = @ + 1] /\ id \in (acked \cup again)'
    BY <1>4 DEF Relay, Relayed, Acknowledge, Nak, HandlingSound
  <2>2. /\ relayed' \in Seq(Nat) /\ Len(relayed') = Len(events)
        /\ \A i \in 1 .. Len(events) : i # id => relayed'[i] = relayed[i]
        /\ relayed'[id] \in {relayed[id], relayed[id] + 1}
    BY <1>1, <2>1 DEF OutcomeType
  <2>3. (HandlingType /\ HandlingSound)'
    BY <2>1, IdleHandling
  <2>4. (CopiesType /\ StreamType /\ OutcomeType)'
    BY <1>1, <2>1, <2>2 DEF Copies, Stream, CopiesType, StreamType, OutcomeType
  <2>5. RelaysSound'
    <3>1. SUFFICES ASSUME NEW i \in 1 .. Len(events), relayed'[i] > 0
                   PROVE  /\ events[i].chat # VincentAll /\ i \in stored /\ i \in (acked \cup again)'
                          /\ relayed'[i] <= 1 \/ i \in again'
      BY <1>1, <2>1 DEF RelaysSound, Stream
    <3>2. CASE i # id
      BY <2>1, <2>2, <3>1, <3>2 DEF RelaysSound
    <3>3. CASE i = id /\ relayed' = relayed
      BY <2>1, <3>1, <3>3 DEF RelaysSound
    <3>4. CASE i = id /\ relayed'[id] = relayed[id] + 1
      \* Relayed before and not acknowledged: the first relay had left no trace.
      BY <1>1, <2>1, <3>1, <3>4 DEF RelaysSound, OutcomeType
    <3> QED
      BY <2>1, <2>2, <3>2, <3>3, <3>4
  <2> QED
    BY <1>1, <2>3, <2>4, <2>5
<1> QED
  BY <1>2, <1>3, <1>4

LEMMA ListenerNextInv == RelayInv /\ [ListenerNext]_listenerVars => RelayInv'
<1> SUFFICES ASSUME RelayInv, [ListenerNext]_listenerVars PROVE RelayInv'
  OBVIOUS
<1>1. CASE UNCHANGED listenerVars
  BY <1>1 DEF listenerVars, RelayInv, CopiesType, StreamType, HandlingType, OutcomeType, CountsType, HandlingSound,
     RelaysSound, Nothing
<1> QED
  BY <1>1, PublishInv, CopiesInv, AroundInv, DeliverInv, EventInv DEF ListenerNext

\* Stored, then relayed, once, and never back to the group of the organiser:
\* RelaySound of the run, for any number of groups, events, reads and failures
\* (handleMessage.ts, onResaEvent.ts, relay.ts).
THEOREM RelayHolds == ListenerSpec => []RelaySound
<1>1. ListenerInit => RelayInv
  BY ListenerInitInv
<1>2. RelayInv /\ [ListenerNext]_listenerVars => RelayInv'
  BY ListenerNextInv
<1>3. RelayInv => RelaySound
  BY RelaySoundFromInv
<1> QED
  BY <1>1, <1>2, <1>3, PTL DEF ListenerSpec
=============================================================================
