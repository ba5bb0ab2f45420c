---------------------------- MODULE TelegramGo ----------------------------
(***************************************************************************)
(* Waiting for the organiser's "go" on Telegram (apps/worker:               *)
(* telegram/telegram.ts, waitForGoConfirmation).                            *)
(*                                                                          *)
(* Each wait long-polls getUpdates until a "go" of the organiser's chat      *)
(* arrives or its deadline has passed.  All the waits of the process share   *)
(* one offset: the first update they still want.  Telegram keeps an update   *)
(* until some request asks for a later one, so what is handled is            *)
(* acknowledged only by the next request.                                   *)
(***************************************************************************)
EXTENDS Naturals, Sequences

CONSTANTS
  Waits,        \* waits that may be pending together
  MaxMessages,  \* bound on the messages of the chat
  MaxWaits,     \* bound on the waits started
  MaxFaults     \* bound on the requests that fail and the restarts

ASSUME ConstantsAssumption == MaxMessages \in Nat /\ MaxWaits \in Nat /\ MaxFaults \in Nat

VARIABLES
  sent,     \* what the chats wrote, in order: a "go" of the organiser, or anything else
  kept,     \* the first update Telegram still keeps
  offset,   \* lastProcessedOffset, 0 while undefined
  wait,     \* each wait: where it is, the updates [from, upto) it was answered, and
            \* the "go"s that were spent before it began
  heard,    \* the updates that a wait has looked at
  spent,    \* the "go"s that have ended a wait
  mixed,    \* have two waits been pending together, or has the pod restarted
  used      \* waits started, faults spent

goVars == <<sent, kept, offset, wait, heard, spent, mixed, used>>

Ids == 1..MaxMessages
NoWait == [pc |-> "idle", from |-> 0, upto |-> 0, old |-> {}]
Ready(old) == [pc |-> "ready", from |-> 0, upto |-> 0, old |-> old]

GoInit ==
  /\ sent = <<>>
  /\ kept = 1
  /\ offset = 0
  /\ wait = [w \in Waits |-> NoWait]
  /\ heard = {} /\ spent = {}
  /\ mixed = FALSE
  /\ used = [waits |-> 0, faults |-> 0]

Set(w, r) == wait' = [wait EXCEPT ![w] = r]

-----------------------------------------------------------------------------
Write ==
  /\ Len(sent) < MaxMessages
  /\ \E text \in {"go", "other"} : sent' = Append(sent, text)
  /\ UNCHANGED <<kept, offset, wait, heard, spent, mixed, used>>

StartWait(w) ==
  /\ wait[w].pc = "idle"
  /\ used.waits < MaxWaits /\ used' = [used EXCEPT !.waits = @ + 1]
  /\ Set(w, Ready(spent))
  /\ mixed' = (mixed \/ \E v \in Waits : wait[v].pc # "idle")
  /\ UNCHANGED <<sent, kept, offset, heard, spent>>

\* getTelegramUpdates: the request forgets the updates before its offset.
Ask(w) ==
  /\ wait[w].pc = "ready"
  /\ kept' = IF offset > kept THEN offset ELSE kept
  /\ Set(w, [wait[w] EXCEPT !.pc = "asked"])
  /\ UNCHANGED <<sent, offset, heard, spent, mixed, used>>

\* Telegram answers with the updates it keeps, or with none after thirty seconds.
Reply(w) ==
  /\ wait[w].pc = "asked"
  /\ Set(w, [pc |-> "replied", from |-> kept, upto |-> Len(sent) + 1, old |-> wait[w].old])
  /\ UNCHANGED <<sent, kept, offset, heard, spent, mixed, used>>

\* The loop over the updates of a reply stops at s: at its first "go", or past its end.
StopsAt(r, s) ==
  /\ \A m \in r.from..(s - 1) : sent[m] # "go"
  /\ s < r.upto => sent[s] = "go"
\* The updates it looks at.
LookedAt(r, s) == r.from..(IF s < r.upto THEN s ELSE s - 1)

\* Mutants: the offset is not moved past a "go"; it is moved past the whole reply;
\* it is one too far.
OffsetBeforeGo(r, s) == IF s = r.from THEN offset ELSE s
OffsetPastReply(r, s) == IF r.from = r.upto THEN offset ELSE r.upto
OffsetTooFar(r, s) == IF r.from = r.upto THEN offset ELSE IF s < r.upto THEN s + 2 ELSE s + 1
\* The offset follows each update that is looked at.
OffsetAfter(r, s) == IF r.from = r.upto THEN offset ELSE IF s < r.upto THEN s + 1 ELSE s

\* Mutant: only the first update of a reply is looked at.
HandleFirstOnly(w) ==
  LET r == wait[w]
      found == r.from < r.upto /\ sent[r.from] = "go"
  IN /\ r.pc = "replied"
     /\ heard' = heard \cup ({r.from} \cap r.from..(r.upto - 1))
     /\ offset' = IF found THEN r.from + 1 ELSE offset
     /\ spent' = IF found THEN spent \cup {r.from} ELSE spent
     /\ Set(w, IF found THEN NoWait ELSE Ready(r.old))
     /\ UNCHANGED <<sent, kept, mixed, used>>
\* The loop over the updates, without an await: a "go" ends the wait, or the loop
\* of requests goes round.
Handle(w) ==
  /\ wait[w].pc = "replied"
  /\ \E s \in wait[w].from..wait[w].upto :
       /\ StopsAt(wait[w], s)
       /\ heard' = heard \cup LookedAt(wait[w], s)
       /\ offset' = OffsetAfter(wait[w], s)
       /\ spent' = IF s < wait[w].upto THEN spent \cup {s} ELSE spent
       /\ Set(w, IF s < wait[w].upto THEN NoWait ELSE Ready(wait[w].old))
  /\ UNCHANGED <<sent, kept, mixed, used>>

\* The deadline has passed; it is looked at between two requests only.
Expire(w) ==
  /\ wait[w].pc = "ready"
  /\ Set(w, NoWait)
  /\ UNCHANGED <<sent, kept, offset, heard, spent, mixed, used>>

Fault == used.faults < MaxFaults /\ used' = [used EXCEPT !.faults = @ + 1]

\* getUpdates throws, and the wait with it.
Fail(w) ==
  /\ wait[w].pc = "asked"
  /\ Fault
  /\ Set(w, NoWait)
  /\ UNCHANGED <<sent, kept, offset, heard, spent, mixed>>

\* The pod restarts: the waits and the offset are lost.
Restart ==
  /\ Fault
  /\ wait' = [w \in Waits |-> NoWait]
  /\ offset' = 0
  /\ mixed' = TRUE
  /\ UNCHANGED <<sent, kept, heard, spent>>

-----------------------------------------------------------------------------
Step(w) == Ask(w) \/ Reply(w) \/ Handle(w)

GoNext ==
  \/ Write \/ Restart
  \/ \E w \in Waits : StartWait(w) \/ Step(w) \/ Expire(w) \/ Fail(w)

GoSpec == GoInit /\ [][GoNext]_goVars

\* A request is answered, and the loop goes round until the deadline.
Fairness == \A w \in Waits : WF_goVars(Step(w))

FairSpec == GoSpec /\ Fairness

-----------------------------------------------------------------------------
(* What must hold.                                                          *)

\* Types of every variable; the offset never runs ahead of the updates.
GoTypeOK ==
  /\ sent \in Seq({"go", "other"}) /\ Len(sent) <= MaxMessages
  /\ kept \in 1..(Len(sent) + 1) /\ offset \in 0..(Len(sent) + 1)
  /\ wait \in [Waits -> [pc : {"idle", "ready", "asked", "replied"}, from : Nat, upto : Nat,
                         old : SUBSET Ids]]
  /\ heard \subseteq Ids /\ spent \subseteq Ids
  /\ mixed \in BOOLEAN
  /\ used \in [waits : Nat, faults : Nat]

\* No update is lost: Telegram is told to forget only what some wait has looked
\* at, although replies overlap and the shared offset may go back.
NoneSkipped == \A m \in 1..Len(sent) : m < kept \/ m < offset => m \in heard

\* An update written while somebody waits, or before, is looked at, unless the
\* waits all end first.
Waited == \E w \in Waits : wait[w].pc # "idle"
Unheard(m) == m <= Len(sent) /\ m \notin heard
GoHeard == \A m \in Ids : (Unheard(m) /\ Waited) ~> (~Unheard(m) \/ ~Waited)

\* No wait is about to end on a "go" that had ended another one before it began.
NoStaleGo ==
  \A w \in Waits : wait[w].pc = "replied" =>
    \A m \in wait[w].from..(wait[w].upto - 1) : StopsAt(wait[w], m) => m \notin wait[w].old

\* A "go" is good for one job, as long as the waits come one after the other and
\* the process goes on, whatever arrives behind it and whatever fails.
GoSpentOnce == ~mixed => NoStaleGo
=============================================================================
