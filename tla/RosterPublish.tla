--------------------------- MODULE RosterPublish ---------------------------
(***************************************************************************)
(* The living roster of one job: the WhatsApp message that lists the players *)
(* and is published again at every change (apps/worker: roster/publishRoster, *)
(* roster/rosterStore, scheduler/rosterTick, closures/cancelJobForClosure).  *)
(*                                                                          *)
(* The collection, the announcement, the minute tick, the next poll and a    *)
(* club closure all write it, concurrently.  A write is a sequence of calls  *)
(* to huddle-bot (send, delete, pin, unpin) and of updates of the job's row, *)
(* under a claim stored in that row: whoever finds it free, or older than    *)
(* two minutes, takes it.  Everything is decided on the row the claim        *)
(* returned.  A roster that can neither be deleted nor unpinned is           *)
(* remembered in the row as the orphan until the tick has unpinned it.       *)
(***************************************************************************)
EXTENDS Naturals, FiniteSets

CONSTANTS
  Writers,      \* publications, withdrawals and orphan passes in flight together
  Provisional,  \* texts of the roster before the announcement
  Final,        \* texts of the roster from the announcement on
  Ops,          \* the kinds of operation this instance considers
  Mishaps,      \* the kinds of failure it considers
  PinEnabled,   \* pinMessagesEnabled of the rule
  MaxOps,       \* bound on the operations started (orphan passes excepted)
  MaxMishaps    \* bound on the failures

NoText == "none"
NoClaim == "free"
Texts == Provisional \cup Final \cup {NoText}
Publications == {"collect", "announce", "tick"}
Withdrawals == {"withdraw", "unpin", "stop", "retract", "cancel"}
AllOps == Publications \cup Withdrawals \cup {"orphan"}
\* A call huddle-bot refuses, or honours without an answer; a row update that
\* throws; a restart of the pod; an operation that outlasts its claim; a pin
\* that runs out after seven days.
AllMishaps == {"refuse", "lose", "throw", "crash", "slow", "expire"}

ASSUME ConstantsAssumption ==
  /\ Provisional \cap Final = {} /\ NoText \notin Provisional \cup Final
  /\ NoClaim \notin Writers
  /\ Ops \subseteq AllOps /\ Mishaps \subseteq AllMishaps /\ PinEnabled \in BOOLEAN
  /\ MaxOps \in Nat /\ MaxMishaps \in Nat

VARIABLES
  row,      \* the roster_* columns and cancelled_at of the job's row
  writer,   \* what each operation in flight holds in memory
  stale,    \* is the stored claim older than two minutes
  slow,     \* has an operation outlasted its claim
  chat,     \* the WhatsApp group: messages sent, pinned, whose pin has run out
  last,     \* text of the last roster the group was sent, none after a withdrawal
  still,    \* was the job cancelled while nobody was publishing
  used      \* what the bounds above have been spent on

vars == <<row, writer, stale, slow, chat, last, still, used>>

PCs == {"idle", "ready", "send", "keepPrint", "store", "retire", "unpin", "keepOrphan",
        "pin", "keepPin", "forget", "unpinOrphan", "forgetOrphan", "release", "stopped"}
Outside == {"idle", "ready", "stopped"}

NoRow == [msg |-> 0, fp |-> NoText, pinnedAt |-> FALSE, orphan |-> 0, claim |-> NoClaim,
          final |-> FALSE, stopped |-> FALSE, cancelled |-> FALSE]
Unseen == [msg |-> 0, pinnedAt |-> FALSE, orphan |-> 0, over |-> FALSE]
Idle == [pc |-> "idle", op |-> "none", text |-> NoText, pin |-> FALSE, msg |-> 0, seen |-> Unseen]

Init ==
  /\ row = NoRow
  /\ writer = [w \in Writers |-> Idle]
  /\ stale = FALSE /\ slow = FALSE
  /\ chat = [sent |-> 0, pinned |-> {}, runOut |-> {}]
  /\ last = NoText
  /\ still = FALSE
  /\ used = [ops |-> 0, mishaps |-> 0]

Inside(w) == writer[w].pc \notin Outside

Set(w, r) == writer' = [writer EXCEPT ![w] = r]
\* On to the next step; of a finished operation nothing is left but its kind.
Goto(w, pc) ==
  Set(w, IF pc = "release" THEN [Idle EXCEPT !.pc = pc, !.op = writer[w].op]
         ELSE [writer[w] EXCEPT !.pc = pc])

Mishap(kind) ==
  /\ kind \in Mishaps /\ used.mishaps < MaxMishaps
  /\ used' = [used EXCEPT !.mishaps = @ + 1]

-----------------------------------------------------------------------------
(* Starting an operation, on a row read beforehand (ctx.job); what it decides *)
(* then is whether there is something to do.                                *)

Start(w, op, text, pin) ==
  /\ op \in Ops /\ writer[w].pc = "idle"
  /\ used.ops < MaxOps /\ used' = [used EXCEPT !.ops = @ + 1]
  /\ Set(w, [Idle EXCEPT !.pc = "ready", !.op = op, !.text = text, !.pin = pin])

\* collectVotes publishes the provisional roster.
Collect(w) ==
  /\ \E text \in Provisional \ {row.fp} : Start(w, "collect", text, PinEnabled)
  /\ UNCHANGED <<row, stale, slow, chat, last, still>>

\* publishFinalRoster stores the final roster, outside the claim, then publishes it.
Announce(w) ==
  /\ \E text \in Final \ {row.fp} : Start(w, "announce", text, PinEnabled)
  /\ row' = [row EXCEPT !.final = TRUE]
  /\ UNCHANGED <<stale, slow, chat, last, still>>

\* refreshJobRoster, for a job neither stopped nor cancelled when it was listed.
Tick(w) ==
  /\ ~row.stopped /\ ~row.cancelled
  /\ \E text \in (IF row.final THEN Final ELSE Provisional) \ {row.fp} :
       Start(w, "tick", text, PinEnabled)
  /\ UNCHANGED <<row, stale, slow, chat, last, still>>

\* withdrawRoster: the tick for a job that ended without a booking, or the next
\* poll of the rule, which only unpins.
StartWithdrawal(w) ==
  /\ row.msg # 0
  /\ \/ ~row.stopped /\ ~row.cancelled /\ Start(w, "withdraw", NoText, FALSE)
     \/ Start(w, "unpin", NoText, FALSE)
  /\ UNCHANGED <<row, stale, slow, chat, last, still>>

\* stopRoster at the first booked slot, or of a job replaced or past without a
\* booking: unpin or retract the roster, if any, then stop.
Stop(w) ==
  /\ ~row.stopped /\ ~row.cancelled
  /\ IF row.msg = 0
     THEN /\ "stop" \in Ops /\ row' = [row EXCEPT !.stopped = TRUE]
          /\ UNCHANGED <<writer, used>>
     ELSE (\E op \in {"stop", "retract"} : Start(w, op, NoText, FALSE)) /\ UNCHANGED row
  /\ UNCHANGED <<stale, slow, chat, last, still>>

\* cancelJobForClosure cancels the job, then withdraws its roster.
Cancel(w) ==
  /\ ~row.cancelled
  /\ Start(w, "cancel", NoText, FALSE)
  /\ row' = [row EXCEPT !.cancelled = TRUE]
  /\ still' = \A v \in Writers : ~Inside(v)
  /\ UNCHANGED <<stale, slow, chat, last>>

\* The orphan pass of the tick, or of the next poll, which pins nothing again.
RetryOrphan(w) ==
  /\ "orphan" \in Ops /\ writer[w].pc = "idle" /\ row.orphan # 0
  /\ \E pin \in {PinEnabled, FALSE} :
       Set(w, [Idle EXCEPT !.pc = "ready", !.op = "orphan", !.pin = pin])
  /\ UNCHANGED <<row, stale, slow, chat, last, still, used>>

-----------------------------------------------------------------------------
(* The claim.                                                               *)

\* Mutant: the final roster is not looked for in the fresh row.
FirstStepBlindToFinal(op, text, fresh) ==
  IF op \in Publications
  THEN IF text = fresh.fp \/ fresh.cancelled THEN "release" ELSE "send"
  ELSE IF op = "orphan" THEN (IF fresh.orphan = 0 THEN "release" ELSE "unpinOrphan")
  ELSE "retire"

\* Mutant: the text is compared with the row read before the claim only.
FirstStepOnOldText(op, text, fresh) ==
  IF op \in Publications
  THEN IF fresh.cancelled \/ (text \in Provisional /\ fresh.final) THEN "release" ELSE "send"
  ELSE IF op = "orphan" THEN (IF fresh.orphan = 0 THEN "release" ELSE "unpinOrphan")
  ELSE "retire"

\* What the fresh row calls for.
FirstStep(op, text, fresh) ==
  IF op \in Publications
  THEN IF \/ text = fresh.fp \/ fresh.cancelled
          \/ text \in Provisional /\ fresh.final
       THEN "release" ELSE "send"
  ELSE IF op = "orphan" THEN (IF fresh.orphan = 0 THEN "release" ELSE "unpinOrphan")
  ELSE "retire"

\* What an operation goes on to use of the row its claim returned.
Fresh == [msg |-> row.msg, pinnedAt |-> row.pinnedAt, orphan |-> row.orphan,
          over |-> row.stopped \/ row.cancelled]

\* Mutant: the claim is taken whoever holds it.
ClaimAnyway(w) ==
  /\ writer[w].pc = "ready"
  /\ row' = [row EXCEPT !.claim = w]
  /\ stale' = FALSE
  /\ LET pc == FirstStep(writer[w].op, writer[w].text, row)
     IN IF pc = "release" THEN Goto(w, pc)
        ELSE Set(w, [writer[w] EXCEPT !.pc = pc, !.seen = Fresh])
  /\ UNCHANGED <<slow, chat, last, still, used>>

\* Mutant: a claim left behind is never taken over.
ClaimOnlyFree(w) == row.claim = NoClaim /\ ClaimAnyway(w)

\* claimRosterPublish returns the fresh row in the same statement.
Claim(w) ==
  /\ writer[w].pc = "ready"
  /\ row.claim = NoClaim \/ stale
  /\ row' = [row EXCEPT !.claim = w]
  /\ stale' = FALSE
  /\ LET pc == FirstStep(writer[w].op, writer[w].text, row)
     IN IF pc = "release" THEN Goto(w, pc)
        ELSE Set(w, [writer[w] EXCEPT !.pc = pc, !.seen = Fresh])
  /\ UNCHANGED <<slow, chat, last, still, used>>

\* The claim is taken: nothing is done, the tick will come back.  A cancellation
\* stays ready between its attempts, and gives up after the third.
Busy(w) ==
  /\ writer[w].pc = "ready"
  /\ row.claim # NoClaim /\ ~stale
  /\ Set(w, Idle)
  /\ UNCHANGED <<row, stale, slow, chat, last, still, used>>

\* Two minutes have passed since the claim was taken; an operation that is
\* still at work then is a slow one.
GoStale ==
  /\ row.claim # NoClaim /\ ~stale
  /\ IF \E w \in Writers : w = row.claim /\ Inside(w)
     THEN Mishap("slow") /\ slow' = TRUE
     ELSE UNCHANGED <<slow, used>>
  /\ stale' = TRUE
  /\ UNCHANGED <<row, writer, chat, last, still>>

-----------------------------------------------------------------------------
(* Under the claim.  A call to huddle-bot is honoured, refused, or honoured   *)
(* without the worker learning it; a call that fails is logged and survived. *)

\* publishOnFreshRow sends; huddle-bot may leave out the identifier of the message.
Send(w) ==
  /\ writer[w].pc = "send"
  /\ \/ Mishap("refuse") /\ Goto(w, "release") /\ UNCHANGED <<chat, last>>
     \/ /\ chat' = [chat EXCEPT !.sent = @ + 1]
        /\ last' = writer[w].text
        /\ \/ Set(w, [writer[w] EXCEPT !.pc = "store", !.msg = chat.sent + 1]) /\ UNCHANGED used
           \/ Goto(w, "keepPrint") /\ UNCHANGED used
           \/ Mishap("lose") /\ Goto(w, "release")
  /\ UNCHANGED <<row, stale, slow, still>>

\* setRosterFingerprint: without its identifier the message can only be remembered
\* by its text.
KeepPrint(w) ==
  /\ writer[w].pc = "keepPrint"
  /\ row' = [row EXCEPT !.fp = writer[w].text]
  /\ Goto(w, "release")
  /\ UNCHANGED <<stale, slow, chat, last, still, used>>

\* setRosterMessage: the new message is the current roster, not pinned yet.
Store(w) ==
  /\ writer[w].pc = "store"
  /\ row' = [row EXCEPT !.msg = writer[w].msg, !.fp = writer[w].text, !.pinnedAt = FALSE]
  /\ Goto(w, "retire")
  /\ UNCHANGED <<stale, slow, chat, last, still, used>>

\* What follows the retirement: a publication pins the new roster unless an
\* orphan, old or new, forbids it; a withdrawal forgets the old one.
AfterRetire(r) ==
  IF r.op \in Withdrawals THEN "forget"
  ELSE IF r.pin /\ r.seen.orphan = 0 THEN "pin" ELSE "release"

UnpinOnly(r) == r.op \in {"unpin", "stop"}

\* retireRoster on the roster of the fresh row: deleted if it is less than two
\* days old, and otherwise, or if that fails, unpinned if it is pinned.
Retire(w) ==
  LET r == writer[w]
      kept == IF r.seen.pinnedAt THEN "unpin" ELSE AfterRetire(r)
      gone == [chat EXCEPT !.pinned = @ \ {r.seen.msg}]
  IN /\ r.pc = "retire"
     /\ \/ /\ r.seen.msg = 0
           /\ Goto(w, AfterRetire(r)) /\ UNCHANGED <<chat, used>>
        \/ /\ r.seen.msg # 0
           /\ Goto(w, kept) /\ UNCHANGED <<chat, used>>
        \/ /\ r.seen.msg # 0 /\ ~UnpinOnly(r)
           /\ \/ Goto(w, AfterRetire(r)) /\ chat' = gone /\ UNCHANGED used
              \/ Mishap("refuse") /\ Goto(w, kept) /\ UNCHANGED chat
              \/ Mishap("lose") /\ Goto(w, kept) /\ chat' = gone
     /\ UNCHANGED <<row, stale, slow, last, still>>

Unpin(w) ==
  LET r == writer[w]
      freed == [chat EXCEPT !.pinned = @ \ {r.seen.msg}]
  IN /\ r.pc = "unpin"
     /\ \/ Goto(w, AfterRetire(r)) /\ chat' = freed /\ UNCHANGED used
        \/ Mishap("refuse") /\ Goto(w, "keepOrphan") /\ UNCHANGED chat
        \/ Mishap("lose") /\ Goto(w, "keepOrphan") /\ chat' = freed
     /\ UNCHANGED <<row, stale, slow, last, still>>

\* Mutant: the new roster is pinned although the old one could not be unpinned.
KeepOrphanAndPin(w) ==
  /\ writer[w].pc = "keepOrphan"
  /\ row' = [row EXCEPT !.orphan = writer[w].seen.msg]
  /\ Goto(w, AfterRetire(writer[w]))
  /\ UNCHANGED <<stale, slow, chat, last, still, used>>

\* setRosterOrphan, and no roster is pinned in its place.
KeepOrphan(w) ==
  LET r == [writer[w] EXCEPT !.pin = FALSE]
  IN /\ r.pc = "keepOrphan"
     /\ row' = [row EXCEPT !.orphan = r.seen.msg]
     /\ LET pc == AfterRetire(r)
        IN IF pc = "release" THEN Goto(w, pc) ELSE Set(w, [r EXCEPT !.pc = pc])
     /\ UNCHANGED <<stale, slow, chat, last, still, used>>

\* Mutant: the text is blanked instead of cleared.
ForgetBlank(w) ==
  /\ writer[w].pc = "forget"
  /\ row' = [row EXCEPT !.msg = 0, !.fp = "", !.pinnedAt = FALSE]
  /\ last' = NoText
  /\ Goto(w, "release")
  /\ UNCHANGED <<stale, slow, chat, still, used>>

\* The end of withdrawRoster: forget the message, or with unpinOnly its pin alone.
Forget(w) ==
  /\ writer[w].pc = "forget"
  /\ IF UnpinOnly(writer[w])
     THEN row' = [row EXCEPT !.pinnedAt = FALSE] /\ UNCHANGED last
     ELSE /\ row' = [row EXCEPT !.msg = 0, !.fp = NoText, !.pinnedAt = FALSE]
          /\ last' = NoText
  /\ Goto(w, "release")
  /\ UNCHANGED <<stale, slow, chat, still, used>>

\* pinRoster; WhatsApp drops the pin by itself after seven days.
Pin(w) ==
  LET pinned == [chat EXCEPT !.pinned = @ \cup {writer[w].msg}, !.runOut = @ \ {writer[w].msg}]
  IN /\ writer[w].pc = "pin"
     /\ \/ Goto(w, "keepPin") /\ chat' = pinned /\ UNCHANGED used
        \/ Mishap("refuse") /\ Goto(w, "release") /\ UNCHANGED chat
        \/ Mishap("lose") /\ Goto(w, "release") /\ chat' = pinned
     /\ UNCHANGED <<row, stale, slow, last, still>>

\* setRosterPinnedAt
KeepPin(w) ==
  /\ writer[w].pc = "keepPin"
  /\ row' = [row EXCEPT !.pinnedAt = TRUE]
  /\ Goto(w, "release")
  /\ UNCHANGED <<stale, slow, chat, last, still, used>>

\* retryOrphanUnpin: an orphan whose pin has run out needs no call.
UnpinOrphan(w) ==
  LET orphan == writer[w].seen.orphan
      freed == [chat EXCEPT !.pinned = @ \ {orphan}]
  IN /\ writer[w].pc = "unpinOrphan"
     /\ \/ orphan \in chat.runOut /\ Goto(w, "forgetOrphan") /\ UNCHANGED <<chat, used>>
        \/ /\ orphan \notin chat.runOut
           /\ \/ Goto(w, "forgetOrphan") /\ chat' = freed /\ UNCHANGED used
              \/ Mishap("refuse") /\ Goto(w, "release") /\ UNCHANGED chat
              \/ Mishap("lose") /\ Goto(w, "release") /\ chat' = freed
     /\ UNCHANGED <<row, stale, slow, last, still>>

\* Mutant: the end of the job is not looked for before pinning again.
RepinsAnyway(r) == r.pin /\ r.seen.msg \notin {0, r.seen.orphan} /\ ~r.seen.pinnedAt

\* The orphan is forgotten; the current roster may be pinned again.
Repins(r) ==
  /\ r.pin /\ r.seen.msg \notin {0, r.seen.orphan}
  /\ ~r.seen.pinnedAt /\ ~r.seen.over

ForgetOrphan(w) ==
  LET r == writer[w]
  IN /\ r.pc = "forgetOrphan"
     /\ row' = [row EXCEPT !.orphan = 0]
     /\ IF Repins(r) THEN Set(w, [r EXCEPT !.pc = "pin", !.msg = r.seen.msg])
        ELSE Goto(w, "release")
     /\ UNCHANGED <<stale, slow, chat, last, still, used>>

\* releaseRosterPublish, only if the claim is still the one taken.
Release(w) ==
  /\ writer[w].pc = "release"
  /\ IF row.claim = w THEN row' = [row EXCEPT !.claim = NoClaim] /\ stale' = FALSE
     ELSE UNCHANGED <<row, stale>>
  /\ IF writer[w].op \in {"stop", "retract"} THEN Set(w, [Idle EXCEPT !.pc = "stopped"])
     ELSE Set(w, Idle)
  /\ UNCHANGED <<slow, chat, last, still, used>>

\* setRosterStoppedAt, after the claim.
Stopped(w) ==
  /\ writer[w].pc = "stopped"
  /\ row' = [row EXCEPT !.stopped = TRUE]
  /\ Set(w, Idle)
  /\ UNCHANGED <<stale, slow, chat, last, still, used>>

-----------------------------------------------------------------------------
(* What goes wrong.                                                         *)

\* A row update throws: the operation stops there and releases the claim.
Throw(w) ==
  /\ writer[w].pc \in {"keepPrint", "store", "keepOrphan", "keepPin", "forget", "forgetOrphan",
                      "release", "stopped"}
  /\ Mishap("throw")
  /\ Set(w, IF writer[w].pc \in {"release", "stopped"} THEN Idle
            ELSE [Idle EXCEPT !.pc = "release"])
  /\ UNCHANGED <<row, stale, slow, chat, last, still>>

\* The pod restarts; a claim that was held stays in the row.
Crash ==
  /\ Mishap("crash")
  /\ writer' = [w \in Writers |-> Idle]
  /\ UNCHANGED <<row, stale, slow, chat, last, still>>

\* Seven days have passed since a message was pinned.
PinRunsOut ==
  /\ Mishap("expire")
  /\ \E m \in (chat.pinned \cup {row.orphan}) \ (chat.runOut \cup {0}) :
       chat' = [chat EXCEPT !.pinned = @ \ {m}, !.runOut = @ \cup {m}]
  /\ UNCHANGED <<row, writer, stale, slow, last, still>>

-----------------------------------------------------------------------------
Begin(w) ==
  Collect(w) \/ Announce(w) \/ Tick(w) \/ StartWithdrawal(w) \/ Stop(w) \/ Cancel(w) \/ RetryOrphan(w)

\* The steps an operation takes once it has started.
Step(w) ==
  \/ Claim(w) \/ Busy(w) \/ Send(w) \/ KeepPrint(w) \/ Store(w) \/ Retire(w) \/ Unpin(w)
  \/ KeepOrphan(w) \/ Forget(w) \/ Pin(w) \/ KeepPin(w) \/ UnpinOrphan(w) \/ ForgetOrphan(w)
  \/ Release(w) \/ Stopped(w)

Next ==
  \/ \E w \in Writers : Begin(w) \/ Step(w) \/ Throw(w)
  \/ GoStale \/ Crash \/ PinRunsOut

Spec == Init /\ [][Next]_vars

\* Calls return, two minutes pass, and the minute tick keeps coming back to a
\* stored orphan.
Fairness ==
  /\ \A w \in Writers : WF_vars(Step(w))
  /\ WF_vars(\E w \in Writers : RetryOrphan(w))
  /\ WF_vars(GoStale)

FairSpec == Spec /\ Fairness

-----------------------------------------------------------------------------
(* What must hold.                                                          *)

RowType ==
  [msg : Nat, fp : Texts, pinnedAt : BOOLEAN, orphan : Nat, claim : Writers \cup {NoClaim},
   final : BOOLEAN, stopped : BOOLEAN, cancelled : BOOLEAN]
SeenType == [msg : Nat, pinnedAt : BOOLEAN, orphan : Nat, over : BOOLEAN]
WriterType ==
  [pc : PCs, op : AllOps \cup {"none"}, text : Texts, pin : BOOLEAN, msg : Nat, seen : SeenType]

\* Types of every variable.
TypeOK ==
  /\ row \in RowType
  /\ writer \in [Writers -> WriterType]
  /\ stale \in BOOLEAN /\ slow \in BOOLEAN /\ still \in BOOLEAN /\ last \in Texts
  /\ chat \in [sent : Nat, pinned : SUBSET Nat, runOut : SUBSET Nat]
  /\ used \in [ops : Nat, mishaps : Nat]

\* As long as no operation outlasts its claim, one writer at most works on the
\* roster, whatever crashes and whatever fails.
OneWriter == ~slow => \A v, w \in Writers : Inside(v) /\ Inside(w) => v = w

\* The final roster is never replaced by a provisional one, although it is
\* stored outside the claim, while a provisional publication may be under way.
FinalStays == [][~slow /\ row.fp \in Final => row'.fp \notin Provisional]_vars

\* Without a lost answer, a failed update or a crash, at most one message is
\* pinned and the row knows it, so that some later pass can unpin it.
Tracked == {row.orphan} \cup (IF row.pinnedAt THEN {row.msg} ELSE {})
PinsTracked ==
  /\ Cardinality(chat.pinned) <= 1
  /\ (\A w \in Writers : ~Inside(w)) => chat.pinned \subseteq Tracked

\* The group is never sent the same roster twice in a row: of two publications
\* of one change, the second finds the first in the fresh row.
NoRepeat == [][chat'.sent # chat.sent => last' # last]_vars

\* A job cancelled while nobody was publishing is never published nor pinned again.
CancelledStaysDown ==
  [][still => chat'.sent = chat.sent /\ chat'.pinned \subseteq chat.pinned]_vars

\* An orphan is always dealt with in the end: a claim left by a crash goes
\* stale, and a refusal or a busy claim only puts the pass off.
OrphanSettles == row.orphan # 0 ~> row.orphan = 0
=============================================================================
