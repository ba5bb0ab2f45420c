---------------------------- MODULE JobPipeline ----------------------------
(***************************************************************************)
(* One job of a booking rule, from its WhatsApp poll to the announcement of *)
(* the booked courts (apps/worker: graph/buildGraph.ts, graph/nodes,        *)
(* scheduler/scheduler.ts, http/server.ts).                                 *)
(*                                                                          *)
(* The pipeline is a LangGraph thread.  Its only durable state is the last  *)
(* checkpoint in Redis: the node to execute next and the channel values.    *)
(* HTTP requests, cron ticks and go waits advance it concurrently; each one *)
(* reads the checkpoint, decides, and only then invokes the graph, and no   *)
(* lock serialises them.  A graph run works on the values it loaded and     *)
(* writes a checkpoint after each node, so the last writer wins.            *)
(***************************************************************************)
EXTENDS Naturals, FiniteSets

CONSTANTS
  Triggers,     \* HTTP requests and cron ticks that may be in flight together
  Waiters,      \* go waits that may be pending together
  Ops,          \* the kinds of trigger this instance considers
  MaxTriggers,  \* bound on the triggers accepted over a behaviour
  MaxFaults,    \* bound on the exceptions thrown over a behaviour
  MaxCrashes    \* bound on the restarts of the pod

AllOps == {"create", "send", "collect", "plan", "recompute", "retry", "go",
           "go-real", "cron", "cancelPoll", "closure", "toggle"}

ASSUME ConstantsAssumption ==
  /\ Triggers \cap Waiters = {}
  /\ Ops \subseteq AllOps
  /\ MaxTriggers \in Nat /\ MaxFaults \in Nat /\ MaxCrashes \in Nat

Procs == Triggers \cup Waiters

VARIABLES
  ckpt,     \* checkpoint of the thread in Redis
  row,      \* row of the job in job_runs, with the settings of its rule
  proc,     \* what each request, tick or wait in flight holds in memory
  closure,  \* has a club closure covering the date been stored
  world,    \* what the members and the club see: polls, court bookings, announcements
  said,     \* the go decisions taken so far, by Telegram or in the UI
  still,    \* was the job cancelled while nothing was executing
  used      \* triggers, faults and crashes spent (the three bounds), and whether the last
            \* restart passed the job over, its rule being disabled (history)

vars == <<ckpt, row, proc, closure, world, said, still, used>>

Barriers == {"waitForDecisionWindow", "waitForPlanTrigger", "waitForGoConfirmation"}
WorkNodes == {"sendPoll", "collectVotes", "bookSlots", "announce"}
Nodes == Barriers \cup WorkNodes \cup {"end"}
Plans == {"none", "empty", "outside", "proposed"}
Resumes == {"none", "true", "go", "go-real", "timeout"}
PCs == {"idle", "checked", "update", "work", "booked", "done", "await", "recheck",
        "impact", "cancel"}

\* The channels the properties tell apart: pollRequestId, clubClosed,
\* bookingPlanGroups, goConfirmed and dryRun.
Values == [poll : BOOLEAN, closed : BOOLEAN, plan : Plans, go : BOOLEAN, dry : BOOLEAN]
NoValues == [poll |-> FALSE, closed |-> FALSE, plan |-> "none", go |-> FALSE, dry |-> TRUE]

Idle == [pc |-> "idle", op |-> "none", node |-> "end", vals |-> NoValues, resume |-> "none"]

Init ==
  /\ ckpt = [next |-> "end", vals |-> NoValues]
  /\ row \in [enabled : {TRUE}, auto : BOOLEAN, askGo : BOOLEAN, created : {FALSE},
              polled : {FALSE}, collected : {FALSE}, cancelled : {FALSE}]
  /\ proc = [p \in Procs |-> Idle]
  /\ closure = FALSE
  /\ world = [polls |-> 0, booked |-> 0, announced |-> 0]
  /\ said = {}
  /\ still = FALSE
  /\ used = [triggers |-> 0, faults |-> 0, crashes |-> 0, passedOver |-> FALSE]

-----------------------------------------------------------------------------
(* Status of the job, derived from the checkpoint at every read.            *)

\* Mutant: a job interrupted in announce counts as waiting for the go.
PausedOnAnnounceToo(c) ==
  IF c.next = "waitForDecisionWindow" THEN "await-decision-window"
  ELSE IF c.next \in {"waitForPlanTrigger", "bookSlots"} THEN "await-plan-trigger"
  ELSE IF c.next \in {"waitForGoConfirmation", "announce"} THEN "await-go"
  ELSE IF c.next = "end" THEN "none" ELSE "unknown"

PausedOn(c) ==
  IF c.next = "waitForDecisionWindow" THEN "await-decision-window"
  ELSE IF c.next \in {"waitForPlanTrigger", "bookSlots"} THEN "await-plan-trigger"
  ELSE IF c.next = "waitForGoConfirmation" THEN "await-go"
  ELSE IF c.next = "end" THEN "none" ELSE "unknown"

Stage(c) ==
  IF c.vals.closed THEN "finished-club-closed"
  ELSE IF ~c.vals.poll THEN "not-started"
  ELSE IF PausedOn(c) = "await-decision-window" THEN "awaiting-decision"
  ELSE IF PausedOn(c) = "await-plan-trigger" THEN "awaiting-plan"
  ELSE IF PausedOn(c) = "await-go" THEN "awaiting-go"
  ELSE IF PausedOn(c) = "unknown" THEN "error"
  ELSE IF c.vals.plan \in {"none", "empty"} THEN "finished-no-plan"
  ELSE IF c.vals.go THEN "finished-announced" ELSE "finished-cancelled"

SafeRecomputeStages == {"awaiting-go", "finished-cancelled", "finished-no-plan"}
RunningStages == {"awaiting-decision", "awaiting-plan", "awaiting-go"}

\* The guard each trigger evaluates on the status it has just read.
Accepts(op) ==
  \/ op = "send" /\ Stage(ckpt) = "not-started"
  \/ op = "collect" /\ PausedOn(ckpt) = "await-decision-window"
  \/ op = "plan" /\ PausedOn(ckpt) = "await-plan-trigger"
  \/ op = "recompute" /\ Stage(ckpt) \in SafeRecomputeStages
  \/ op = "retry" /\ Stage(ckpt) = "error"
  \/ op \in {"go", "go-real"} /\ PausedOn(ckpt) = "await-go"
  \/ op = "cron" /\ PausedOn(ckpt) \in {"await-decision-window", "await-plan-trigger"}
  \/ op = "cancelPoll" /\ row.polled /\ ~row.collected

ResumeOf(op) ==
  IF op \in {"go", "go-real"} THEN op
  ELSE IF op \in {"collect", "plan", "recompute", "cron"} THEN "true" ELSE "none"

\* afterSendPoll, hasProposedBookings and the static edges.
Successor(node, v) ==
  IF node = "sendPoll" THEN (IF v.closed THEN "end" ELSE "waitForDecisionWindow")
  ELSE IF node = "waitForDecisionWindow" THEN "collectVotes"
  ELSE IF node = "collectVotes" THEN "waitForPlanTrigger"
  ELSE IF node = "waitForPlanTrigger" THEN "bookSlots"
  ELSE IF node = "bookSlots"
       THEN (IF v.plan \in {"outside", "proposed"} THEN "waitForGoConfirmation" ELSE "end")
  ELSE IF node = "waitForGoConfirmation" THEN "announce" ELSE "end"

\* Mutant: any resume but a timeout confirms.
AfterBarrierUnlessTimeout(node, v, resume) ==
  IF node = "waitForGoConfirmation"
  THEN [v EXCEPT !.go = resume # "timeout", !.dry = resume # "go-real"]
  ELSE v

\* What a barrier node returns when it is resumed.
AfterBarrier(node, v, resume) ==
  IF node = "waitForGoConfirmation"
  THEN [v EXCEPT !.go = resume \in {"go", "go-real"}, !.dry = resume # "go-real"]
  ELSE v

\* announce proceeds only with a go and at least one booking inside the accepted window.
Announces(v) == v.go /\ v.plan = "proposed"

\* Mutants: a refusal is passed on as it is; a Telegram go books for real on
\* manual jobs too.
TelegramResumeRaw(confirmed) ==
  IF ~confirmed THEN "false" ELSE IF row.auto THEN "go-real" ELSE "go"
TelegramResumeAlwaysReal(confirmed) == IF confirmed THEN "go-real" ELSE "timeout"

\* resumeValueForTelegramGo
TelegramResume(confirmed) ==
  IF ~confirmed THEN "timeout" ELSE IF row.auto THEN "go-real" ELSE "go"

-----------------------------------------------------------------------------
(* Starting an operation: read the job and the checkpoint, then decide.     *)

SpendTrigger ==
  /\ used.triggers < MaxTriggers
  /\ used' = [used EXCEPT !.triggers = @ + 1]

SpendFault ==
  /\ used.faults < MaxFaults
  /\ used' = [used EXCEPT !.faults = @ + 1]

Set(p, r) == proc' = [proc EXCEPT ![p] = r]
Release(p) == Set(p, Idle)

\* triggerCronSendPoll finds no active job, creates one and goes on to
\* triggerSendPoll; handleCreateJob only creates it.  A rule disabled after the
\* delay of its poll was drawn may still get the job.
Create(t) ==
  /\ "create" \in Ops /\ proc[t].pc = "idle" /\ ~row.created
  /\ SpendTrigger
  /\ row' = [row EXCEPT !.created = TRUE]
  /\ Set(t, IF row.auto THEN [Idle EXCEPT !.pc = "checked", !.op = "send"] ELSE Idle)
  /\ UNCHANGED <<ckpt, closure, world, said, still>>

\* triggerCronDecision skips the collection when it has been done already.
Effective(op) ==
  IF op = "cron" /\ PausedOn(ckpt) = "await-plan-trigger" THEN "plan" ELSE op

\* handleTrigger and triggerCronDecision refuse a cancelled job, which
\* handleCancelPoll does not, and the decision cron a disabled rule; then each
\* trigger checks the stage.  Nothing keeps any of it true afterwards.
Trigger(t, op) ==
  /\ op \in Ops /\ proc[t].pc = "idle" /\ row.created
  /\ op = "cancelPoll" \/ ~row.cancelled
  /\ op = "cron" => row.enabled
  /\ Accepts(op)
  /\ SpendTrigger
  /\ Set(t, [Idle EXCEPT !.pc = IF op = "recompute" THEN "update"
                               ELSE IF op = "cancelPoll" THEN "cancel" ELSE "checked",
                         !.op = Effective(op), !.resume = ResumeOf(op)])
  /\ said' = said \cup ({op} \cap {"go", "go-real"})
  /\ UNCHANGED <<ckpt, row, closure, world, still>>

\* triggerRecomputePlan, once the voters are looked up again: updateState as
\* waitForPlanTrigger makes bookSlots the next node, whatever it was by then.
UpdateState(t) ==
  /\ proc[t].pc = "update"
  /\ ckpt' = [ckpt EXCEPT !.next = "bookSlots"]
  /\ Set(t, [proc[t] EXCEPT !.pc = "checked"])
  /\ UNCHANGED <<row, closure, world, said, still, used>>

-----------------------------------------------------------------------------
(* Executing the graph.                                                     *)

\* graph.invoke loads the checkpoint.  A fresh input restarts at sendPoll; a
\* resume value is consumed only by the barrier the checkpoint stands at.
Invoke(p) ==
  /\ proc[p].pc = "checked"
  /\ LET start == IF proc[p].op = "send" THEN "sendPoll" ELSE ckpt.next
     IN /\ ckpt' = [ckpt EXCEPT !.next = start]
        /\ Set(p, [proc[p] EXCEPT !.pc = "work", !.node = start, !.vals = ckpt.vals,
                     !.resume = IF start \in Barriers THEN @ ELSE "none"])
  /\ UNCHANGED <<row, closure, world, said, still, used>>

\* A node has returned: its values and the next node become the checkpoint.
MoveOn(p, v) ==
  LET next == Successor(proc[p].node, v)
  IN /\ ckpt' = [next |-> next, vals |-> v]
     /\ Set(p, [proc[p] EXCEPT !.pc = "work", !.node = next, !.vals = v, !.resume = "none"])

PassBarrier(p) ==
  /\ proc[p].pc = "work" /\ proc[p].node \in Barriers /\ proc[p].resume # "none"
  /\ MoveOn(p, AfterBarrier(proc[p].node, proc[p].vals, proc[p].resume))
  /\ UNCHANGED <<row, closure, world, said, still, used>>

Did(p, v, pc) == Set(p, [proc[p] EXCEPT !.pc = pc, !.vals = v])

\* sendPoll: a closure of every candidate time replaces the poll.  The row
\* learns of the poll at once, the checkpoint only when the node returns.
SendPoll(p) ==
  /\ proc[p].pc = "work" /\ proc[p].node = "sendPoll"
  /\ IF closure
     THEN /\ Did(p, [proc[p].vals EXCEPT !.closed = TRUE], "done")
          /\ UNCHANGED <<row, world>>
     ELSE /\ Did(p, [proc[p].vals EXCEPT !.poll = TRUE, !.closed = FALSE], "done")
          /\ row' = [row EXCEPT !.polled = TRUE]
          /\ world' = [world EXCEPT !.polls = @ + 1]
  /\ UNCHANGED <<ckpt, closure, said, still, used>>

\* collectVotes: the photo and the successful collect_votes event are stored.
CollectVotes(p) ==
  /\ proc[p].pc = "work" /\ proc[p].node = "collectVotes"
  /\ Did(p, proc[p].vals, "done")
  /\ row' = [row EXCEPT !.collected = TRUE]
  /\ UNCHANGED <<ckpt, closure, world, said, still, used>>

\* bookSlots: nothing proposed, only slots outside the window, or a real plan.
BookSlots(p) ==
  /\ proc[p].pc = "work" /\ proc[p].node = "bookSlots"
  /\ \E plan \in Plans \ {"none"} : Did(p, [proc[p].vals EXCEPT !.plan = plan], "done")
  /\ UNCHANGED <<ckpt, row, closure, world, said, still, used>>

\* announce with a real booking: reserveAllForReal books the courts first.
Reserve(p) ==
  /\ proc[p].pc = "work" /\ proc[p].node = "announce"
  /\ Announces(proc[p].vals) /\ ~proc[p].vals.dry
  /\ Did(p, proc[p].vals, "booked")
  /\ world' = [world EXCEPT !.booked = @ + 1]
  /\ UNCHANGED <<ckpt, row, closure, said, still, used>>

\* announce tells the group; without a go, or with nothing to book, it is silent.
Announce(p) ==
  /\ proc[p].node = "announce"
  /\ \/ proc[p].pc = "booked"
     \/ proc[p].pc = "work" /\ ~(Announces(proc[p].vals) /\ ~proc[p].vals.dry)
  /\ Did(p, proc[p].vals, "done")
  /\ world' = IF Announces(proc[p].vals) THEN [world EXCEPT !.announced = @ + 1] ELSE world
  /\ UNCHANGED <<ckpt, row, closure, said, still, used>>

Commit(p) ==
  /\ proc[p].pc = "done"
  /\ MoveOn(p, proc[p].vals)
  /\ UNCHANGED <<row, closure, world, said, still, used>>

\* A node throws, before or after its effects: the checkpoint keeps naming it.
\* The same for the calls a trigger makes before it invokes the graph.
Fail(p) ==
  /\ \/ proc[p].pc \in {"booked", "done", "update", "cancel", "impact"}
     \/ proc[p].pc = "work" /\ proc[p].node \in WorkNodes
  /\ SpendFault
  /\ Release(p)
  /\ UNCHANGED <<ckpt, row, closure, world, said, still>>

-----------------------------------------------------------------------------
(* When the run stops: at a barrier (interrupted) or at the end.            *)

Stopped(p) ==
  /\ proc[p].pc = "work" /\ proc[p].resume = "none"
  /\ proc[p].node \in Barriers \cup {"end"}
Interrupted(p) == proc[p].node # "end"

\* Whoever must hand the go over to a waiter.
HandsOver(p) ==
  /\ Interrupted(p)
  /\ \/ proc[p].op \in {"plan", "recompute"}
     \/ proc[p].op = "retry" /\ PausedOn(ckpt) = "await-go"

\* The decision cron goes on to triggerPlan, which checks the stage again.
ChainsPlan(p) == proc[p].op = "cron" /\ PausedOn(ckpt) = "await-plan-trigger"

\* resumeAfterPlanInterrupt: an automatic job of a rule that asks for no go
\* goes straight to the last check, otherwise a Telegram wait starts.
NewWait ==
  IF row.auto /\ ~row.askGo
  THEN [Idle EXCEPT !.pc = "recheck", !.op = "wait", !.resume = "go-real"]
  ELSE [Idle EXCEPT !.pc = "await", !.op = "wait"]

Return(p) ==
  /\ Stopped(p)
  /\ \/ /\ HandsOver(p)
        /\ \E w \in Waiters :
             /\ proc[w].pc = "idle"
             /\ proc' = [proc EXCEPT ![p] = Idle, ![w] = NewWait]
     \/ /\ ChainsPlan(p)
        /\ Set(p, [Idle EXCEPT !.pc = "checked", !.op = "plan", !.resume = "true"])
     \/ /\ ~HandsOver(p) /\ ~ChainsPlan(p)
        /\ Release(p)
  /\ UNCHANGED <<ckpt, row, closure, world, said, still, used>>

-----------------------------------------------------------------------------
(* Go waits (awaitGoAndResume).                                             *)

\* The organiser answers go, or four hours pass.
Decide(w, confirmed) ==
  /\ proc[w].pc = "await"
  /\ Set(w, [proc[w] EXCEPT !.pc = "recheck", !.resume = TelegramResume(confirmed)])
  /\ said' = said \cup (IF confirmed THEN {"telegram"} ELSE {})
  /\ UNCHANGED <<ckpt, row, closure, world, still, used>>

\* Mutant: the wait resumes the graph without another look at the row.
RecheckNothing(w) ==
  /\ proc[w].pc = "recheck"
  /\ Set(w, [proc[w] EXCEPT !.pc = "checked"])
  /\ UNCHANGED <<ckpt, row, closure, world, said, still, used>>

\* isJobCancelledNow: read the row again before resuming the graph.
Recheck(w) ==
  /\ proc[w].pc = "recheck"
  /\ IF row.cancelled THEN Release(w) ELSE Set(w, [proc[w] EXCEPT !.pc = "checked"])
  /\ UNCHANGED <<ckpt, row, closure, world, said, still, used>>

\* getUpdates throws, or the row cannot be read: the wait is given up.
WaitLost(w) ==
  /\ proc[w].pc \in {"await", "recheck"}
  /\ SpendFault
  /\ Release(w)
  /\ UNCHANGED <<ckpt, row, closure, world, said, still>>

-----------------------------------------------------------------------------
(* Stopping the job.                                                        *)

\* handleCreateClosure stores the closure first, then looks for its impact.
DeclareClosure(t) ==
  /\ "closure" \in Ops /\ proc[t].pc = "idle" /\ ~closure
  /\ SpendTrigger
  /\ closure' = TRUE
  /\ Set(t, [Idle EXCEPT !.pc = "impact", !.op = "closure"])
  /\ UNCHANGED <<ckpt, row, world, said, still>>

\* loadClosureImpact: only a job in a running stage will be cancelled.
ClosureImpact(t) ==
  /\ proc[t].pc = "impact"
  /\ IF row.created /\ ~row.cancelled /\ Stage(ckpt) \in RunningStages
     THEN Set(t, [proc[t] EXCEPT !.pc = "cancel"]) ELSE Release(t)
  /\ UNCHANGED <<ckpt, row, closure, world, said, still, used>>

\* Nobody but t is between its last look at the job and the end of its work.
QuietPCs == {"idle", "await", "recheck", "impact", "cancel"}
Quiet(t) == \A p \in Procs \ {t} : proc[p].pc \in QuietPCs

\* cancelJobRun, from handleCancelPoll or cancelJobForClosure.
Cancel(t) ==
  /\ proc[t].pc = "cancel"
  /\ row' = [row EXCEPT !.cancelled = TRUE]
  /\ still' = (still \/ Quiet(t))
  /\ Release(t)
  /\ UNCHANGED <<ckpt, closure, world, said, used>>

\* toggleRuleEnabledAction.  What is under way goes on, manual triggers included.
Toggle ==
  /\ "toggle" \in Ops
  /\ SpendTrigger
  /\ row' = [row EXCEPT !.enabled = ~@]
  /\ UNCHANGED <<ckpt, proc, closure, world, said, still>>

\* A job paused at the go, which a restart leaves without a wait.
LeftPaused == ~row.cancelled /\ PausedOn(ckpt) = "await-go"

\* Mutant: the restarted pod does not look for pending go waits.
RestartForgetful ==
  /\ used.crashes < MaxCrashes
  /\ used' = [used EXCEPT !.crashes = @ + 1]
  /\ proc' = [p \in Procs |-> Idle]
  /\ UNCHANGED <<ckpt, row, closure, world, said, still>>

\* The pod restarts: whatever was in flight is lost; recoverPendingGoWaits
\* starts a wait again for a live job of an enabled rule that stands at the go
\* barrier.  The job of a disabled one gets none, even when the rule is enabled again.
Restart ==
  /\ used.crashes < MaxCrashes
  /\ used' = [used EXCEPT !.crashes = @ + 1, !.passedOver = LeftPaused /\ ~row.enabled]
  /\ IF LeftPaused /\ row.enabled
     THEN \E w \in Waiters : proc' = [p \in Procs |-> IF p = w THEN NewWait ELSE Idle]
     ELSE proc' = [p \in Procs |-> Idle]
  /\ UNCHANGED <<ckpt, row, closure, world, said, still>>

-----------------------------------------------------------------------------
\* The steps an operation takes once it is in flight.
Step(p) ==
  \/ UpdateState(p) \/ Invoke(p) \/ PassBarrier(p)
  \/ SendPoll(p) \/ CollectVotes(p) \/ BookSlots(p) \/ Reserve(p) \/ Announce(p)
  \/ Commit(p) \/ Return(p) \/ Recheck(p) \/ ClosureImpact(p) \/ Cancel(p)

Next ==
  \/ \E t \in Triggers : Create(t) \/ DeclareClosure(t) \/ \E op \in Ops : Trigger(t, op)
  \/ \E p \in Procs : Step(p) \/ Fail(p)
  \/ \E w \in Waiters : WaitLost(w) \/ \E confirmed \in BOOLEAN : Decide(w, confirmed)
  \/ Toggle \/ Restart

Spec == Init /\ [][Next]_vars

\* Promises settle: an operation in flight takes its next step, and a go wait
\* ends after four hours at the latest.
Fairness ==
  /\ \A p \in Procs : WF_vars(Step(p))
  /\ \A w \in Waiters : WF_vars(\E confirmed \in BOOLEAN : Decide(w, confirmed))

FairSpec == Spec /\ Fairness

-----------------------------------------------------------------------------
(* What must hold.                                                          *)

\* Types of every variable; the counters stay within their bounds.
TypeOK ==
  /\ ckpt \in [next : Nodes, vals : Values]
  /\ row \in [enabled : BOOLEAN, auto : BOOLEAN, askGo : BOOLEAN, created : BOOLEAN,
               polled : BOOLEAN, collected : BOOLEAN, cancelled : BOOLEAN]
  /\ proc \in [Procs -> [pc : PCs, op : AllOps \cup {"none", "wait"}, node : Nodes,
                         vals : Values, resume : Resumes]]
  /\ closure \in BOOLEAN /\ still \in BOOLEAN
  /\ world \in [polls : Nat, booked : Nat, announced : Nat]
  /\ said \subseteq {"telegram", "go", "go-real"}
  /\ used \in [triggers : Nat, faults : Nat, crashes : Nat, passedOver : BOOLEAN]

\* The rule waives the organiser's confirmation for its automatic jobs.
Waived == row.auto /\ ~row.askGo

\* Nothing is announced to the group unless a go was given, in Telegram or in
\* the UI, or is waived -- although any stray resume (a second click on plan,
\* a wait that times out) may reach the go barrier in its place.
AnnouncedOnlyOnGo == world.announced > 0 => said # {} \/ Waived

\* Courts are really booked only on the UI's real go, or, for an automatic
\* job, on a Telegram go (or without one when the rule waives it): a Telegram
\* go on a manual job stays a dry run.
BookedOnlyOnRealGo ==
  world.booked > 0 => "go-real" \in said \/ (row.auto /\ "telegram" \in said) \/ Waived

\* A job cancelled while nothing executes never does anything again: no
\* trigger, cron tick, pending go wait or restart polls, books or announces.
CancelledJobStaysStill == [][still => UNCHANGED world]_vars

\* Without clicks, over any crash and failure, the job's cron sends one poll,
\* books once and announces once at most.
AtMostOnce == world.polls <= 1 /\ world.booked <= 1 /\ world.announced <= 1

\* A job that waits for the go does not wait for ever: the wait that was
\* started for it, at the plan or after a restart, ends by a go or a timeout,
\* even when its rule is disabled meanwhile, unless a call has failed (the
\* organiser is told, and has the UI) or a restart has passed over the job of a
\* disabled rule: that one waits until the UI or the next restart.
AwaitsGo == Stage(ckpt) = "awaiting-go" /\ ~row.cancelled
GoWaitEnds == AwaitsGo ~> ~AwaitsGo \/ used.faults > 0 \/ used.passedOver
=============================================================================
