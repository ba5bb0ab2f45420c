------------------------- MODULE JobPipelineProofs -------------------------
(***************************************************************************)
(* Proofs about JobPipeline, for any number of concurrent triggers and go   *)
(* waits, any selection of operations and any bounds.                       *)
(***************************************************************************)
EXTENDS JobPipeline, TLAPS

ProcState == [pc : PCs, op : AllOps \cup {"none", "wait"}, node : Nodes,
              vals : Values, resume : Resumes]

\* The idle state of an operation is well typed.
LEMMA IdleType == Idle \in ProcState
  BY DEF Idle, ProcState, PCs, Nodes, Values, NoValues, Plans, Resumes

\* A go wait starts well typed.
LEMMA NewWaitType == NewWait \in ProcState
  BY DEF NewWait, Idle, ProcState, PCs, Nodes, Values, NoValues, Plans, Resumes

\* The successor of a node is a node.
LEMMA SuccessorType ==
  ASSUME NEW n \in Nodes, NEW v \in Values
  PROVE  Successor(n, v) \in Nodes
  BY DEF Successor, Nodes, Barriers, WorkNodes

\* A barrier returns channel values: a go is a Boolean whatever resumed it.
LEMMA AfterBarrierType ==
  ASSUME NEW n \in Nodes, NEW v \in Values, NEW r \in Resumes
  PROVE  AfterBarrier(n, v, r) \in Values
  <1>1. ASSUME NEW g \in BOOLEAN, NEW d \in BOOLEAN
        PROVE  [v EXCEPT !.go = g, !.dry = d] \in Values
    BY DEF Values
  <1>2. (r \in {"go", "go-real"}) \in BOOLEAN /\ (r # "go-real") \in BOOLEAN
    OBVIOUS
  <1>3. [v EXCEPT !.go = r \in {"go", "go-real"}, !.dry = r # "go-real"] \in Values
    BY <1>1, <1>2, Zenon
  <1>4. QED
    BY <1>3, Zenon DEF AfterBarrier

\* Replacing the state of one operation by a well-typed one keeps proc typed.
LEMMA SetType ==
  ASSUME proc \in [Procs -> ProcState], NEW p \in Procs, NEW r \in ProcState, Set(p, r)
  PROVE  proc' \in [Procs -> ProcState]
  BY DEF Set

\* Moving on to the next node keeps the checkpoint and the operation well typed.
LEMMA MoveOnType ==
  ASSUME TypeOK, NEW p \in Procs, NEW v \in Values, MoveOn(p, v)
  PROVE  ckpt' \in [next : Nodes, vals : Values] /\ proc' \in [Procs -> ProcState]
  <1> DEFINE next == Successor(proc[p].node, v)
  <1>1. proc[p] \in ProcState
    BY DEF TypeOK, ProcState
  <1>2. next \in Nodes
    BY <1>1, SuccessorType DEF ProcState
  <1>3. [proc[p] EXCEPT !.pc = "work", !.node = next, !.vals = v, !.resume = "none"] \in ProcState
    BY <1>1, <1>2 DEF ProcState, PCs, Resumes
  <1>4. QED
    BY <1>2, <1>3, SetType DEF MoveOn, TypeOK, ProcState

\* A request, a failure or a restart is counted in Nat.
LEMMA SpendType ==
  ASSUME used \in [triggers : Nat, faults : Nat, crashes : Nat, passedOver : BOOLEAN], SpendTrigger \/ SpendFault
  PROVE  used' \in [triggers : Nat, faults : Nat, crashes : Nat, passedOver : BOOLEAN]
  BY DEF SpendTrigger, SpendFault

\* The initial state is well typed.
LEMMA TypeInit == Init => TypeOK
  <1> SUFFICES ASSUME Init PROVE TypeOK
    OBVIOUS
  <1>1. ckpt \in [next : Nodes, vals : Values]
    BY DEF Init, NoValues, Nodes, Values, Plans
  <1>2. proc \in [Procs -> ProcState]
    BY IdleType DEF Init
  <1>3. row \in [enabled : BOOLEAN, auto : BOOLEAN, askGo : BOOLEAN, created : BOOLEAN,
                 polled : BOOLEAN, collected : BOOLEAN, cancelled : BOOLEAN]
    BY DEF Init
  <1>4. QED
    BY <1>1, <1>2, <1>3 DEF Init, TypeOK, ProcState

\* Every step of an operation in flight keeps the types.
LEMMA TypeStep ==
  ASSUME TypeOK, NEW p \in Procs, Step(p)
  PROVE  TypeOK'
  <1> USE DEF ProcState
  <1>0. proc \in [Procs -> ProcState] /\ proc[p] \in ProcState /\ ckpt \in [next : Nodes, vals : Values]
    BY DEF TypeOK
  <1>1. CASE UpdateState(p)
    <2>1. [proc[p] EXCEPT !.pc = "checked"] \in ProcState
      BY <1>0 DEF PCs
    <2>2. proc' \in [Procs -> ProcState]
      BY <1>0, <1>1, <2>1, SetType DEF UpdateState
    <2>3. QED
      BY <1>1, <2>2 DEF UpdateState, TypeOK, Nodes, WorkNodes
  <1>2. CASE Invoke(p)
    <2> DEFINE start == IF proc[p].op = "send" THEN "sendPoll" ELSE ckpt.next
    <2>1. start \in Nodes
      BY <1>0 DEF Nodes, WorkNodes
    <2>2. [proc[p] EXCEPT !.pc = "work", !.node = start, !.vals = ckpt.vals,
                          !.resume = IF start \in Barriers THEN @ ELSE "none"] \in ProcState
      BY <1>0, <2>1 DEF PCs, Resumes
    <2>3. proc' \in [Procs -> ProcState]
      BY <1>0, <1>2, <2>2, SetType DEF Invoke
    <2>4. ckpt' \in [next : Nodes, vals : Values]
      BY <1>0, <1>2, <2>1 DEF Invoke
    <2>5. QED
      BY <1>2, <2>3, <2>4 DEF Invoke, TypeOK
  <1>3. CASE PassBarrier(p)
    <2>1. AfterBarrier(proc[p].node, proc[p].vals, proc[p].resume) \in Values
      BY <1>0, AfterBarrierType DEF ProcState
    <2>2. QED
      BY <1>3, <2>1, MoveOnType DEF PassBarrier, TypeOK
  <1>4. CASE SendPoll(p) \/ CollectVotes(p) \/ BookSlots(p) \/ Reserve(p) \/ Announce(p)
    <2>1. ASSUME NEW v \in Values, NEW pc \in PCs, Did(p, v, pc)
          PROVE  proc' \in [Procs -> ProcState]
      BY <1>0, <2>1, SetType DEF Did
    <2>2. proc' \in [Procs -> ProcState]
      BY <1>0, <1>4, <2>1 DEF SendPoll, CollectVotes, BookSlots, Reserve, Announce, PCs, Values
    <2>3. row' \in [enabled : BOOLEAN, auto : BOOLEAN, askGo : BOOLEAN, created : BOOLEAN,
                    polled : BOOLEAN, collected : BOOLEAN, cancelled : BOOLEAN]
      BY <1>4 DEF SendPoll, CollectVotes, BookSlots, Reserve, Announce, TypeOK
    <2>4. world' \in [polls : Nat, booked : Nat, announced : Nat]
      <3> world \in [polls : Nat, booked : Nat, announced : Nat]
        BY DEF TypeOK
      <3>1. CASE SendPoll(p)
        BY <3>1 DEF SendPoll
      <3>2. CASE CollectVotes(p) \/ BookSlots(p)
        BY <3>2 DEF CollectVotes, BookSlots
      <3>3. CASE Reserve(p)
        BY <3>3 DEF Reserve
      <3>4. CASE Announce(p)
        BY <3>4 DEF Announce
      <3>5. QED
        BY <1>4, <3>1, <3>2, <3>3, <3>4
    <2>5. UNCHANGED <<ckpt, closure, said, still, used>>
      BY <1>4 DEF SendPoll, CollectVotes, BookSlots, Reserve, Announce
    <2>6. QED
      BY <2>2, <2>3, <2>4, <2>5 DEF TypeOK
  <1>5. CASE Commit(p)
    BY <1>0, <1>5, MoveOnType DEF Commit, TypeOK
  <1>6. CASE Return(p)
    <2>1. [Idle EXCEPT !.pc = "checked", !.op = "plan", !.resume = "true"] \in ProcState
      BY IdleType DEF PCs, AllOps, Resumes
    <2>2. proc' \in [Procs -> ProcState]
      BY <1>0, <1>6, <2>1, IdleType, NewWaitType, SetType DEF Return, Release, Set, Procs
    <2>3. QED
      BY <1>6, <2>2 DEF Return, TypeOK
  <1>7. CASE Recheck(p) \/ ClosureImpact(p) \/ Cancel(p)
    <2>1. [proc[p] EXCEPT !.pc = "checked"] \in ProcState /\ [proc[p] EXCEPT !.pc = "cancel"] \in ProcState
      BY <1>0 DEF PCs
    <2>2. proc' \in [Procs -> ProcState]
      BY <1>0, <1>7, <2>1, IdleType, SetType DEF Recheck, ClosureImpact, Cancel, Release
    <2>3. QED
      BY <1>7, <2>2 DEF Recheck, ClosureImpact, Cancel, TypeOK, Quiet
  <1>8. QED
    BY <1>1, <1>2, <1>3, <1>4, <1>5, <1>6, <1>7 DEF Step

\* Every step that starts, breaks or decides an operation keeps the types.
LEMMA TypeOther ==
  ASSUME TypeOK, ConstantsAssumption, NEW p \in Procs,
         Create(p) \/ DeclareClosure(p) \/ (\E op \in Ops : Trigger(p, op)) \/ Fail(p)
           \/ WaitLost(p) \/ (\E confirmed \in BOOLEAN : Decide(p, confirmed))
  PROVE  TypeOK'
  <1> USE DEF ProcState
  <1>0. proc \in [Procs -> ProcState] /\ proc[p] \in ProcState
    BY DEF TypeOK
  <1>u. used \in [triggers : Nat, faults : Nat, crashes : Nat, passedOver : BOOLEAN]
    BY DEF TypeOK
  <1>1. CASE Create(p)
    <2>1. [Idle EXCEPT !.pc = "checked", !.op = "send"] \in ProcState
      BY IdleType DEF PCs, AllOps
    <2>2. proc' \in [Procs -> ProcState]
      BY <1>0, <1>1, <2>1, IdleType, SetType DEF Create
    <2>3. row' \in [enabled : BOOLEAN, auto : BOOLEAN, askGo : BOOLEAN, created : BOOLEAN,
                    polled : BOOLEAN, collected : BOOLEAN, cancelled : BOOLEAN]
      BY <1>1 DEF Create, TypeOK
    <2>4. used' \in [triggers : Nat, faults : Nat, crashes : Nat, passedOver : BOOLEAN]
      BY <1>1, <1>u, SpendType DEF Create
    <2>5. QED
      BY <1>1, <2>2, <2>3, <2>4 DEF Create, TypeOK
  <1>2. CASE DeclareClosure(p)
    <2>1. [Idle EXCEPT !.pc = "impact", !.op = "closure"] \in ProcState
      BY IdleType DEF PCs, AllOps
    <2>2. proc' \in [Procs -> ProcState]
      BY <1>0, <1>2, <2>1, SetType DEF DeclareClosure
    <2>3. used' \in [triggers : Nat, faults : Nat, crashes : Nat, passedOver : BOOLEAN]
      BY <1>2, <1>u, SpendType DEF DeclareClosure
    <2>4. QED
      BY <1>2, <2>2, <2>3 DEF DeclareClosure, TypeOK
  <1>3. ASSUME NEW op \in Ops, Trigger(p, op)
        PROVE  TypeOK'
    <2> DEFINE pc == IF op = "recompute" THEN "update"
                     ELSE IF op = "cancelPoll" THEN "cancel" ELSE "checked"
    <2>1. op \in AllOps
      BY DEF ConstantsAssumption
    <2>2. pc \in PCs /\ Effective(op) \in AllOps /\ ResumeOf(op) \in Resumes
      BY <2>1 DEF PCs, AllOps, Effective, ResumeOf, Resumes
    <2>3. [Idle EXCEPT !.pc = pc, !.op = Effective(op), !.resume = ResumeOf(op)] \in ProcState
      BY <2>2, IdleType
    <2>4. proc' \in [Procs -> ProcState]
      BY <1>0, <1>3, <2>3, SetType DEF Trigger
    <2>5. used' \in [triggers : Nat, faults : Nat, crashes : Nat, passedOver : BOOLEAN]
      BY <1>3, <1>u, SpendType DEF Trigger
    <2>6. said' \subseteq {"telegram", "go", "go-real"}
      BY <1>3 DEF Trigger, TypeOK
    <2>7. QED
      BY <1>3, <2>4, <2>5, <2>6 DEF Trigger, TypeOK
  <1>4. CASE Fail(p) \/ WaitLost(p)
    <2>1. proc' \in [Procs -> ProcState]
      BY <1>0, <1>4, IdleType, SetType DEF Fail, WaitLost, Release
    <2>2. used' \in [triggers : Nat, faults : Nat, crashes : Nat, passedOver : BOOLEAN]
      BY <1>4, <1>u, SpendType DEF Fail, WaitLost
    <2>3. QED
      BY <1>4, <2>1, <2>2 DEF Fail, WaitLost, TypeOK
  <1>5. ASSUME NEW confirmed \in BOOLEAN, Decide(p, confirmed)
        PROVE  TypeOK'
    <2>1. [proc[p] EXCEPT !.pc = "recheck", !.resume = TelegramResume(confirmed)] \in ProcState
      BY <1>0 DEF PCs, TelegramResume, Resumes
    <2>2. proc' \in [Procs -> ProcState]
      BY <1>0, <1>5, <2>1, SetType DEF Decide
    <2>3. said' \subseteq {"telegram", "go", "go-real"}
      BY <1>5 DEF Decide, TypeOK
    <2>4. QED
      BY <1>5, <2>2, <2>3 DEF Decide, TypeOK
  <1>6. QED
    BY <1>1, <1>2, <1>3, <1>4, <1>5

\* A rule enabled or disabled keeps the types.
LEMMA TypeToggle == TypeOK /\ Toggle => TypeOK'
  <1> SUFFICES ASSUME TypeOK, Toggle PROVE TypeOK'
    OBVIOUS
  <1>1. used' \in [triggers : Nat, faults : Nat, crashes : Nat, passedOver : BOOLEAN]
    BY SpendType DEF Toggle, TypeOK
  <1>2. row' \in [enabled : BOOLEAN, auto : BOOLEAN, askGo : BOOLEAN, created : BOOLEAN,
                  polled : BOOLEAN, collected : BOOLEAN, cancelled : BOOLEAN]
    BY DEF Toggle, TypeOK
  <1>3. QED
    BY <1>1, <1>2 DEF Toggle, TypeOK

\* A restart keeps the types.
LEMMA TypeRestart == TypeOK /\ Restart => TypeOK'
  <1> SUFFICES ASSUME TypeOK, Restart PROVE TypeOK'
    OBVIOUS
  <1>1. proc' \in [Procs -> ProcState]
    BY IdleType, NewWaitType DEF Restart
  <1>2. used' \in [triggers : Nat, faults : Nat, crashes : Nat, passedOver : BOOLEAN]
    <2>1. PICK b \in BOOLEAN : b = (LeftPaused /\ ~row.enabled)
      BY DEF LeftPaused
    <2>2. used' = [used EXCEPT !.crashes = @ + 1, !.passedOver = b]
      BY <2>1 DEF Restart
    <2>3. used \in [triggers : Nat, faults : Nat, crashes : Nat, passedOver : BOOLEAN]
      BY DEF TypeOK
    <2>4. PICK n \in Nat : n = used.crashes + 1
      BY <2>3
    <2>5. used' = [used EXCEPT !.crashes = n, !.passedOver = b]
      BY <2>2, <2>4
    <2>6. QED
      BY <2>3, <2>5
  <1>3. QED
    BY <1>1, <1>2 DEF Restart, TypeOK, ProcState

\* Every step keeps the types.
LEMMA TypeNext == TypeOK /\ ConstantsAssumption /\ [Next]_vars => TypeOK'
  <1> SUFFICES ASSUME TypeOK, ConstantsAssumption, [Next]_vars PROVE TypeOK'
    OBVIOUS
  <1>1. CASE Next
    BY <1>1, TypeStep, TypeOther, TypeToggle, TypeRestart DEF Next, Procs
  <1>2. CASE UNCHANGED vars
    BY <1>2 DEF vars, TypeOK
  <1>3. QED
    BY <1>1, <1>2

\* The state of the job, of its checkpoint and of every request and wait stays
\* well formed, whatever interleaves.
THEOREM TypeCorrect == Spec => []TypeOK
  BY TypeInit, TypeNext, ConstantsAssumption, PTL DEF Spec

-----------------------------------------------------------------------------
(* Every announcement and every booking is licensed by a go.  The decision   *)
(* travels from the wait or the UI to announce through a resume value, the    *)
(* values of a run and the checkpoint; the invariant follows it all the way.  *)

Authorised == said # {} \/ Waived
AuthorisedReal == "go-real" \in said \/ (row.auto /\ "telegram" \in said) \/ Waived

\* Channel values and operations that hold a go hold one that was given: a says
\* that a go was given, b that it allows a real booking.
Licensed(v, a, b) == (v.go => a) /\ (~v.dry => b)
ProcLicensed(r, a, b) ==
  /\ Licensed(r.vals, a, b)
  /\ r.resume \in {"go", "go-real"} => a
  /\ r.resume = "go-real" => b

GoInv ==
  /\ Licensed(ckpt.vals, Authorised, AuthorisedReal)
  /\ \A q \in Procs : ProcLicensed(proc[q], Authorised, AuthorisedReal)
  /\ world.announced > 0 => Authorised
  /\ world.booked > 0 => AuthorisedReal

\* A go that was given stays given, and the rule's settings do not change.
LEMMA GoGrows ==
  ASSUME TypeOK, Next
  PROVE  (Authorised => Authorised') /\ (AuthorisedReal => AuthorisedReal')
  <1>1. said \subseteq said'
    BY DEF Next, Create, Trigger, DeclareClosure, Step, UpdateState, Invoke, PassBarrier,
           SendPoll, CollectVotes, BookSlots, Reserve, Announce, Commit, Return, Recheck,
           ClosureImpact, Cancel, Fail, WaitLost, Decide, Toggle, Restart
  <1>2. row'.auto = row.auto /\ row'.askGo = row.askGo
    BY DEF TypeOK, Next, Create, Trigger, DeclareClosure, Step, UpdateState, Invoke, PassBarrier,
           SendPoll, CollectVotes, BookSlots, Reserve, Announce, Commit, Return, Recheck,
           ClosureImpact, Cancel, Fail, WaitLost, Decide, Toggle, Restart
  <1>3. QED
    BY <1>1, <1>2 DEF Authorised, AuthorisedReal, Waived

\* Nobody holds a go at first.
LEMMA GoInit == Init => GoInv
  BY DEF Init, GoInv, Licensed, ProcLicensed, Idle, NoValues

\* An operation that holds no go needs no licence.
LEMMA IdleLicensed ==
  ASSUME NEW a, NEW b
  PROVE  ProcLicensed(Idle, a, b)
  BY DEF ProcLicensed, Licensed, Idle, NoValues

\* A wait that begins holds no go.
LEMMA NewWaitLicensed == TypeOK => ProcLicensed(NewWait, Authorised, AuthorisedReal)
  BY DEF ProcLicensed, Licensed, NewWait, Idle, NoValues, Authorised, AuthorisedReal, Waived

\* The licence of the untouched operations survives a step.
LEMMA GoSet ==
  ASSUME TypeOK, GoInv, Next, NEW p \in Procs, NEW r, Set(p, r),
         ProcLicensed(r, Authorised', AuthorisedReal')
  PROVE  \A q \in Procs : ProcLicensed(proc'[q], Authorised', AuthorisedReal')
  <1> SUFFICES ASSUME NEW q \in Procs
               PROVE  ProcLicensed(proc'[q], Authorised', AuthorisedReal')
    OBVIOUS
  <1>1. proc'[q] = IF q = p THEN r ELSE proc[q]
    BY DEF Set, TypeOK
  <1>2. ProcLicensed(proc[q], Authorised', AuthorisedReal')
    BY GoGrows DEF GoInv, ProcLicensed, Licensed
  <1>3. QED
    BY <1>1, <1>2

\* A step that neither announces, books nor touches the checkpoint.
LEMMA GoFrame ==
  ASSUME TypeOK, GoInv, Next, ckpt'.vals = ckpt.vals,
         world'.announced = world.announced, world'.booked = world.booked,
         \A q \in Procs : ProcLicensed(proc'[q], Authorised', AuthorisedReal')
  PROVE  GoInv'
  BY GoGrows DEF GoInv, Licensed

\* A go barrier grants nothing its resume value does not carry.
LEMMA AfterBarrierLicensed ==
  ASSUME NEW r \in ProcState, NEW a, NEW b, ProcLicensed(r, a, b)
  PROVE  Licensed(AfterBarrier(r.node, r.vals, r.resume), a, b)
  BY DEF ProcLicensed, Licensed, AfterBarrier, ProcState, Values

\* A node's values become the checkpoint and those of the run.
LEMMA GoMoveOn ==
  ASSUME TypeOK, GoInv, Next, NEW p \in Procs, NEW v \in Values, MoveOn(p, v),
         Licensed(v, Authorised', AuthorisedReal'), world' = world
  PROVE  GoInv'
  <1> DEFINE r == [proc[p] EXCEPT !.pc = "work", !.node = Successor(proc[p].node, v),
                                  !.vals = v, !.resume = "none"]
  <1>1. r.vals = v /\ r.resume = "none"
    BY DEF TypeOK
  <1>2. ProcLicensed(r, Authorised', AuthorisedReal')
    BY <1>1 DEF ProcLicensed
  <1>3. Set(p, r) /\ ckpt'.vals = v
    BY DEF MoveOn
  <1> HIDE DEF r
  <1>4. \A q \in Procs : ProcLicensed(proc'[q], Authorised', AuthorisedReal')
    BY <1>2, <1>3, GoSet
  <1>5. QED
    BY <1>3, <1>4, GoGrows DEF GoInv

\* The work of a node changes neither the go nor the dry run flag.
LEMMA GoDid ==
  ASSUME TypeOK, GoInv, Next, NEW p \in Procs, NEW v \in Values, NEW pc, Did(p, v, pc),
         v.go = proc[p].vals.go, v.dry = proc[p].vals.dry
  PROVE  \A q \in Procs : ProcLicensed(proc'[q], Authorised', AuthorisedReal')
  <1> DEFINE r == [proc[p] EXCEPT !.pc = pc, !.vals = v]
  <1>1. r.vals = v /\ r.resume = proc[p].resume
    BY DEF TypeOK
  <1>2. ProcLicensed(r, Authorised', AuthorisedReal')
    BY <1>1, GoGrows DEF GoInv, ProcLicensed, Licensed
  <1>3. Set(p, r)
    BY DEF Did
  <1> HIDE DEF r
  <1>4. QED
    BY <1>2, <1>3, GoSet

\* Every step of an operation in flight keeps the invariant.
LEMMA GoStep ==
  ASSUME TypeOK, GoInv, Next, NEW p \in Procs, Step(p)
  PROVE  GoInv'
  <1>0. proc[p] \in ProcState /\ ckpt \in [next : Nodes, vals : Values]
    BY DEF TypeOK, ProcState
  <1>1. ProcLicensed(proc[p], Authorised', AuthorisedReal')
    BY GoGrows DEF GoInv, ProcLicensed, Licensed
  <1>2. Licensed(ckpt.vals, Authorised', AuthorisedReal')
    BY GoGrows DEF GoInv, Licensed
  <1>3. CASE UpdateState(p)
    <2>1. ProcLicensed([proc[p] EXCEPT !.pc = "checked"], Authorised', AuthorisedReal')
      BY <1>0, <1>1 DEF ProcLicensed, Licensed, ProcState
    <2>2. \A q \in Procs : ProcLicensed(proc'[q], Authorised', AuthorisedReal')
      BY <1>3, <2>1, GoSet DEF UpdateState
    <2>3. QED
      BY <1>0, <1>3, <2>2, GoFrame DEF UpdateState
  <1>4. CASE Invoke(p)
    <2> DEFINE start == IF proc[p].op = "send" THEN "sendPoll" ELSE ckpt.next
               r == [proc[p] EXCEPT !.pc = "work", !.node = start, !.vals = ckpt.vals,
                       !.resume = IF start \in Barriers THEN @ ELSE "none"]
    <2>1. r.vals = ckpt.vals /\ r.resume \in {proc[p].resume, "none"}
      BY <1>0 DEF ProcState
    <2>2. ProcLicensed(r, Authorised', AuthorisedReal')
      BY <1>1, <1>2, <2>1 DEF ProcLicensed
    <2>3. Set(p, r)
      BY <1>4 DEF Invoke
    <2>4. ckpt'.vals = ckpt.vals
      BY <1>0, <1>4 DEF Invoke
    <2> HIDE DEF r
    <2>5. \A q \in Procs : ProcLicensed(proc'[q], Authorised', AuthorisedReal')
      BY <2>2, <2>3, GoSet
    <2>6. QED
      BY <1>4, <2>4, <2>5, GoFrame DEF Invoke
  <1>5. CASE PassBarrier(p)
    <2> DEFINE v == AfterBarrier(proc[p].node, proc[p].vals, proc[p].resume)
    <2>1. v \in Values
      BY <1>0, AfterBarrierType DEF ProcState
    <2>2. Licensed(v, Authorised', AuthorisedReal')
      BY <1>0, <1>1, AfterBarrierLicensed
    <2>3. MoveOn(p, v) /\ world' = world
      BY <1>5 DEF PassBarrier
    <2> HIDE DEF v
    <2>4. QED
      BY <2>1, <2>2, <2>3, GoMoveOn
  <1>6. CASE SendPoll(p) \/ CollectVotes(p) \/ BookSlots(p)
    <2>v. proc[p].vals \in Values
      BY <1>0 DEF ProcState
    <2> DEFINE Kept == \A q \in Procs : ProcLicensed(proc'[q], Authorised', AuthorisedReal')
    <2>1. ASSUME SendPoll(p) PROVE Kept
      <3> DEFINE v1 == [proc[p].vals EXCEPT !.closed = TRUE]
                 v2 == [proc[p].vals EXCEPT !.poll = TRUE, !.closed = FALSE]
      <3>1. v1 \in Values /\ v1.go = proc[p].vals.go /\ v1.dry = proc[p].vals.dry
        BY <2>v DEF Values
      <3>2. v2 \in Values /\ v2.go = proc[p].vals.go /\ v2.dry = proc[p].vals.dry
        BY <2>v DEF Values
      <3>3. Did(p, v1, "done") \/ Did(p, v2, "done")
        BY <2>1 DEF SendPoll
      <3> HIDE DEF v1, v2
      <3>4. QED
        BY <3>1, <3>2, <3>3, GoDid
    <2>2. ASSUME CollectVotes(p) PROVE Kept
      BY <2>v, <2>2, GoDid DEF CollectVotes
    <2>3. ASSUME BookSlots(p) PROVE Kept
      <3>1. PICK plan \in Plans \ {"none"} : Did(p, [proc[p].vals EXCEPT !.plan = plan], "done")
        BY <2>3 DEF BookSlots
      <3> DEFINE v == [proc[p].vals EXCEPT !.plan = plan]
      <3>2. v \in Values /\ v.go = proc[p].vals.go /\ v.dry = proc[p].vals.dry
        BY <2>v DEF Values
      <3> HIDE DEF v
      <3>3. QED
        BY <3>1, <3>2, GoDid DEF v
    <2>4. Kept
      BY <1>6, <2>1, <2>2, <2>3
    <2>5. ckpt' = ckpt /\ world'.announced = world.announced /\ world'.booked = world.booked
      BY <1>6 DEF SendPoll, CollectVotes, BookSlots, TypeOK
    <2>6. QED
      BY <2>4, <2>5, GoFrame
  <1>7. CASE Reserve(p) \/ Announce(p)
    <2>1. \E pc \in PCs : Did(p, proc[p].vals, pc)
      BY <1>7 DEF Reserve, Announce, PCs
    <2>2. \A q \in Procs : ProcLicensed(proc'[q], Authorised', AuthorisedReal')
      BY <1>0, <2>1, GoDid DEF ProcState
    <2>3. world'.announced = world.announced \/ Authorised'
      BY <1>1, <1>7 DEF Reserve, Announce, Announces, ProcLicensed, Licensed, TypeOK
    <2>4. world'.booked = world.booked \/ AuthorisedReal'
      BY <1>1, <1>7 DEF Reserve, Announce, ProcLicensed, Licensed, TypeOK
    <2>5. ckpt' = ckpt
      BY <1>7 DEF Reserve, Announce
    <2>6. QED
      BY <1>2, <2>2, <2>3, <2>4, <2>5, GoGrows DEF GoInv
  <1>8. CASE Commit(p)
    <2>1. Licensed(proc[p].vals, Authorised', AuthorisedReal') /\ proc[p].vals \in Values
      BY <1>0, <1>1 DEF ProcLicensed, ProcState
    <2>2. QED
      BY <1>8, <2>1, GoMoveOn DEF Commit
  <1>9. CASE Return(p)
    <2>1. ProcLicensed([Idle EXCEPT !.pc = "checked", !.op = "plan", !.resume = "true"],
                       Authorised', AuthorisedReal')
      BY DEF ProcLicensed, Licensed, Idle, NoValues
    <2>2. \A q \in Procs : \/ proc'[q] = proc[q]
                           \/ proc'[q] = Idle \/ proc'[q] = NewWait
                           \/ proc'[q] = [Idle EXCEPT !.pc = "checked", !.op = "plan",
                                                      !.resume = "true"]
      BY <1>9 DEF Return, Release, Set, TypeOK, Procs
    <2>3. ProcLicensed(NewWait, Authorised', AuthorisedReal')
      BY NewWaitLicensed, GoGrows DEF ProcLicensed, Licensed
    <2>4. \A q \in Procs : ProcLicensed(proc[q], Authorised', AuthorisedReal')
      BY GoGrows DEF GoInv, ProcLicensed, Licensed
    <2>5. \A q \in Procs : ProcLicensed(proc'[q], Authorised', AuthorisedReal')
      BY <2>1, <2>2, <2>3, <2>4, IdleLicensed
    <2>6. QED
      BY <1>9, <2>5, GoFrame DEF Return
  <1>10. CASE Recheck(p) \/ ClosureImpact(p) \/ Cancel(p)
    <2>1. ASSUME NEW pc PROVE ProcLicensed([proc[p] EXCEPT !.pc = pc], Authorised', AuthorisedReal')
      BY <1>0, <1>1 DEF ProcLicensed, Licensed, ProcState
    <2>2. \A q \in Procs : ProcLicensed(proc'[q], Authorised', AuthorisedReal')
      BY <1>10, <2>1, IdleLicensed, GoSet DEF Recheck, ClosureImpact, Cancel, Release
    <2>3. QED
      BY <1>10, <2>2, GoFrame DEF Recheck, ClosureImpact, Cancel
  <1>11. QED
    BY <1>3, <1>4, <1>5, <1>6, <1>7, <1>8, <1>9, <1>10 DEF Step

\* Every step that starts, breaks or decides an operation keeps the invariant.
LEMMA GoOther ==
  ASSUME TypeOK, GoInv, Next, NEW p \in Procs,
         Create(p) \/ DeclareClosure(p) \/ (\E op \in Ops : Trigger(p, op)) \/ Fail(p)
           \/ WaitLost(p) \/ (\E confirmed \in BOOLEAN : Decide(p, confirmed))
  PROVE  GoInv'
  <1>0. proc[p] \in ProcState
    BY DEF TypeOK, ProcState
  <1>1. ProcLicensed(proc[p], Authorised', AuthorisedReal')
    BY GoGrows DEF GoInv, ProcLicensed, Licensed
  <1>2. UNCHANGED <<ckpt, world>>
    BY DEF Create, DeclareClosure, Trigger, Fail, WaitLost, Decide
  <1>3. \E r : Set(p, r) /\ ProcLicensed(r, Authorised', AuthorisedReal')
    <2>1. CASE Create(p) \/ DeclareClosure(p) \/ Fail(p) \/ WaitLost(p)
      <3>1. ASSUME NEW pc, NEW op
            PROVE ProcLicensed([Idle EXCEPT !.pc = pc, !.op = op], Authorised', AuthorisedReal')
        BY DEF ProcLicensed, Licensed, Idle, NoValues
      <3>2. QED
        BY <2>1, <3>1, IdleLicensed DEF Create, DeclareClosure, Fail, WaitLost, Release
    <2>2. ASSUME NEW op \in Ops, Trigger(p, op)
          PROVE  \E r : Set(p, r) /\ ProcLicensed(r, Authorised', AuthorisedReal')
      <3>1. op \in {"go", "go-real"} => op \in said'
        BY <2>2 DEF Trigger
      <3>2. ResumeOf(op) \in {"go", "go-real"} => Authorised'
        BY <3>1 DEF ResumeOf, Authorised
      <3>3. ResumeOf(op) = "go-real" => AuthorisedReal'
        BY <3>1 DEF ResumeOf, AuthorisedReal
      <3>4. ASSUME NEW pc, NEW o
            PROVE  ProcLicensed([Idle EXCEPT !.pc = pc, !.op = o, !.resume = ResumeOf(op)],
                                Authorised', AuthorisedReal')
        BY <3>2, <3>3 DEF ProcLicensed, Licensed, Idle, NoValues
      <3>5. QED
        BY <2>2, <3>4 DEF Trigger
    <2>3. ASSUME NEW confirmed \in BOOLEAN, Decide(p, confirmed)
          PROVE  \E r : Set(p, r) /\ ProcLicensed(r, Authorised', AuthorisedReal')
      <3>1. row' = row /\ (confirmed => "telegram" \in said')
        BY <2>3 DEF Decide
      <3>2. TelegramResume(confirmed) \in {"go", "go-real"} => Authorised'
        BY <3>1 DEF TelegramResume, Authorised
      <3>3. TelegramResume(confirmed) = "go-real" => AuthorisedReal'
        BY <3>1 DEF TelegramResume, AuthorisedReal
      <3>4. ProcLicensed([proc[p] EXCEPT !.pc = "recheck", !.resume = TelegramResume(confirmed)],
                         Authorised', AuthorisedReal')
        BY <1>0, <1>1, <3>2, <3>3 DEF ProcLicensed, Licensed, ProcState
      <3>5. QED
        BY <2>3, <3>4 DEF Decide
    <2>4. QED
      BY <2>1, <2>2, <2>3
  <1>4. \A q \in Procs : ProcLicensed(proc'[q], Authorised', AuthorisedReal')
    BY <1>3, GoSet
  <1>5. QED
    BY <1>2, <1>4, GoFrame

\* A rule enabled or disabled gives no go and takes none.
LEMMA GoToggle == TypeOK /\ GoInv /\ Next /\ Toggle => GoInv'
  <1> SUFFICES ASSUME TypeOK, GoInv, Next, Toggle PROVE GoInv'
    OBVIOUS
  <1>1. UNCHANGED <<ckpt, proc, world>>
    BY DEF Toggle
  <1>2. \A q \in Procs : ProcLicensed(proc'[q], Authorised', AuthorisedReal')
    BY <1>1, GoGrows DEF GoInv, ProcLicensed, Licensed
  <1>3. QED
    BY <1>1, <1>2, GoFrame

\* A restart keeps the invariant.
LEMMA GoRestart == TypeOK /\ GoInv /\ Next /\ Restart => GoInv'
  <1> SUFFICES ASSUME TypeOK, GoInv, Next, Restart PROVE GoInv'
    OBVIOUS
  <1>1. ProcLicensed(NewWait, Authorised', AuthorisedReal')
    BY NewWaitLicensed, GoGrows DEF ProcLicensed, Licensed
  <1>2. \A q \in Procs : proc'[q] = Idle \/ proc'[q] = NewWait
    BY DEF Restart
  <1>3. \A q \in Procs : ProcLicensed(proc'[q], Authorised', AuthorisedReal')
    BY <1>1, <1>2, IdleLicensed
  <1>4. QED
    BY <1>3, GoFrame DEF Restart

\* Every step keeps the invariant.
LEMMA GoNext == TypeOK /\ GoInv /\ [Next]_vars => GoInv'
  <1> SUFFICES ASSUME TypeOK, GoInv, [Next]_vars PROVE GoInv'
    OBVIOUS
  <1>1. CASE Next
    BY <1>1, GoStep, GoOther, GoToggle, GoRestart DEF Next, Procs
  <1>2. CASE UNCHANGED vars
    BY <1>2 DEF vars, GoInv, Authorised, AuthorisedReal, Waived
  <1>3. QED
    BY <1>1, <1>2

\* Whoever holds a go was given one, in every reachable state.
LEMMA GoCorrect == Spec => []GoInv
  BY TypeCorrect, GoInit, GoNext, PTL DEF Spec

\* Whatever requests, ticks, waits, failures and restarts interleave, the group
\* hears nothing unless the organiser said go or the rule waives it.
THEOREM AnnouncementsAuthorised == Spec => []AnnouncedOnlyOnGo
  <1>1. GoInv => AnnouncedOnlyOnGo
    BY DEF GoInv, AnnouncedOnlyOnGo, Authorised
  <1>2. QED
    BY <1>1, GoCorrect, PTL

\* No court is paid for on the strength of a dry-run go.
THEOREM BookingsAuthorised == Spec => []BookedOnlyOnRealGo
  <1>1. GoInv => BookedOnlyOnRealGo
    BY DEF GoInv, BookedOnlyOnRealGo, AuthorisedReal
  <1>2. QED
    BY <1>1, GoCorrect, PTL

-----------------------------------------------------------------------------
(* A job cancelled while nothing executes stays still.                       *)

\* Only a created job is cancelled, so no Create can follow; once the job is
\* still, what remains in flight are waits and looks at the row, and all of them
\* see the cancellation.
StillInv ==
  /\ row.cancelled => row.created
  /\ \A q \in Procs : proc[q].pc = "cancel" => row.created
  /\ still => row.cancelled /\ \A q \in Procs : proc[q].pc \in QuietPCs

\* No job is cancelled at first.
LEMMA StillInit == Init => StillInv
  <1> SUFFICES ASSUME Init PROVE StillInv
    OBVIOUS
  <1>1. ~row.cancelled /\ still = FALSE
    BY DEF Init
  <1>2. \A q \in Procs : proc[q].pc = "idle"
    BY DEF Init, Idle
  <1>3. QED
    BY <1>1, <1>2 DEF StillInv

\* The program counters of the states an operation is put in.
LEMMA PcOfIdle == Idle.pc = "idle" /\ NewWait.pc \in {"recheck", "await"}
  BY DEF Idle, NewWait

\* After Set(p, r) the other operations are where they were.
LEMMA StillSet ==
  ASSUME TypeOK, NEW p \in Procs, NEW r, Set(p, r)
  PROVE  \A q \in Procs : proc'[q] = IF q = p THEN r ELSE proc[q]
  BY DEF TypeOK, Set

\* A step of an operation in flight keeps the invariant, and the world of a still job.
LEMMA StillStep ==
  ASSUME TypeOK, StillInv, NEW p \in Procs, Step(p)
  PROVE  StillInv' /\ (still => UNCHANGED world)
  <1>0. proc[p] \in ProcState
    BY DEF TypeOK, ProcState
  <1>1. CASE UpdateState(p) \/ Invoke(p) \/ PassBarrier(p) \/ SendPoll(p) \/ CollectVotes(p)
             \/ BookSlots(p) \/ Reserve(p) \/ Announce(p) \/ Commit(p)
    <2>1. proc[p].pc \notin QuietPCs
      BY <1>1 DEF UpdateState, Invoke, PassBarrier, SendPoll, CollectVotes, BookSlots,
                  Reserve, Announce, Commit, QuietPCs
    <2>2. \E r : Set(p, r) /\ r.pc # "cancel"
      <3>1. ASSUME UpdateState(p) PROVE \E r : Set(p, r) /\ r.pc # "cancel"
        <4>1. [proc[p] EXCEPT !.pc = "checked"].pc = "checked"
          BY <1>0 DEF ProcState
        <4>2. QED
          BY <3>1, <4>1 DEF UpdateState
      <3>2. ASSUME Invoke(p) PROVE \E r : Set(p, r) /\ r.pc # "cancel"
        <4>1. ASSUME NEW n, NEW v, NEW x
              PROVE  [proc[p] EXCEPT !.pc = "work", !.node = n, !.vals = v, !.resume = x].pc = "work"
          BY <1>0 DEF ProcState
        <4>2. QED
          BY <3>2, <4>1 DEF Invoke
      <3>3. ASSUME NEW v, MoveOn(p, v) PROVE \E r : Set(p, r) /\ r.pc # "cancel"
        <4>1. ASSUME NEW n
              PROVE  [proc[p] EXCEPT !.pc = "work", !.node = n, !.vals = v,
                                     !.resume = "none"].pc = "work"
          BY <1>0 DEF ProcState
        <4>2. QED
          BY <3>3, <4>1 DEF MoveOn
      <3>4. ASSUME NEW v, NEW pc \in {"done", "booked"}, Did(p, v, pc)
            PROVE  \E r : Set(p, r) /\ r.pc # "cancel"
        <4>1. [proc[p] EXCEPT !.pc = pc, !.vals = v].pc = pc
          BY <1>0 DEF ProcState
        <4>2. QED
          BY <3>4, <4>1 DEF Did
      <3>5. PassBarrier(p) \/ Commit(p) => \E v : MoveOn(p, v)
        BY DEF PassBarrier, Commit
      <3>6. SendPoll(p) \/ CollectVotes(p) \/ BookSlots(p) \/ Reserve(p) \/ Announce(p)
              => \E v : \E pc \in {"done", "booked"} : Did(p, v, pc)
        BY DEF SendPoll, CollectVotes, BookSlots, Reserve, Announce
      <3>7. QED
        BY <1>1, <3>1, <3>2, <3>3, <3>4, <3>5, <3>6
    <2>3. \A q \in Procs : proc'[q].pc = "cancel" => proc[q].pc = "cancel"
      BY <2>2, StillSet
    <2>4. still' = still /\ row'.cancelled = row.cancelled /\ row'.created = row.created
      BY <1>1 DEF TypeOK, UpdateState, Invoke, PassBarrier, SendPoll, CollectVotes, BookSlots,
                  Reserve, Announce, Commit
    <2>5. QED
      BY <2>1, <2>3, <2>4 DEF StillInv
  <1>2. CASE Return(p)
    <2>1. proc[p].pc \notin QuietPCs
      BY <1>2 DEF Return, Stopped, QuietPCs
    <2>2. \A q \in Procs : proc'[q].pc = "cancel" => proc[q].pc = "cancel"
      <3>1. [Idle EXCEPT !.pc = "checked", !.op = "plan", !.resume = "true"].pc = "checked"
        BY DEF Idle
      <3>2. \A q \in Procs : \/ proc'[q] = proc[q]
                             \/ proc'[q] = Idle \/ proc'[q] = NewWait
                             \/ proc'[q] = [Idle EXCEPT !.pc = "checked", !.op = "plan",
                                                        !.resume = "true"]
        BY <1>2 DEF Return, Release, Set, TypeOK, Procs
      <3>3. QED
        BY <3>1, <3>2, PcOfIdle
    <2>3. QED
      BY <1>2, <2>1, <2>2 DEF Return, StillInv
  <1>3. CASE Recheck(p)
    <2>1. UNCHANGED <<row, world, still>>
      BY <1>3 DEF Recheck
    <2>2. CASE row.cancelled
      <3>1. Set(p, Idle)
        BY <1>3, <2>2 DEF Recheck, Release
      <3>2. QED
        BY <2>1, <3>1, StillSet DEF StillInv, Idle, QuietPCs
    <2>3. CASE ~row.cancelled
      <3>1. Set(p, [proc[p] EXCEPT !.pc = "checked"])
        BY <1>3, <2>3 DEF Recheck
      <3>2. [proc[p] EXCEPT !.pc = "checked"].pc = "checked"
        BY <1>0 DEF ProcState
      <3>3. QED
        BY <2>1, <2>3, <3>1, <3>2, StillSet DEF StillInv
    <2>4. QED
      BY <2>2, <2>3
  <1>4. CASE ClosureImpact(p)
    <2>1. UNCHANGED <<row, world, still>>
      BY <1>4 DEF ClosureImpact
    <2>2. CASE row.created /\ ~row.cancelled /\ Stage(ckpt) \in RunningStages
      <3>1. Set(p, [proc[p] EXCEPT !.pc = "cancel"])
        BY <1>4, <2>2 DEF ClosureImpact
      <3>2. QED
        BY <2>1, <2>2, <3>1, StillSet DEF StillInv
    <2>3. CASE ~(row.created /\ ~row.cancelled /\ Stage(ckpt) \in RunningStages)
      <3>1. Set(p, Idle)
        BY <1>4, <2>3 DEF ClosureImpact, Release
      <3>2. QED
        BY <2>1, <3>1, StillSet DEF StillInv, Idle, QuietPCs
    <2>4. QED
      BY <2>2, <2>3
  <1>5. CASE Cancel(p)
    <2>1. row'.cancelled /\ row'.created = row.created /\ row.created
      BY <1>5 DEF Cancel, TypeOK, StillInv
    <2>2. Set(p, Idle) /\ UNCHANGED world
      BY <1>5 DEF Cancel, Release
    <2>3. \A q \in Procs : proc'[q].pc = IF q = p THEN "idle" ELSE proc[q].pc
      BY <2>2, StillSet DEF Idle
    <2>4. still' => \A q \in Procs \ {p} : proc[q].pc \in QuietPCs
      BY <1>5 DEF Cancel, Quiet, StillInv
    <2>5. QED
      BY <2>1, <2>2, <2>3, <2>4 DEF StillInv, QuietPCs
  <1>6. QED
    BY <1>1, <1>2, <1>3, <1>4, <1>5 DEF Step

\* The other steps keep the invariant, and the world of a still job.
LEMMA StillOther ==
  ASSUME TypeOK, StillInv, NEW p \in Procs,
         Create(p) \/ DeclareClosure(p) \/ (\E op \in Ops : Trigger(p, op)) \/ Fail(p)
           \/ WaitLost(p) \/ (\E confirmed \in BOOLEAN : Decide(p, confirmed))
  PROVE  StillInv' /\ (still => UNCHANGED world)
  <1>0. proc[p] \in ProcState
    BY DEF TypeOK, ProcState
  <1>1. CASE Create(p)
    <2>1. ~row.cancelled /\ ~still
      BY <1>1 DEF Create, StillInv
    <2>2. row'.created /\ row'.cancelled = row.cancelled /\ still' = still
      BY <1>1 DEF Create, TypeOK
    <2>3. QED
      BY <2>1, <2>2 DEF StillInv
  <1>2. CASE DeclareClosure(p) \/ Fail(p) \/ WaitLost(p)
    <2>1. \E r : Set(p, r) /\ r.pc \in {"impact", "idle"}
      <3>1. [Idle EXCEPT !.pc = "impact", !.op = "closure"].pc = "impact"
        BY DEF Idle
      <3>2. QED
        BY <1>2, <3>1, PcOfIdle DEF DeclareClosure, Fail, WaitLost, Release
    <2>2. UNCHANGED <<row, world, still>>
      BY <1>2 DEF DeclareClosure, Fail, WaitLost
    <2>3. QED
      BY <2>1, <2>2, StillSet DEF StillInv, QuietPCs
  <1>3. ASSUME NEW op \in Ops, Trigger(p, op)
        PROVE  StillInv' /\ (still => UNCHANGED world)
    <2>1. row.created /\ UNCHANGED <<row, world, still>>
      BY <1>3 DEF Trigger
    <2>2. CASE op = "cancelPoll"
      <3>1. ASSUME NEW o, NEW x
            PROVE  [Idle EXCEPT !.pc = "cancel", !.op = o, !.resume = x].pc = "cancel"
        BY DEF Idle
      <3>2. QED
        <4>1. \E x : Set(p, x) /\ x.pc = "cancel"
          BY <1>3, <2>2, <3>1 DEF Trigger
        <4>2. \A q \in Procs : proc'[q].pc = IF q = p THEN "cancel" ELSE proc[q].pc
          BY <4>1, StillSet
        <4>3. QED
          BY <2>1, <4>2 DEF StillInv, QuietPCs
    <2>3. CASE op # "cancelPoll"
      <3>1. ~row.cancelled
        BY <1>3, <2>3 DEF Trigger
      <3>2. QED
        BY <2>1, <3>1 DEF StillInv
    <2>4. QED
      BY <2>2, <2>3
  <1>4. ASSUME NEW confirmed \in BOOLEAN, Decide(p, confirmed)
        PROVE  StillInv' /\ (still => UNCHANGED world)
    <2>1. \E r : Set(p, r) /\ r.pc = "recheck"
      <3>1. ASSUME NEW x PROVE [proc[p] EXCEPT !.pc = "recheck", !.resume = x].pc = "recheck"
        BY <1>0 DEF ProcState
      <3>2. QED
        BY <1>4, <3>1 DEF Decide
    <2>2. UNCHANGED <<row, world, still>>
      BY <1>4 DEF Decide
    <2>3. QED
      BY <2>1, <2>2, StillSet DEF StillInv, QuietPCs
  <1>5. QED
    BY <1>1, <1>2, <1>3, <1>4

\* A restart keeps the invariant, and the world of a still job.
LEMMA StillRestart ==
  ASSUME TypeOK, StillInv, Restart
  PROVE  StillInv' /\ (still => UNCHANGED world)
  <1>1. UNCHANGED <<row, world, still>>
    BY DEF Restart
  <1>2. \A q \in Procs : proc'[q].pc # "cancel"
    BY PcOfIdle DEF Restart
  <1>3. row.cancelled => \A q \in Procs : proc'[q].pc = "idle"
    BY PcOfIdle DEF Restart, LeftPaused
  <1>4. QED
    BY <1>1, <1>2, <1>3 DEF StillInv, QuietPCs

\* A rule enabled or disabled does nothing to a still job.
LEMMA StillToggle ==
  ASSUME TypeOK, StillInv, Toggle
  PROVE  StillInv' /\ (still => UNCHANGED world)
  <1>1. /\ row'.cancelled = row.cancelled /\ row'.created = row.created
        /\ UNCHANGED <<proc, world, still>>
    BY DEF Toggle, TypeOK
  <1>2. QED
    BY <1>1 DEF StillInv

\* Every step keeps the invariant, and the world of a still job.
LEMMA StillNext == TypeOK /\ StillInv /\ [Next]_vars => StillInv' /\ (still => UNCHANGED world)
  <1> SUFFICES ASSUME TypeOK, StillInv, [Next]_vars
               PROVE  StillInv' /\ (still => UNCHANGED world)
    OBVIOUS
  <1>1. CASE Next
    BY <1>1, StillStep, StillOther, StillToggle, StillRestart DEF Next, Procs
  <1>2. CASE UNCHANGED vars
    BY <1>2 DEF vars, StillInv
  <1>3. QED
    BY <1>1, <1>2

\* No trigger, tick, pending wait, failure or restart makes a job that was
\* cancelled at rest poll, book or announce again.
THEOREM CancellationHolds == Spec => CancelledJobStaysStill
  <1>1. Spec => []StillInv
    BY TypeCorrect, StillInit, StillNext, PTL DEF Spec
  <1>2. TypeOK /\ StillInv /\ [Next]_vars => [still => UNCHANGED world]_vars
    BY StillNext
  <1>3. QED
    BY <1>1, <1>2, TypeCorrect, PTL DEF Spec, CancelledJobStaysStill

-----------------------------------------------------------------------------
(* Without clicks, one poll, one booking and one announcement at most.       *)
(* Nothing in the code keeps the checkpoint from two runs at a time; what     *)
(* does is the calendar: the ticks of a rule do not overlap.  A go wait then  *)
(* never overlaps one either, since a tick leaves a job that stands at the    *)
(* go, or beyond it, alone.                                                   *)

NoClicks == Ops \subseteq {"create", "cron", "closure", "cancelPoll", "toggle"}

\* The operation executes the graph, or will.  Closures and cancellations do not.
Executing(r) == r.pc \notin {"idle", "impact", "cancel"}
Live(q) == Executing(proc[q])
OneTick == \A s, t \in Triggers : Live(s) /\ Live(t) => s = t

\* Where an operation can be while the checkpoint names the node n.
Waits(r, n) == r.pc \in {"await", "recheck"} /\ r.op = "wait" /\ n = "waitForGoConfirmation"
Begins(r, n) ==
  /\ r.pc = "checked"
  /\ \/ r.op = "send" /\ n = "end"
     \/ r.op = "cron" /\ n = "waitForDecisionWindow" /\ r.resume = "true"
     \/ r.op = "plan" /\ n \in {"waitForPlanTrigger", "bookSlots"} /\ r.resume = "true"
     \/ r.op = "wait" /\ n = "waitForGoConfirmation"
Works(r, n) ==
  /\ r.pc \in {"work", "booked", "done"} /\ r.node = n
  /\ r.pc = "booked" => n = "announce"
  /\ r.pc = "done" => n \in WorkNodes
  /\ \/ r.op = "send" /\ n \in {"sendPoll", "waitForDecisionWindow", "end"} /\ r.resume = "none"
     \/ /\ r.op = "cron" /\ n \in {"waitForDecisionWindow", "collectVotes", "waitForPlanTrigger"}
        /\ (r.resume = "none") <=> (n # "waitForDecisionWindow")
     \/ /\ r.op = "plan"
        /\ n \in {"waitForPlanTrigger", "bookSlots", "waitForGoConfirmation", "end"}
        /\ (r.resume = "none") <=> (n # "waitForPlanTrigger")
     \/ r.op = "wait" /\ n \in {"waitForGoConfirmation", "announce", "end"}
Fits(r, n) == Waits(r, n) \/ Begins(r, n) \/ Works(r, n)

PlaceInv ==
  /\ \A q \in Procs : Live(q) => Fits(proc[q], ckpt.next)
  /\ \A w \in Waiters : Live(w) => proc[w].op = "wait"
  /\ \A q, r \in Procs : Live(q) /\ Live(r) => q = r
  /\ ~row.created => ckpt.next = "end" /\ \A q \in Procs : ~Live(q)

\* What was done is behind the checkpoint, and behind whatever executes.
ToPoll(r) == r.op = "send" /\ (r.pc = "checked" \/ (r.pc = "work" /\ r.node = "sendPoll"))
AtEnd(r) == r.pc = "work" /\ r.node = "end"
Behind(r, w) ==
  /\ w.polls > 0 => ~ToPoll(r)
  /\ w.booked > 0 /\ Executing(r) => r.pc \in {"booked", "done"} \/ AtEnd(r)
  /\ w.announced > 0 /\ Executing(r) => r.pc = "done" \/ AtEnd(r)
Counted ==
  /\ AtMostOnce
  /\ world.booked > 0 \/ world.announced > 0 => ckpt.next \in {"announce", "end"}
  /\ ~row.created => world.polls = 0 /\ world.booked = 0 /\ world.announced = 0

OnceInv == PlaceInv /\ Counted /\ \A q \in Procs : Behind(proc[q], world)

\* Nothing has been done at first.
LEMMA OnceInit == Init => OnceInv
  <1> SUFFICES ASSUME Init PROVE OnceInv
    OBVIOUS
  <1>1. \A q \in Procs : proc[q].pc = "idle"
    BY DEF Init, Idle
  <1>2. ckpt.next = "end" /\ ~row.created
        /\ world.polls = 0 /\ world.booked = 0 /\ world.announced = 0
    BY DEF Init
  <1>3. QED
    BY <1>1, <1>2 DEF OnceInv, PlaceInv, Counted, AtMostOnce, Behind, Live, Executing, ToPoll, Procs

\* An operation that executes nothing has nothing ahead of it.
LEMMA RestBehind ==
  ASSUME NEW r, NEW w, ~Executing(r)
  PROVE  Behind(r, w)
  BY DEF Behind, Executing, ToPoll

\* The one operation that executes takes a step.
LEMMA OnceSet ==
  ASSUME TypeOK, OnceInv, NEW p \in Procs, Live(p), NEW r, Set(p, r),
         row'.created = row.created, Counted',
         Executing(r) => /\ Fits(r, ckpt'.next) /\ Behind(r, world')
                         /\ r.op = proc[p].op \/ proc[p].op = "cron"
  PROVE  OnceInv'
  <1>1. \A q \in Procs : proc'[q] = IF q = p THEN r ELSE proc[q]
    BY StillSet
  <1>2. \A q \in Procs \ {p} : ~Executing(proc[q])
    BY DEF OnceInv, PlaceInv, Live
  <1>3. \A q \in Procs : Executing(proc'[q]) => q = p
    BY <1>1, <1>2
  <1>4. row.created /\ row'.created
    BY DEF OnceInv, PlaceInv
  <1>5. PlaceInv'
    <2>1. \A q \in Procs : Executing(proc'[q]) => Fits(proc'[q], ckpt'.next)
      BY <1>1, <1>3
    <2>2. \A w \in Waiters : Executing(proc'[w]) => proc'[w].op = "wait"
      <3>1. p \in Waiters => proc[p].op = "wait"
        BY DEF OnceInv, PlaceInv
      <3> QED
        BY <1>1, <1>3, <3>1 DEF Procs
    <2> QED
      BY <1>3, <1>4, <2>1, <2>2 DEF PlaceInv, Live
  <1>6. \A q \in Procs : Behind(proc'[q], world')
    BY <1>1, <1>2, RestBehind
  <1>7. QED
    BY <1>5, <1>6 DEF OnceInv

\* A step after which nobody executes who did not before, and the checkpoint and the
\* world stay.
LEMMA OnceRest ==
  ASSUME TypeOK, OnceInv, NEW p \in Procs, NEW r, Set(p, r), ~Executing(r),
         UNCHANGED <<ckpt, world>>, row.created => row'.created
  PROVE  OnceInv'
  <1>1. \A q \in Procs : proc'[q] = IF q = p THEN r ELSE proc[q]
    BY StillSet
  <1>2. PlaceInv' /\ Counted'
    BY <1>1 DEF OnceInv, PlaceInv, Live, Counted, AtMostOnce, Procs
  <1>3. \A q \in Procs : Behind(proc'[q], world')
    BY <1>1, RestBehind DEF OnceInv
  <1>4. QED
    BY <1>2, <1>3 DEF OnceInv

\* What holds of the operation that executes.
LEMMA OnceFacts ==
  ASSUME TypeOK, OnceInv, NEW p \in Procs, Live(p)
  PROVE  /\ proc[p] \in ProcState /\ Fits(proc[p], ckpt.next) /\ Behind(proc[p], world)
         /\ world.polls \in Nat /\ world.booked \in Nat /\ world.announced \in Nat
         /\ row.created /\ Counted
  BY DEF OnceInv, PlaceInv, TypeOK, ProcState

\* A run that starts finds the checkpoint where its trigger saw it.
LEMMA OnceInvoke ==
  ASSUME TypeOK, OnceInv, NEW p \in Procs, Invoke(p)
  PROVE  OnceInv'
  <1> DEFINE start == IF proc[p].op = "send" THEN "sendPoll" ELSE ckpt.next
             r == [proc[p] EXCEPT !.pc = "work", !.node = start, !.vals = ckpt.vals,
                     !.resume = IF start \in Barriers THEN @ ELSE "none"]
  <1>1. Live(p) /\ proc[p].pc = "checked"
    BY DEF Invoke, Live, Executing
  <1>2. ckpt'.next = start /\ Set(p, r) /\ UNCHANGED <<row, world>>
    BY DEF Invoke, TypeOK
  <1>3. /\ r.pc = "work" /\ r.node = start /\ r.op = proc[p].op
        /\ r.resume = IF start \in Barriers THEN proc[p].resume ELSE "none"
    BY <1>1, OnceFacts DEF ProcState
  <1>4. world.booked = 0 /\ world.announced = 0 /\ (proc[p].op = "send" => world.polls = 0)
    BY <1>1, OnceFacts DEF Behind, Executing, ToPoll, AtEnd
  <1>5. Begins(proc[p], ckpt.next)
    BY <1>1, OnceFacts DEF Fits, Waits, Works
  <1> HIDE DEF r
  <1>6. Works(r, start)
    BY <1>1, <1>3, <1>5 DEF Works, Begins, Barriers
  <1>7. Behind(r, world)
    BY <1>3, <1>4, <1>1, OnceFacts DEF Behind, ToPoll
  <1>8. Counted'
    BY <1>1, <1>2, <1>4, OnceFacts DEF Counted, AtMostOnce
  <1>9. QED
    BY <1>1, <1>2, <1>3, <1>6, <1>7, <1>8, OnceSet DEF Fits

\* The run moves to the next node, and the checkpoint with it.
LEMMA OnceMoveOn ==
  ASSUME TypeOK, OnceInv, NEW p \in Procs, NEW v \in Values, MoveOn(p, v),
         UNCHANGED <<row, world>>,
         \/ proc[p].pc = "work" /\ proc[p].node \in Barriers /\ proc[p].resume # "none"
         \/ proc[p].pc = "done"
  PROVE  OnceInv'
  <1> DEFINE n == proc[p].node
             next == Successor(n, v)
             r == [proc[p] EXCEPT !.pc = "work", !.node = next, !.vals = v, !.resume = "none"]
  <1>1. Live(p)
    BY DEF Live, Executing
  <1>2. ckpt'.next = next /\ Set(p, r)
    BY DEF MoveOn
  <1>3. r.pc = "work" /\ r.node = next /\ r.op = proc[p].op /\ r.resume = "none"
    BY <1>1, OnceFacts DEF ProcState
  <1>4. Works(proc[p], ckpt.next)
    BY <1>1, OnceFacts DEF Fits, Waits, Begins
  <1> HIDE DEF r
  <1>5. Works(r, next)
    <2>1. CASE proc[p].pc = "work"
      BY <1>3, <1>4, <2>1 DEF Works, Successor, Barriers
    <2>2. CASE proc[p].pc = "done"
      BY <1>3, <1>4, <2>2 DEF Works, Successor, WorkNodes
    <2>3. QED
      BY <2>1, <2>2
  <1>6. world.booked > 0 \/ world.announced > 0 => next = "end"
    <2>1. CASE proc[p].pc = "work"
      BY <1>1, <2>1, OnceFacts DEF Behind, AtEnd, Executing, Barriers
    <2>2. CASE proc[p].pc = "done"
      BY <1>1, <1>4, <2>2, OnceFacts DEF Counted, Works, WorkNodes, Successor
    <2>3. QED
      BY <2>1, <2>2
  <1>7. next # "sendPoll"
    BY DEF Successor
  <1>8. Behind(r, world)
    BY <1>1, <1>3, <1>6, <1>7, OnceFacts DEF Behind, ToPoll, AtEnd
  <1>9. Counted'
    BY <1>1, <1>2, <1>6, OnceFacts DEF Counted, AtMostOnce
  <1>10. QED
    BY <1>1, <1>2, <1>3, <1>5, <1>8, <1>9, OnceSet DEF Fits

\* A node does its work: only what is still ahead is done.
LEMMA OnceWork ==
  ASSUME TypeOK, OnceInv, NEW p \in Procs,
         SendPoll(p) \/ CollectVotes(p) \/ BookSlots(p) \/ Reserve(p) \/ Announce(p)
  PROVE  OnceInv'
  <1>1. Live(p) /\ proc[p].pc \in {"work", "booked"} /\ proc[p].node \in WorkNodes
    BY DEF SendPoll, CollectVotes, BookSlots, Reserve, Announce, Live, Executing, WorkNodes
  <1>2. Works(proc[p], ckpt.next)
    BY <1>1, OnceFacts DEF Fits, Waits, Begins
  <1>3. UNCHANGED ckpt /\ row'.created = row.created
    BY DEF SendPoll, CollectVotes, BookSlots, Reserve, Announce, TypeOK
  <1>t. world \in [polls : Nat, booked : Nat, announced : Nat]
    BY DEF TypeOK
  <1>d. ASSUME NEW v, NEW pc, Did(p, v, pc)
        PROVE  \E r : /\ Set(p, r) /\ r.pc = pc
                      /\ r.op = proc[p].op /\ r.node = proc[p].node /\ r.resume = proc[p].resume
    <2>1. [proc[p] EXCEPT !.pc = pc, !.vals = v].pc = pc
          /\ [proc[p] EXCEPT !.pc = pc, !.vals = v].op = proc[p].op
          /\ [proc[p] EXCEPT !.pc = pc, !.vals = v].node = proc[p].node
          /\ [proc[p] EXCEPT !.pc = pc, !.vals = v].resume = proc[p].resume
      BY <1>1, OnceFacts DEF ProcState
    <2>2. QED
      BY <1>d, <2>1 DEF Did
  <1>4. CASE SendPoll(p)
    <2>1. PICK r : /\ Set(p, r) /\ r.pc = "done"
                   /\ r.op = proc[p].op /\ r.node = proc[p].node /\ r.resume = proc[p].resume
      <3>1. \E v : Did(p, v, "done")
        BY <1>4 DEF SendPoll
      <3>2. QED
        BY <1>d, <3>1
    <2>2. proc[p].op = "send" /\ proc[p].node = "sendPoll" /\ proc[p].pc = "work"
      BY <1>2, <1>4 DEF SendPoll, Works
    <2>3. world.polls = 0 /\ world.booked = 0 /\ world.announced = 0
      BY <1>1, <2>2, OnceFacts DEF Behind, ToPoll, AtEnd, Live
    <2>4. world'.polls \in {0, 1} /\ world'.booked = 0 /\ world'.announced = 0
      BY <1>4, <1>t, <2>3 DEF SendPoll
    <2>5. Works(r, ckpt'.next)
      BY <1>2, <1>3, <2>1, <2>2 DEF Works, WorkNodes
    <2>6. Behind(r, world')
      BY <2>1, <2>4 DEF Behind, ToPoll
    <2>7. Counted'
      BY <1>1, <1>3, <2>4, OnceFacts DEF Counted, AtMostOnce
    <2>8. QED
      BY <1>1, <1>3, <2>1, <2>5, <2>6, <2>7, OnceSet DEF Fits
  <1>5. CASE CollectVotes(p) \/ BookSlots(p)
    <2>1. PICK r : /\ Set(p, r) /\ r.pc = "done"
                   /\ r.op = proc[p].op /\ r.node = proc[p].node /\ r.resume = proc[p].resume
      <3>1. \E v : Did(p, v, "done")
        BY <1>5 DEF CollectVotes, BookSlots
      <3>2. QED
        BY <1>d, <3>1
    <2>2. UNCHANGED world
      BY <1>5 DEF CollectVotes, BookSlots
    <2>3. world.booked = 0 /\ world.announced = 0
      <3>1. proc[p].pc = "work" /\ proc[p].node # "end"
        BY <1>5 DEF CollectVotes, BookSlots
      <3>2. QED
        BY <1>1, <3>1, OnceFacts DEF Behind, AtEnd, Live
    <2>4. Works(r, ckpt'.next)
      BY <1>1, <1>2, <1>3, <2>1 DEF Works
    <2>5. Behind(r, world')
      BY <2>1 DEF Behind, ToPoll
    <2>6. Counted'
      BY <1>1, <1>3, <2>2, OnceFacts DEF Counted, AtMostOnce
    <2>7. QED
      BY <1>1, <1>3, <2>1, <2>4, <2>5, <2>6, OnceSet DEF Fits
  <1>6. CASE Reserve(p)
    <2>1. PICK r : /\ Set(p, r) /\ r.pc = "booked"
                   /\ r.op = proc[p].op /\ r.node = proc[p].node /\ r.resume = proc[p].resume
      BY <1>6, <1>d DEF Reserve
    <2>2. proc[p].pc = "work" /\ proc[p].node = "announce"
      BY <1>6 DEF Reserve
    <2>3. world.booked = 0 /\ world.announced = 0
      BY <1>1, <2>2, OnceFacts DEF Behind, AtEnd, Live
    <2>4. world'.polls = world.polls /\ world'.booked = 1 /\ world'.announced = 0
      BY <1>6, <1>t, <2>3 DEF Reserve
    <2>5. Works(r, ckpt'.next) /\ ckpt'.next = "announce"
      BY <1>2, <1>3, <2>1, <2>2 DEF Works
    <2>6. Behind(r, world')
      BY <2>1, <2>4 DEF Behind, ToPoll
    <2>7. Counted'
      BY <1>1, <1>3, <2>4, <2>5, OnceFacts DEF Counted, AtMostOnce
    <2>8. QED
      BY <1>1, <1>3, <2>1, <2>5, <2>6, <2>7, OnceSet DEF Fits
  <1>7. CASE Announce(p)
    <2>1. PICK r : /\ Set(p, r) /\ r.pc = "done"
                   /\ r.op = proc[p].op /\ r.node = proc[p].node /\ r.resume = proc[p].resume
      BY <1>7, <1>d DEF Announce
    <2>2. proc[p].pc \in {"work", "booked"} /\ proc[p].node = "announce"
      BY <1>7 DEF Announce
    <2>3. world.announced = 0
      BY <1>1, <2>2, OnceFacts DEF Behind, AtEnd, Live
    <2>4. world'.polls = world.polls /\ world'.booked = world.booked /\ world'.announced \in {0, 1}
      BY <1>7, <1>t, <2>3 DEF Announce
    <2>5. Works(r, ckpt'.next) /\ ckpt'.next = "announce"
      BY <1>2, <1>3, <2>1, <2>2 DEF Works, WorkNodes
    <2>6. Behind(r, world')
      BY <2>1 DEF Behind, ToPoll
    <2>7. Counted'
      BY <1>1, <1>3, <2>4, <2>5, OnceFacts DEF Counted, AtMostOnce
    <2>8. QED
      BY <1>1, <1>3, <2>1, <2>5, <2>6, <2>7, OnceSet DEF Fits
  <1>8. QED
    BY <1>4, <1>5, <1>6, <1>7

\* A wait moves on, or ends: the checkpoint has not left the go.
LEMMA OnceWait ==
  ASSUME TypeOK, OnceInv, NEW p \in Procs,
         Recheck(p) \/ WaitLost(p) \/ \E confirmed \in BOOLEAN : Decide(p, confirmed)
  PROVE  OnceInv'
  <1>1. Live(p) /\ proc[p].pc \in {"await", "recheck"} /\ UNCHANGED <<ckpt, row, world>>
    BY DEF Recheck, WaitLost, Decide, Live, Executing
  <1>2. Waits(proc[p], ckpt.next)
    BY <1>1, OnceFacts DEF Fits, Begins, Works
  <1>3. world.booked = 0 /\ world.announced = 0
    BY <1>1, OnceFacts DEF Behind, AtEnd, Live
  <1>4. \E r : Set(p, r) /\ (r = Idle \/ (r.pc \in {"recheck", "checked"} /\ r.op = proc[p].op))
    <2>1. /\ [proc[p] EXCEPT !.pc = "checked"].pc = "checked"
          /\ [proc[p] EXCEPT !.pc = "checked"].op = proc[p].op
      BY <1>1, OnceFacts DEF ProcState
    <2>2. ASSUME NEW x
          PROVE  /\ [proc[p] EXCEPT !.pc = "recheck", !.resume = x].pc = "recheck"
                 /\ [proc[p] EXCEPT !.pc = "recheck", !.resume = x].op = proc[p].op
      BY <1>1, OnceFacts DEF ProcState
    <2>3. QED
      BY <2>1, <2>2 DEF Recheck, WaitLost, Decide, Release
  <1>5. PICK r : Set(p, r) /\ (r = Idle \/ (r.pc \in {"recheck", "checked"} /\ r.op = proc[p].op))
    BY <1>4
  <1>6. Executing(r) => Fits(r, ckpt'.next) /\ Behind(r, world') /\ r.op = proc[p].op
    <2>1. CASE r = Idle
      BY <2>1, PcOfIdle DEF Executing
    <2>2. CASE r.pc \in {"recheck", "checked"} /\ r.op = proc[p].op
      BY <1>1, <1>2, <1>3, <2>2 DEF Fits, Waits, Begins, Behind, ToPoll
    <2>3. QED
      BY <1>5, <2>1, <2>2
  <1>7. Counted'
    BY <1>1, OnceFacts DEF Counted, AtMostOnce
  <1>8. QED
    BY <1>1, <1>5, <1>6, <1>7, OnceSet

\* A run stops: a wait takes over at the go, or the tick goes on to the plan.
LEMMA OnceReturn ==
  ASSUME TypeOK, OnceInv, NEW p \in Procs, Return(p)
  PROVE  OnceInv'
  <1>1. /\ Live(p) /\ UNCHANGED <<ckpt, row, world>>
        /\ proc[p].pc = "work" /\ proc[p].resume = "none" /\ proc[p].node \in Barriers \cup {"end"}
    BY DEF Return, Stopped, Live, Executing
  <1>2. Works(proc[p], ckpt.next)
    BY <1>1, OnceFacts DEF Fits, Waits, Begins
  <1>3. Counted'
    BY <1>1, OnceFacts DEF Counted, AtMostOnce
  <1>4. CASE HandsOver(p) /\ \E w \in Waiters :
               proc[w].pc = "idle" /\ proc' = [proc EXCEPT ![p] = Idle, ![w] = NewWait]
    <2>1. PICK w \in Waiters :
               proc[w].pc = "idle" /\ proc' = [proc EXCEPT ![p] = Idle, ![w] = NewWait]
      BY <1>4
    <2>2. ckpt.next = "waitForGoConfirmation"
      BY <1>1, <1>2, <1>4 DEF HandsOver, Interrupted, Works, Barriers
    <2>3. world.booked = 0 /\ world.announced = 0
      BY <1>1, <2>2, OnceFacts DEF Counted
    <2>4. \A q \in Procs : proc'[q] = IF q = w THEN NewWait ELSE IF q = p THEN Idle ELSE proc[q]
      BY <2>1 DEF TypeOK, Procs
    <2>5. /\ NewWait.pc \in {"await", "recheck"} /\ NewWait.op = "wait"
          /\ Waits(NewWait, ckpt'.next) /\ Behind(NewWait, world')
      BY <1>1, <2>2, <2>3 DEF NewWait, Idle, Waits, Behind, ToPoll
    <2>6. \A q \in Procs \ {w} : ~Executing(proc'[q])
      BY <1>1, <2>4, PcOfIdle DEF OnceInv, PlaceInv, Live, Executing
    <2>7. row.created
      BY <1>1, OnceFacts
    <2>8. PlaceInv'
      <3>1. \A q \in Procs : Executing(proc'[q]) => q = w /\ proc'[q] = NewWait
        BY <2>4, <2>6
      <3> QED
        BY <1>1, <2>5, <2>7, <3>1 DEF PlaceInv, Live, Fits, Procs
    <2>9. \A q \in Procs : Behind(proc'[q], world')
      BY <2>4, <2>5, <2>6, RestBehind
    <2>10. QED
      BY <1>3, <2>8, <2>9 DEF OnceInv
  <1>5. CASE ChainsPlan(p) /\ Set(p, [Idle EXCEPT !.pc = "checked", !.op = "plan", !.resume = "true"])
    <2> DEFINE r == [Idle EXCEPT !.pc = "checked", !.op = "plan", !.resume = "true"]
    <2>1. r.pc = "checked" /\ r.op = "plan" /\ r.resume = "true"
      BY DEF Idle
    <2>2. Set(p, r)
      BY <1>5
    <2> HIDE DEF r
    <2>3. ckpt.next \in {"waitForPlanTrigger", "bookSlots"} /\ proc[p].op = "cron"
      BY <1>5 DEF ChainsPlan, PausedOn
    <2>4. Fits(r, ckpt'.next)
      BY <1>1, <2>1, <2>3 DEF Fits, Begins
    <2>5. world.booked = 0 /\ world.announced = 0
      BY <1>1, <2>3, OnceFacts DEF Counted
    <2>6. Behind(r, world')
      BY <1>1, <2>1, <2>5 DEF Behind, ToPoll
    <2>7. QED
      BY <1>1, <1>3, <2>2, <2>3, <2>4, <2>6, OnceSet
  <1>6. CASE Set(p, Idle)
    BY <1>1, <1>3, <1>6, PcOfIdle, OnceSet DEF Executing
  <1>7. QED
    BY <1>4, <1>5, <1>6 DEF Return, Release

\* Every step of an operation in flight.
LEMMA OnceStep ==
  ASSUME TypeOK, OnceInv, NEW p \in Procs, Step(p)
  PROVE  OnceInv'
  <1>0. proc[p] \in ProcState
    BY DEF TypeOK, ProcState
  <1>1. ~UpdateState(p)
    <2>1. proc[p].pc = "update" => Live(p)
      BY DEF Live, Executing
    <2>2. QED
      BY <2>1, OnceFacts DEF UpdateState, Fits, Waits, Begins, Works
  <1>2. CASE PassBarrier(p)
    <2>1. AfterBarrier(proc[p].node, proc[p].vals, proc[p].resume) \in Values
      BY <1>0, AfterBarrierType DEF ProcState
    <2>2. QED
      BY <1>2, <2>1, OnceMoveOn DEF PassBarrier
  <1>3. CASE Commit(p)
    <2>1. proc[p].vals \in Values
      BY <1>0 DEF ProcState
    <2>2. QED
      BY <1>3, <2>1, OnceMoveOn DEF Commit
  <1>4. CASE ClosureImpact(p) \/ Cancel(p)
    <2>1. \E r : Set(p, r) /\ r.pc \in {"idle", "cancel"}
      <3>1. [proc[p] EXCEPT !.pc = "cancel"].pc = "cancel"
        BY <1>0 DEF ProcState
      <3>2. QED
        BY <1>4, <3>1, PcOfIdle DEF ClosureImpact, Cancel, Release
    <2>2. UNCHANGED <<ckpt, world>> /\ row'.created = row.created
      BY <1>4 DEF ClosureImpact, Cancel, TypeOK
    <2>3. QED
      BY <2>1, <2>2, OnceRest DEF Executing
  <1>5. QED
    BY <1>1, <1>2, <1>3, <1>4, OnceInvoke, OnceWork, OnceReturn, OnceWait DEF Step

\* The job is created once, before anything executes.
LEMMA OnceCreate ==
  ASSUME TypeOK, OnceInv, NEW p \in Procs, Create(p), p \in Triggers, ConstantsAssumption
  PROVE  OnceInv'
  <1>1. /\ row'.created /\ UNCHANGED <<ckpt, world>>
        /\ ckpt.next = "end" /\ \A q \in Procs : ~Executing(proc[q])
        /\ world.polls = 0 /\ world.booked = 0 /\ world.announced = 0
    BY DEF Create, TypeOK, OnceInv, PlaceInv, Counted, Live
  <1>2. PICK r : Set(p, r) /\ (r = Idle \/ (r.pc = "checked" /\ r.op = "send"))
    <2>1. /\ [Idle EXCEPT !.pc = "checked", !.op = "send"].pc = "checked"
          /\ [Idle EXCEPT !.pc = "checked", !.op = "send"].op = "send"
      BY DEF Idle
    <2>2. QED
      BY <2>1 DEF Create
  <1>3. \A q \in Procs : proc'[q] = IF q = p THEN r ELSE proc[q]
    BY <1>2, StillSet
  <1>4. \A q \in Procs : Executing(proc'[q]) => q = p /\ r.pc = "checked" /\ r.op = "send"
    BY <1>1, <1>2, <1>3, PcOfIdle DEF Executing
  <1>5. PlaceInv'
    <2>1. \A q \in Procs : Executing(proc'[q]) => Fits(proc'[q], ckpt'.next)
      BY <1>1, <1>3, <1>4 DEF Fits, Begins
    <2>2. p \notin Waiters
      BY DEF ConstantsAssumption
    <2>3. QED
      BY <1>1, <1>4, <2>1, <2>2 DEF PlaceInv, Live, Procs
  <1>6. Counted' /\ \A q \in Procs : Behind(proc'[q], world')
    BY <1>1, OnceInit DEF OnceInv, Counted, AtMostOnce, Behind
  <1>7. QED
    BY <1>5, <1>6 DEF OnceInv

\* A tick starts only on a job that nobody executes and that has not reached the go.
LEMMA OnceTrigger ==
  ASSUME TypeOK, OnceInv, OneTick', ConstantsAssumption, NoClicks,
         NEW p \in Triggers, NEW op \in Ops, Trigger(p, op)
  PROVE  OnceInv'
  <1>1. p \in Procs /\ p \notin Waiters
    BY DEF Procs, ConstantsAssumption
  <1>2. row.created /\ UNCHANGED <<ckpt, row, world>> /\ proc[p].pc = "idle"
    BY DEF Trigger
  <1>3. CASE op = "cancelPoll"
    <2>1. \E r : Set(p, r) /\ r.pc = "cancel"
      <3>1. ASSUME NEW o, NEW x
            PROVE  [Idle EXCEPT !.pc = "cancel", !.op = o, !.resume = x].pc = "cancel"
        BY DEF Idle
      <3>2. QED
        BY <1>3, <3>1 DEF Trigger
    <2>2. QED
      BY <1>1, <1>2, <2>1, OnceRest DEF Executing
  <1>4. CASE op = "cron"
    <2>1. ckpt.next \in {"waitForDecisionWindow", "waitForPlanTrigger", "bookSlots"}
      BY <1>4 DEF Trigger, Accepts, PausedOn
    <2>2. PICK r : /\ Set(p, r) /\ r.pc = "checked" /\ r.resume = "true"
                   /\ r.op = IF ckpt.next = "waitForDecisionWindow" THEN "cron" ELSE "plan"
      <3> DEFINE r == [Idle EXCEPT !.pc = "checked", !.op = Effective(op), !.resume = ResumeOf(op)]
      <3>1. r.pc = "checked" /\ r.op = Effective(op) /\ r.resume = ResumeOf(op)
        BY DEF Idle
      <3>2. Set(p, r)
        BY <1>4 DEF Trigger
      <3> HIDE DEF r
      <3>3. QED
        BY <1>4, <2>1, <3>1, <3>2 DEF Effective, ResumeOf, PausedOn
    <2>3. \A q \in Procs : proc'[q] = IF q = p THEN r ELSE proc[q]
      BY <1>1, <2>2, StillSet
    <2>4. \A q \in Procs \ {p} : ~Executing(proc'[q])
      <3> SUFFICES ASSUME NEW q \in Procs \ {p}, Executing(proc'[q]) PROVE FALSE
        OBVIOUS
      <3>1. Executing(proc[q]) /\ proc[q].op # "wait"
        BY <2>1, <2>3 DEF OnceInv, PlaceInv, Live, Fits, Waits, Begins, Works
      <3>2. q \in Triggers
        BY <3>1 DEF OnceInv, PlaceInv, Live, Procs
      <3>3. Executing(proc'[p])
        BY <1>1, <2>2, <2>3 DEF Executing
      <3>4. QED
        BY <3>2, <3>3 DEF OneTick, Live
    <2>5. world.booked = 0 /\ world.announced = 0
      BY <2>1 DEF OnceInv, Counted, TypeOK
    <2>6. Fits(r, ckpt'.next) /\ Behind(r, world')
      BY <1>2, <2>1, <2>2, <2>5 DEF Fits, Begins, Behind, ToPoll
    <2>7. PlaceInv'
      <3>1. \A q \in Procs : Executing(proc'[q]) => q = p /\ Fits(proc'[q], ckpt'.next)
        BY <2>3, <2>4, <2>6
      <3>2. QED
        BY <1>1, <1>2, <3>1 DEF PlaceInv, Live, Procs
    <2>8. \A q \in Procs : Behind(proc'[q], world')
      BY <2>3, <2>4, <2>6, RestBehind
    <2>9. Counted'
      BY <1>2 DEF OnceInv, Counted, AtMostOnce
    <2>10. QED
      BY <2>7, <2>8, <2>9 DEF OnceInv
  <1>5. CASE op \in {"create", "closure", "toggle"}
    BY <1>5 DEF Trigger, Accepts
  <1>6. QED
    BY <1>3, <1>4, <1>5 DEF NoClicks

\* A failure, or a closure, ends or starts something that executes nothing.
LEMMA OnceOther ==
  ASSUME TypeOK, OnceInv, NEW p \in Procs, DeclareClosure(p) \/ Fail(p)
  PROVE  OnceInv'
  <1>1. UNCHANGED <<ckpt, row, world>>
    BY DEF DeclareClosure, Fail
  <1>2. \E r : Set(p, r) /\ r.pc \in {"idle", "impact"}
    <2>1. [Idle EXCEPT !.pc = "impact", !.op = "closure"].pc = "impact"
      BY DEF Idle
    <2>2. QED
      BY <2>1, PcOfIdle DEF DeclareClosure, Fail, Release
  <1>3. QED
    BY <1>1, <1>2, OnceRest DEF Executing

\* After a restart, a wait executes for a job that stands at the go, and nothing else.
LEMMA OnceRestart == TypeOK /\ OnceInv /\ Restart => OnceInv'
  <1> SUFFICES ASSUME TypeOK, OnceInv, Restart PROVE OnceInv'
    OBVIOUS
  <1>1. UNCHANGED <<ckpt, row, world>>
    BY DEF Restart
  <1>2. Counted'
    BY <1>1 DEF OnceInv, Counted, AtMostOnce
  <1>3. CASE PausedOn(ckpt) = "await-go" /\ \E w \in Waiters : proc' = [q \in Procs |-> IF q = w THEN NewWait ELSE Idle]
    <2>1. PICK w \in Waiters : proc' = [q \in Procs |-> IF q = w THEN NewWait ELSE Idle]
      BY <1>3
    <2>2. ckpt.next = "waitForGoConfirmation"
      BY <1>3 DEF PausedOn
    <2>3. world.booked = 0 /\ world.announced = 0 /\ row.created
      BY <2>2 DEF OnceInv, Counted, PlaceInv, TypeOK
    <2>4. /\ NewWait.op = "wait" /\ Waits(NewWait, ckpt'.next) /\ Behind(NewWait, world')
      BY <1>1, <2>2, <2>3 DEF NewWait, Idle, Waits, Behind, ToPoll
    <2>5. \A q \in Procs : Executing(proc'[q]) => q = w /\ proc'[q] = NewWait
      BY <2>1, PcOfIdle DEF Executing
    <2>6. PlaceInv'
      BY <1>1, <2>3, <2>4, <2>5 DEF PlaceInv, Live, Fits, Procs
    <2>7. \A q \in Procs : Behind(proc'[q], world')
      BY <2>4, <2>5, RestBehind
    <2>8. QED
      BY <1>2, <2>6, <2>7 DEF OnceInv
  <1>4. CASE proc' = [q \in Procs |-> Idle]
    <2>1. \A q \in Procs : ~Executing(proc'[q])
      BY <1>4, PcOfIdle DEF Executing
    <2>2. PlaceInv'
      BY <1>1, <2>1 DEF OnceInv, PlaceInv, Live, Procs
    <2>3. \A q \in Procs : Behind(proc'[q], world')
      BY <2>1, RestBehind
    <2>4. QED
      BY <1>2, <2>2, <2>3 DEF OnceInv
  <1>5. QED
    BY <1>3, <1>4 DEF Restart, LeftPaused

\* A rule enabled or disabled leaves what executes, and what was done, alone.
LEMMA OnceToggle == TypeOK /\ OnceInv /\ Toggle => OnceInv'
  <1> SUFFICES ASSUME TypeOK, OnceInv, Toggle PROVE OnceInv'
    OBVIOUS
  <1>1. UNCHANGED <<ckpt, proc, world>> /\ row'.created = row.created
    BY DEF Toggle, TypeOK
  <1>2. QED
    BY <1>1 DEF OnceInv, PlaceInv, Counted, AtMostOnce, Live

\* Every step, as long as two ticks do not overlap.
LEMMA OnceNext ==
  ConstantsAssumption /\ NoClicks /\ TypeOK /\ OneTick' /\ OnceInv /\ [Next]_vars => OnceInv'
  <1> SUFFICES ASSUME ConstantsAssumption, NoClicks, TypeOK, OneTick', OnceInv, [Next]_vars
               PROVE  OnceInv'
    OBVIOUS
  <1>1. CASE Next
    BY <1>1, OnceStep, OnceWait, OnceCreate, OnceTrigger, OnceOther, OnceToggle, OnceRestart DEF Next, Procs
  <1>2. CASE UNCHANGED vars
    BY <1>2 DEF vars, OnceInv, PlaceInv, Counted, AtMostOnce, Live
  <1>3. QED
    BY <1>1, <1>2

\* Whatever crashes and fails, and whatever closures and cancellations interleave, the
\* rule's calendar alone sends one poll, books once and announces once at most.
THEOREM CronActsOnce ==
  ASSUME NoClicks
  PROVE  Spec /\ []OneTick => []AtMostOnce
  <1>1. TypeOK /\ OneTick' /\ OnceInv /\ [Next]_vars => OnceInv'
    BY OnceNext, ConstantsAssumption
  <1>2. OnceInv => AtMostOnce
    BY DEF OnceInv, Counted
  <1>3. QED
    BY <1>1, <1>2, OnceInit, TypeCorrect, PTL DEF Spec

=============================================================================
