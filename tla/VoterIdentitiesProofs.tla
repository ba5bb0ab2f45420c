----------------------- MODULE VoterIdentitiesProofs -----------------------
(***************************************************************************)
(* What a recomputed plan owes to the identities, and what the organiser is  *)
(* told of the voters nobody recognises, for any number of voters, passes,   *)
(* operations and failures.                                                  *)
(***************************************************************************)
EXTENDS VoterIdentities, TLAPS

Places == {"idle", "read", "book", "merge", "tell", "warning", "flag", "flagging", "done",
           "remember", "replan"}
PassType ==
  [at : Places, kind : {"none", "tick", "plan", "recompute", "announce"}, final : BOOLEAN,
   row : Identities, votes : SUBSET Voters, patch : Identities,
   sending : SUBSET Voters, owed : SUBSET Voters]

TypeInv ==
  /\ voted \subseteq Voters /\ identities \in Identities
  /\ task \in [Tasks -> PassType]

(* Whom a pass owes a place in its plan: he has a vote, as all it counts, and the row it has read,
   or the one it is about to merge into, has his player. *)
PassSound(r) ==
  /\ r.owed \subseteq voted /\ r.votes \subseteq voted
  /\ r.kind = "plan" => r.owed \subseteq Known(r.row)
  /\ r.kind = "plan" /\ r.at \notin {"read", "idle"} => r.owed \subseteq r.votes
  /\ r.at = "remember" => /\ \A v \in Voters : r.patch[v] # Nobody
                          /\ r.owed \subseteq Known(identities) \cup Known(r.patch)
  /\ r.at = "replan" => r.owed \subseteq Known(identities)

OwedInv == (\A t \in Tasks : PassSound(task[t])) /\ missed = {}

IInv == TypeInv /\ OwedInv

LEMMA IdleSound == Idle \in PassType /\ PassSound(Idle)
BY DEF Idle, PassType, Places, NoEntry, Identities, PassSound

LEMMA InitInv == Init => IInv
<1> SUFFICES ASSUME Init PROVE IInv
  OBVIOUS
<1>1. TypeInv
  BY IdleSound DEF Init, TypeInv, Identities, Voters
<1>2. OwedInv
  BY IdleSound DEF Init, OwedInv
<1> QED
  BY <1>1, <1>2 DEF IInv

(* Merging keeps the type, and whom the winning side knows. *)
LEMMA MergedType ==
  ASSUME NEW left \in Identities, NEW right \in Identities
  PROVE  /\ Merged(left, right) \in Identities
         /\ Known(right) \subseteq Known(Merged(left, right))
         /\ (\A v \in Voters : right[v] # Nobody) =>
              Known(Merged(left, right)) = Known(left) \cup Known(right)
<1>1. \A v \in Voters : left[v] \in {Absent, Nobody, Player} /\ right[v] \in {Absent, Nobody, Player}
  BY DEF Identities
<1>2. Merged(left, right) \in Identities
  BY <1>1 DEF Merged, Identities
<1>3. \A v \in Voters : Merged(left, right)[v] = IF right[v] # Absent THEN right[v] ELSE left[v]
  BY DEF Merged
<1> QED
  BY <1>1, <1>2, <1>3 DEF Known, Absent, Nobody, Player

(* A pass that goes on, the others waiting: it is enough that its new state is sound,
   as nobody who voted or who is known is forgotten. *)
LEMMA OnePass ==
  ASSUME IInv, NEW t \in Tasks, task' = [task EXCEPT ![t] = task'[t]], task'[t] \in PassType,
         PassSound(task[t])',
         voted' = voted, missed' = {}, identities' \in Identities,
         Known(identities) \subseteq Known(identities')
  PROVE  IInv'
<1>1. task' \in [Tasks -> PassType] /\ \A o \in Tasks : o # t => task'[o] = task[o]
  BY DEF IInv, TypeInv
<1>2. \A o \in Tasks : o # t => PassSound(task[o])'
  BY <1>1 DEF IInv, OwedInv, PassSound
<1> QED
  BY <1>1, <1>2 DEF IInv, TypeInv, OwedInv

LEMMA GoesFacts ==
  ASSUME IInv, NEW t \in Tasks
  PROVE  /\ task[t] \in PassType /\ PassSound(task[t]) /\ missed = {} /\ identities \in Identities
         /\ \A r : Goes(t, r) => task'[t] = r /\ task' = [task EXCEPT ![t] = task'[t]]
BY DEF IInv, TypeInv, OwedInv, Goes

(* A vote more, a number registered, a restart. *)
LEMMA OutsideInv == IInv /\ (Crash \/ \E v \in Voters : Vote(v) \/ Register(v)) => IInv'
<1> SUFFICES ASSUME IInv, Crash \/ \E v \in Voters : Vote(v) \/ Register(v) PROVE IInv'
  OBVIOUS
<1>1. CASE \E v \in Voters : Vote(v) \/ Register(v)
  <2>1. /\ voted \subseteq voted' /\ voted' \subseteq Voters
        /\ identities' = identities /\ task' = task /\ missed' = missed
    BY <1>1 DEF Vote, Register, job, worker, IInv, TypeInv
  <2> QED
    BY <2>1 DEF IInv, TypeInv, OwedInv, PassSound
<1>2. CASE Crash
  <2>1. /\ voted' = voted /\ identities' = identities /\ missed' = missed
        /\ task' = [t \in Tasks |-> Idle]
    BY <1>2 DEF Crash, job
  <2>3. TypeInv'
    BY <2>1, IdleSound DEF IInv, TypeInv
  <2>4. OwedInv'
    BY <2>1 DEF IInv, OwedInv, PassSound, Idle
  <2> QED
    BY <2>3, <2>4 DEF IInv
<1> QED
  BY <1>1, <1>2

(* A pass begins with the row as it is, and owes nothing unless it is a plan made again. *)
LEMMA StartInv ==
  ASSUME IInv, NEW t \in Tasks, Tick(t) \/ Plan(t) \/ Recompute(t) \/ Announce(t)
  PROVE  IInv'
<1>1. /\ voted' = voted /\ identities' = identities /\ missed' = missed
      /\ \E kind \in {"tick", "plan", "recompute", "announce"}, place \in {"read", "book"} :
           Goes(t, [Pass(kind) EXCEPT !.at = place])
  BY DEF Tick, Plan, Recompute, Announce, Starts, job, Pass, Idle
<1>2. PICK kind \in {"tick", "plan", "recompute", "announce"}, place \in {"read", "book"} :
        Goes(t, [Pass(kind) EXCEPT !.at = place])
  BY <1>1
<1>3. task'[t] = [Pass(kind) EXCEPT !.at = place] /\ task' = [task EXCEPT ![t] = task'[t]]
  BY <1>2, GoesFacts
<1>4. task'[t] \in PassType /\ task'[t].owed = {} /\ task'[t].votes = {} /\ task'[t].at = place
  BY <1>3, IdleSound, GoesFacts DEF Pass, PassType, Places, Idle
<1>5. PassSound(task[t])'
  BY <1>1, <1>4 DEF PassSound
<1> QED
  BY <1>1, <1>3, <1>4, <1>5, GoesFacts, OnePass

(* The votes are read after the row, so that those owed are among them. *)
LEMMA ReadInv == ASSUME IInv, NEW t \in Tasks, Read(t) PROVE IInv'
<1>1. PICK failed : Goes(t, Kept([task[t] EXCEPT !.votes = voted, !.patch = Patch(t, failed),
                                    !.at = IF News(t) = {} THEN "tell" ELSE "merge"]))
  BY DEF Read
<1>2. /\ voted' = voted /\ identities' = identities /\ missed' = missed /\ task[t].at = "read"
  BY DEF Read, job
<1> DEFINE r == [task[t] EXCEPT !.votes = voted, !.patch = Patch(t, failed),
                                !.at = IF News(t) = {} THEN "tell" ELSE "merge"]
<1>3. Patch(t, failed) \in Identities /\ voted \subseteq Voters /\ NoEntry \in Identities
  BY DEF Patch, Lookup, Identities, NoEntry, IInv, TypeInv
<1>4. /\ r \in PassType /\ r.votes = voted /\ r.at \in {"tell", "merge"} /\ r.owed = task[t].owed
      /\ r.kind = task[t].kind /\ r.row = task[t].row
  BY <1>3, GoesFacts DEF PassType, Places
<1>5. /\ Kept(r) \in PassType /\ Kept(r).at = r.at /\ Kept(r).owed = r.owed /\ Kept(r).kind = r.kind
      /\ Kept(r).votes \subseteq voted
      /\ r.kind = "plan" => Kept(r) = r
  BY <1>3, <1>4 DEF Kept, Counts, PassType
<1>6. task'[t] = Kept(r) /\ task' = [task EXCEPT ![t] = task'[t]]
  BY <1>1, GoesFacts
<1>7. PassSound(task[t])'
  <2> HIDE DEF r
  <2> QED
    BY <1>2, <1>4, <1>5, <1>6, GoesFacts DEF PassSound
<1> QED
  BY <1>2, <1>5, <1>6, <1>7, GoesFacts, OnePass

(* A step of a pass that keeps its row, its votes and what it owes. *)
LEMMA SameSound ==
  ASSUME IInv, NEW t \in Tasks, task'[t].kind = task[t].kind, task'[t].row = task[t].row,
         task'[t].votes = task[t].votes, task'[t].owed = task[t].owed, voted' = voted,
         task[t].at \notin {"read", "idle"}, task'[t].at \notin {"remember", "replan"}
  PROVE  PassSound(task[t])'
BY GoesFacts DEF PassSound

(* What the row has wins over what the pass has found. *)
LEMMA MergeInv ==
  ASSUME IInv, NEW t \in Tasks, Merge(t)
  PROVE  IInv' /\ Known(identities) \subseteq Known(identities')
<1>1. voted' = voted /\ missed' = missed /\ task[t].at = "merge"
  BY DEF Merge
<1>2. CASE identities' = Keep(identities, task[t].patch) /\ Goes(t, On(t, "tell"))
  <2>1. identities' \in Identities /\ Known(identities) \subseteq Known(identities')
    BY <1>2, GoesFacts, MergedType DEF Keep, PassType
  <2>2. task'[t] = On(t, "tell") /\ task' = [task EXCEPT ![t] = task'[t]]
    BY <1>2, GoesFacts
  <2>3. task'[t] \in PassType /\ PassSound(task[t])'
    BY <1>1, <2>2, GoesFacts, SameSound DEF On, PassType, Places
  <2> QED
    BY <1>1, <2>1, <2>2, <2>3, GoesFacts, OnePass
<1>3. CASE UNCHANGED identities /\ Goes(t, Idle)
  <2>1. task'[t] = Idle /\ task' = [task EXCEPT ![t] = task'[t]]
    BY <1>3, GoesFacts
  <2>2. PassSound(task[t])'
    BY <2>1 DEF PassSound, Idle
  <2> QED
    BY <1>1, <1>3, <2>1, <2>2, IdleSound, GoesFacts, OnePass
<1> QED
  BY <1>2, <1>3 DEF Merge

(* Telling the organiser, and booking, change nothing of what a plan counts. *)
LEMMA TellInv == ASSUME IInv, NEW t \in Tasks, Take(t) \/ Tell(t) \/ Book(t) PROVE IInv'
<1>1. /\ voted' = voted /\ identities' = identities /\ missed' = missed
      /\ task[t].at \in {"tell", "flag", "warning", "flagging", "book"}
  BY DEF Take, Tell, Book, job
<1>2. task' = [task EXCEPT ![t] = task'[t]]
  BY GoesFacts DEF Take, Tell, Book
<1> DEFINE Same(r) == /\ r \in PassType /\ r.at \notin {"remember", "replan"}
                      /\ r.kind = task[t].kind /\ r.row = task[t].row
                      /\ r.votes = task[t].votes /\ r.owed = task[t].owed
             Over(r) == r \in PassType /\ r.at = "idle" /\ r.votes = {} /\ r.owed = {}
                        /\ r.kind = "none"
<1>3. /\ Same(On(t, "done")) /\ Same(On(t, "flag"))
      /\ Same([On(t, "done") EXCEPT !.sending = {}]) /\ Same([On(t, "flag") EXCEPT !.sending = {}])
      /\ Same([On(t, "read") EXCEPT !.final = TRUE])
      /\ Over(Idle) /\ Over([Idle EXCEPT !.sending = {}])
  BY GoesFacts, IdleSound DEF On, PassType, Places, Idle
<1>4. Over(task'[t]) \/ Same(task'[t])
  <2>1. CASE Take(t)
    <3>1. task'[t] = Finished(t) \/ task'[t] = Message(t)
      BY <2>1, GoesFacts DEF Take
    <3>2. Message(t).sending \subseteq Voters /\ Turn(t) \in {"warning", "flagging", "done"}
      <4>1. Turn(t) \in {"warning", "flagging", "done"}
        BY DEF Turn
      <4>2. Fresh(t, Unresolved(t)) \subseteq Voters /\ Fresh(t, Anomalies(t)) \subseteq Voters
        BY DEF Fresh, Unresolved, Anomalies, Voters
      <4>3. Message(t).sending \in {Fresh(t, Unresolved(t)), Fresh(t, Anomalies(t))}
        BY GoesFacts DEF Message, On, PassType
      <4> QED
        BY <4>1, <4>2, <4>3
    <3>3. Same(Message(t))
      BY <3>2, GoesFacts DEF Message, On, PassType, Places
    <3>4. Finished(t) \in {On(t, "done"), Idle}
      BY DEF Finished
    <3> QED
      BY <1>3, <3>1, <3>3, <3>4
  <2>2. CASE Tell(t)
    <3>1. \/ task'[t] = [Finished(t) EXCEPT !.sending = {}]
          \/ task'[t] = [On(t, "flag") EXCEPT !.sending = {}]
      <4>1. \/ Goes(t, [Finished(t) EXCEPT !.sending = {}])
            \/ Goes(t, [On(t, "flag") EXCEPT !.sending = {}])
        BY <2>2 DEF Tell
      <4> QED
        BY <4>1, GoesFacts
    <3>2. CASE task'[t] = [On(t, "flag") EXCEPT !.sending = {}]
      BY <1>3, <3>2
    <3>3. CASE task'[t] = [Finished(t) EXCEPT !.sending = {}]
      <4>1. \/ task'[t] = [On(t, "done") EXCEPT !.sending = {}]
            \/ task'[t] = [Idle EXCEPT !.sending = {}]
        BY <3>3 DEF Finished
      <4> QED
        BY <1>3, <4>1
    <3> QED
      BY <3>1, <3>2, <3>3
  <2>3. CASE Book(t)
    <3>1. task'[t] = [On(t, "read") EXCEPT !.final = TRUE]
      BY <2>3, GoesFacts DEF Book
    <3> QED
      BY <1>3, <3>1
  <2> QED
    BY <2>1, <2>2, <2>3
<1>5. CASE Over(task'[t])
  <2>1. PassSound(task[t])'
    BY <1>5 DEF PassSound
  <2> QED
    BY <1>1, <1>2, <1>5, <2>1, GoesFacts, OnePass
<1>6. CASE Same(task'[t])
  <2>1. PassSound(task[t])'
    BY <1>1, <1>6, SameSound
  <2> QED
    BY <1>1, <1>2, <1>6, <2>1, GoesFacts, OnePass
<1> QED
  BY <1>4, <1>5, <1>6

(* The plan counts whom it owes: their votes were read, and the row it read has them. *)
LEMMA PlanInv == ASSUME IInv, NEW t \in Tasks, PlanDone(t) PROVE IInv'
<1>1. /\ voted' = voted /\ identities' = identities /\ missed' = task[t].owed \ Counted(t)
      /\ Goes(t, Idle) /\ task[t].at = "done" /\ task[t].kind = "plan"
  BY DEF PlanDone
<1>2. task[t].owed \subseteq task[t].votes /\ task[t].owed \subseteq Known(task[t].row)
  BY <1>1, GoesFacts DEF PassSound
<1>3. Known(task[t].row) \subseteq Known(Returned(t))
  BY GoesFacts, MergedType DEF Returned, PassType
<1>4. missed' = {}
  BY <1>1, <1>2, <1>3 DEF Counted
<1>5. task'[t] = Idle /\ task' = [task EXCEPT ![t] = task'[t]]
  BY <1>1, GoesFacts
<1>6. PassSound(task[t])'
  BY <1>5 DEF PassSound, Idle
<1> QED
  BY <1>1, <1>4, <1>5, <1>6, IdleSound, GoesFacts, OnePass

(* A recomputation owes a place to whom it has found, who is in what it merges, and to
   whom the row knows. *)
LEMMA RelookupInv == ASSUME IInv, NEW t \in Tasks, Relookup(t) PROVE IInv'
<1>1. voted' = voted /\ identities' = identities /\ missed' = missed /\ task[t].at = "done"
  BY DEF Relookup, job
<1>2. PICK failed \in SUBSET ToRelookup(t) :
        LET found == (ToRelookup(t) \cap registered) \ failed
        IN Goes(t, [On(t, "remember") EXCEPT
                      !.patch = [v \in Voters |-> IF v \in found THEN Player ELSE Absent],
                      !.owed = (task[t].votes \cap Known(identities)) \cup found])
  BY Zenon DEF Relookup
<1> DEFINE found == (ToRelookup(t) \cap registered) \ failed
           patch == [v \in Voters |-> IF v \in found THEN Player ELSE Absent]
           owed == (task[t].votes \cap Known(identities)) \cup found
<1>3. /\ task'[t] = [On(t, "remember") EXCEPT !.patch = patch, !.owed = owed]
      /\ task' = [task EXCEPT ![t] = task'[t]]
  BY <1>2, GoesFacts
<1>4. /\ patch \in Identities /\ (\A v \in Voters : patch[v] # Nobody)
      /\ found \subseteq task[t].votes /\ found \subseteq Voters /\ Known(patch) = found
  <2>1. found \subseteq task[t].votes /\ found \subseteq Voters
    BY DEF ToRelookup, Voters
  <2> QED
    BY <2>1 DEF Identities, Known, Player, Absent, Nobody
<1>5. owed \subseteq Voters /\ owed \subseteq Known(identities) \cup Known(patch)
  BY <1>4 DEF Known
<1>6. /\ task'[t] \in PassType /\ task'[t].at = "remember" /\ task'[t].patch = patch
      /\ task'[t].owed = owed /\ task'[t].kind # "plan"
  <2>0. task[t].kind = "recompute"
    BY DEF Relookup
  <2>1. On(t, "remember") \in PassType /\ On(t, "remember").at = "remember"
        /\ On(t, "remember").kind = "recompute"
    BY <2>0, GoesFacts DEF On, PassType, Places
  <2> HIDE DEF patch, owed
  <2> QED
    BY <1>3, <1>4, <1>5, <2>1 DEF PassType
<1>7. owed \subseteq voted /\ task'[t].votes = task[t].votes
  <2>1. task[t].votes \subseteq voted
    BY GoesFacts DEF PassSound
  <2> QED
    BY <1>3, <1>4, <2>1, GoesFacts DEF On, PassType
<1>8. PassSound(task[t])'
  <2> HIDE DEF patch, owed
  <2> QED
    BY <1>1, <1>4, <1>5, <1>6, <1>7, GoesFacts DEF PassSound
<1> QED
  BY <1>1, <1>3, <1>6, <1>8, GoesFacts, OnePass

(* Whom the organiser has just put right wins over the row: he has a player. *)
LEMMA RememberInv ==
  ASSUME IInv, NEW t \in Tasks, Remember(t)
  PROVE  IInv' /\ Known(identities) \subseteq Known(identities')
<1>1. voted' = voted /\ missed' = missed /\ task[t].at = "remember"
  BY DEF Remember
<1>2. CASE identities' = Override(identities, task[t].patch)
           /\ Goes(t, [On(t, "replan") EXCEPT !.patch = NoEntry])
  <2>1. task[t].patch \in Identities /\ \A v \in Voters : task[t].patch[v] # Nobody
    BY <1>1, GoesFacts DEF PassType, PassSound
  <2>2. /\ identities' \in Identities
        /\ Known(identities') = Known(identities) \cup Known(task[t].patch)
    BY <1>2, <2>1, GoesFacts, MergedType DEF Override
  <2>3. task'[t] = [On(t, "replan") EXCEPT !.patch = NoEntry] /\ task' = [task EXCEPT ![t] = task'[t]]
    BY <1>2, GoesFacts
  <2>4. On(t, "replan") \in PassType /\ NoEntry \in Identities
    BY GoesFacts DEF On, PassType, Places, NoEntry, Identities
  <2>5. /\ task'[t] \in PassType /\ task'[t].at = "replan" /\ task'[t].kind = task[t].kind
        /\ task'[t].owed = task[t].owed /\ task'[t].votes = task[t].votes /\ task'[t].row = task[t].row
    BY <2>3, <2>4, GoesFacts DEF On, PassType
  <2>6. task[t].owed \subseteq Known(identities')
    BY <1>1, <2>2, GoesFacts DEF PassSound
  <2>7. PassSound(task[t])'
    BY <1>1, <2>5, <2>6, GoesFacts DEF PassSound
  <2> QED
    BY <1>1, <2>2, <2>3, <2>5, <2>7, GoesFacts, OnePass
<1>3. CASE UNCHANGED identities /\ Goes(t, Idle)
  <2>1. task'[t] = Idle /\ task' = [task EXCEPT ![t] = task'[t]]
    BY <1>3, GoesFacts
  <2>2. PassSound(task[t])'
    BY <2>1 DEF PassSound, Idle
  <2> QED
    BY <1>1, <1>3, <2>1, <2>2, IdleSound, GoesFacts, OnePass
<1> QED
  BY <1>2, <1>3 DEF Remember

(* The plan made again reads the row that has been put right. *)
LEMMA ReplanInv == ASSUME IInv, NEW t \in Tasks, Replan(t) PROVE IInv'
<1>1. /\ voted' = voted /\ identities' = identities /\ missed' = missed /\ task[t].at = "replan"
      /\ Goes(t, [Pass("plan") EXCEPT !.owed = task[t].owed])
  BY DEF Replan
<1>2. /\ task'[t] = [Pass("plan") EXCEPT !.owed = task[t].owed]
      /\ task' = [task EXCEPT ![t] = task'[t]]
  BY <1>1, GoesFacts
<1>3. Pass("plan") \in PassType /\ Pass("plan").at = "read" /\ Pass("plan").row = identities
      /\ Pass("plan").votes = {}
  BY IdleSound, GoesFacts DEF Pass, PassType, Places, Idle
<1>4. /\ task'[t] \in PassType /\ task'[t].owed = task[t].owed /\ task'[t].at = "read"
      /\ task'[t].row = identities /\ task'[t].votes = {}
  BY <1>2, <1>3, GoesFacts DEF PassType
<1>5. task[t].owed \subseteq Known(identities) /\ task[t].owed \subseteq voted
  BY <1>1, GoesFacts DEF PassSound
<1>6. PassSound(task[t])'
  BY <1>1, <1>4, <1>5 DEF PassSound
<1> QED
  BY <1>1, <1>2, <1>4, <1>6, GoesFacts, OnePass

(* The steps besides the two that merge leave the identities as they are. *)
LEMMA NextInv == IInv /\ [Next]_vars => IInv' /\ Known(identities) \subseteq Known(identities')
<1> SUFFICES ASSUME IInv, [Next]_vars PROVE IInv' /\ Known(identities) \subseteq Known(identities')
  OBVIOUS
<1>1. CASE UNCHANGED vars
  BY <1>1 DEF vars, job, worker, IInv, TypeInv, OwedInv, PassSound
<1>2. CASE Crash \/ \E v \in Voters : Vote(v) \/ Register(v)
  BY <1>2, OutsideInv DEF Crash, Vote, Register, job
<1>3. ASSUME NEW t \in Tasks, Tick(t) \/ Plan(t) \/ Recompute(t) \/ Announce(t)
      PROVE  IInv' /\ identities' = identities
  BY <1>3, StartInv DEF Tick, Plan, Recompute, Announce, Starts, job
<1>4. ASSUME NEW t \in Tasks, Read(t) \/ Take(t) \/ Tell(t) \/ Book(t) \/ PlanDone(t) \/ Relookup(t) \/ Replan(t)
      PROVE  IInv' /\ identities' = identities
  <2>1. IInv'
    BY <1>4, ReadInv, TellInv, PlanInv, RelookupInv, ReplanInv
  <2>2. identities' = identities
    BY <1>4 DEF Read, Take, Tell, Book, PlanDone, Relookup, Replan, job
  <2> QED
    BY <2>1, <2>2
<1> QED
  BY <1>1, <1>2, <1>3, <1>4, MergeInv, RememberInv DEF Next, Step

(* "Recalculer le plan" ends with a plan that counts everyone it has found and everyone
   whom the row knew by then: PlanKnowsIdentified of the run, for any number of voters,
   passes and failures (scheduler.ts, relookupUnresolvedVoters). *)
THEOREM RecomputedPlanCounts == Spec => []PlanKnowsIdentified
<1>1. Init => IInv
  BY InitInv
<1>2. IInv /\ [Next]_vars => IInv'
  BY NextInv
<1>3. IInv => PlanKnowsIdentified
  BY DEF IInv, OwedInv, PlanKnowsIdentified
<1> QED
  BY <1>1, <1>2, <1>3, PTL DEF Spec

(* Whoever has been identified stays so, whatever passes overlap and whatever fails
   (mergeRosterIdentities of rosterStore.ts). *)
THEOREM IdentifiedStay == Spec => NeverForgotten
<1>1. Init => IInv
  BY InitInv
<1>2. IInv /\ [Next]_vars => IInv' /\ [Known(identities) \subseteq Known(identities')]_vars
  BY NextInv
<1> QED
  BY <1>1, <1>2, PTL DEF Spec, NeverForgotten

-----------------------------------------------------------------------------
(* What the organiser is told.                                                *)

(* What the row, the counts and the bounds are, besides the passes. *)
BoundsInv ==
  /\ Known(identities) \subseteq registered /\ frozen \subseteq voted \cap Unmatched
  /\ stage \in {"collected", "planned", "announced"} /\ told \in [Voters -> 0 .. 2]
  /\ ops \in 0 .. MaxOps /\ mishaps \in 0 .. MaxMishaps

(* A pass sends what it has taken the key of, the voters first, then the votes; whom it has
   not found is in the row by the time it tells of him. *)
PassTells(r) ==
  /\ Known(r.patch) \subseteq registered
  /\ r.sending \subseteq notified
  /\ r.at \notin {"warning", "flagging"} => r.sending = {}
  /\ r.at = "warning" => \A v \in r.sending : v \in Tel /\ r.patch[v] = Nobody
  /\ r.at = "flagging" => r.sending \cap Tel = {}
  /\ r.at \in {"tell", "warning"} => \A v \in Voters : r.patch[v] # Absent => identities[v] # Absent

(* A key is taken by one pass. *)
Apart == \A t, o \in Tasks : t # o => task[t].sending \cap task[o].sending = {}

(* The pass may still find that it does not know the voter. *)
MayMiss(r, v) ==
  \/ r.at \in {"read", "book"} /\ r.row[v] = Absent
  \/ r.at \in {"merge", "tell"} /\ r.patch[v] = Nobody

Sent(v) == \E t \in Tasks : v \in task[t].sending

(* Whom the organiser has been told of is being sent by nobody, and nobody will: his key is
   taken or, if he has a number, the passes know him from the row. *)
OnceInv ==
  "lose" \notin excuse =>
    \A v \in Voters : v \in Tel \/ "crash" \notin excuse =>
      /\ told[v] <= 1
      /\ told[v] = 1 =>
           /\ ~Sent(v)
           /\ v \in Unmatched => v \in notified
           /\ v \in Tel => /\ identities[v] # Absent
                           /\ \A t \in Tasks : MayMiss(task[t], v) => v \in notified

(* A taken key is that of a voter told of or being told of. *)
Heard(v) == told[v] >= 1 \/ Sent(v)
LeftInv ==
  excuse \cap {"refuse", "crash"} = {} =>
    \A v \in Tel :
      /\ v \in notified => Heard(v)
      /\ \A t \in Tasks : task[t].at = "warning" /\ task[t].patch[v] = Nobody => Heard(v)
      /\ identities[v] = Nobody =>
           \/ Heard(v) \/ v \in photo
           \/ \E t \in Tasks : task[t].at = "tell" /\ task[t].patch[v] = Nobody

NoticeInv == BoundsInv /\ (\A t \in Tasks : PassTells(task[t])) /\ Apart /\ OnceInv /\ LeftInv

LEMMA NoticeEnough == IInv /\ NoticeInv => OrganiserTold
<1> SUFFICES ASSUME IInv, NoticeInv PROVE OrganiserTold
  OBVIOUS
<1>1. TypeOK
  <2>1. \A t \in Tasks : task[t] \in PassType /\ task[t].sending \subseteq notified
    BY DEF IInv, TypeInv, NoticeInv, PassTells
  <2> QED
    BY <2>1 DEF IInv, TypeInv, NoticeInv, BoundsInv, TypeOK, PassType
<1>2. ToldOnce
  BY DEF NoticeInv, OnceInv, ToldOnce, Voters
<1>3. LeftOutIsTold
  <2> SUFFICES ASSUME NEW v \in Tel, identities[v] = Nobody, told[v] = 0,
                      excuse \cap {"refuse", "crash"} = {}, v \notin photo
               PROVE  \E t \in Tasks : v \in Unresolved(t) /\ task[t].at \in {"tell", "warning"}
    BY DEF LeftOutIsTold
  <2>1. Sent(v) \/ \E t \in Tasks : task[t].at = "tell" /\ task[t].patch[v] = Nobody
    BY DEF NoticeInv, LeftInv, Heard
  <2>2. CASE Sent(v)
    <3>1. PICK t \in Tasks : v \in task[t].sending
      BY <2>2 DEF Sent
    <3>2. task[t].at = "warning" /\ task[t].patch[v] = Nobody
      BY <3>1 DEF NoticeInv, PassTells
    <3> QED
      BY <3>2 DEF Unresolved
  <2>3. CASE \E t \in Tasks : task[t].at = "tell" /\ task[t].patch[v] = Nobody
    BY <2>3 DEF Unresolved
  <2> QED
    BY <2>1, <2>2, <2>3
<1> QED
  BY <1>1, <1>2, <1>3 DEF OrganiserTold

LEMMA IdleTells == PassTells(Idle) /\ Idle.sending = {} /\ \A v : ~MayMiss(Idle, v)
BY DEF PassTells, Idle, MayMiss, Known, NoEntry, Absent, Player

LEMMA InitNotice == Init => NoticeInv
<1> SUFFICES ASSUME Init PROVE NoticeInv
  OBVIOUS
<1>1. \A t \in Tasks : task[t] = Idle
  BY DEF Init
<1>2. Known(identities) \subseteq registered
  BY DEF Init, Known, Absent, Nobody, Player
<1>3. BoundsInv
  BY <1>2, VoterIdentitiesAssumption DEF Init, BoundsInv
<1>4. \A v \in Voters : told[v] = 0 /\ ~Sent(v)
  BY <1>1, IdleTells DEF Init, Sent
<1>5. Apart /\ \A t \in Tasks : PassTells(task[t])
  BY <1>1, IdleTells DEF Apart
<1>6. OnceInv
  BY <1>4 DEF OnceInv
<1>7. LeftInv
  <2>1. \A v \in Voters : identities[v] = Nobody => v \in photo
    BY DEF Init, Absent, Nobody, Player
  <2>2. notified = {} /\ \A t \in Tasks : task[t].at = "idle"
    BY <1>1 DEF Init, Idle
  <2> QED
    BY <2>1, <2>2 DEF LeftInv, Voters
<1> QED
  BY <1>3, <1>5, <1>6, <1>7 DEF NoticeInv

(* Whoever is being sent his message is in the set of the pass that took his key. *)
LEMMA NoticeFacts ==
  ASSUME IInv, NoticeInv, NEW t \in Tasks
  PROVE  /\ PassTells(task[t]) /\ BoundsInv /\ Apart /\ OnceInv /\ LeftInv
         /\ Tel \subseteq Voters /\ Unmatched \subseteq Voters /\ Tel \cap Unmatched = {}
         /\ task[t].at \notin {"warning", "flagging"} => task[t].sending = {}
         /\ task[t].sending \subseteq notified /\ task[t].sending \subseteq Voters
BY GoesFacts, VoterIdentitiesAssumption DEF NoticeInv, PassTells, Voters, PassType

(* The other passes, when one of them goes on. *)
LEMMA OthersTell ==
  ASSUME IInv, NoticeInv, NEW t \in Tasks, task' = [task EXCEPT ![t] = task'[t]],
         registered' = registered,
         \A v \in Voters : identities[v] # Absent => identities'[v] # Absent,
         \A o \in Tasks \ {t} : task[o].sending \subseteq notified'
  PROVE  \A o \in Tasks \ {t} : task'[o] = task[o] /\ PassTells(task[o])'
<1> SUFFICES ASSUME NEW o \in Tasks \ {t} PROVE task'[o] = task[o] /\ PassTells(task[o])'
  OBVIOUS
<1>1. task'[o] = task[o]
  BY DEF IInv, TypeInv
<1> QED
  BY <1>1 DEF NoticeInv, PassTells

(* A step that tells nothing: it finds nobody missing whom it could not miss before. *)
LEMMA QuietStep ==
  ASSUME IInv, NoticeInv, NEW t \in Tasks, task' = [task EXCEPT ![t] = task'[t]],
         UNCHANGED <<registered, notified, told, photo>>, excuse' = excuse \/ excuse \subseteq excuse',
         task[t].sending = {}, task'[t].sending = {}, task'[t].at # "warning",
         BoundsInv', PassTells(task[t])',
         \A v \in Voters : identities[v] # Absent => identities'[v] # Absent,
         \A v \in Tel : task[t].at = "tell" /\ task[t].patch[v] = Nobody => v \in notified,
         \A v \in Tel : MayMiss(task'[t], v) => MayMiss(task[t], v) \/ identities[v] = Absent,
         \A v \in Tel : identities'[v] = Nobody =>
           \/ identities[v] = Nobody
           \/ task'[t].at = "tell" /\ task'[t].patch[v] = Nobody
  PROVE  NoticeInv'
<1>1. \A o \in Tasks \ {t} : task'[o] = task[o] /\ PassTells(task[o])'
  BY NoticeFacts, OthersTell
<1>2. \A o \in Tasks : task'[o].sending = task[o].sending
  BY <1>1
<1>3. \A v : Sent(v)' <=> Sent(v)
  BY <1>2 DEF Sent
<1>4. \A v : Heard(v)' <=> Heard(v)
  BY <1>3 DEF Heard
<1>5. Apart'
  BY <1>2, NoticeFacts DEF Apart
<1>6. OnceInv'
  <2> SUFFICES ASSUME "lose" \notin excuse', NEW v \in Voters, v \in Tel \/ "crash" \notin excuse'
               PROVE  (/\ told[v] <= 1
                       /\ told[v] = 1 =>
                            /\ ~Sent(v)
                            /\ v \in Unmatched => v \in notified
                            /\ v \in Tel => /\ identities[v] # Absent
                                            /\ \A o \in Tasks : MayMiss(task[o], v) => v \in notified)'
    BY DEF OnceInv
  <2>1. "lose" \notin excuse /\ (v \in Tel \/ "crash" \notin excuse)
    OBVIOUS
  <2>2. told[v] <= 1 /\ (told[v] = 1 => ~Sent(v) /\ (v \in Unmatched => v \in notified))
    BY <2>1 DEF NoticeInv, OnceInv
  <2>3. ASSUME told[v] = 1, v \in Tel
        PROVE  identities'[v] # Absent /\ \A o \in Tasks : MayMiss(task'[o], v) => v \in notified
    <3>1. identities[v] # Absent /\ \A o \in Tasks : MayMiss(task[o], v) => v \in notified
      BY <2>1, <2>3 DEF NoticeInv, OnceInv
    <3>2. identities'[v] # Absent
      BY <3>1
    <3> QED
      BY <1>1, <2>3, <3>1, <3>2
  <2> QED
    BY <1>3, <2>2, <2>3 DEF MayMiss
<1>7. LeftInv'
  <2> SUFFICES ASSUME (excuse \cap {"refuse", "crash"} = {})', NEW v \in Tel
               PROVE  (/\ v \in notified => Heard(v)
                       /\ \A o \in Tasks : task[o].at = "warning" /\ task[o].patch[v] = Nobody => Heard(v)
                       /\ identities[v] = Nobody =>
                            \/ Heard(v) \/ v \in photo
                            \/ \E o \in Tasks : task[o].at = "tell" /\ task[o].patch[v] = Nobody)'
    BY DEF LeftInv
  <2>1. /\ v \in notified => Heard(v)
        /\ \A o \in Tasks : task[o].at = "warning" /\ task[o].patch[v] = Nobody => Heard(v)
        /\ identities[v] = Nobody =>
             \/ Heard(v) \/ v \in photo
             \/ \E o \in Tasks : task[o].at = "tell" /\ task[o].patch[v] = Nobody
    BY DEF NoticeInv, LeftInv
  <2>2. ASSUME NEW o \in Tasks, task'[o].at = "warning", task'[o].patch[v] = Nobody PROVE Heard(v)
    <3>1. o # t
      BY <2>2
    <3> QED
      BY <1>1, <2>1, <2>2, <3>1
  <2>3. ASSUME identities'[v] = Nobody
        PROVE  \/ Heard(v) \/ v \in photo
               \/ \E o \in Tasks : task'[o].at = "tell" /\ task'[o].patch[v] = Nobody
    <3>1. CASE task'[t].at = "tell" /\ task'[t].patch[v] = Nobody
      BY <3>1
    <3>2. CASE identities[v] = Nobody
      <4>1. CASE \E o \in Tasks : task[o].at = "tell" /\ task[o].patch[v] = Nobody
        <5>1. PICK o \in Tasks : task[o].at = "tell" /\ task[o].patch[v] = Nobody
          BY <4>1
        <5>2. CASE o = t
          BY <2>1, <5>1, <5>2
        <5>3. CASE o # t
          BY <1>1, <5>1, <5>3
        <5> QED
          BY <5>2, <5>3
      <4> QED
        BY <2>1, <3>2, <4>1
    <3> QED
      BY <2>3, <3>1, <3>2
  <2> QED
    BY <1>4, <2>1, <2>2, <2>3
<1> QED
  BY <1>1, <1>5, <1>6, <1>7 DEF NoticeInv

(* A pass that starts misses whom the row does not know yet, and nobody was told of him. *)
LEMMA StartNotice ==
  ASSUME IInv, NoticeInv, NEW t \in Tasks, Tick(t) \/ Plan(t) \/ Recompute(t) \/ Announce(t) \/ Replan(t)
  PROVE  NoticeInv'
<1>0. UNCHANGED <<voted, registered, identities, photo, frozen, notified, told, mishaps, excuse>>
  BY DEF Tick, Plan, Recompute, Announce, Starts, Replan, job
<1>1. \E r : Goes(t, r) /\ r.row = identities /\ r.patch = NoEntry /\ r.sending = {}
            /\ r.at \in {"read", "book"}
  <2> DEFINE Starting(r) == r.row = identities /\ r.patch = NoEntry /\ r.sending = {}
                          /\ r.at \in {"read", "book"}
  <2>1. \A kind : /\ Starting(Pass(kind)) /\ Starting([Pass(kind) EXCEPT !.at = "book"])
                  /\ Starting([Pass(kind) EXCEPT !.at = "read"])
                  /\ \A owed : Starting([Pass(kind) EXCEPT !.owed = owed])
    BY DEF Pass, Idle
  <2> HIDE DEF Starting
  <2>2. \E r : Goes(t, r) /\ Starting(r)
    BY <2>1 DEF Tick, Plan, Recompute, Announce, Starts, Replan
  <2> QED
    BY <2>2 DEF Starting
<1>2. task[t].at \in {"idle", "replan"}
  BY DEF Tick, Plan, Recompute, Announce, Starts, Replan, Idle
<1>3. BoundsInv'
  <2>1. stage' \in {"collected", "planned", "announced"} /\ ops' \in 0 .. MaxOps
    BY NoticeFacts, VoterIdentitiesAssumption DEF Tick, Plan, Recompute, Announce, Starts, Replan, BoundsInv, job
  <2> QED
    BY <1>0, <2>1, NoticeFacts DEF BoundsInv, Known
<1>4. /\ task' = [task EXCEPT ![t] = task'[t]]
      /\ task'[t].row = identities /\ task'[t].patch = NoEntry /\ task'[t].sending = {}
      /\ task'[t].at \in {"read", "book"}
  BY <1>1, GoesFacts
<1>5. PassTells(task[t])'
  BY <1>4 DEF PassTells, Known, NoEntry, Absent, Player
<1>6. task[t].sending = {}
  BY <1>2, NoticeFacts
<1>7. \A v \in Tel : MayMiss(task'[t], v) => identities[v] = Absent
  BY <1>4 DEF MayMiss
<1> QED
  BY <1>0, <1>2, <1>3, <1>4, <1>5, <1>6, <1>7, QuietStep

(* Whom the pass does not find was not in its row. *)
LEMMA ReadNotice == ASSUME IInv, NoticeInv, NEW t \in Tasks, Read(t) PROVE NoticeInv'
<1>1. PICK failed \in SUBSET (News(t) \ Unmatched) :
        /\ IF failed = {} THEN Fine ELSE Mishap("lookup")
        /\ Goes(t, Kept([task[t] EXCEPT !.votes = voted, !.patch = Patch(t, failed),
                                        !.at = IF News(t) = {} THEN "tell" ELSE "merge"]))
  BY DEF Read
<1>2. /\ UNCHANGED <<voted, registered, identities, stage, photo, frozen, notified, told, ops>>
      /\ task[t].at = "read" /\ task[t].sending = {}
  BY NoticeFacts DEF Read, job
<1> DEFINE r == [task[t] EXCEPT !.votes = voted, !.patch = Patch(t, failed),
                                !.at = IF News(t) = {} THEN "tell" ELSE "merge"]
<1>3. /\ r.patch = Patch(t, failed) /\ r.sending = {}
      /\ r.at = IF News(t) = {} THEN "tell" ELSE "merge"
  BY <1>2, GoesFacts DEF PassType
<1>4. Kept(r).patch = Patch(t, failed) /\ Kept(r).sending = {} /\ Kept(r).at = r.at
  <2>1. Kept(r) = r \/ Kept(r) = [r EXCEPT !.row = NoEntry, !.votes = @ \cap Unmatched]
    BY DEF Kept
  <2>2. {"at", "kind", "final", "row", "votes", "patch", "sending", "owed"} = DOMAIN r
    BY GoesFacts DEF PassType
  <2> HIDE DEF r
  <2> QED
    BY <1>3, <2>1, <2>2
<1>5. /\ task' = [task EXCEPT ![t] = task'[t]] /\ task'[t].patch = Patch(t, failed)
      /\ task'[t].sending = {} /\ task'[t].at = IF News(t) = {} THEN "tell" ELSE "merge"
  BY <1>1, <1>3, <1>4, GoesFacts
<1>6. /\ Known(Patch(t, failed)) \subseteq registered
      /\ \A v \in Voters : Patch(t, failed)[v] # Absent => v \in News(t)
      /\ \A v \in News(t) : task[t].row[v] = Absent
  BY DEF Patch, Lookup, Known, News, Absent, Nobody, Player
<1>7. PassTells(task[t])'
  BY <1>2, <1>5, <1>6 DEF PassTells
<1>8. mishaps' \in 0 .. MaxMishaps /\ excuse \subseteq excuse'
  BY <1>1, NoticeFacts, VoterIdentitiesAssumption DEF Fine, Mishap, BoundsInv
<1>9. BoundsInv'
  BY <1>2, <1>8, NoticeFacts DEF BoundsInv, Known
<1>10. \A v \in Tel : MayMiss(task'[t], v) => MayMiss(task[t], v)
  <2> SUFFICES ASSUME NEW v \in Tel, MayMiss(task'[t], v) PROVE MayMiss(task[t], v)
    OBVIOUS
  <2>1. Patch(t, failed)[v] = Nobody /\ v \in Voters
    BY <1>5, NoticeFacts DEF MayMiss
  <2>2. task[t].row[v] = Absent
    BY <1>6, <2>1 DEF Absent, Nobody
  <2> QED
    BY <1>2, <2>2 DEF MayMiss
<1> QED
  BY <1>2, <1>5, <1>7, <1>8, <1>9, <1>10, QuietStep

(* What is merged is in the row from then on. *)
LEMMA MergedFacts ==
  ASSUME NEW left \in Identities, NEW right \in Identities
  PROVE  /\ Known(Merged(left, right)) \subseteq Known(left) \cup Known(right)
         /\ \A v \in Voters : /\ Merged(left, right)[v] \in {left[v], right[v]}
                              /\ left[v] # Absent \/ right[v] # Absent => Merged(left, right)[v] # Absent
                              /\ right[v] # Absent => Merged(left, right)[v] = right[v]
BY DEF Merged, Known, Identities

LEMMA MergeNotice == ASSUME IInv, NoticeInv, NEW t \in Tasks, Merge(t) PROVE NoticeInv'
<1>1. /\ UNCHANGED <<voted, registered, stage, photo, frozen, notified, told, ops>>
      /\ task[t].at = "merge" /\ task[t].sending = {} /\ task[t].patch \in Identities
      /\ Known(task[t].patch) \subseteq registered
  BY GoesFacts, NoticeFacts DEF Merge, PassTells, PassType
<1>2. mishaps' \in 0 .. MaxMishaps /\ excuse \subseteq excuse'
  BY NoticeFacts, VoterIdentitiesAssumption DEF Merge, Fine, Mishap, BoundsInv
<1>3. CASE identities' = Keep(identities, task[t].patch) /\ Goes(t, On(t, "tell"))
  <2>1. identities' = Merged(task[t].patch, identities) /\ identities \in Identities
    BY <1>3, GoesFacts DEF Keep
  <2>2. /\ Known(identities') \subseteq registered
        /\ \A v \in Voters : /\ identities[v] # Absent \/ task[t].patch[v] # Absent => identities'[v] # Absent
                             /\ identities'[v] = Nobody => identities[v] = Nobody \/ task[t].patch[v] = Nobody
    BY <1>1, <2>1, MergedFacts, NoticeFacts DEF BoundsInv
  <2>3. /\ task' = [task EXCEPT ![t] = task'[t]] /\ task'[t] = On(t, "tell")
    BY <1>3, GoesFacts
  <2>4. task'[t].at = "tell" /\ task'[t].patch = task[t].patch /\ task'[t].sending = {}
    BY <1>1, <2>3, GoesFacts DEF On, PassType
  <2>5. PassTells(task[t])'
    BY <1>1, <2>2, <2>4 DEF PassTells
  <2>6. BoundsInv'
    BY <1>1, <1>2, <2>2, NoticeFacts DEF BoundsInv
  <2>7. \A v \in Tel : MayMiss(task'[t], v) => MayMiss(task[t], v)
    BY <1>1, <2>4 DEF MayMiss
  <2> QED
    BY <1>1, <1>2, <2>2, <2>3, <2>4, <2>5, <2>6, <2>7, NoticeFacts, QuietStep
<1>4. CASE UNCHANGED identities /\ Goes(t, Idle)
  <2>1. task' = [task EXCEPT ![t] = task'[t]] /\ task'[t] = Idle
    BY <1>4, GoesFacts
  <2>2. BoundsInv'
    BY <1>1, <1>2, <1>4, NoticeFacts DEF BoundsInv, Known
  <2>3. PassTells(task[t])' /\ Idle.at = "idle"
    BY <2>1 DEF PassTells, Idle, Known, NoEntry, Absent, Player
  <2> QED
    BY <1>1, <1>2, <1>4, <2>1, <2>2, <2>3, IdleTells, QuietStep
<1> QED
  BY <1>3, <1>4 DEF Merge

(* The steps of a plan and of a recomputation tell nobody anything. *)
LEMMA PlanNotice ==
  ASSUME IInv, NoticeInv, NEW t \in Tasks, PlanDone(t) \/ Book(t)
  PROVE  NoticeInv'
<1>1. /\ UNCHANGED <<voted, registered, identities, photo, notified, told, ops, mishaps, excuse>>
      /\ task[t].at \in {"done", "book"} /\ task[t].sending = {}
  BY NoticeFacts DEF PlanDone, Book
<1>2. stage' \in {"planned", "announced"} /\ frozen' \subseteq voted \cap Unmatched
  BY GoesFacts, NoticeFacts DEF PlanDone, Book, PassSound, BoundsInv
<1>3. BoundsInv'
  BY <1>1, <1>2, NoticeFacts DEF BoundsInv, Known
<1>4. CASE PlanDone(t)
  <2>1. task' = [task EXCEPT ![t] = task'[t]] /\ task'[t] = Idle
    BY <1>4, GoesFacts DEF PlanDone
  <2>2. PassTells(task[t])' /\ Idle.at = "idle"
    BY <2>1 DEF PassTells, Idle, Known, NoEntry, Absent, Player
  <2> QED
    BY <1>1, <1>3, <2>1, <2>2, IdleTells, QuietStep
<1>5. CASE Book(t)
  <2>1. task' = [task EXCEPT ![t] = task'[t]] /\ task'[t] = [On(t, "read") EXCEPT !.final = TRUE]
        /\ task[t].at = "book"
    BY <1>5, GoesFacts DEF Book
  <2>2. /\ task'[t].at = "read" /\ task'[t].row = task[t].row /\ task'[t].patch = task[t].patch
        /\ task'[t].sending = {}
    BY <1>1, <2>1, GoesFacts DEF On, PassType
  <2>3. PassTells(task[t])'
    BY <1>1, <2>2, NoticeFacts DEF PassTells
  <2>4. \A v \in Tel : MayMiss(task'[t], v) => MayMiss(task[t], v)
    BY <2>1, <2>2 DEF MayMiss
  <2> QED
    BY <1>1, <1>3, <2>1, <2>2, <2>3, <2>4, QuietStep
<1> QED
  BY <1>4, <1>5

LEMMA RelookupNotice == ASSUME IInv, NoticeInv, NEW t \in Tasks, Relookup(t) PROVE NoticeInv'
<1>1. /\ UNCHANGED <<voted, registered, identities, stage, photo, frozen, notified, told, ops>>
      /\ task[t].at = "done" /\ task[t].sending = {}
  BY NoticeFacts DEF Relookup, job
<1>2. PICK failed \in SUBSET ToRelookup(t) :
        LET found == (ToRelookup(t) \cap registered) \ failed
        IN /\ IF failed = {} THEN Fine ELSE Mishap("lookup")
           /\ Goes(t, [On(t, "remember") EXCEPT
                         !.patch = [v \in Voters |-> IF v \in found THEN Player ELSE Absent],
                         !.owed = (task[t].votes \cap Known(identities)) \cup found])
  BY Zenon DEF Relookup
<1> DEFINE found == (ToRelookup(t) \cap registered) \ failed
           patch == [v \in Voters |-> IF v \in found THEN Player ELSE Absent]
           owed == (task[t].votes \cap Known(identities)) \cup found
<1>3. mishaps' \in 0 .. MaxMishaps /\ excuse \subseteq excuse'
  BY <1>2, NoticeFacts, VoterIdentitiesAssumption DEF Fine, Mishap, BoundsInv
<1>4. /\ task'[t] = [On(t, "remember") EXCEPT !.patch = patch, !.owed = owed]
      /\ task' = [task EXCEPT ![t] = task'[t]]
  BY <1>2, GoesFacts
<1>5. Known(patch) \subseteq registered
  BY DEF Known, Player, Absent
<1>6. task'[t].at = "remember" /\ task'[t].patch = patch /\ task'[t].sending = {}
  <2>1. On(t, "remember").at = "remember" /\ On(t, "remember").sending = {}
        /\ {"at", "sending", "patch", "owed"} \subseteq DOMAIN On(t, "remember")
    BY <1>1, GoesFacts DEF On, PassType
  <2> HIDE DEF patch, owed
  <2> QED
    BY <1>4, <2>1
<1>7. PassTells(task[t])'
  <2> HIDE DEF patch
  <2> QED
    BY <1>1, <1>5, <1>6 DEF PassTells
<1>8. BoundsInv'
  BY <1>1, <1>3, NoticeFacts DEF BoundsInv, Known
<1>9. \A v \in Tel : ~MayMiss(task'[t], v)
  BY <1>6 DEF MayMiss
<1> QED
  BY <1>1, <1>3, <1>4, <1>6, <1>7, <1>8, <1>9, QuietStep

LEMMA RememberNotice == ASSUME IInv, NoticeInv, NEW t \in Tasks, Remember(t) PROVE NoticeInv'
<1>1. /\ UNCHANGED <<voted, registered, stage, photo, frozen, notified, told, ops>>
      /\ task[t].at = "remember" /\ task[t].sending = {} /\ task[t].patch \in Identities
      /\ Known(task[t].patch) \subseteq registered /\ \A v \in Voters : task[t].patch[v] # Nobody
  BY GoesFacts, NoticeFacts DEF Remember, PassTells, PassType, PassSound
<1>2. mishaps' \in 0 .. MaxMishaps /\ excuse \subseteq excuse'
  BY NoticeFacts, VoterIdentitiesAssumption DEF Remember, Fine, Mishap, BoundsInv
<1>3. /\ task' = [task EXCEPT ![t] = task'[t]]
      /\ task'[t] = [On(t, "replan") EXCEPT !.patch = NoEntry] \/ task'[t] = Idle
  BY GoesFacts DEF Remember
<1>4. /\ task'[t].at \in {"replan", "idle"} /\ task'[t].patch = NoEntry /\ task'[t].sending = {}
  <2>1. Idle.at = "idle" /\ Idle.patch = NoEntry /\ Idle.sending = {}
    BY DEF Idle
  <2>2. LET r == [On(t, "replan") EXCEPT !.patch = NoEntry]
        IN r.at = "replan" /\ r.patch = NoEntry /\ r.sending = {}
    BY <1>1, GoesFacts DEF On, PassType
  <2> QED
    BY <1>3, <2>1, <2>2
<1>5. identities' = identities \/ identities' = Merged(identities, task[t].patch)
  BY DEF Remember, Override
<1>6. /\ Known(identities') \subseteq registered
      /\ \A v \in Voters : /\ identities[v] # Absent => identities'[v] # Absent
                           /\ identities'[v] = Nobody => identities[v] = Nobody
  <2>1. identities \in Identities /\ Known(identities) \subseteq registered
    BY GoesFacts, NoticeFacts DEF BoundsInv
  <2>2. CASE identities' = identities
    BY <2>1, <2>2 DEF Known
  <2>3. CASE identities' = Merged(identities, task[t].patch)
    BY <1>1, <2>1, <2>3, MergedFacts
  <2> QED
    BY <1>5, <2>2, <2>3
<1>7. PassTells(task[t])'
  BY <1>4 DEF PassTells, Known, NoEntry, Absent, Player
<1>8. BoundsInv'
  BY <1>1, <1>2, <1>6, NoticeFacts DEF BoundsInv
<1>9. \A v \in Tel : ~MayMiss(task'[t], v)
  BY <1>4 DEF MayMiss
<1> QED
  BY <1>1, <1>2, <1>3, <1>4, <1>6, <1>7, <1>8, <1>9, NoticeFacts, QuietStep

(* The message a pass is about to send: keys nobody has taken, of voters whom it has not
   found, then of votes without a number. *)
LEMMA MessageFacts ==
  ASSUME IInv, NoticeInv, NEW t \in Tasks, Turn(t) # "done", task[t].at \in {"tell", "flag"}
  PROVE  LET m == Message(t)
         IN /\ m.at = Turn(t) /\ m.at \in {"warning", "flagging"} /\ m.patch = task[t].patch
            /\ m.sending \cap notified = {}
            /\ m.at = "warning" => /\ task[t].at = "tell"
                                   /\ m.sending = Unresolved(t) \ notified
            /\ m.at = "flagging" => /\ m.sending \cap Tel = {}
                                    /\ task[t].at = "tell" => Unresolved(t) \subseteq notified
<1>1. Turn(t) \in {"warning", "flagging"}
  BY DEF Turn
<1>2. /\ Message(t).at = Turn(t) /\ Message(t).patch = task[t].patch
      /\ Message(t).sending = Fresh(t, IF Turn(t) = "warning" THEN Unresolved(t) ELSE Anomalies(t))
  <2> DEFINE keys == Fresh(t, IF Turn(t) = "warning" THEN Unresolved(t) ELSE Anomalies(t))
             turn == Turn(t)
  <2>1. Message(t) = [[task[t] EXCEPT !.at = turn] EXCEPT !.sending = keys]
    BY DEF Message, On
  <2> HIDE DEF keys, turn
  <2>2. Message(t).at = turn /\ Message(t).patch = task[t].patch /\ Message(t).sending = keys
    BY <2>1, GoesFacts DEF PassType
  <2> QED
    BY <2>2 DEF keys, turn
<1>3. Message(t).sending \cap notified = {}
  BY <1>2 DEF Fresh
<1>4. Turn(t) = "warning" => task[t].at = "tell"
  BY DEF Turn
<1>5. Turn(t) = "flagging" /\ task[t].at = "tell" => Fresh(t, Unresolved(t)) = {}
  BY DEF Turn
<1>6. Anomalies(t) \cap Tel = {}
  BY VoterIdentitiesAssumption DEF Anomalies
<1> QED
  BY <1>1, <1>2, <1>3, <1>4, <1>5, <1>6 DEF Fresh

(* The keys are taken: those of nobody told of, as their voters were known to the row by
   then or their keys taken. *)
LEMMA TakeNotice == ASSUME IInv, NoticeInv, NEW t \in Tasks, Take(t) PROVE NoticeInv'
<1>1. /\ UNCHANGED <<voted, registered, identities, stage, photo, frozen, told, ops, mishaps, excuse>>
      /\ task[t].at \in {"tell", "flag"} /\ task[t].sending = {}
  BY NoticeFacts DEF Take, job
<1>2. BoundsInv'
  BY <1>1, NoticeFacts DEF BoundsInv, Known
<1>3. CASE Turn(t) = "done"
  <2>1. task' = [task EXCEPT ![t] = task'[t]] /\ task'[t] \in {On(t, "done"), Idle}
        /\ notified' = notified
    BY <1>3, GoesFacts DEF Take, Finished
  <2>2. /\ task'[t].at \in {"done", "idle"} /\ task'[t].sending = {}
        /\ task'[t].patch = task[t].patch \/ task'[t].patch = NoEntry
    <3>1. Idle.at = "idle" /\ Idle.patch = NoEntry /\ Idle.sending = {}
      BY DEF Idle
    <3>2. /\ On(t, "done").at = "done" /\ On(t, "done").sending = {}
          /\ On(t, "done").patch = task[t].patch
      BY <1>1, GoesFacts DEF On, PassType
    <3> QED
      BY <2>1, <3>1, <3>2
  <2>3. Known(NoEntry) = {}
    BY DEF Known, NoEntry, Absent, Player
  <2>4. PassTells(task[t])'
    BY <1>1, <2>2, <2>3, NoticeFacts DEF PassTells
  <2>5. \A v \in Tel : ~MayMiss(task'[t], v)
    BY <2>2 DEF MayMiss
  <2>6. \A v \in Tel : task[t].at = "tell" /\ task[t].patch[v] = Nobody => v \in notified
    BY <1>3 DEF Turn, Fresh, Unresolved
  <2> QED
    BY <1>1, <1>2, <2>1, <2>2, <2>4, <2>5, <2>6, QuietStep
<1>4. CASE Turn(t) # "done"
  <2> DEFINE keys == task'[t].sending
  <2>1. /\ task' = [task EXCEPT ![t] = task'[t]] /\ task'[t] = Message(t)
        /\ notified' = notified \cup keys
    BY <1>4, GoesFacts DEF Take
  <2>2. /\ task'[t].at \in {"warning", "flagging"} /\ task'[t].patch = task[t].patch
        /\ keys \cap notified = {}
        /\ task'[t].at = "warning" => task[t].at = "tell" /\ keys = Unresolved(t) \ notified
        /\ task'[t].at = "flagging" => /\ keys \cap Tel = {}
                                       /\ task[t].at = "tell" => Unresolved(t) \subseteq notified
    BY <1>1, <1>4, <2>1, MessageFacts
  <2> HIDE DEF keys
  <2>3. \A o \in Tasks \ {t} : task'[o] = task[o] /\ PassTells(task[o])'
    BY <1>1, <2>1, NoticeFacts, OthersTell
  <2>4. PassTells(task[t])'
    <3>1. Known(task[t].patch) \subseteq registered
      BY NoticeFacts DEF PassTells
    <3>2. keys \subseteq notified'
      BY <2>1
    <3>3. task'[t].at = "warning" => \A v \in keys : v \in Tel /\ task'[t].patch[v] = Nobody
      BY <2>2 DEF Unresolved
    <3>4. task'[t].at = "warning" => \A v \in Voters : task'[t].patch[v] # Absent => identities'[v] # Absent
      BY <1>1, <2>2, NoticeFacts DEF PassTells
    <3> QED
      BY <1>1, <2>2, <3>1, <3>2, <3>3, <3>4 DEF PassTells, keys
  <2>5. Apart'
    <3>1. \A o \in Tasks \ {t} : task[o].sending \cap keys = {}
      BY <2>2, NoticeFacts
    <3> QED
      BY <2>3, <3>1, NoticeFacts DEF Apart, keys
  <2>6. \A v : Sent(v)' <=> Sent(v) \/ v \in keys
    BY <1>1, <2>3 DEF Sent, keys
  <2>7. OnceInv'
    <3> SUFFICES ASSUME "lose" \notin excuse, NEW v \in Voters, v \in Tel \/ "crash" \notin excuse
                 PROVE  (/\ told[v] <= 1
                         /\ told[v] = 1 =>
                              /\ ~Sent(v)
                              /\ v \in Unmatched => v \in notified
                              /\ v \in Tel => /\ identities[v] # Absent
                                              /\ \A o \in Tasks : MayMiss(task[o], v) => v \in notified)'
      BY <1>1 DEF OnceInv
    <3>1. /\ told[v] <= 1
          /\ told[v] = 1 =>
               /\ ~Sent(v)
               /\ v \in Unmatched => v \in notified
               /\ v \in Tel => /\ identities[v] # Absent
                               /\ \A o \in Tasks : MayMiss(task[o], v) => v \in notified
      BY DEF NoticeInv, OnceInv
    <3>2. ASSUME told[v] = 1 PROVE v \notin keys
      <4>1. CASE v \in Unmatched
        BY <2>2, <3>1, <3>2, <4>1
      <4>2. CASE v \in Tel
        <5> SUFFICES ASSUME v \in keys PROVE FALSE
          OBVIOUS
        <5>1. task[t].at = "tell" /\ v \in Unresolved(t) /\ v \notin notified
          BY <2>2, <4>2
        <5>2. MayMiss(task[t], v)
          BY <5>1 DEF MayMiss, Unresolved
        <5> QED
          BY <3>1, <3>2, <4>2, <5>1, <5>2
      <4> QED
        BY <4>1, <4>2 DEF Voters
    <3>3. ~MayMiss(task'[t], v)
      BY <2>2 DEF MayMiss
    <3>4. \A o \in Tasks : MayMiss(task'[o], v) => MayMiss(task[o], v)
      BY <2>3, <3>3
    <3>5. notified \subseteq notified'
      BY <2>1
    <3> QED
      BY <1>1, <2>6, <3>1, <3>2, <3>4, <3>5 DEF MayMiss
  <2>8. LeftInv'
    <3> SUFFICES ASSUME excuse \cap {"refuse", "crash"} = {}, NEW v \in Tel
                 PROVE  (/\ v \in notified => Heard(v)
                         /\ \A o \in Tasks : task[o].at = "warning" /\ task[o].patch[v] = Nobody => Heard(v)
                         /\ identities[v] = Nobody =>
                              \/ Heard(v) \/ v \in photo
                              \/ \E o \in Tasks : task[o].at = "tell" /\ task[o].patch[v] = Nobody)'
      BY <1>1 DEF LeftInv
    <3>1. /\ v \in notified => Heard(v)
          /\ \A o \in Tasks : task[o].at = "warning" /\ task[o].patch[v] = Nobody => Heard(v)
          /\ identities[v] = Nobody =>
               \/ Heard(v) \/ v \in photo
               \/ \E o \in Tasks : task[o].at = "tell" /\ task[o].patch[v] = Nobody
      BY DEF NoticeInv, LeftInv
    <3>2. Heard(v)' <=> Heard(v) \/ v \in keys
      BY <1>1, <2>6 DEF Heard
    <3>3. v \in notified' => Heard(v)'
      BY <2>1, <3>1, <3>2
    <3>4. task[t].at = "tell" /\ task[t].patch[v] = Nobody => Heard(v)'
      <4>1. task[t].at = "tell" /\ task[t].patch[v] = Nobody => v \in keys \/ v \in notified
        BY <2>2 DEF Unresolved
      <4> QED
        BY <3>1, <3>2, <4>1
    <3>5. ASSUME NEW o \in Tasks, task'[o].at = "warning", task'[o].patch[v] = Nobody PROVE Heard(v)'
      <4>1. CASE o = t
        BY <2>2, <3>4, <3>5, <4>1
      <4>2. CASE o # t
        BY <2>3, <3>1, <3>2, <3>5, <4>2
      <4> QED
        BY <4>1, <4>2
    <3>6. ASSUME identities'[v] = Nobody
          PROVE  \/ Heard(v)' \/ v \in photo
                 \/ \E o \in Tasks : task'[o].at = "tell" /\ task'[o].patch[v] = Nobody
      <4>1. CASE Heard(v) \/ v \in photo
        BY <3>2, <4>1
      <4>2. CASE \E o \in Tasks : task[o].at = "tell" /\ task[o].patch[v] = Nobody
        <5>1. PICK o \in Tasks : task[o].at = "tell" /\ task[o].patch[v] = Nobody
          BY <4>2
        <5>2. CASE o = t
          BY <3>4, <5>1, <5>2
        <5>3. CASE o # t
          BY <2>3, <5>1, <5>3
        <5> QED
          BY <5>2, <5>3
      <4> QED
        BY <1>1, <3>1, <3>6, <4>1, <4>2
    <3> QED
      BY <1>1, <3>3, <3>5, <3>6
  <2> QED
    BY <1>2, <2>3, <2>4, <2>5, <2>7, <2>8 DEF NoticeInv
<1> QED
  BY <1>3, <1>4

(* The message reaches the organiser, or not; in doubt the keys are given back. *)
LEMMA TellNotice == ASSUME IInv, NoticeInv, NEW t \in Tasks, Tell(t) PROVE NoticeInv'
<1> DEFINE keys == task[t].sending
           Reached == told' = [v \in Voters |-> IF v \in keys /\ told[v] < 2 THEN told[v] + 1 ELSE told[v]]
<1>1. /\ UNCHANGED <<voted, registered, identities, stage, photo, frozen, ops>>
      /\ task[t].at \in {"warning", "flagging"}
  BY DEF Tell, job
<1>2. \/ Reached /\ notified' = notified /\ Fine
      \/ Reached /\ notified' = notified \ keys /\ Mishap("lose")
      \/ UNCHANGED told /\ notified' = notified \ keys /\ Mishap("refuse")
  <2>1. notified \cup keys = notified
    BY NoticeFacts
  <2> QED
    BY <2>1 DEF Tell, GivenBack
<1>3. /\ task' = [task EXCEPT ![t] = task'[t]]
      /\ task'[t].at \in {"done", "idle", "flag"} /\ task'[t].sending = {}
      /\ Known(task'[t].patch) \subseteq registered
  <2>1. \/ Goes(t, [Finished(t) EXCEPT !.sending = {}])
        \/ Goes(t, [On(t, "flag") EXCEPT !.sending = {}])
    BY DEF Tell
  <2>2. \/ task'[t] = [On(t, "done") EXCEPT !.sending = {}]
        \/ task'[t] = [Idle EXCEPT !.sending = {}]
        \/ task'[t] = [On(t, "flag") EXCEPT !.sending = {}]
    BY <2>1, GoesFacts DEF Finished
  <2>3. /\ [On(t, "done") EXCEPT !.sending = {}].at = "done"
        /\ [On(t, "done") EXCEPT !.sending = {}].sending = {}
        /\ [On(t, "done") EXCEPT !.sending = {}].patch = task[t].patch
        /\ [On(t, "flag") EXCEPT !.sending = {}].at = "flag"
        /\ [On(t, "flag") EXCEPT !.sending = {}].sending = {}
        /\ [On(t, "flag") EXCEPT !.sending = {}].patch = task[t].patch
    BY GoesFacts DEF On, PassType
  <2>4. /\ [Idle EXCEPT !.sending = {}].at = "idle" /\ [Idle EXCEPT !.sending = {}].sending = {}
        /\ [Idle EXCEPT !.sending = {}].patch = NoEntry
    BY DEF Idle
  <2>5. Known(NoEntry) = {} /\ Known(task[t].patch) \subseteq registered
    BY NoticeFacts DEF Known, NoEntry, Absent, Player, PassTells
  <2> QED
    BY <2>1, <2>2, <2>3, <2>4, <2>5, GoesFacts
<1>4. /\ told \in [Voters -> 0 .. 2] /\ told' \in [Voters -> 0 .. 2]
      /\ Reached => \A v \in keys : told'[v] >= 1
      /\ \A v \in Voters \ keys : told'[v] = told[v]
      /\ \A v \in Voters : told'[v] >= told[v]
  <2>1. told \in [Voters -> 0 .. 2] /\ keys \subseteq Voters
    BY NoticeFacts DEF BoundsInv
  <2>2. CASE UNCHANGED told /\ ~Reached
    BY <2>1, <2>2
  <2>3. CASE Reached
    <3>1. told' \in [Voters -> 0 .. 2]
      BY <2>1, <2>3
    <3>2. \A v \in Voters : told'[v] = IF v \in keys /\ told[v] < 2 THEN told[v] + 1 ELSE told[v]
      BY <2>3
    <3>3. \A v \in Voters : told[v] \in 0 .. 2
      BY <2>1
    <3> QED
      BY <2>1, <3>1, <3>2, <3>3
  <2> QED
    BY <1>2, <2>2, <2>3
<1> HIDE DEF keys, Reached
<1>5. BoundsInv'
  <2>1. mishaps' \in 0 .. MaxMishaps
    BY <1>2, NoticeFacts, VoterIdentitiesAssumption DEF Fine, Mishap, BoundsInv
  <2> QED
    BY <1>1, <1>4, <2>1, NoticeFacts DEF BoundsInv, Known
<1>6. \A o \in Tasks \ {t} : task'[o] = task[o] /\ PassTells(task[o])'
  <2>1. \A o \in Tasks \ {t} : task[o].sending \cap keys = {}
    BY NoticeFacts DEF Apart, keys
  <2>2. \A o \in Tasks \ {t} : task[o].sending \subseteq notified'
    BY <1>2, <2>1, NoticeFacts
  <2> QED
    BY <1>1, <1>3, <2>2, OthersTell
<1>7. PassTells(task[t])' /\ \A v \in Tel : ~MayMiss(task'[t], v)
  BY <1>1, <1>3 DEF PassTells, MayMiss
<1>8. Apart'
  BY <1>3, <1>6, NoticeFacts DEF Apart
<1>9. \A v : Sent(v) <=> Sent(v)' \/ v \in keys
  BY <1>3, <1>6 DEF Sent, keys
<1>10. \A v : Sent(v)' => v \notin keys
  BY <1>3, <1>6, NoticeFacts DEF Sent, Apart, keys
<1>11. OnceInv'
  <2> SUFFICES ASSUME "lose" \notin excuse', NEW v \in Voters, v \in Tel \/ "crash" \notin excuse'
               PROVE  (/\ told[v] <= 1
                       /\ told[v] = 1 =>
                            /\ ~Sent(v)
                            /\ v \in Unmatched => v \in notified
                            /\ v \in Tel => /\ identities[v] # Absent
                                            /\ \A o \in Tasks : MayMiss(task[o], v) => v \in notified)'
    BY DEF OnceInv
  <2>1. "lose" \notin excuse /\ (v \in Tel \/ "crash" \notin excuse) /\ ~Mishap("lose")
    BY <1>2 DEF Fine, Mishap
  <2>2. /\ told[v] <= 1
        /\ told[v] = 1 =>
             /\ ~Sent(v)
             /\ v \in Unmatched => v \in notified
             /\ v \in Tel => /\ identities[v] # Absent
                             /\ \A o \in Tasks : MayMiss(task[o], v) => v \in notified
    BY <2>1 DEF NoticeInv, OnceInv
  <2>3. CASE v \notin keys
    <3>1. told'[v] = told[v] /\ (v \in notified => v \in notified')
      BY <1>2, <1>4, <2>3
    <3>2. \A o \in Tasks : v \in Tel /\ MayMiss(task'[o], v) => MayMiss(task[o], v)
      BY <1>6, <1>7
    <3> QED
      BY <1>1, <1>9, <2>2, <3>1, <3>2 DEF MayMiss
  <2>4. CASE v \in keys
    <3>1. told[v] = 0
      <4>1. Sent(v) /\ told[v] \in 0 .. 2
        BY <1>4, <1>9, <2>4
      <4> QED
        BY <2>2, <4>1
    <3>2. told'[v] <= 1
      BY <1>2, <2>1, <3>1 DEF Reached
    <3>3. ~Sent(v)'
      BY <1>10, <2>4
    <3>4. told'[v] = 1 => v \in notified'
      <4>1. v \in notified
        BY <2>4, NoticeFacts DEF keys
      <4> QED
        BY <1>2, <2>1, <3>1, <4>1
    <3>5. v \in Tel => identities[v] # Absent
      <4>1. v \in Tel => task[t].at = "warning" /\ task[t].patch[v] = Nobody
        BY <1>1, <2>4, NoticeFacts DEF PassTells, keys
      <4> QED
        BY <4>1, NoticeFacts DEF PassTells, Absent, Nobody
    <3> QED
      BY <1>1, <3>2, <3>3, <3>4, <3>5 DEF MayMiss
  <2> QED
    BY <2>3, <2>4
<1>12. LeftInv'
  <2> SUFFICES ASSUME (excuse \cap {"refuse", "crash"} = {})', NEW v \in Tel
               PROVE  (/\ v \in notified => Heard(v)
                       /\ \A o \in Tasks : task[o].at = "warning" /\ task[o].patch[v] = Nobody => Heard(v)
                       /\ identities[v] = Nobody =>
                            \/ Heard(v) \/ v \in photo
                            \/ \E o \in Tasks : task[o].at = "tell" /\ task[o].patch[v] = Nobody)'
    BY DEF LeftInv
  <2>1. excuse \cap {"refuse", "crash"} = {} /\ Reached /\ notified' \subseteq notified
    BY <1>2 DEF Fine, Mishap
  <2>2. /\ v \in notified => Heard(v)
        /\ \A o \in Tasks : task[o].at = "warning" /\ task[o].patch[v] = Nobody => Heard(v)
        /\ identities[v] = Nobody =>
             \/ Heard(v) \/ v \in photo
             \/ \E o \in Tasks : task[o].at = "tell" /\ task[o].patch[v] = Nobody
    BY <2>1 DEF NoticeInv, LeftInv
  <2>3. Heard(v) => Heard(v)'
    <3>1. v \in Voters /\ told[v] \in 0 .. 2 /\ told'[v] \in 0 .. 2 /\ told'[v] >= told[v]
      <4>1. v \in Voters
        BY DEF Voters
      <4> QED
        BY <1>4, <4>1
    <3>2. CASE v \in keys
      <4>1. told'[v] >= 1
        BY <1>4, <2>1, <3>2
      <4> QED
        BY <4>1 DEF Heard
    <3>3. CASE v \notin keys
      BY <1>9, <3>1, <3>3 DEF Heard
    <3> QED
      BY <3>2, <3>3
  <2>4. \A o \in Tasks : task'[o].at = "warning" /\ task'[o].patch[v] = Nobody => Heard(v)'
    BY <1>3, <1>6, <2>2, <2>3
  <2>5. (\E o \in Tasks : task[o].at = "tell" /\ task[o].patch[v] = Nobody) =>
           \E o \in Tasks : task'[o].at = "tell" /\ task'[o].patch[v] = Nobody
    BY <1>1, <1>6
  <2> QED
    BY <1>1, <2>1, <2>2, <2>3, <2>4, <2>5
<1> QED
  BY <1>5, <1>6, <1>7, <1>8, <1>11, <1>12 DEF NoticeInv

(* Votes, registrations, and a restart, which forgets the keys and the passes. *)
LEMMA OutsideNotice ==
  ASSUME IInv, NoticeInv, Crash \/ UNCHANGED vars \/ \E v \in Voters : Vote(v) \/ Register(v)
  PROVE  NoticeInv'
<1>1. UNCHANGED <<identities, photo, stage, frozen, told, ops>> /\ voted \subseteq voted'
      /\ registered \subseteq registered'
  BY DEF Crash, Vote, Register, job, vars
<1>2. CASE UNCHANGED <<task, notified, mishaps, excuse>>
  <2>1. BoundsInv'
    BY <1>1, <1>2 DEF NoticeInv, BoundsInv, Known
  <2>2. (\A t \in Tasks : PassTells(task[t]))' /\ Apart'
    BY <1>1, <1>2 DEF NoticeInv, PassTells, Apart
  <2>3. OnceInv' /\ LeftInv'
    BY <1>1, <1>2 DEF NoticeInv, OnceInv, LeftInv, Sent, Heard, MayMiss
  <2> QED
    BY <2>1, <2>2, <2>3 DEF NoticeInv
<1>3. CASE Crash
  <2>1. (\A t \in Tasks : task[t] = Idle)' /\ notified' = {} /\ "crash" \in excuse'
        /\ excuse \subseteq excuse' /\ mishaps' \in 0 .. MaxMishaps
    BY <1>3, VoterIdentitiesAssumption DEF Crash, Mishap, NoticeInv, BoundsInv
  <2>2. BoundsInv'
    BY <1>1, <2>1 DEF NoticeInv, BoundsInv, Known
  <2>3. (\A t \in Tasks : PassTells(task[t]))' /\ Apart' /\ \A v : ~Sent(v)'
    BY <2>1 DEF PassTells, Apart, Sent, Idle, Known, NoEntry, Absent, Player
  <2>4. (\A v \in Voters : \A t \in Tasks : ~MayMiss(task[t], v))'
    BY <2>1 DEF MayMiss, Idle
  <2>5. OnceInv'
    <3>1. \A v \in Voters : v \in Tel /\ "lose" \notin excuse' =>
            told[v] <= 1 /\ (told[v] = 1 => identities[v] # Absent)
      BY <2>1 DEF NoticeInv, OnceInv
    <3>2. \A v \in Unmatched : v \notin Tel
      BY VoterIdentitiesAssumption
    <3> QED
      BY <1>1, <2>1, <2>3, <2>4, <3>1, <3>2 DEF OnceInv
  <2>6. LeftInv'
    BY <2>1 DEF LeftInv
  <2> QED
    BY <2>2, <2>3, <2>5, <2>6 DEF NoticeInv
<1> QED
  BY <1>2, <1>3 DEF Vote, Register, worker, vars

LEMMA NextNotice == IInv /\ NoticeInv /\ [Next]_vars => NoticeInv'
<1> SUFFICES ASSUME IInv, NoticeInv, [Next]_vars PROVE NoticeInv'
  OBVIOUS
<1>1. CASE Crash \/ UNCHANGED vars \/ \E v \in Voters : Vote(v) \/ Register(v)
  BY <1>1, OutsideNotice
<1>2. ASSUME NEW t \in Tasks, Tick(t) \/ Plan(t) \/ Recompute(t) \/ Announce(t) \/ Step(t)
      PROVE  NoticeInv'
  BY <1>2, StartNotice, ReadNotice, MergeNotice, TakeNotice, TellNotice, PlanNotice, RelookupNotice,
     RememberNotice DEF Step
<1> QED
  BY <1>1, <1>2 DEF Next

(* The organiser hears of everybody left out, and of each once, though passes overlap and
   restart: OrganiserTold of the run, its types included, for any number of voters, of
   passes and of failures (refreshVotes.ts, unresolvedVoters.ts). *)
THEOREM OrganiserHearsOnce == Spec => []OrganiserTold
<1>1. Init => IInv /\ NoticeInv
  BY InitInv, InitNotice
<1>2. (IInv /\ NoticeInv) /\ [Next]_vars => (IInv /\ NoticeInv)'
  BY NextInv, NextNotice
<1>3. IInv /\ NoticeInv => OrganiserTold
  BY NoticeEnough
<1> QED
  BY <1>1, <1>2, <1>3, PTL DEF Spec
=============================================================================
