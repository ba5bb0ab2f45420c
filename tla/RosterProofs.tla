---------------------------- MODULE RosterProofs ----------------------------
(***************************************************************************)
(* What holds of the final roster, of the votes it is made from and of its *)
(* publication, for any number of players, of hours, of votes, of changes  *)
(* of vote, of operations and of failures.                                 *)
(*                                                                         *)
(* The roster alone (RosterAllocation): the invariant Sound is inductive.  *)
(* That a player has one place at most is what makes it enough to take one *)
(* seat or one turn away from him, and that a free seat excludes a waiting *)
(* list is kept because a seat goes to the first one waiting before it is  *)
(* free. On it rest the two facts about a single change of vote: the       *)
(* waiting lists are served in their order, and nobody else loses his      *)
(* seat.                                                                   *)
(*                                                                         *)
(* The votes (VoteRoster): a replay of events is a chain of accounts, one  *)
(* event apart, so what every event keeps the replay keeps, by induction   *)
(* over the rows.  Two inductive invariants carry it through the steps of  *)
(* listener and worker.  LedgerInv says what rows there are and that the   *)
(* plan's snapshot and the poll replay to the same votes; from it follow   *)
(* the soundness of the roster and that an event is one move.  PollInv     *)
(* says how the votes are dated and that a poll shows at least the events  *)
(* whose ids were listed before it was read; with LedgerInv it gives that  *)
(* no vote is lost.                                                        *)
(*                                                                         *)
(* The publication (RosterPublish): the claim is a lock that a crash       *)
(* leaves behind and a clock takes away.  It excludes as long as nobody    *)
(* outlasts it (OneWriter), and only because it does is a provisional      *)
(* text, checked once under the claim, still right when it is stored       *)
(* (FinalStays).  A job cancelled while nobody publishes is never          *)
(* published again, whatever fails (CancelledStaysDown).  What the row     *)
(* says of the group rests on the calls: as long as huddle-bot refuses     *)
(* openly, one message is pinned and known to the row (PinsTracked), and   *)
(* no text is sent twice in a row (NoRepeat).                              *)
(***************************************************************************)
EXTENDS RosterAllocation, VoteRoster, RosterPublish, FiniteSetTheorems, SequenceTheorems,
        WellFoundedInduction, TLAPS

\* An hour whose seats and waiting list are well formed, full before somebody waits, and in
\* which nobody is twice.
SoundHour(hr) == hr \in HourRoster /\ Full(hr) /\ Orderly(hr)

\* All the hours are, and nobody has a place at two.
Sound(r) ==
  /\ r \in [Hours -> HourRoster]
  /\ \A h \in Hours : SoundHour(r[h])
  /\ \A h, g \in Hours : h # g => Held(r[h]) \cap Held(r[g]) = {}

-----------------------------------------------------------------------------
(* The rank of a freed seat.                                                *)

\* A finite set of integers that is not empty has a largest element.
LEMMA MaxType ==
  ASSUME NEW S, S \subseteq Int, IsFiniteSet(S), S # {}
  PROVE  Max(S) \in S /\ \A y \in S : Max(S) >= y
<1> DEFINE Above(x) == {y \in S : y > x}
           Counts == {n \in Nat : \E x \in S : n = Cardinality(Above(x))}
<1>1. ASSUME NEW x \in S
      PROVE  IsFiniteSet(Above(x)) /\ Cardinality(Above(x)) \in Nat
  <2>1. Above(x) \in SUBSET S
    OBVIOUS
  <2>2. QED
    BY <2>1, FS_Subset, FS_CardinalityType
<1>2. Counts # {}
  BY <1>1
<1>3. PICK n \in Counts : \A m \in Counts : ~(<<m, n>> \in OpToRel(<, Nat))
  <2>1. Counts \subseteq Nat
    OBVIOUS
  <2> HIDE DEF Counts
  <2>2. QED
    BY <1>2, <2>1, NatLessThanWellFounded, WFMin
<1>4. \A m \in Counts : ~(m < n)
  BY <1>3 DEF OpToRel
<1>5. PICK x \in S : n = Cardinality(Above(x))
  OBVIOUS
<1>6. ASSUME NEW y \in S, y > x
      PROVE  FALSE
  <2>0. x \in Int /\ y \in Int /\ y > x /\ \A z \in S : z \in Int
    BY <1>6
  <2>1. Above(y) \in SUBSET Above(x) /\ y \in Above(x) /\ y \notin Above(y)
    <3>1. ASSUME NEW z \in Above(y)
          PROVE  z \in Above(x)
      BY <2>0
    <3>2. Above(y) \subseteq Above(x)
      BY <3>1
    <3>3. y \in Above(x) /\ y \notin Above(y)
      BY <2>0
    <3> HIDE DEF Above
    <3>4. QED
      BY <3>2, <3>3
  <2>2. /\ Cardinality(Above(y)) <= Cardinality(Above(x))
        /\ Cardinality(Above(x)) = Cardinality(Above(y)) => Above(x) = Above(y)
    BY <1>1, <2>1, FS_Subset
  <2>3. Cardinality(Above(y)) < n
    <3> HIDE DEF Above
    <3>1. QED
      BY <1>1, <1>5, <2>1, <2>2
  <2>4. Cardinality(Above(y)) \in Counts
    BY <1>1
  <2>5. QED
    BY <1>4, <2>3, <2>4
<1>7. \A y \in S : x >= y
  BY <1>6
<1>8. QED
  BY <1>7 DEF Max

\* The next rank is an integer: there are finitely many seats.
LEMMA NextFreedSeqType ==
  ASSUME NEW r \in [Hours -> HourRoster]
  PROVE  NextFreedSeq(r) \in Int
<1> DEFINE Ranks(h) == {r[h].slots[i].freedSeq : i \in DOMAIN r[h].slots}
           All == {Ranks(h) : h \in Hours}
<1>1. ASSUME NEW h \in Hours
      PROVE  Ranks(h) \subseteq Int /\ IsFiniteSet(Ranks(h))
  <2>1. r[h].slots \in Seq(Seat)
    BY DEF HourRoster
  <2>2. Len(r[h].slots) \in Nat /\ DOMAIN r[h].slots = 1 .. Len(r[h].slots)
    BY <2>1, LenProperties
  <2>3. \A i \in DOMAIN r[h].slots : r[h].slots[i].freedSeq \in Int
    <3>1. \A i \in DOMAIN r[h].slots : r[h].slots[i] \in Seat
      <4> HIDE DEF Ranks, All
      <4>1. QED
        BY <2>1, <2>2, ElementOfSeq
    <3>2. QED
      BY <3>1 DEF Seat
  <2> DEFINE f == [i \in DOMAIN r[h].slots |-> r[h].slots[i].freedSeq]
  <2>4. f \in Surjection(DOMAIN r[h].slots, Ranks(h))
    BY DEF Surjection
  <2>5. IsFiniteSet(DOMAIN r[h].slots)
    <3> DEFINE n == Len(r[h].slots)
    <3>1. n \in Nat
      BY <2>2
    <3>2. DOMAIN r[h].slots = 1 .. n
      BY <2>2
    <3> HIDE DEF f, Ranks, All, n
    <3>3. IsFiniteSet(1 .. n)
      BY <3>1, FS_Interval
    <3>4. QED
      BY <3>2, <3>3
  <2> HIDE DEF f
  <2>6. QED
    BY <2>3, <2>4, <2>5, FS_Surjection
<1>2. IsFiniteSet(All)
  <2> DEFINE g == [h \in Hours |-> Ranks(h)]
  <2>1. g \in Surjection(Hours, All)
    <3>1. \A h \in Hours : g[h] = Ranks(h)
      OBVIOUS
    <3>2. \A h \in Hours : Ranks(h) \in All
      OBVIOUS
    <3>3. \A t \in All : \E h \in Hours : t = Ranks(h)
      OBVIOUS
    <3> HIDE DEF Ranks, All
    <3>4. g \in [Hours -> All]
      BY <3>2
    <3>5. QED
      BY <3>1, <3>3, <3>4 DEF Surjection
  <2> HIDE DEF g, All
  <2>2. QED
    BY <2>1, AllocationAssumption, FS_Surjection
<1>3. IsFiniteSet(UNION All) /\ UNION All \subseteq Int
  <2>1. \A T \in All : IsFiniteSet(T) /\ T \subseteq Int
    BY <1>1
  <2> HIDE DEF All
  <2>2. QED
    BY <1>2, <2>1, FS_UNION
<1>4. IsFiniteSet({-1} \cup UNION All)
  <2>1. IsFiniteSet({-1})
    BY FS_Singleton
  <2> HIDE DEF All
  <2>2. QED
    BY <1>3, <2>1, FS_Union
<1>5. Max({-1} \cup UNION All) \in Int
  <2> HIDE DEF All
  <2>1. {-1} \cup UNION All \subseteq Int /\ {-1} \cup UNION All # {}
    BY <1>3
  <2>2. QED
    BY <1>4, <2>1, MaxType
<1>6. QED
  BY <1>5 DEF NextFreedSeq

-----------------------------------------------------------------------------
(* One hour.                                                                *)

(* The elements of a sequence, and that no two are the same. *)
Values(s) == {s[i] : i \in DOMAIN s}
\* No value of the list comes twice.
Distinct(s) == \A i, j \in DOMAIN s : s[i] = s[j] => i = j

\* The seats and the turns of an hour, one by one.
LEMMA HourFacts ==
  ASSUME NEW hr \in HourRoster
  PROVE  /\ hr = [slots |-> hr.slots, waiting |-> hr.waiting]
         /\ hr.slots \in Seq(Seat) /\ Len(hr.slots) \in Nat
         /\ DOMAIN hr.slots = 1 .. Len(hr.slots)
         /\ \A i \in DOMAIN hr.slots : hr.slots[i] \in Seat
         /\ hr.waiting \in Seq(Players) /\ Len(hr.waiting) \in Nat
         /\ DOMAIN hr.waiting = 1 .. Len(hr.waiting)
         /\ \A i \in DOMAIN hr.waiting : hr.waiting[i] \in Players
<1>1. hr.slots \in Seq(Seat) /\ hr.waiting \in Seq(Players)
      /\ hr = [slots |-> hr.slots, waiting |-> hr.waiting]
  BY DEF HourRoster
<1>2. QED
  BY <1>1, LenProperties, ElementOfSeq

\* Taking one player out of a waiting list.
LEMMA WithoutSound ==
  ASSUME NEW s \in Seq(Players), Distinct(s),
         NEW k \in DOMAIN s, NEW t, t = Without(s, s[k])
  PROVE  /\ t \in Seq(Players)
         /\ Distinct(t)
         /\ Values(t) = Values(s) \ {s[k]}
<1> DEFINE at == CHOOSE i \in DOMAIN s : s[i] = s[k]
           u == [i \in 1 .. Len(s) - 1 |-> IF i < at THEN s[i] ELSE s[i + 1]]
<1>1. /\ Len(s) \in Nat /\ DOMAIN s = 1 .. Len(s) /\ \A i \in DOMAIN s : s[i] \in Players
      /\ \A i, j \in DOMAIN s : s[i] = s[j] => i = j
  BY LenProperties, ElementOfSeq DEF Distinct
<1>2. at = k
  BY <1>1
<1>3. t = u
  BY DEF Without
<1>4. /\ k \in 1 .. Len(s) /\ DOMAIN t = 1 .. Len(s) - 1 /\ Len(s) - 1 \in Nat
      /\ \A i \in DOMAIN t : t[i] = IF i < k THEN s[i] ELSE s[i + 1]
  BY <1>1, <1>2, <1>3
<1>5. t = [i \in 1 .. Len(s) - 1 |-> t[i]]
  BY <1>3
<1> HIDE DEF u, at
<1>6. \A i \in DOMAIN t : t[i] \in Players
  BY <1>1, <1>4
<1>7. t \in Seq(Players)
  BY <1>4, <1>5, <1>6
<1>8. ASSUME NEW i \in DOMAIN t, NEW j \in DOMAIN t, t[i] = t[j]
      PROVE  i = j
  BY <1>1, <1>4, <1>8
<1>9. ASSUME NEW i \in DOMAIN s, i # k
      PROVE  \E j \in DOMAIN t : t[j] = s[i]
  <2>1. CASE i < k
    <3>1. i \in DOMAIN t /\ t[i] = s[i]
      BY <1>1, <1>4, <2>1
    <3>2. QED
      BY <3>1
  <2>2. CASE i > k
    <3>1. i - 1 \in DOMAIN t /\ ~(i - 1 < k) /\ i - 1 + 1 = i
      BY <1>1, <1>4, <2>2
    <3>2. t[i - 1] = s[i]
      BY <1>4, <3>1
    <3>3. QED
      BY <3>1, <3>2
  <2>3. QED
    BY <1>1, <1>4, <1>9, <2>1, <2>2
<1>10. ASSUME NEW j \in DOMAIN t
       PROVE  \E i \in DOMAIN s : i # k /\ t[j] = s[i]
  <2>1. CASE j < k
    BY <1>1, <1>4, <2>1
  <2>2. CASE ~(j < k)
    <3>1. j + 1 \in DOMAIN s /\ j + 1 # k /\ t[j] = s[j + 1]
      BY <1>1, <1>4, <2>2
    <3>2. QED
      BY <3>1
  <2>3. QED
    BY <2>1, <2>2
<1>11. Values(t) = Values(s) \ {s[k]}
  BY <1>1, <1>9, <1>10 DEF Values
<1>12. QED
  BY <1>7, <1>8, <1>11 DEF Distinct

(* The seats of an hour, one of them given to e. *)
Given(hr, k, e) == [hr.slots EXCEPT ![k] = e]

\* Changing one seat changes nothing else.
LEMMA SeatFacts ==
  ASSUME NEW hr \in HourRoster, NEW k \in DOMAIN hr.slots, NEW e \in Seat,
         NEW new, new.slots = Given(hr, k, e)
  PROVE  /\ new.slots \in Seq(Seat) /\ DOMAIN new.slots = DOMAIN hr.slots
         /\ new.slots[k] = e
         /\ \A i \in DOMAIN new.slots : i # k => new.slots[i] = hr.slots[i]
<1>1. hr.slots \in Seq(Seat) /\ k \in 1 .. Len(hr.slots)
  BY HourFacts
<1>2. QED
  BY <1>1, ExceptSeq, LenProperties DEF Given

\* A seat taken by a player has him as its key.
LEMMA OccupiedType ==
  ASSUME NEW p \in Players, NEW q \in Players \cup {Nobody}
  PROVE  Occupied(p, q) \in Seat /\ Occupied(p, q).key = p /\ p # Nobody
BY AllocationAssumption DEF Occupied, Seat

\* A seat left by a player has no key.
LEMMA LeftType ==
  ASSUME NEW p \in Players, NEW n \in Int
  PROVE  Left(p, n) \in Seat /\ Left(p, n).key = Nobody
BY DEF Left, Seat

\* What a seat given away does to the seated players of the hour.
LEMMA SeatGiven ==
  ASSUME NEW hr \in HourRoster, Orderly(hr), NEW k \in DOMAIN hr.slots,
         NEW e \in Seat, e.key \notin SeatedAt(hr),
         NEW new, new.slots = Given(hr, k, e)
  PROVE  /\ new.slots \in Seq(Seat)
         /\ \A i, j \in DOMAIN new.slots :
              new.slots[i].key = new.slots[j].key /\ new.slots[i].key # Nobody => i = j
         /\ SeatedAt(new) = (SeatedAt(hr) \ {hr.slots[k].key}) \cup ({e.key} \ {Nobody})
<1>1. /\ new.slots \in Seq(Seat) /\ DOMAIN new.slots = DOMAIN hr.slots
      /\ new.slots[k] = e
      /\ \A i \in DOMAIN new.slots : i # k => new.slots[i] = hr.slots[i]
  BY SeatFacts
<1>2. \A i, j \in DOMAIN hr.slots :
        hr.slots[i].key = hr.slots[j].key /\ hr.slots[i].key # Nobody => i = j
  BY DEF Orderly
<1>3. \A i \in DOMAIN hr.slots : hr.slots[i].key = e.key => e.key = Nobody
  BY DEF SeatedAt
<1>4. \A i, j \in DOMAIN new.slots :
        new.slots[i].key = new.slots[j].key /\ new.slots[i].key # Nobody => i = j
  BY <1>1, <1>2, <1>3
<1>5. ASSUME NEW p \in SeatedAt(new)
      PROVE  p \in (SeatedAt(hr) \ {hr.slots[k].key}) \cup ({e.key} \ {Nobody})
  <2>1. PICK i \in DOMAIN new.slots : p = new.slots[i].key /\ p # Nobody
    BY DEF SeatedAt
  <2>2. CASE i = k
    BY <1>1, <2>1, <2>2
  <2>3. CASE i # k
    <3>1. p = hr.slots[i].key /\ i \in DOMAIN hr.slots
      BY <1>1, <2>1, <2>3
    <3>2. p # hr.slots[k].key
      BY <1>2, <2>1, <2>3, <3>1
    <3>3. p \in SeatedAt(hr)
      BY <2>1, <3>1 DEF SeatedAt
    <3>4. QED
      BY <3>2, <3>3
  <2>4. QED
    BY <2>2, <2>3
<1>6. ASSUME NEW p \in (SeatedAt(hr) \ {hr.slots[k].key}) \cup ({e.key} \ {Nobody})
      PROVE  p \in SeatedAt(new)
  <2>1. CASE p \in SeatedAt(hr) \ {hr.slots[k].key}
    <3>1. PICK i \in DOMAIN hr.slots : p = hr.slots[i].key /\ p # Nobody
      BY <2>1 DEF SeatedAt
    <3>2. i # k
      BY <2>1, <3>1
    <3>3. p = new.slots[i].key /\ i \in DOMAIN new.slots
      BY <1>1, <3>1, <3>2
    <3>4. QED
      BY <3>1, <3>3 DEF SeatedAt
  <2>2. CASE p \in {e.key} \ {Nobody}
    <3>1. p = new.slots[k].key /\ k \in DOMAIN new.slots /\ p # Nobody
      BY <1>1, <2>2
    <3>2. QED
      BY <3>1 DEF SeatedAt
  <2>3. QED
    BY <2>1, <2>2
<1>7. SeatedAt(new) = (SeatedAt(hr) \ {hr.slots[k].key}) \cup ({e.key} \ {Nobody})
  BY <1>5, <1>6
<1>8. QED
  BY <1>1, <1>4, <1>7

\* A newcomer on a free seat of an hour where nobody waits.
LEMMA SeatedSound ==
  ASSUME NEW hr, SoundHour(hr), NEW k \in FreeAt(hr),
         NEW p \in Players, p \notin Held(hr), NEW q \in Players \cup {Nobody},
         NEW e, e = Occupied(p, q),
         NEW new, new = [slots |-> Given(hr, k, e), waiting |-> hr.waiting]
  PROVE  /\ SoundHour(new) /\ Held(new) = Held(hr) \cup {p}
         /\ SeatedAt(hr) \subseteq SeatedAt(new)
<1>1. /\ hr \in HourRoster /\ Orderly(hr) /\ hr.waiting = <<>>
      /\ k \in DOMAIN hr.slots /\ hr.slots[k].key = Nobody
  BY DEF SoundHour, Full, FreeAt
<1>2. /\ new.slots = Given(hr, k, e) /\ new.waiting = hr.waiting
      /\ new = [slots |-> new.slots, waiting |-> new.waiting]
  OBVIOUS
<1>3. e \in Seat /\ e.key = p /\ p # Nobody /\ p \notin SeatedAt(hr) /\ e.key \notin SeatedAt(hr)
  BY OccupiedType DEF Held
<1>4. /\ new.slots \in Seq(Seat)
      /\ \A i, j \in DOMAIN new.slots :
           new.slots[i].key = new.slots[j].key /\ new.slots[i].key # Nobody => i = j
      /\ SeatedAt(new) = (SeatedAt(hr) \ {hr.slots[k].key}) \cup ({e.key} \ {Nobody})
  BY <1>1, <1>2, <1>3, SeatGiven
<1>5. SeatedAt(new) = SeatedAt(hr) \cup {p}
  <2>1. Nobody \notin SeatedAt(hr)
    BY DEF SeatedAt
  <2>2. QED
    BY <1>1, <1>3, <1>4, <2>1
<1>6. new \in HourRoster
  BY <1>1, <1>2, <1>4, HourFacts DEF HourRoster
<1>7. WaitingAt(new) = {} /\ WaitingAt(hr) = {}
  BY <1>1, <1>2 DEF WaitingAt
<1>8. Orderly(new)
  BY <1>1, <1>2, <1>4, <1>7 DEF Orderly
<1>9. Full(new)
  BY <1>1, <1>2 DEF Full
<1>10. QED
  BY <1>5, <1>6, <1>7, <1>8, <1>9 DEF SoundHour, Held

\* The first one waiting leaves the waiting list.
LEMMA TailSound ==
  ASSUME NEW s \in Seq(Players), Distinct(s), s # <<>>,
         NEW t, t = Tail(s), NEW first, first = Head(s)
  PROVE  /\ first \in Players /\ first \in Values(s)
         /\ t \in Seq(Players)
         /\ Distinct(t)
         /\ Values(t) = Values(s) \ {first}
<1>1. /\ Len(s) \in Nat /\ DOMAIN s = 1 .. Len(s) /\ 1 \in DOMAIN s
      /\ \A i \in DOMAIN s : s[i] \in Players
      /\ \A i, j \in DOMAIN s : s[i] = s[j] => i = j
  BY LenProperties, ElementOfSeq, EmptySeq DEF Distinct
<1>2. first = s[1] /\ first \in Players /\ first \in Values(s)
  BY <1>1 DEF Values
<1>3. /\ t \in Seq(Players) /\ DOMAIN t = 1 .. Len(s) - 1
      /\ \A i \in DOMAIN t : t[i] = s[i + 1]
  <2>1. t \in Seq(Players) /\ Len(t) = Len(s) - 1 /\ \A i \in 1 .. Len(t) : t[i] = s[i + 1]
    BY HeadTailProperties
  <2>2. QED
    BY <2>1, LenProperties
<1>4. \A i, j \in DOMAIN t : t[i] = t[j] => i = j
  BY <1>1, <1>3
<1>5. ASSUME NEW i \in DOMAIN s, s[i] # first
      PROVE  \E j \in DOMAIN t : t[j] = s[i]
  <2>1. i - 1 \in DOMAIN t /\ i - 1 + 1 = i
    BY <1>1, <1>2, <1>3, <1>5
  <2>2. t[i - 1] = s[i]
    BY <1>3, <2>1
  <2>3. QED
    BY <2>1, <2>2
<1>6. ASSUME NEW j \in DOMAIN t
      PROVE  \E i \in DOMAIN s : t[j] = s[i] /\ s[i] # first
  <2>1. j + 1 \in DOMAIN s /\ j + 1 # 1 /\ t[j] = s[j + 1]
    BY <1>1, <1>3
  <2>2. QED
    BY <1>1, <1>2, <2>1
<1>7. Values(t) = Values(s) \ {first}
  <2>1. \A x \in Values(s) : x # first => x \in Values(t)
    BY <1>5 DEF Values
  <2>2. \A x \in Values(t) : x \in Values(s) /\ x # first
    BY <1>6 DEF Values
  <2>3. QED
    BY <2>1, <2>2
<1>8. QED
  BY <1>2, <1>3, <1>4, <1>7 DEF Distinct

\* A seated player leaves: his seat goes to the first one waiting, or is free.
LEMMA VacateSound ==
  ASSUME NEW hr, SoundHour(hr), NEW p \in SeatedAt(hr), p \in Players, NEW n \in Int,
         NEW new, new = Vacate(hr, p, n)
  PROVE  /\ SoundHour(new) /\ Held(new) = Held(hr) \ {p}
         /\ hr.waiting = <<>> => SeatedAt(new) = SeatedAt(hr) \ {p}
         /\ hr.waiting # <<>> => /\ SeatedAt(new) = (SeatedAt(hr) \ {p}) \cup {Head(hr.waiting)}
                                /\ new.waiting = Tail(hr.waiting)
<1> DEFINE seat == CHOOSE i \in DOMAIN hr.slots : hr.slots[i].key = p
<1>1. hr \in HourRoster /\ Orderly(hr) /\ Full(hr)
  BY DEF SoundHour
<1>2. seat \in DOMAIN hr.slots /\ hr.slots[seat].key = p
  <2>1. \E i \in DOMAIN hr.slots : hr.slots[i].key = p
    BY DEF SeatedAt
  <2>2. QED
    BY <2>1
<1>3. p # Nobody /\ p \notin WaitingAt(hr) /\ Nobody \notin SeatedAt(hr)
  BY <1>1 DEF SeatedAt, Orderly
<1>4. hr = [slots |-> hr.slots, waiting |-> hr.waiting]
  BY <1>1, HourFacts
<1>5. CASE hr.waiting = <<>>
  <2>1. new = [slots |-> Given(hr, seat, Left(p, n)), waiting |-> hr.waiting]
    BY <1>4, <1>5 DEF Vacate, Given
  <2>2. PICK e : e = Left(p, n)
    OBVIOUS
  <2>3. e \in Seat /\ e.key = Nobody
    BY <2>2, LeftType
  <2>4. new = [slots |-> Given(hr, seat, e), waiting |-> hr.waiting]
    BY <2>1, <2>2
  <2>5. new.slots = Given(hr, seat, e) /\ new.waiting = hr.waiting
        /\ new = [slots |-> new.slots, waiting |-> new.waiting]
    BY <2>4
  <2> HIDE DEF seat
  <2>6. /\ new.slots \in Seq(Seat)
        /\ \A i, j \in DOMAIN new.slots :
             new.slots[i].key = new.slots[j].key /\ new.slots[i].key # Nobody => i = j
        /\ SeatedAt(new) = (SeatedAt(hr) \ {hr.slots[seat].key}) \cup ({e.key} \ {Nobody})
    <3>1. e.key \notin SeatedAt(hr)
      BY <1>3, <2>3
    <3>2. QED
      BY <1>1, <1>2, <2>3, <2>5, <3>1, SeatGiven
  <2>7. SeatedAt(new) = SeatedAt(hr) \ {p}
    BY <1>2, <2>3, <2>6
  <2>8. WaitingAt(new) = {} /\ WaitingAt(hr) = {}
    BY <1>5, <2>5 DEF WaitingAt
  <2>9. new \in HourRoster
    BY <1>1, <2>5, <2>6, HourFacts DEF HourRoster
  <2>10. Orderly(new)
    BY <1>5, <2>5, <2>6, <2>8 DEF Orderly
  <2>11. Full(new)
    BY <1>5, <2>5 DEF Full
  <2>12. QED
    BY <1>5, <2>7, <2>8, <2>9, <2>10, <2>11 DEF SoundHour, Held
<1>6. CASE hr.waiting # <<>>
  <2>1. new = [slots |-> Given(hr, seat, Occupied(Head(hr.waiting), p)),
               waiting |-> Tail(hr.waiting)]
    BY <1>6 DEF Vacate, Given
  <2>2. PICK first, rest, e :
          first = Head(hr.waiting) /\ rest = Tail(hr.waiting) /\ e = Occupied(first, p)
    OBVIOUS
  <2>3. /\ first \in Players /\ first \in WaitingAt(hr)
        /\ rest \in Seq(Players)
        /\ Distinct(rest)
        /\ Values(rest) = WaitingAt(hr) \ {first}
    <3>1. hr.waiting \in Seq(Players) /\ Distinct(hr.waiting)
      BY <1>1, HourFacts DEF Orderly, Distinct
    <3>2. WaitingAt(hr) = Values(hr.waiting)
      BY DEF WaitingAt, Values
    <3>3. QED
      BY <1>6, <2>2, <3>1, <3>2, TailSound
  <2>4. e \in Seat /\ e.key = first /\ first # Nobody /\ first \notin SeatedAt(hr)
    <3>1. Occupied(first, p) \in Seat /\ Occupied(first, p).key = first /\ first # Nobody
      BY <2>3, OccupiedType
    <3>2. first \notin SeatedAt(hr)
      BY <1>1, <2>3 DEF Orderly
    <3>3. QED
      BY <2>2, <3>1, <3>2
  <2>5. new.slots = Given(hr, seat, e) /\ new.waiting = rest
        /\ new = [slots |-> new.slots, waiting |-> new.waiting]
    BY <2>1, <2>2
  <2> HIDE DEF seat
  <2>6. /\ new.slots \in Seq(Seat)
        /\ \A i, j \in DOMAIN new.slots :
             new.slots[i].key = new.slots[j].key /\ new.slots[i].key # Nobody => i = j
        /\ SeatedAt(new) = (SeatedAt(hr) \ {hr.slots[seat].key}) \cup ({e.key} \ {Nobody})
    <3>1. e.key \notin SeatedAt(hr)
      BY <2>4
    <3>2. QED
      BY <1>1, <1>2, <2>4, <2>5, <3>1, SeatGiven
  <2>7. SeatedAt(new) = (SeatedAt(hr) \ {p}) \cup {first}
    BY <1>2, <2>4, <2>6
  <2>8. WaitingAt(new) = WaitingAt(hr) \ {first}
    <3>1. WaitingAt(new) = Values(rest)
      BY <2>5 DEF WaitingAt, Values
    <3>2. QED
      BY <2>3, <3>1
  <2>9. new \in HourRoster
    BY <2>3, <2>5, <2>6 DEF HourRoster
  <2>10. Orderly(new)
    <3>1. SeatedAt(new) \cap WaitingAt(new) = {}
      BY <1>1, <2>7, <2>8 DEF Orderly
    <3>2. QED
      BY <2>3, <2>5, <2>6, <3>1 DEF Orderly, Distinct
  <2>11. Full(new)
    <3>1. \A i \in DOMAIN hr.slots : hr.slots[i].key # Nobody
      BY <1>1, <1>6 DEF Full, FreeAt
    <3>2. /\ DOMAIN new.slots = DOMAIN hr.slots /\ new.slots[seat] = e
          /\ \A i \in DOMAIN new.slots : i # seat => new.slots[i] = hr.slots[i]
      BY <1>1, <1>2, <2>4, <2>5, SeatFacts
    <3>3. \A i \in DOMAIN new.slots : new.slots[i].key # Nobody
      BY <2>4, <3>1, <3>2
    <3>4. QED
      BY <3>3 DEF Full, FreeAt
  <2>12. Held(new) = Held(hr) \ {p}
    BY <1>3, <2>3, <2>7, <2>8 DEF Held
  <2>13. SoundHour(new)
    BY <2>9, <2>10, <2>11 DEF SoundHour
  <2>14. QED
    BY <1>6, <2>2, <2>5, <2>7, <2>12, <2>13
<1>7. QED
  BY <1>5, <1>6

\* One more at the end of a waiting list.
LEMMA AppendSound ==
  ASSUME NEW s \in Seq(Players), Distinct(s), NEW p \in Players, p \notin Values(s),
         NEW t, t = Append(s, p)
  PROVE  t \in Seq(Players) /\ Distinct(t) /\ Values(t) = Values(s) \cup {p}
<1>1. /\ Len(s) \in Nat /\ DOMAIN s = 1 .. Len(s)
      /\ \A i, j \in DOMAIN s : s[i] = s[j] => i = j
      /\ \A i \in DOMAIN s : s[i] # p
  BY LenProperties DEF Distinct, Values
<1>2. /\ t \in Seq(Players) /\ DOMAIN t = 1 .. Len(s) + 1 /\ t[Len(s) + 1] = p
      /\ \A i \in 1 .. Len(s) : t[i] = s[i]
  BY AppendProperties, LenProperties
<1>3. \A i \in DOMAIN t : i = Len(s) + 1 \/ i \in DOMAIN s
  BY <1>1, <1>2
<1>4. Distinct(t)
  BY <1>1, <1>2, <1>3 DEF Distinct
<1>5. \A x \in Values(t) : x \in Values(s) \cup {p}
  BY <1>1, <1>2, <1>3 DEF Values
<1>6. \A x \in Values(s) \cup {p} : x \in Values(t)
  <2>1. Len(s) + 1 \in DOMAIN t /\ \A i \in DOMAIN s : i \in DOMAIN t
    BY <1>1, <1>2
  <2>2. QED
    BY <1>1, <1>2, <2>1 DEF Values
<1>7. QED
  BY <1>2, <1>4, <1>5, <1>6

\* The seat that has been free for longest is a free seat.
LEMMA OldestFree ==
  ASSUME NEW hr \in HourRoster, FreeAt(hr) # {}
  PROVE  Oldest(hr) \in FreeAt(hr)
<1> DEFINE Rank(i) == -hr.slots[i].freedSeq
           Ranks == {Rank(i) : i \in FreeAt(hr)}
           f == [i \in FreeAt(hr) |-> Rank(i)]
<1>1. \A i \in FreeAt(hr) : hr.slots[i].freedSeq \in Int
  <2>1. \A i \in FreeAt(hr) : hr.slots[i] \in Seat
    BY HourFacts DEF FreeAt
  <2>2. QED
    BY <2>1 DEF Seat
<1>2. f \in Surjection(FreeAt(hr), Ranks)
  <2>1. \A i \in FreeAt(hr) : f[i] = Rank(i)
    OBVIOUS
  <2>2. \A i \in FreeAt(hr) : Rank(i) \in Ranks
    OBVIOUS
  <2>3. \A n \in Ranks : \E i \in FreeAt(hr) : n = Rank(i)
    OBVIOUS
  <2> HIDE DEF Rank, Ranks
  <2>4. f \in [FreeAt(hr) -> Ranks]
    BY <2>2
  <2>5. QED
    BY <2>1, <2>3, <2>4 DEF Surjection
<1>3. IsFiniteSet(FreeAt(hr))
  <2>1. FreeAt(hr) \in SUBSET (1 .. Len(hr.slots)) /\ Len(hr.slots) \in Nat
    BY HourFacts DEF FreeAt
  <2>2. IsFiniteSet(1 .. Len(hr.slots))
    BY <2>1, FS_Interval
  <2>3. QED
    BY <2>1, <2>2, FS_Subset
<1>4. IsFiniteSet(Ranks)
  <2> HIDE DEF f, Ranks
  <2>1. QED
    BY <1>2, <1>3, FS_Surjection
<1>5. Ranks \subseteq Int /\ Ranks # {}
  BY <1>1
<1>6. Max(Ranks) \in Ranks /\ \A n \in Ranks : Max(Ranks) >= n
  <2> HIDE DEF Ranks
  <2>1. QED
    BY <1>4, <1>5, MaxType
<1>7. PICK i \in FreeAt(hr) : Max(Ranks) = Rank(i)
  BY <1>6
<1>8. \A j \in FreeAt(hr) : Rank(i) >= Rank(j)
  BY <1>6, <1>7
<1>9. \A j \in FreeAt(hr) : hr.slots[i].freedSeq <= hr.slots[j].freedSeq
  BY <1>1, <1>8
<1>10. QED
  BY <1>9 DEF Oldest

\* A player who holds no place in the hour enters it.
LEMMA EnterHourSound ==
  ASSUME NEW hr, SoundHour(hr), NEW p \in Players, p \notin Held(hr),
         NEW new, new = EnterHour(hr, p)
  PROVE  /\ SoundHour(new) /\ Held(new) = Held(hr) \cup {p}
         /\ SeatedAt(hr) \subseteq SeatedAt(new)
         /\ hr.waiting # <<>> => /\ SeatedAt(new) = SeatedAt(hr)
                                /\ new.waiting = Append(hr.waiting, p)
<1>1. hr \in HourRoster /\ Orderly(hr)
  BY DEF SoundHour
<1>2. hr = [slots |-> hr.slots, waiting |-> hr.waiting]
  BY <1>1, HourFacts
<1>3. CASE FreeAt(hr) # {} /\ OwnSeats(hr, p) # {}
  <2>1. PICK k \in OwnSeats(hr, p) : k = CHOOSE i \in OwnSeats(hr, p) : TRUE
    BY <1>3
  <2>2. k \in FreeAt(hr)
    BY DEF OwnSeats
  <2>3. new = [slots |-> Given(hr, k, Occupied(p, Nobody)), waiting |-> hr.waiting]
    BY <1>2, <1>3, <2>1 DEF EnterHour, TakeSeat, Given
  <2>4. hr.waiting = <<>>
    BY <1>3 DEF SoundHour, Full
  <2>5. /\ SoundHour(new) /\ Held(new) = Held(hr) \cup {p}
        /\ SeatedAt(hr) \subseteq SeatedAt(new)
    BY <2>2, <2>3, SeatedSound
  <2>6. QED
    BY <2>4, <2>5
<1>4. CASE FreeAt(hr) # {} /\ OwnSeats(hr, p) = {}
  <2>1. PICK k \in FreeAt(hr) : k = Oldest(hr)
    BY <1>1, <1>4, OldestFree
  <2>2. new = [slots |-> Given(hr, k, Occupied(p, hr.slots[k].freedBy)), waiting |-> hr.waiting]
    BY <1>2, <1>4, <2>1 DEF EnterHour, TakeSeat, Given
  <2>3. hr.slots[k].freedBy \in Players \cup {Nobody}
    <3>1. hr.slots[k] \in Seat
      BY <1>1, HourFacts DEF FreeAt
    <3>2. QED
      BY <3>1 DEF Seat
  <2>4. hr.waiting = <<>>
    BY <1>4 DEF SoundHour, Full
  <2>5. /\ SoundHour(new) /\ Held(new) = Held(hr) \cup {p}
        /\ SeatedAt(hr) \subseteq SeatedAt(new)
    BY <2>2, <2>3, SeatedSound
  <2>6. QED
    BY <2>4, <2>5
<1>5. CASE FreeAt(hr) = {}
  <2>1. PICK w : w = Append(hr.waiting, p)
    OBVIOUS
  <2>2. new.slots = hr.slots /\ new.waiting = w /\ new = [slots |-> hr.slots, waiting |-> w]
    BY <1>2, <1>5, <2>1 DEF EnterHour
  <2>3. hr.waiting \in Seq(Players) /\ Distinct(hr.waiting)
    BY <1>1, HourFacts DEF Orderly, Distinct
  <2>4. WaitingAt(hr) = Values(hr.waiting) /\ WaitingAt(new) = Values(w)
    BY <2>2 DEF WaitingAt, Values
  <2>5. w \in Seq(Players) /\ Distinct(w) /\ Values(w) = Values(hr.waiting) \cup {p}
    <3>1. p \notin Values(hr.waiting)
      BY <2>4 DEF Held
    <3>2. QED
      BY <2>1, <2>3, <3>1, AppendSound
  <2>6. SeatedAt(new) = SeatedAt(hr) /\ FreeAt(new) = {}
    BY <1>5, <2>2 DEF SeatedAt, FreeAt
  <2>7. new \in HourRoster
    BY <1>1, <2>2, <2>5, HourFacts DEF HourRoster
  <2>8. SeatedAt(new) \cap WaitingAt(new) = {}
    BY <1>1, <2>4, <2>5, <2>6 DEF Orderly, Held
  <2>9. Orderly(new)
    BY <1>1, <2>2, <2>5, <2>8 DEF Orderly, Distinct
  <2>10. Full(new)
    BY <2>6 DEF Full
  <2>11. SoundHour(new) /\ Held(new) = Held(hr) \cup {p}
    BY <2>4, <2>5, <2>6, <2>7, <2>9, <2>10 DEF SoundHour, Held
  <2>12. QED
    BY <2>1, <2>2, <2>6, <2>11
<1>6. FreeAt(hr) # {} => hr.waiting = <<>>
  BY DEF SoundHour, Full
<1>7. QED
  BY <1>3, <1>4, <1>5, <1>6

\* A player who waits gives up his turn.
LEMMA TurnLeft ==
  ASSUME NEW hr, SoundHour(hr), NEW p \in WaitingAt(hr),
         NEW new, new = [hr EXCEPT !.waiting = Without(@, p)]
  PROVE  /\ SoundHour(new) /\ Held(new) = Held(hr) \ {p}
         /\ SeatedAt(new) = SeatedAt(hr) /\ new.waiting = Without(hr.waiting, p)
<1>1. hr \in HourRoster /\ Orderly(hr) /\ Full(hr)
  BY DEF SoundHour
<1>2. PICK w : w = Without(hr.waiting, p)
  OBVIOUS
<1>3. new = [slots |-> hr.slots, waiting |-> w] /\ new.slots = hr.slots /\ new.waiting = w
  <2>1. hr = [slots |-> hr.slots, waiting |-> hr.waiting]
    BY <1>1, HourFacts
  <2>2. QED
    BY <1>2, <2>1
<1>4. hr.waiting \in Seq(Players) /\ Distinct(hr.waiting)
  BY <1>1, HourFacts DEF Orderly, Distinct
<1>5. PICK k \in DOMAIN hr.waiting : p = hr.waiting[k]
  BY DEF WaitingAt
<1>6. WaitingAt(hr) = Values(hr.waiting) /\ WaitingAt(new) = Values(w)
  BY <1>3 DEF WaitingAt, Values
<1>7. w \in Seq(Players) /\ Distinct(w) /\ Values(w) = Values(hr.waiting) \ {p}
  BY <1>2, <1>4, <1>5, WithoutSound
<1>8. SeatedAt(new) = SeatedAt(hr) /\ FreeAt(new) = FreeAt(hr)
  BY <1>3 DEF SeatedAt, FreeAt
<1>9. p \notin SeatedAt(hr) /\ SeatedAt(hr) \cap WaitingAt(hr) = {}
  BY <1>1 DEF Orderly
<1>10. new \in HourRoster
  BY <1>1, <1>3, <1>7, HourFacts DEF HourRoster
<1>11. Orderly(new)
  <2>1. SeatedAt(new) \cap WaitingAt(new) = {}
    BY <1>6, <1>7, <1>8, <1>9
  <2>2. QED
    BY <1>1, <1>3, <1>7, <2>1 DEF Orderly, Distinct
<1>12. Full(new)
  <2>1. hr.waiting # <<>>
    BY <1>5
  <2>2. QED
    BY <1>1, <1>8, <2>1 DEF Full
<1>13. SoundHour(new) /\ Held(new) = Held(hr) \ {p}
  BY <1>6, <1>7, <1>8, <1>9, <1>10, <1>11, <1>12 DEF SoundHour, Held
<1>14. QED
  BY <1>2, <1>3, <1>8, <1>13

-----------------------------------------------------------------------------
(* The roster.                                                              *)

\* A withdrawal takes one player out of every hour and moves no other.
LEMMA WithdrawSound ==
  ASSUME NEW r, Sound(r), NEW p \in Players, NEW new, new = Withdraw(r, p)
  PROVE  Sound(new) /\ \A h \in Hours : Held(new[h]) = Held(r[h]) \ {p}
<1>1. NextFreedSeq(r) \in Int
  BY NextFreedSeqType DEF Sound
<1>2. ASSUME NEW h \in Hours
      PROVE  SoundHour(new[h]) /\ Held(new[h]) = Held(r[h]) \ {p}
  <2>1. SoundHour(r[h])
    BY DEF Sound
  <2>2. CASE p \in WaitingAt(r[h])
    <3>1. new[h] = [r[h] EXCEPT !.waiting = Without(@, p)]
      BY <2>2 DEF Withdraw
    <3>2. QED
      BY <2>1, <2>2, <3>1, TurnLeft
  <2>3. CASE p \notin WaitingAt(r[h]) /\ p \in SeatedAt(r[h])
    <3>1. new[h] = Vacate(r[h], p, NextFreedSeq(r))
      BY <2>3 DEF Withdraw
    <3>2. QED
      BY <1>1, <2>1, <2>3, <3>1, VacateSound
  <2>4. CASE p \notin WaitingAt(r[h]) /\ p \notin SeatedAt(r[h])
    <3>1. new[h] = r[h]
      BY <2>4 DEF Withdraw
    <3>2. QED
      BY <2>1, <2>4, <3>1 DEF Held
  <2>5. QED
    BY <2>2, <2>3, <2>4
<1>3. new \in [Hours -> HourRoster]
  <2>1. new = [h \in Hours |-> new[h]]
    BY DEF Withdraw
  <2>2. \A h \in Hours : new[h] \in HourRoster
    BY <1>2 DEF SoundHour
  <2>3. QED
    BY <2>1, <2>2
<1>4. ASSUME NEW h \in Hours, NEW g \in Hours, h # g
      PROVE  Held(new[h]) \cap Held(new[g]) = {}
  <2>1. Held(r[h]) \cap Held(r[g]) = {}
    BY <1>4 DEF Sound
  <2>2. QED
    BY <1>2, <2>1
<1>5. QED
  BY <1>2, <1>3, <1>4 DEF Sound

\* A change of vote keeps the roster sound.
LEMMA MoveSound ==
  ASSUME NEW r, Sound(r), NEW p \in Players, NEW option, NEW new, new = Move(r, p, option)
  PROVE  Sound(new)
<1>1. CASE option \notin Hours
  BY <1>1, WithdrawSound DEF Move
<1>2. CASE option \in Hours /\ IsPlaced(r[option], p)
  BY <1>2 DEF Move
<1>3. CASE option \in Hours /\ ~IsPlaced(r[option], p)
  <2>1. PICK out : out = Withdraw(r, p)
    OBVIOUS
  <2>2. Sound(out) /\ \A h \in Hours : p \notin Held(out[h])
    BY <2>1, WithdrawSound
  <2>3. PICK hr : hr = EnterHour(out[option], p)
    OBVIOUS
  <2>4. new = [out EXCEPT ![option] = hr]
    BY <1>3, <2>1, <2>3 DEF Move, Enter
  <2>5. SoundHour(hr) /\ Held(hr) = Held(out[option]) \cup {p}
    <3>1. SoundHour(out[option]) /\ p \notin Held(out[option])
      BY <1>3, <2>2 DEF Sound
    <3>2. QED
      BY <2>3, <3>1, EnterHourSound
  <2>6. /\ new \in [Hours -> HourRoster] /\ new[option] = hr
        /\ \A h \in Hours : h # option => new[h] = out[h]
    BY <1>3, <2>2, <2>4, <2>5 DEF Sound, SoundHour
  <2>7. \A h \in Hours : SoundHour(new[h])
    BY <2>2, <2>5, <2>6 DEF Sound
  <2>8. \A h \in Hours : Held(new[h]) \subseteq Held(out[h]) \cup {p}
    BY <2>5, <2>6
  <2>9. \A h \in Hours : h # option => p \notin Held(new[h])
    BY <2>2, <2>6
  <2>10. \A h, g \in Hours : h # g => Held(new[h]) \cap Held(new[g]) = {}
    <3>1. \A h, g \in Hours : h # g => Held(out[h]) \cap Held(out[g]) = {}
      BY <2>2 DEF Sound
    <3>2. QED
      BY <2>8, <2>9, <3>1
  <2>11. QED
    BY <2>6, <2>7, <2>10 DEF Sound
<1>4. QED
  BY <1>1, <1>2, <1>3

\* The orders of the voters are sequences.
LEMMA OrdersAre ==
  ASSUME NEW s \in Orders
  PROVE  s \in Seq(Players) /\ Distinct(s)
<1>1. PICK n \in 0 .. Cardinality(Players) : s \in [1 .. n -> Players]
  BY DEF Orders
<1>2. n \in Nat
  BY <1>1
<1>3. s \in Seq(Players)
  BY <1>1, <1>2, SeqDef
<1>4. QED
  BY <1>3 DEF Orders, Distinct

\* Every voter of an hour is seated, or every one waits.
LEMMA InitialSound ==
  ASSUME NEW s \in Seq(Players), Distinct(s), NEW taken \in BOOLEAN,
         NEW hr, hr = InitialHour(s, taken)
  PROVE  SoundHour(hr) /\ Held(hr) = Values(s)
<1>1. s \in Seq(Players) /\ Distinct(s)
  OBVIOUS
<1>2. Len(s) \in Nat /\ DOMAIN s = 1 .. Len(s) /\ \A i \in DOMAIN s : s[i] \in Players
  BY <1>1, LenProperties, ElementOfSeq
<1>3. CASE ~taken
  <2>1. hr = [slots |-> <<>>, waiting |-> s] /\ hr.slots = <<>> /\ hr.waiting = s
    BY <1>3 DEF InitialHour
  <2>2. SeatedAt(hr) = {} /\ FreeAt(hr) = {} /\ WaitingAt(hr) = Values(s)
    BY <2>1 DEF SeatedAt, FreeAt, WaitingAt, Values
  <2>3. <<>> \in Seq(Seat)
    BY EmptySeq
  <2>4. hr \in HourRoster
    BY <1>1, <2>1, <2>3 DEF HourRoster
  <2>5. Orderly(hr) /\ Full(hr)
    BY <1>1, <2>1, <2>2 DEF Orderly, Full, Distinct
  <2>6. QED
    BY <2>2, <2>4, <2>5 DEF SoundHour, Held
<1>4. CASE taken
  <2>1. PICK slots : slots = [i \in DOMAIN s |-> Occupied(s[i], Nobody)]
    OBVIOUS
  <2>2. hr = [slots |-> slots, waiting |-> <<>>] /\ hr.slots = slots /\ hr.waiting = <<>>
    BY <1>4, <2>1 DEF InitialHour
  <2>3. /\ DOMAIN slots = DOMAIN s
        /\ \A i \in DOMAIN s : slots[i] \in Seat /\ slots[i].key = s[i] /\ s[i] # Nobody
    <3>1. \A i \in DOMAIN s : slots[i] = Occupied(s[i], Nobody)
      BY <2>1
    <3>2. \A i \in DOMAIN s : /\ Occupied(s[i], Nobody) \in Seat
                              /\ Occupied(s[i], Nobody).key = s[i] /\ s[i] # Nobody
      BY <1>2, OccupiedType
    <3>3. DOMAIN slots = DOMAIN s
      BY <2>1
    <3>4. QED
      BY <3>1, <3>2, <3>3
  <2>4. slots \in Seq(Seat)
    <3>1. slots = [i \in 1 .. Len(s) |-> slots[i]]
      BY <1>2, <2>1
    <3>2. \A i \in 1 .. Len(s) : slots[i] \in Seat
      BY <1>2, <2>3
    <3>3. slots \in [1 .. Len(s) -> Seat]
      BY <3>1, <3>2
    <3>4. QED
      BY <1>2, <3>3, SeqDef
  <2>5. SeatedAt(hr) = Values(s)
    BY <2>2, <2>3 DEF SeatedAt, Values
  <2>6. WaitingAt(hr) = {}
    BY <2>2 DEF WaitingAt
  <2>7. <<>> \in Seq(Players)
    BY EmptySeq
  <2>8. hr \in HourRoster
    BY <2>2, <2>4, <2>7 DEF HourRoster
  <2>9. Orderly(hr)
    BY <1>1, <2>2, <2>3, <2>6 DEF Orderly, Distinct
  <2>10. Full(hr)
    BY <2>2 DEF Full
  <2>11. QED
    BY <2>5, <2>6, <2>8, <2>9, <2>10 DEF SoundHour, Held
<1>5. QED
  BY <1>3, <1>4

\* The first roster is sound.
LEMMA InitSound == RosterInit => Sound(rosters)
<1> SUFFICES ASSUME RosterInit
             PROVE  Sound(rosters)
  OBVIOUS
<1>1. PICK ordered \in [Hours -> Orders], taken \in SUBSET Hours :
        /\ \A h, g \in Hours : \A i \in DOMAIN ordered[h], j \in DOMAIN ordered[g] :
             ordered[h][i] = ordered[g][j] => h = g
        /\ rosters = [h \in Hours |-> InitialHour(ordered[h], h \in taken)]
  BY DEF RosterInit
<1>2. ASSUME NEW h \in Hours
      PROVE  SoundHour(rosters[h]) /\ Held(rosters[h]) = Values(ordered[h])
  <2>1. PICK was : was = (h \in taken)
    OBVIOUS
  <2>2. was \in BOOLEAN /\ rosters[h] = InitialHour(ordered[h], was)
    BY <1>1, <2>1
  <2>3. ordered[h] \in Seq(Players) /\ Distinct(ordered[h])
    BY OrdersAre
  <2>4. QED
    BY <2>2, <2>3, InitialSound
<1>3. rosters \in [Hours -> HourRoster]
  BY <1>1, <1>2 DEF SoundHour
<1>4. \A h, g \in Hours : h # g => Values(ordered[h]) \cap Values(ordered[g]) = {}
  BY <1>1 DEF Values
<1>5. \A h, g \in Hours : h # g => Held(rosters[h]) \cap Held(rosters[g]) = {}
  BY <1>2, <1>4
<1>6. QED
  BY <1>2, <1>3, <1>5 DEF Sound

-----------------------------------------------------------------------------
(* The order of the waiting lists.                                          *)

(* Of two players of s who are both in t, the first one is first in t too. *)
SameOrder(s, t) ==
  \A i, j \in DOMAIN s : i < j =>
    \A k, l \in DOMAIN t : t[k] = s[i] /\ t[l] = s[j] => k < l

\* Who leaves a waiting list, from within or from its head, and who comes to its end
\* leave the others in their order.
LEMMA WithoutOrdered ==
  ASSUME NEW s \in Seq(Players), Distinct(s), NEW p \in Values(s), NEW t, t = Without(s, p)
  PROVE  SameOrder(s, t)
<1>1. PICK k \in DOMAIN s : p = s[k]
  BY DEF Values
<1>2. /\ Len(s) \in Nat /\ DOMAIN s = 1 .. Len(s)
      /\ \A i, j \in DOMAIN s : s[i] = s[j] => i = j
  BY LenProperties DEF Distinct
<1> DEFINE at == CHOOSE i \in DOMAIN s : s[i] = p
           u == [i \in 1 .. Len(s) - 1 |-> IF i < at THEN s[i] ELSE s[i + 1]]
<1>3. at = k
  BY <1>1, <1>2
<1>4. t = u
  BY DEF Without
<1>5. /\ DOMAIN t = 1 .. Len(s) - 1
      /\ \A i \in DOMAIN t : t[i] = IF i < k THEN s[i] ELSE s[i + 1]
  BY <1>3, <1>4
<1> HIDE DEF u, at
<1>6. QED
  BY <1>1, <1>2, <1>5 DEF SameOrder

\* A waiting list that loses its first player keeps the order of the others.
LEMMA TailOrdered ==
  ASSUME NEW s \in Seq(Players), Distinct(s), s # <<>>, NEW t, t = Tail(s)
  PROVE  /\ SameOrder(s, t)
         /\ 1 \in DOMAIN s /\ Head(s) = s[1]
         /\ \A i \in DOMAIN t : t[i] # Head(s)
<1>1. /\ Len(s) \in Nat /\ DOMAIN s = 1 .. Len(s) /\ 1 \in DOMAIN s
      /\ \A i, j \in DOMAIN s : s[i] = s[j] => i = j
  BY LenProperties, EmptySeq DEF Distinct
<1>2. DOMAIN t = 1 .. Len(s) - 1 /\ \A i \in DOMAIN t : t[i] = s[i + 1]
  <2>1. t \in Seq(Players) /\ Len(t) = Len(s) - 1 /\ \A i \in 1 .. Len(t) : t[i] = s[i + 1]
    BY HeadTailProperties
  <2>2. QED
    BY <2>1, LenProperties
<1>3. SameOrder(s, t)
  BY <1>1, <1>2 DEF SameOrder
<1>4. Head(s) = s[1]
  BY <1>1
<1>5. \A i \in DOMAIN t : t[i] # s[1]
  BY <1>1, <1>2
<1>6. QED
  BY <1>1, <1>3, <1>4, <1>5

\* A newcomer at the end of a waiting list overtakes nobody.
LEMMA AppendOrdered ==
  ASSUME NEW s \in Seq(Players), Distinct(s), NEW p \in Players, p \notin Values(s),
         NEW t, t = Append(s, p)
  PROVE  SameOrder(s, t)
<1>1. /\ Len(s) \in Nat /\ DOMAIN s = 1 .. Len(s)
      /\ \A i, j \in DOMAIN s : s[i] = s[j] => i = j
      /\ \A i \in DOMAIN s : s[i] # p
  BY LenProperties DEF Distinct, Values
<1>2. /\ t \in Seq(Players) /\ DOMAIN t = 1 .. Len(s) + 1 /\ t[Len(s) + 1] = p
      /\ \A i \in 1 .. Len(s) : t[i] = s[i]
  BY AppendProperties, LenProperties
<1>3. \A k \in DOMAIN t : k = Len(s) + 1 \/ (k \in DOMAIN s /\ t[k] = s[k])
  BY <1>1, <1>2
<1>4. ASSUME NEW i \in DOMAIN s, NEW k \in DOMAIN t, t[k] = s[i]
      PROVE  k = i
  BY <1>1, <1>2, <1>3, <1>4
<1>5. QED
  BY <1>4 DEF SameOrder

\* What makes one hour fair to another: the order, and that only the first one waiting is
\* given a seat, and leaves the waiting list for it.
LEMMA FairHour ==
  ASSUME NEW hr, NEW new, SameOrder(hr.waiting, new.waiting),
         \A j \in DOMAIN hr.waiting : hr.waiting[j] \in SeatedAt(new) =>
           \A i \in DOMAIN hr.waiting : ~(i < j)
  PROVE  FairTo(hr, new)
BY DEF FairTo, SameOrder

\* An hour nothing happens to, or where nobody waits.
LEMMA FairStill ==
  ASSUME NEW hr, SoundHour(hr), NEW new, new = hr \/ hr.waiting = <<>>
  PROVE  FairTo(hr, new)
<1>1. CASE new = hr
  <2>1. hr.waiting \in Seq(Players) /\ Distinct(hr.waiting)
    BY HourFacts DEF SoundHour, Orderly, Distinct
  <2>2. SameOrder(hr.waiting, new.waiting)
    BY <1>1, <2>1 DEF SameOrder, Distinct
  <2>3. \A j \in DOMAIN hr.waiting : hr.waiting[j] \notin SeatedAt(new)
    BY <1>1 DEF SoundHour, Orderly, WaitingAt
  <2>4. QED
    BY <2>2, <2>3, FairHour
<1>2. CASE hr.waiting = <<>>
  BY <1>2 DEF FairTo
<1>3. QED
  BY <1>1, <1>2

\* A withdrawal is fair, and unseats nobody else.
LEMMA WithdrawFair ==
  ASSUME NEW r, Sound(r), NEW p \in Players, NEW h \in Hours, NEW new, new = Withdraw(r, p)[h]
  PROVE  /\ FairTo(r[h], new) /\ SeatedAt(r[h]) \ {p} \subseteq SeatedAt(new)
         /\ p \notin Held(r[h]) => new = r[h]
<1>1. /\ SoundHour(r[h]) /\ NextFreedSeq(r) \in Int
      /\ r[h].waiting \in Seq(Players) /\ Distinct(r[h].waiting)
      /\ SeatedAt(r[h]) \cap WaitingAt(r[h]) = {} /\ WaitingAt(r[h]) = Values(r[h].waiting)
  BY NextFreedSeqType, HourFacts DEF Sound, SoundHour, Orderly, Distinct, WaitingAt, Values
<1>2. CASE p \in WaitingAt(r[h])
  <2>1. new = [r[h] EXCEPT !.waiting = Without(@, p)]
    BY <1>2 DEF Withdraw
  <2>2. SeatedAt(new) = SeatedAt(r[h]) /\ new.waiting = Without(r[h].waiting, p)
    BY <1>1, <1>2, <2>1, TurnLeft
  <2>3. SameOrder(r[h].waiting, new.waiting)
    BY <1>1, <1>2, <2>2, WithoutOrdered
  <2>4. \A j \in DOMAIN r[h].waiting : r[h].waiting[j] \notin SeatedAt(new)
    BY <1>1, <2>2 DEF Values
  <2>5. QED
    BY <1>2, <2>2, <2>3, <2>4, FairHour DEF Held
<1>3. CASE p \notin WaitingAt(r[h]) /\ p \in SeatedAt(r[h])
  <2>1. new = Vacate(r[h], p, NextFreedSeq(r))
    BY <1>3 DEF Withdraw
  <2>2. /\ r[h].waiting = <<>> => SeatedAt(new) = SeatedAt(r[h]) \ {p}
        /\ r[h].waiting # <<>> =>
             /\ SeatedAt(new) = (SeatedAt(r[h]) \ {p}) \cup {Head(r[h].waiting)}
             /\ new.waiting = Tail(r[h].waiting)
    BY <1>1, <1>3, <2>1, VacateSound
  <2>3. CASE r[h].waiting = <<>>
    BY <1>1, <1>3, <2>2, <2>3, FairStill DEF Held
  <2>4. CASE r[h].waiting # <<>>
    <3>1. SameOrder(r[h].waiting, new.waiting) /\ Head(r[h].waiting) = r[h].waiting[1]
          /\ 1 \in DOMAIN r[h].waiting
      BY <1>1, <2>2, <2>4, TailOrdered
    <3>2. ASSUME NEW j \in DOMAIN r[h].waiting, r[h].waiting[j] \in SeatedAt(new)
          PROVE  \A i \in DOMAIN r[h].waiting : ~(i < j)
      <4>1. r[h].waiting[j] \notin SeatedAt(r[h])
        BY <1>1 DEF Values
      <4>2. r[h].waiting[j] = r[h].waiting[1]
        BY <2>2, <2>4, <3>1, <3>2, <4>1
      <4>3. j = 1
        BY <1>1, <3>1, <4>2 DEF Distinct
      <4>4. DOMAIN r[h].waiting = 1 .. Len(r[h].waiting) /\ Len(r[h].waiting) \in Nat
        BY <1>1, LenProperties
      <4>5. QED
        BY <4>3, <4>4
    <3>3. QED
      BY <1>3, <2>2, <2>4, <3>1, <3>2, FairHour DEF Held
  <2>5. QED
    BY <2>3, <2>4
<1>4. CASE p \notin WaitingAt(r[h]) /\ p \notin SeatedAt(r[h])
  <2>1. new = r[h]
    BY <1>4 DEF Withdraw
  <2>2. QED
    BY <1>1, <2>1, FairStill
<1>5. QED
  BY <1>2, <1>3, <1>4

\* Entering an hour is fair, and unseats nobody.
LEMMA EnterFair ==
  ASSUME NEW hr, SoundHour(hr), NEW p \in Players, p \notin Held(hr), NEW new, new = EnterHour(hr, p)
  PROVE  FairTo(hr, new) /\ SeatedAt(hr) \subseteq SeatedAt(new)
<1>1. /\ SeatedAt(hr) \subseteq SeatedAt(new)
      /\ hr.waiting # <<>> => /\ SeatedAt(new) = SeatedAt(hr)
                             /\ new.waiting = Append(hr.waiting, p)
  BY EnterHourSound
<1>2. /\ hr.waiting \in Seq(Players) /\ Distinct(hr.waiting)
      /\ SeatedAt(hr) \cap WaitingAt(hr) = {} /\ WaitingAt(hr) = Values(hr.waiting)
  BY HourFacts DEF SoundHour, Orderly, Distinct, WaitingAt, Values
<1>3. CASE hr.waiting = <<>>
  BY <1>1, <1>3, FairStill
<1>4. CASE hr.waiting # <<>>
  <2>1. SameOrder(hr.waiting, new.waiting)
    <3>1. p \notin Values(hr.waiting)
      BY <1>2 DEF Held
    <3>2. QED
      BY <1>1, <1>2, <1>4, <3>1, AppendOrdered
  <2>2. \A j \in DOMAIN hr.waiting : hr.waiting[j] \notin SeatedAt(new)
    BY <1>1, <1>2, <1>4 DEF Values
  <2>3. QED
    BY <1>1, <2>1, <2>2, FairHour
<1>5. QED
  BY <1>3, <1>4

\* A change of vote is fair to every hour, and unseats the player who changes it at most:
\* at the hour he enters he had no place, so that its withdrawal left it as it was.
LEMMA MoveFair ==
  ASSUME NEW r, Sound(r), NEW p \in Players, NEW option, NEW new, new = Move(r, p, option),
         NEW h \in Hours
  PROVE  FairTo(r[h], new[h]) /\ SeatedAt(r[h]) \ {p} \subseteq SeatedAt(new[h])
<1>1. CASE option \notin Hours
  BY <1>1, WithdrawFair DEF Move
<1>2. CASE option \in Hours /\ IsPlaced(r[option], p)
  BY <1>2, FairStill DEF Move, Sound
<1>3. CASE option \in Hours /\ ~IsPlaced(r[option], p)
  <2>1. PICK out : out = Withdraw(r, p)
    OBVIOUS
  <2>2. Sound(out)
    BY <2>1, WithdrawSound
  <2>3. new = [out EXCEPT ![option] = EnterHour(out[option], p)]
    BY <1>3, <2>1 DEF Move, Enter
  <2>4. CASE h # option
    <3>1. new[h] = out[h]
      BY <2>2, <2>3, <2>4 DEF Sound
    <3>2. QED
      BY <2>1, <3>1, WithdrawFair
  <2>5. CASE h = option
    <3>1. new[h] = EnterHour(out[h], p)
      BY <2>2, <2>3, <2>5 DEF Sound
    <3>2. p \notin Held(r[h]) /\ SoundHour(r[h])
      BY <1>3, <2>5 DEF IsPlaced, Sound
    <3>3. out[h] = r[h]
      BY <2>1, <3>2, WithdrawFair
    <3>4. QED
      BY <3>1, <3>2, <3>3, EnterFair
  <2>6. QED
    BY <2>4, <2>5
<1>4. QED
  BY <1>1, <1>2, <1>3

-----------------------------------------------------------------------------
(* Theorems.                                                                *)

\* The roster stays sound through every sequence of changes of vote.
LEMMA AlwaysSound == RosterSpec => []Sound(rosters)
<1>1. Sound(rosters) /\ [ChangeVote]_rosters => Sound(rosters)'
  <2> SUFFICES ASSUME Sound(rosters), [ChangeVote]_rosters
               PROVE  Sound(rosters')
    OBVIOUS
  <2>1. CASE ChangeVote
    BY <2>1, MoveSound DEF ChangeVote
  <2>2. CASE UNCHANGED rosters
    BY <2>2
  <2>3. QED
    BY <2>1, <2>2
<1>2. QED
  BY <1>1, InitSound, PTL DEF RosterSpec

\* Seats and waiting lists keep their shape: allocation.ts never leaves a
\* seat without a key field or a waiting list with a hole.
THEOREM TypeCorrect == RosterSpec => []RosterTypeOK
<1>1. Sound(rosters) => RosterTypeOK
  BY DEF Sound, RosterTypeOK
<1>2. QED
  BY <1>1, AlwaysSound, PTL

\* Rule 1 of allocation.ts serves the waiting list before it leaves a seat
\* free, so nobody ever waits for an hour that has a free seat.
THEOREM SeatsNeverIdle == RosterSpec => []SeatsTaken
<1>1. Sound(rosters) => SeatsTaken
  BY DEF Sound, SoundHour, SeatsTaken
<1>2. QED
  BY <1>1, AlwaysSound, PTL

\* move withdraws a player from every hour before he enters one, so he holds
\* one place at most, over all seats and waiting lists of all hours.
THEOREM OnePlaceForEach == RosterSpec => []OnePlaceEach
<1>1. Sound(rosters) => OnePlaceEach
  BY DEF Sound, SoundHour, OnePlaceEach
<1>2. QED
  BY <1>1, AlwaysSound, PTL

\* Of two players waiting for an hour, the second one gets no seat and does not pass
\* ahead while the first one waits, whatever change of vote comes.
THEOREM FirstComeFirstServed == RosterSpec => ServedInOrder
<1>1. Sound(rosters) /\ [ChangeVote]_rosters =>
        [\A h \in Hours : FairTo(rosters[h], rosters'[h])]_rosters
  BY MoveFair DEF ChangeVote
<1>2. QED
  BY <1>1, AlwaysSound, PTL DEF RosterSpec, ServedInOrder

\* move and withdraw take nobody's seat but that of the player who votes.
THEOREM NobodyElseUnseated == RosterSpec => SeatsKept
<1> DEFINE KeptIn(new) ==
             \A p \in Players, option \in Hours \cup {Nobody} :
               new = Move(rosters, p, option) =>
                 \A h \in Hours : SeatedAt(rosters[h]) \ {p} \subseteq SeatedAt(new[h])
<1>1. ASSUME Sound(rosters), NEW p \in Players, NEW option \in Hours \cup {Nobody},
             rosters' = Move(rosters, p, option), NEW h \in Hours
      PROVE  SeatedAt(rosters[h]) \ {p} \subseteq SeatedAt(rosters'[h])
  BY <1>1, MoveFair
<1>2. Sound(rosters) /\ [ChangeVote]_rosters => [KeptIn(rosters')]_rosters
  BY <1>1
<1>3. QED
  BY <1>2, AlwaysSound, PTL DEF RosterSpec, SeatsKept

(***************************************************************************)
(* Induction, for a set.                                                   *)
(***************************************************************************)
LEMMA SetInduction ==
  ASSUME NEW G, 0 \in G, \A n \in Nat : n \in G => n + 1 \in G
  PROVE  Nat \subseteq G
<1> DEFINE Bad == Nat \ G
<1> SUFFICES ASSUME Bad # {} PROVE FALSE
  OBVIOUS
<1>1. PICK x \in Bad : \A y \in Bad : ~(<<y, x>> \in OpToRel(<, Nat))
  <2>1. Bad \subseteq Nat
    OBVIOUS
  <2> HIDE DEF Bad
  <2> QED
    BY <2>1, NatLessThanWellFounded, WFMin
<1>2. \A y \in Bad : ~(y < x)
  BY <1>1 DEF OpToRel
<1>3. x \in Nat /\ x # 0 /\ x - 1 \in Nat /\ x - 1 < x
  OBVIOUS
<1>4. x - 1 \in G
  BY <1>2, <1>3
<1>5. x \in G
  BY <1>3, <1>4
<1> QED
  BY <1>5

\* The same up to a bound.
LEMMA UpTo ==
  ASSUME NEW G, NEW n \in Nat, 0 \in G, \A k \in 0 .. n - 1 : k \in G => k + 1 \in G
  PROVE  \A k \in 0 .. n : k \in G
<1> DEFINE H == {k \in Nat : k <= n => k \in G}
<1>1. 0 \in H
  OBVIOUS
<1>2. ASSUME NEW k \in Nat, k \in H PROVE k + 1 \in H
  <2>1. CASE k + 1 <= n
    <3>1. k \in 0 .. n - 1 /\ k <= n
      BY <2>1
    <3>2. k \in G
      BY <1>2, <3>1
    <3> QED
      BY <3>1, <3>2
  <2>2. CASE ~(k + 1 <= n)
    BY <2>2
  <2> QED
    BY <2>1, <2>2
<1>3. Nat \subseteq H
  <2> HIDE DEF H
  <2> QED
    BY <1>1, <1>2, SetInduction
<1> QED
  BY <1>3
-----------------------------------------------------------------------------
(* A fold over a sequence is its elements applied one after the other.      *)

\* What the ledger is after each of the n first events.
From(from) == [state |-> from.state, applied |-> <<>>, ids |-> from.ids]
Replays(L, events, from, rows, n) ==
  /\ L[0] = From(from)
  /\ \A k \in 1 .. n : L[k] = ApplyEvent(events, from.ids, L[k - 1], rows[k])

\* The replay of the module, as a function of the events.
Replay(events, from, rows) ==
  FoldLeft(LAMBDA ledger, i : ApplyEvent(events, from.ids, ledger, i), From(from), rows)

\* The function FoldLeft is defined with: on a set of positions, the events there.
Folds(f, events, from, rows, n) ==
  f = [s \in SUBSET (1 .. n) |->
         IF s = {} THEN From(from)
         ELSE ApplyEvent(events, from.ids, f[s \ {Max(s)}], rows[Max(s)])]

\* The largest place of a set that holds n + 1, of the first n + 1 places, is n + 1.
LEMMA LastOfThem ==
  ASSUME NEW n \in Nat, NEW s \in SUBSET (1 .. n + 1), n + 1 \in s
  PROVE  Max(s) = n + 1 /\ s \ {Max(s)} \in SUBSET (1 .. n)
<1>1. \A y \in s : n + 1 >= y /\ y \in Int
  OBVIOUS
<1>2. Max(s) \in s /\ \A y \in s : Max(s) >= y
  BY <1>1 DEF Max
<1>3. Max(s) = n + 1
  <2>1. PICK m \in Int : m = Max(s)
    BY <1>1, <1>2
  <2>2. m >= n + 1 /\ n + 1 >= m
    BY <1>1, <1>2, <2>1
  <2> QED
    BY <2>1, <2>2
<1> QED
  BY <1>3

\* There is such a function, whatever the events do: one more place is one more event.
LEMMA FoldExists ==
  ASSUME NEW events, NEW from, NEW rows, NEW n \in Nat
  PROVE  \E f : Folds(f, events, from, rows, n)
<1> DEFINE G == {k \in Nat : \E f : Folds(f, events, from, rows, k)}
<1>1. 0 \in G
  <2> DEFINE f == [s \in SUBSET (1 .. 0) |-> From(from)]
  <2>1. \A s \in SUBSET (1 .. 0) : s = {}
    OBVIOUS
  <2>2. Folds(f, events, from, rows, 0)
    BY <2>1 DEF Folds
  <2> QED
    BY <2>2
<1>2. ASSUME NEW k \in Nat, k \in G PROVE k + 1 \in G
  <2>1. PICK f : Folds(f, events, from, rows, k)
    BY <1>2
  <2> DEFINE g == [s \in SUBSET (1 .. k + 1) |->
                     IF k + 1 \in s
                     THEN ApplyEvent(events, from.ids, f[s \ {k + 1}], rows[k + 1])
                     ELSE f[s]]
             Equation(s) == IF s = {} THEN From(from)
                            ELSE ApplyEvent(events, from.ids, g[s \ {Max(s)}], rows[Max(s)])
  <2>2. \A s \in SUBSET (1 .. k) : s \in SUBSET (1 .. k + 1) /\ k + 1 \notin s /\ g[s] = f[s]
    OBVIOUS
  <2>3. ASSUME NEW s \in SUBSET (1 .. k + 1) PROVE g[s] = Equation(s)
    <3>1. CASE k + 1 \in s
      <4>1. Max(s) = k + 1 /\ s \ {k + 1} \in SUBSET (1 .. k) /\ s # {}
        BY <3>1, LastOfThem
      <4>2. g[s \ {k + 1}] = f[s \ {k + 1}]
        BY <4>1, <2>2
      <4>3. g[s] = ApplyEvent(events, from.ids, f[s \ {k + 1}], rows[k + 1])
        BY <3>1
      <4> HIDE DEF g
      <4> QED
        BY <4>1, <4>2, <4>3
    <3>2. CASE k + 1 \notin s
      <4>1. s \in SUBSET (1 .. k) /\ s \ {Max(s)} \in SUBSET (1 .. k)
        <5>1. \A x \in s : x \in 1 .. k + 1 /\ x # k + 1
          BY <3>2
        <5>2. \A x \in s : x \in 1 .. k
          BY <5>1
        <5> QED
          BY <5>2
      <4>2. f[s] = IF s = {} THEN From(from)
                   ELSE ApplyEvent(events, from.ids, f[s \ {Max(s)}], rows[Max(s)])
        BY <2>1, <4>1 DEF Folds
      <4>3. g[s] = f[s] /\ g[s \ {Max(s)}] = f[s \ {Max(s)}]
        BY <4>1, <2>2
      <4> HIDE DEF g
      <4> QED
        BY <4>2, <4>3
    <3> QED
      BY <3>1, <3>2
  <2>4. Folds(g, events, from, rows, k + 1)
    <3>1. g = [s \in SUBSET (1 .. k + 1) |-> g[s]]
      OBVIOUS
    <3> HIDE DEF g
    <3> QED
      BY <2>3, <3>1 DEF Folds
  <2> QED
    BY <2>4
<1> HIDE DEF G
<1>3. Nat \subseteq G
  BY <1>1, <1>2, SetInduction
<1> QED
  BY <1>3 DEF G

\* A replay of n events is a chain of n accounts: the last of them is its result.
LEMMA ReplayChain ==
  ASSUME NEW events, NEW from, NEW rows, NEW n \in Nat, DOMAIN rows = 1 .. n
  PROVE  \E L : Replays(L, events, from, rows, n) /\ Replay(events, from, rows) = L[n]
<1> DEFINE f == CHOOSE g : Folds(g, events, from, rows, n)
           L == [k \in 0 .. n |-> f[1 .. k]]
<1>1. Folds(f, events, from, rows, n)
  BY FoldExists
<1>2. Replay(events, from, rows) = f[1 .. n]
  BY DEF Replay, FoldLeft, MapThenFoldSet, Folds
<1> HIDE DEF f
<1>3. \A s \in SUBSET (1 .. n) : 
        f[s] = IF s = {} THEN From(from)
               ELSE ApplyEvent(events, from.ids, f[s \ {Max(s)}], rows[Max(s)])
  BY <1>1 DEF Folds
<1>4. L[0] = From(from)
  <2>1. 1 .. 0 = {} /\ {} \in SUBSET (1 .. n)
    OBVIOUS
  <2> QED
    BY <2>1, <1>3
<1>5. ASSUME NEW k \in 1 .. n PROVE L[k] = ApplyEvent(events, from.ids, L[k - 1], rows[k])
  <2>1. k - 1 \in Nat /\ k - 1 \in 0 .. n /\ 1 .. k \in SUBSET (1 .. n) /\ k \in 1 .. k
    OBVIOUS
  <2>2. Max(1 .. k) = k
    <3>1. PICK j \in Nat : j = k - 1
      BY <2>1
    <3>2. k = j + 1
      BY <3>1
    <3> QED
      BY <3>2, <2>1, LastOfThem
  <2>3. (1 .. k) \ {k} = 1 .. k - 1
    BY <2>1
  <2>4. f[1 .. k] = ApplyEvent(events, from.ids, f[1 .. k - 1], rows[k])
    BY <1>3, <2>1, <2>2, <2>3
  <2> QED
    BY <2>1, <2>4
<1>6. Replays(L, events, from, rows, n)
  <2> HIDE DEF L
  <2> QED
    BY <1>4, <1>5 DEF Replays
<1>7. L[n] = f[1 .. n]
  OBVIOUS
<1> QED
  BY <1>2, <1>6, <1>7

\* There is one such account of the events, whatever the name of the events: two lists
\* that do the same at each place do the same in the end.
Alike(events, others, from, rows, copies, n) ==
  \A k \in 1 .. n : \A x : ApplyEvent(events, from.ids, x, rows[k])
                          = ApplyEvent(others, from.ids, x, copies[k])

\* Two replays whose events do the same at each place have the same accounts.
LEMMA ReplayUnique ==
  ASSUME NEW n \in Nat, NEW L, NEW M, NEW events, NEW others, NEW from, NEW rows, NEW copies,
         Replays(L, events, from, rows, n), Replays(M, others, from, copies, n),
         Alike(events, others, from, rows, copies, n)
  PROVE  \A k \in 0 .. n : L[k] = M[k]
<1> DEFINE G == {k \in 0 .. n : L[k] = M[k]}
<1>1. 0 \in G
  BY DEF Replays
<1>2. ASSUME NEW k \in 0 .. n - 1, k \in G PROVE k + 1 \in G
  <2>1. k + 1 \in 1 .. n /\ (k + 1) - 1 = k
    OBVIOUS
  <2>2. /\ L[k + 1] = ApplyEvent(events, from.ids, L[k], rows[k + 1])
        /\ M[k + 1] = ApplyEvent(others, from.ids, M[k], copies[k + 1])
    BY <2>1 DEF Replays
  <2> QED
    BY <1>2, <2>1, <2>2 DEF Alike
<1> HIDE DEF G
<1>3. \A k \in 0 .. n : k \in G
  BY <1>1, <1>2, UpTo
<1> QED
  BY <1>3 DEF G

\* Whatever accounts follow the events one by one, the replay is the last of them.
LEMMA ReplayIs ==
  ASSUME NEW n \in Nat, NEW L, NEW events, NEW from, NEW rows, DOMAIN rows = 1 .. n,
         Replays(L, events, from, rows, n)
  PROVE  Replay(events, from, rows) = L[n]
<1>1. PICK M : Replays(M, events, from, rows, n) /\ Replay(events, from, rows) = M[n]
  BY ReplayChain
<1>2. \A k \in 0 .. n : L[k] = M[k]
  <2>1. Alike(events, events, from, rows, rows, n)
    BY DEF Alike
  <2> QED
    BY <1>1, <2>1, ReplayUnique
<1> QED
  BY <1>1, <1>2

\* Without rows the replay is its base.
LEMMA ReplayNothing ==
  ASSUME NEW events, NEW from, NEW rows, rows = <<>>
  PROVE  Replay(events, from, rows) = From(from)
<1>1. DOMAIN rows = 1 .. 0
  OBVIOUS
<1>2. PICK L : Replays(L, events, from, rows, 0) /\ Replay(events, from, rows) = L[0]
  BY <1>1, ReplayChain
<1> QED
  BY <1>2 DEF Replays

\* One more event is one more step.
LEMMA ReplayOneMore ==
  ASSUME NEW events, NEW from, NEW S, NEW rows \in Seq(S), NEW i \in S
  PROVE  Replay(events, from, Append(rows, i))
         = ApplyEvent(events, from.ids, Replay(events, from, rows), i)
<1> DEFINE all == Append(rows, i)
<1>1. PICK n \in Nat : n = Len(rows)
  BY LenProperties
<1>2. /\ DOMAIN rows = 1 .. n /\ DOMAIN all = 1 .. n + 1 /\ n + 1 \in Nat /\ all[n + 1] = i
      /\ \A k \in 1 .. n : all[k] = rows[k]
  BY <1>1, AppendProperties, LenProperties
<1> HIDE DEF all
<1>3. PICK L : Replays(L, events, from, all, n + 1) /\ Replay(events, from, all) = L[n + 1]
  BY <1>2, ReplayChain
<1>4. Replays(L, events, from, rows, n)
  <2>1. \A k \in 1 .. n : k \in 1 .. n + 1
    OBVIOUS
  <2> QED
    BY <1>2, <1>3, <2>1 DEF Replays
<1>5. Replay(events, from, rows) = L[n]
  BY <1>2, <1>4, ReplayIs
<1>6. L[n + 1] = ApplyEvent(events, from.ids, L[n], i)
  <2>1. n + 1 \in 1 .. n + 1 /\ (n + 1) - 1 = n
    OBVIOUS
  <2> QED
    BY <1>2, <1>3, <2>1 DEF Replays
<1> QED
  BY <1>3, <1>5, <1>6 DEF all

\* Votes cast since then change nothing.
LEMMA ReplayFrame ==
  ASSUME NEW events, NEW others, NEW from, NEW S, NEW rows \in Seq(S),
         \A k \in DOMAIN rows : others[rows[k]] = events[rows[k]]
  PROVE  Replay(others, from, rows) = Replay(events, from, rows)
<1>1. PICK n \in Nat : n = Len(rows) /\ DOMAIN rows = 1 .. n
  BY LenProperties
<1>2. PICK L : Replays(L, events, from, rows, n) /\ Replay(events, from, rows) = L[n]
  BY <1>1, ReplayChain
<1>3. PICK M : Replays(M, others, from, rows, n) /\ Replay(others, from, rows) = M[n]
  BY <1>1, ReplayChain
<1>4. Alike(events, others, from, rows, rows, n)
  <2>1. ASSUME NEW k \in 1 .. n, NEW x
        PROVE  ApplyEvent(events, from.ids, x, rows[k]) = ApplyEvent(others, from.ids, x, rows[k])
    <3>1. others[rows[k]] = events[rows[k]]
      BY <1>1
    <3> QED
      BY <3>1 DEF ApplyEvent
  <2> QED
    BY <2>1 DEF Alike
<1>5. \A k \in 0 .. n : L[k] = M[k]
  BY <1>2, <1>3, <1>4, ReplayUnique
<1> QED
  BY <1>2, <1>3, <1>5

\* The same for the moves of the roster.
MoveBy(r, move) == Move(r, move.voter, move.option)
Plays(L, r, moves, n) ==
  /\ L[0] = r
  /\ \A k \in 1 .. n : L[k] = MoveBy(L[k - 1], moves[k])

\* The function FoldLeft is defined with.
MoveFolds(f, r, moves, n) ==
  f = [s \in SUBSET (1 .. n) |->
         IF s = {} THEN r ELSE MoveBy(f[s \ {Max(s)}], moves[Max(s)])]

\* There is such a function, for any list of moves.
LEMMA MoveFoldExists ==
  ASSUME NEW r, NEW moves, NEW n \in Nat
  PROVE  \E f : MoveFolds(f, r, moves, n)
<1> DEFINE G == {k \in Nat : \E f : MoveFolds(f, r, moves, k)}
<1>1. 0 \in G
  <2> DEFINE f == [s \in SUBSET (1 .. 0) |-> r]
  <2>1. \A s \in SUBSET (1 .. 0) : s = {}
    OBVIOUS
  <2>2. MoveFolds(f, r, moves, 0)
    BY <2>1 DEF MoveFolds
  <2> QED
    BY <2>2
<1>2. ASSUME NEW k \in Nat, k \in G PROVE k + 1 \in G
  <2>1. PICK f : MoveFolds(f, r, moves, k)
    BY <1>2
  <2> DEFINE g == [s \in SUBSET (1 .. k + 1) |->
                     IF k + 1 \in s
                     THEN MoveBy(f[s \ {k + 1}], moves[k + 1])
                     ELSE f[s]]
             Equation(s) == IF s = {} THEN r
                            ELSE MoveBy(g[s \ {Max(s)}], moves[Max(s)])
  <2>2. \A s \in SUBSET (1 .. k) : s \in SUBSET (1 .. k + 1) /\ k + 1 \notin s /\ g[s] = f[s]
    OBVIOUS
  <2>3. ASSUME NEW s \in SUBSET (1 .. k + 1) PROVE g[s] = Equation(s)
    <3>1. CASE k + 1 \in s
      <4>1. Max(s) = k + 1 /\ s \ {k + 1} \in SUBSET (1 .. k) /\ s # {}
        BY <3>1, LastOfThem
      <4>2. g[s \ {k + 1}] = f[s \ {k + 1}]
        BY <4>1, <2>2
      <4>3. g[s] = MoveBy(f[s \ {k + 1}], moves[k + 1])
        BY <3>1
      <4> HIDE DEF g
      <4> QED
        BY <4>1, <4>2, <4>3
    <3>2. CASE k + 1 \notin s
      <4>1. s \in SUBSET (1 .. k) /\ s \ {Max(s)} \in SUBSET (1 .. k)
        <5>1. \A x \in s : x \in 1 .. k + 1 /\ x # k + 1
          BY <3>2
        <5>2. \A x \in s : x \in 1 .. k
          BY <5>1
        <5> QED
          BY <5>2
      <4>2. f[s] = IF s = {} THEN r
                   ELSE MoveBy(f[s \ {Max(s)}], moves[Max(s)])
        BY <2>1, <4>1 DEF MoveFolds
      <4>3. g[s] = f[s] /\ g[s \ {Max(s)}] = f[s \ {Max(s)}]
        BY <4>1, <2>2
      <4> HIDE DEF g
      <4> QED
        BY <4>2, <4>3
    <3> QED
      BY <3>1, <3>2
  <2>4. MoveFolds(g, r, moves, k + 1)
    <3>1. g = [s \in SUBSET (1 .. k + 1) |-> g[s]]
      OBVIOUS
    <3> HIDE DEF g
    <3> QED
      BY <2>3, <3>1 DEF MoveFolds
  <2> QED
    BY <2>4
<1> HIDE DEF G
<1>3. Nat \subseteq G
  BY <1>1, <1>2, SetInduction
<1> QED
  BY <1>3 DEF G

\* The moves played on a roster are a chain of rosters: the last of them is their result.
LEMMA MoveChain ==
  ASSUME NEW r, NEW moves, NEW n \in Nat, DOMAIN moves = 1 .. n
  PROVE  \E L : Plays(L, r, moves, n) /\ ApplyMoves(r, moves) = L[n]
<1> DEFINE f == CHOOSE g : MoveFolds(g, r, moves, n)
           L == [k \in 0 .. n |-> f[1 .. k]]
<1>1. MoveFolds(f, r, moves, n)
  BY MoveFoldExists
<1>2. ApplyMoves(r, moves) = f[1 .. n]
  BY DEF ApplyMoves, MoveBy, FoldLeft, MapThenFoldSet, MoveFolds
<1> HIDE DEF f
<1>3. \A s \in SUBSET (1 .. n) : 
        f[s] = IF s = {} THEN r
               ELSE MoveBy(f[s \ {Max(s)}], moves[Max(s)])
  BY <1>1 DEF MoveFolds
<1>4. L[0] = r
  <2>1. 1 .. 0 = {} /\ {} \in SUBSET (1 .. n) /\ 0 \in 0 .. n
    OBVIOUS
  <2>2. f[{}] = r
    BY <2>1, <1>3
  <2>3. L[0] = f[1 .. 0]
    BY <2>1
  <2> HIDE DEF L
  <2> QED
    BY <2>1, <2>2, <2>3
<1>5. ASSUME NEW k \in 1 .. n PROVE L[k] = MoveBy(L[k - 1], moves[k])
  <2>1. k - 1 \in Nat /\ k - 1 \in 0 .. n /\ 1 .. k \in SUBSET (1 .. n) /\ k \in 1 .. k
    OBVIOUS
  <2>2. Max(1 .. k) = k
    <3>1. PICK j \in Nat : j = k - 1
      BY <2>1
    <3>2. k = j + 1
      BY <3>1
    <3> QED
      BY <3>2, <2>1, LastOfThem
  <2>3. (1 .. k) \ {k} = 1 .. k - 1
    BY <2>1
  <2>4. f[1 .. k] = MoveBy(f[1 .. k - 1], moves[k])
    BY <1>3, <2>1, <2>2, <2>3
  <2> QED
    BY <2>1, <2>4
<1>6. Plays(L, r, moves, n)
  <2> HIDE DEF L
  <2> QED
    BY <1>4, <1>5 DEF Plays
<1>7. L[n] = f[1 .. n]
  OBVIOUS
<1> QED
  BY <1>2, <1>6, <1>7


\* Without moves the roster stays as it is.
LEMMA NoMove ==
  ASSUME NEW r, NEW moves, moves = <<>>
  PROVE  ApplyMoves(r, moves) = r
<1>1. DOMAIN moves = 1 .. 0
  OBVIOUS
<1>2. PICK L : Plays(L, r, moves, 0) /\ ApplyMoves(r, moves) = L[0]
  BY <1>1, MoveChain
<1> QED
  BY <1>2 DEF Plays

\* One more move at the end of the list is one move of the roster the others give.
LEMMA OneMoreMove ==
  ASSUME NEW r, NEW S, NEW moves \in Seq(S), NEW move \in S
  PROVE  ApplyMoves(r, Append(moves, move)) = MoveBy(ApplyMoves(r, moves), move)
<1> DEFINE all == Append(moves, move)
<1>1. PICK n \in Nat : n = Len(moves)
  BY LenProperties
<1>2. /\ DOMAIN moves = 1 .. n /\ DOMAIN all = 1 .. n + 1 /\ n + 1 \in Nat /\ all[n + 1] = move
      /\ \A k \in 1 .. n : all[k] = moves[k]
  BY <1>1, AppendProperties, LenProperties
<1> HIDE DEF all
<1>3. PICK L : Plays(L, r, all, n + 1) /\ ApplyMoves(r, all) = L[n + 1]
  BY <1>2, MoveChain
<1>4. PICK M : Plays(M, r, moves, n) /\ ApplyMoves(r, moves) = M[n]
  BY <1>2, MoveChain
<1> DEFINE G == {k \in 0 .. n : L[k] = M[k]}
<1>5. 0 \in G
  BY <1>3, <1>4 DEF Plays
<1>6. ASSUME NEW k \in 0 .. n - 1, k \in G PROVE k + 1 \in G
  <2>1. k + 1 \in 1 .. n /\ k + 1 \in 1 .. n + 1 /\ (k + 1) - 1 = k
    OBVIOUS
  <2>2. L[k + 1] = MoveBy(L[k], all[k + 1]) /\ M[k + 1] = MoveBy(M[k], moves[k + 1])
    BY <1>3, <1>4, <2>1 DEF Plays
  <2> QED
    BY <1>2, <1>6, <2>1, <2>2
<1>7. \A k \in 0 .. n : k \in G
  <2> HIDE DEF G
  <2> QED
    BY <1>5, <1>6, UpTo
<1>8. L[n] = M[n]
  BY <1>7
<1>9. L[n + 1] = MoveBy(L[n], move)
  <2>1. n + 1 \in 1 .. n + 1 /\ (n + 1) - 1 = n
    OBVIOUS
  <2> QED
    BY <1>2, <1>3, <2>1 DEF Plays
<1> QED
  BY <1>3, <1>4, <1>8, <1>9 DEF all

-----------------------------------------------------------------------------
(* What a replay of the votes gives.                                        *)

\* An event of the listener, an answer to the poll, and an account of the events replayed.
Event == [voter : Players, option : Options \cup {NoVote}, empty : BOOLEAN, at : Nat]
Answer == Hours \cup {Substitute, Nobody}
Account == [state : Ledger, applied : Seq([voter : Players, option : Answer]), ids : SUBSET Nat]

\* A base to replay from, and rows of events that exist.
Base(from) == from.state \in Ledger /\ from.ids \subseteq Nat
Rows(rows, events, n) == DOMAIN rows = 1 .. n /\ \A k \in 1 .. n : rows[k] \in DOMAIN events

\* An event of the list has a number, a voter, and a date.
LEMMA EventFacts ==
  ASSUME NEW events \in Seq(Event), NEW i \in DOMAIN events
  PROVE  /\ events[i] \in Event /\ i \in Nat /\ i > 0
         /\ events[i].voter \in Players /\ events[i].empty \in BOOLEAN /\ events[i].at \in Nat
<1>1. events[i] \in Event /\ DOMAIN events = 1 .. Len(events) /\ Len(events) \in Nat
  BY LenProperties, ElementOfSeq
<1> QED
  BY <1>1 DEF Event

\* normalizeOption gives an hour, substitute, or nothing.
LEMMA NormalizeType == \A option : NormalizeOption(option) \in Answer
BY DEF NormalizeOption, Answer

\* An event that changes nothing: out of date, or an empty one with nothing to retract.
Ignored(ledger, event) == Stale(ledger.state, event) \/ NothingToRetract(ledger.state, event)
\* The date an event leaves in the ledger.
Date(event) == IF event.empty THEN event.at - 1 ELSE event.at

\* What one event makes of an account of the votes.
Effect(events, known, ledger, new, i) ==
  /\ new \in Account
  /\ i \in known => new = ledger
  /\ i \notin known => new.ids = ledger.ids \cup {i}
  /\ i \notin known /\ Ignored(ledger, events[i]) =>
       new.state = ledger.state /\ new.applied = ledger.applied
  /\ i \notin known /\ ~Ignored(ledger, events[i]) =>
       /\ new.state = [ledger.state EXCEPT ![events[i].voter] =
                         [option |-> NormalizeOption(events[i].option), lastAt |-> Date(events[i])]]
       /\ new.applied = Append(ledger.applied, [voter |-> events[i].voter,
                                                option |-> NormalizeOption(events[i].option)])

\* applyVoteEvents has the effect above for each event: known and ignored ones change nothing,
\* the others enter the ledger and the list of moves.
LEMMA ApplyFacts ==
  ASSUME NEW events \in Seq(Event), NEW i \in DOMAIN events, NEW known, NEW ledger \in Account
  PROVE  Effect(events, known, ledger, ApplyEvent(events, known, ledger, i), i)
<1> DEFINE event == events[i]
           new == ApplyEvent(events, known, ledger, i)
<1>1. /\ i \in Nat /\ event.voter \in Players /\ event.empty \in BOOLEAN /\ event.at \in Nat
      /\ NormalizeOption(event.option) \in Answer
  BY EventFacts, NormalizeType
<1>2. CASE i \in known
  BY <1>2 DEF ApplyEvent, Effect
<1>3. CASE i \notin known /\ Ignored(ledger, event)
  <2>1. new = [ledger EXCEPT !.ids = @ \cup {i}]
    BY <1>3 DEF ApplyEvent, Ignored
  <2> QED
    BY <1>1, <1>3, <2>1 DEF Account, Effect
<1>4. CASE i \notin known /\ ~Ignored(ledger, event)
  <2> DEFINE vote == [option |-> NormalizeOption(event.option), lastAt |-> Date(event)]
             move == [voter |-> event.voter, option |-> NormalizeOption(event.option)]
  <2>1. new = [state |-> [ledger.state EXCEPT ![event.voter] = vote],
               applied |-> Append(ledger.applied, move), ids |-> ledger.ids \cup {i}]
    BY <1>4 DEF ApplyEvent, Ignored, Date
  <2>2. Date(event) \in Int
    BY <1>1 DEF Date
  <2>3. vote \in VoterState /\ move \in [voter : Players, option : Answer]
    BY <1>1, <2>2 DEF VoterState, Answer
  <2>4. [ledger.state EXCEPT ![event.voter] = vote] \in Ledger
    <3>1. ledger.state \in [Players -> VoterState]
      BY DEF Account, Ledger
    <3> HIDE DEF vote
    <3> QED
      BY <1>1, <2>3, <3>1 DEF Ledger
  <2>5. Append(ledger.applied, move) \in Seq([voter : Players, option : Answer])
    <3>1. ledger.applied \in Seq([voter : Players, option : Answer])
      BY DEF Account
    <3> HIDE DEF move
    <3> QED
      BY <2>3, <3>1, AppendProperties
  <2>6. ledger.ids \cup {i} \in SUBSET Nat
    BY <1>1 DEF Account
  <2>7. new \in Account
    <3> HIDE DEF vote, move
    <3> QED
      BY <2>1, <2>4, <2>5, <2>6 DEF Account
  <2>8. /\ new.state = [ledger.state EXCEPT ![event.voter] = vote]
        /\ new.applied = Append(ledger.applied, move) /\ new.ids = ledger.ids \cup {i}
    <3> HIDE DEF vote, move
    <3> QED
      BY <2>1
  <2> QED
    <3>1. Effect(events, known, ledger, new, i)
      <4> HIDE DEF new
      <4> QED
        BY <1>4, <2>7, <2>8 DEF Effect
    <3> QED
      BY <3>1
<1> QED
  BY <1>2, <1>3, <1>4

\* Every account of a replay is well formed.
LEMMA ReplayAccounts ==
  ASSUME NEW n \in Nat, NEW events \in Seq(Event), NEW from, NEW rows, NEW L,
         Base(from), Rows(rows, events, n), Replays(L, events, from, rows, n)
  PROVE  \A k \in 0 .. n : L[k] \in Account
<1> DEFINE G == {k \in 0 .. n : L[k] \in Account}
<1>1. 0 \in G
  <2>1. <<>> \in Seq([voter : Players, option : Answer])
    BY EmptySeq
  <2>2. From(from) \in Account
    BY <2>1 DEF From, Base, Account
  <2> QED
    BY <2>2 DEF Replays
<1>2. ASSUME NEW k \in 0 .. n - 1, k \in G PROVE k + 1 \in G
  <2>1. k + 1 \in 1 .. n /\ (k + 1) - 1 = k
    OBVIOUS
  <2>2. L[k + 1] = ApplyEvent(events, from.ids, L[k], rows[k + 1])
    BY <2>1 DEF Replays
  <2>3. rows[k + 1] \in DOMAIN events /\ L[k] \in Account
    BY <1>2, <2>1 DEF Rows
  <2>4. Effect(events, from.ids, L[k], L[k + 1], rows[k + 1])
    BY <2>2, <2>3, ApplyFacts
  <2> QED
    BY <2>1, <2>4 DEF Effect
<1> HIDE DEF G
<1>3. \A k \in 0 .. n : k \in G
  BY <1>1, <1>2, UpTo
<1> QED
  BY <1>3 DEF G

\* One step of a replay.
LEMMA ReplayStep ==
  ASSUME NEW n \in Nat, NEW events \in Seq(Event), NEW from, NEW rows, NEW L,
         Base(from), Rows(rows, events, n), Replays(L, events, from, rows, n),
         NEW k \in 0 .. n - 1
  PROVE  /\ k + 1 \in 1 .. n /\ k + 1 \in 0 .. n /\ k \in 0 .. n
         /\ rows[k + 1] \in DOMAIN events /\ L[k] \in Account
         /\ Effect(events, from.ids, L[k], L[k + 1], rows[k + 1])
<1>1. k + 1 \in 1 .. n /\ k + 1 \in 0 .. n /\ k \in 0 .. n /\ (k + 1) - 1 = k
  OBVIOUS
<1>2. rows[k + 1] \in DOMAIN events /\ L[k] \in Account
  BY <1>1, ReplayAccounts DEF Rows
<1>3. L[k + 1] = ApplyEvent(events, from.ids, L[k], rows[k + 1])
  BY <1>1 DEF Replays
<1> QED
  BY <1>1, <1>2, <1>3, ApplyFacts

\* The events received are integrated, and those of the base alone change nothing.
LEMMA ReplayIntegrates ==
  ASSUME NEW n \in Nat, NEW events \in Seq(Event), NEW from, NEW rows,
         Base(from), Rows(rows, events, n)
  PROVE  /\ Replay(events, from, rows) \in Account
         /\ Replay(events, from, rows).ids = from.ids \cup {rows[j] : j \in 1 .. n}
         /\ (\A j \in 1 .. n : rows[j] \in from.ids) => Replay(events, from, rows) = From(from)
<1>1. PICK L : Replays(L, events, from, rows, n) /\ Replay(events, from, rows) = L[n]
  BY ReplayChain DEF Rows
<1>2. L[n] \in Account
  BY <1>1, ReplayAccounts
<1> DEFINE G == {k \in 0 .. n : /\ L[k].ids = from.ids \cup {rows[j] : j \in 1 .. k}
                                /\ (\A j \in 1 .. n : rows[j] \in from.ids) => L[k] = From(from)}
<1>3. 0 \in G
  BY <1>1 DEF Replays, From
<1>4. ASSUME NEW k \in 0 .. n - 1, k \in G PROVE k + 1 \in G
  <2>1. PICK i : i = rows[k + 1]
    OBVIOUS
  <2>2. /\ k + 1 \in 1 .. n /\ k + 1 \in 0 .. n
        /\ i \in from.ids => L[k + 1] = L[k]
        /\ i \notin from.ids => L[k + 1].ids = L[k].ids \cup {i}
    <3>1. k + 1 \in 1 .. n /\ k + 1 \in 0 .. n /\ Effect(events, from.ids, L[k], L[k + 1], i)
      BY <1>1, <2>1, ReplayStep
    <3> QED
      BY <3>1 DEF Effect
  <2>3. {rows[j] : j \in 1 .. k + 1} = {rows[j] : j \in 1 .. k} \cup {i}
    BY <2>1
  <2>4. L[k + 1].ids = from.ids \cup {rows[j] : j \in 1 .. k + 1}
    BY <1>4, <2>2, <2>3
  <2>5. (\A j \in 1 .. n : rows[j] \in from.ids) => L[k + 1] = From(from)
    BY <1>4, <2>1, <2>2
  <2> QED
    BY <2>2, <2>4, <2>5
<1> HIDE DEF G
<1>5. \A k \in 0 .. n : k \in G
  BY <1>3, <1>4, UpTo
<1> QED
  BY <1>1, <1>2, <1>5 DEF G

-----------------------------------------------------------------------------
(* What the moves make of the roster.                                       *)

\* The player p is at the hour he votes for and nowhere else.
Put(new, r, p, option) ==
  /\ Sound(new)
  /\ \A h \in Hours : /\ h = option => Held(new[h]) = Held(r[h]) \cup {p}
                      /\ h # option => Held(new[h]) = Held(r[h]) \ {p}

\* move puts the player at the hour he votes for, and takes him away from every other.
LEMMA MoveHolds ==
  ASSUME NEW r, Sound(r), NEW p \in Players, NEW option
  PROVE  Put(Move(r, p, option), r, p, option)
<1>0. PICK new : new = Move(r, p, option)
  OBVIOUS
<1> SUFFICES Put(new, r, p, option)
  BY <1>0
<1>1. Sound(new)
  BY <1>0, MoveSound
<1>2. CASE option \notin Hours
  <2>1. new = Withdraw(r, p)
    BY <1>0, <1>2 DEF Move
  <2>2. \A h \in Hours : Held(new[h]) = Held(r[h]) \ {p}
    BY <2>1, WithdrawSound
  <2> QED
    BY <1>1, <1>2, <2>2 DEF Put
<1>3. CASE option \in Hours /\ IsPlaced(r[option], p)
  <2>1. new = r /\ p \in Held(r[option])
    BY <1>0, <1>3 DEF Move, IsPlaced
  <2>2. \A h \in Hours : h # option => p \notin Held(r[h])
    BY <1>3, <2>1 DEF Sound
  <2>3. ASSUME NEW h \in Hours 
        PROVE  /\ h = option => Held(new[h]) = Held(r[h]) \cup {p}
               /\ h # option => Held(new[h]) = Held(r[h]) \ {p}
    BY <2>1, <2>2
  <2> QED
    BY <1>1, <2>3 DEF Put
<1>4. CASE option \in Hours /\ ~IsPlaced(r[option], p)
  <2>1. PICK out : out = Withdraw(r, p)
    OBVIOUS
  <2>2. Sound(out) /\ \A h \in Hours : Held(out[h]) = Held(r[h]) \ {p}
    BY <2>1, WithdrawSound
  <2>3. new = [out EXCEPT ![option] = EnterHour(out[option], p)]
    BY <1>0, <1>4, <2>1 DEF Move, Enter
  <2>4. SoundHour(out[option]) /\ p \notin Held(out[option]) /\ out \in [Hours -> HourRoster]
    BY <1>4, <2>2 DEF Sound
  <2>5. Held(EnterHour(out[option], p)) = Held(out[option]) \cup {p}
    BY <2>4, EnterHourSound
  <2>6. ASSUME NEW h \in Hours 
        PROVE  /\ h = option => Held(new[h]) = Held(r[h]) \cup {p}
               /\ h # option => Held(new[h]) = Held(r[h]) \ {p}
    <3>1. CASE h = option
      <4>1. new[h] = EnterHour(out[option], p)
        BY <2>3, <2>4, <3>1
      <4> QED
        BY <2>2, <2>5, <3>1, <4>1
    <3>2. CASE h # option
      <4>1. new[h] = out[h]
        BY <2>3, <2>4, <3>2
      <4> QED
        BY <2>2, <3>2, <4>1
    <3> QED
      BY <3>1, <3>2
  <2> QED
    BY <1>1, <2>6 DEF Put
<1> QED
  BY <1>2, <1>3, <1>4

\* What a vote makes of the ledger, the move makes of the roster.
Agrees(r, state) == Sound(r) /\ \A h \in Hours : Held(r[h]) = Yes(state, h)

\* A vote written to the ledger and the same vote played on the roster keep them agreed.
LEMMA VoteMoves ==
  ASSUME NEW r, NEW state \in Ledger, Agrees(r, state), NEW p \in Players, NEW option, NEW date
  PROVE  Agrees(Move(r, p, option), [state EXCEPT ![p] = [option |-> option, lastAt |-> date]])
<1> DEFINE new == Move(r, p, option)
           next == [state EXCEPT ![p] = [option |-> option, lastAt |-> date]]
<1>1. state \in [Players -> VoterState]
  BY DEF Ledger
<1>2. /\ \A q \in Players : q # p => next[q] = state[q]
      /\ next[p].option = option
  BY <1>1
<1> HIDE DEF next
<1>3. /\ Sound(new)
      /\ \A h \in Hours : /\ h = option => Held(new[h]) = Held(r[h]) \cup {p}
                          /\ h # option => Held(new[h]) = Held(r[h]) \ {p}
  <2>1. Sound(r)
    BY DEF Agrees
  <2>2. Put(new, r, p, option)
    BY <2>1, MoveHolds
  <2> HIDE DEF new
  <2> QED
    BY <2>2 DEF Put
<1> HIDE DEF new
<1>4. ASSUME NEW h \in Hours
      PROVE  /\ h = option => Yes(next, h) = Yes(state, h) \cup {p}
             /\ h # option => Yes(next, h) = Yes(state, h) \ {p}
  <2>1. ASSUME h = option, NEW q \in Players
        PROVE  q \in Yes(next, h) <=> q \in Yes(state, h) \/ q = p
    BY <1>2, <2>1 DEF Yes
  <2>2. ASSUME h # option, NEW q \in Players
        PROVE  q \in Yes(next, h) <=> q \in Yes(state, h) /\ q # p
    BY <1>2, <2>2 DEF Yes
  <2>3. Yes(next, h) \subseteq Players /\ Yes(state, h) \subseteq Players
    BY DEF Yes
  <2>4. h = option => Yes(next, h) = Yes(state, h) \cup {p}
    BY <2>1, <2>3
  <2>5. h # option => Yes(next, h) = Yes(state, h) \ {p}
    BY <2>2, <2>3
  <2> QED
    BY <2>4, <2>5
<1>5. Agrees(new, next)
  BY <1>3, <1>4 DEF Agrees
<1> QED
  BY <1>5 DEF new, next

\* The roster replayed follows the votes replayed, event after event.
LEMMA RosterFollows ==
  ASSUME NEW n \in Nat, NEW events \in Seq(Event), NEW from, NEW rows,
         Base(from), Rows(rows, events, n), NEW r, Agrees(r, from.state)
  PROVE  Agrees(ApplyMoves(r, Replay(events, from, rows).applied), Replay(events, from, rows).state)
<1>1. PICK L : Replays(L, events, from, rows, n) /\ Replay(events, from, rows) = L[n]
  BY ReplayChain DEF Rows
<1> DEFINE G == {k \in 0 .. n : Agrees(ApplyMoves(r, L[k].applied), L[k].state)}
<1>2. 0 \in G
  <2>1. L[0].applied = <<>> /\ L[0].state = from.state
    BY <1>1 DEF Replays, From
  <2>2. ApplyMoves(r, L[0].applied) = r
    BY <2>1, NoMove
  <2> QED
    BY <2>1, <2>2
<1>3. ASSUME NEW k \in 0 .. n - 1, k \in G PROVE k + 1 \in G
  <2>1. PICK i : i = rows[k + 1]
    OBVIOUS
  <2>2. PICK ledger : ledger = L[k]
    OBVIOUS
  <2>3. PICK after : after = L[k + 1]
    OBVIOUS
  <2>4. /\ k + 1 \in 0 .. n /\ i \in DOMAIN events /\ ledger \in Account
        /\ Effect(events, from.ids, ledger, after, i)
    BY <1>1, <2>1, <2>2, <2>3, ReplayStep
  <2>5. PICK event : event = events[i]
    OBVIOUS
  <2>6. event.voter \in Players /\ NormalizeOption(event.option) \in Answer
    BY <2>4, <2>5, EventFacts, NormalizeType
  <2>7. Agrees(ApplyMoves(r, ledger.applied), ledger.state)
    BY <1>3, <2>2
  <2>8. CASE i \in from.ids \/ Ignored(ledger, event)
    <3>1. after.applied = ledger.applied /\ after.state = ledger.state
      BY <2>4, <2>5, <2>8 DEF Effect
    <3> QED
      BY <2>3, <2>4, <2>7, <3>1
  <2>9. CASE i \notin from.ids /\ ~Ignored(ledger, event)
    <3>1. PICK move : move = [voter |-> event.voter, option |-> NormalizeOption(event.option)]
      OBVIOUS
    <3>2. /\ after.applied = Append(ledger.applied, move)
          /\ after.state = [ledger.state EXCEPT ![event.voter] =
                              [option |-> NormalizeOption(event.option), lastAt |-> Date(event)]]
      BY <2>4, <2>5, <2>9, <3>1 DEF Effect
    <3>3. ledger.applied \in Seq([voter : Players, option : Answer]) /\ ledger.state \in Ledger
      BY <2>4 DEF Account
    <3>4. move \in [voter : Players, option : Answer]
      BY <2>6, <3>1
    <3>5. ApplyMoves(r, after.applied) = MoveBy(ApplyMoves(r, ledger.applied), move)
      <4>1. PICK M : M = [voter : Players, option : Answer]
        OBVIOUS
      <4>2. ledger.applied \in Seq(M) /\ move \in M
        BY <3>3, <3>4, <4>1
      <4>3. ApplyMoves(r, Append(ledger.applied, move)) = MoveBy(ApplyMoves(r, ledger.applied), move)
        BY <4>2, OneMoreMove
      <4> QED
        BY <3>2, <4>3
    <3>6. ApplyMoves(r, after.applied)
          = Move(ApplyMoves(r, ledger.applied), event.voter, NormalizeOption(event.option))
      BY <3>1, <3>5 DEF MoveBy
    <3>7. Agrees(ApplyMoves(r, after.applied), after.state)
      <4>1. PICK roster : roster = ApplyMoves(r, ledger.applied)
        OBVIOUS
      <4>2. PICK option : option = NormalizeOption(event.option)
        OBVIOUS
      <4>3. PICK state \in Ledger : state = ledger.state
        BY <3>3
      <4>4. Agrees(roster, state)
        BY <2>7, <4>1, <4>3
      <4>5. Agrees(Move(roster, event.voter, option),
                   [state EXCEPT ![event.voter] = [option |-> option, lastAt |-> Date(event)]])
        BY <2>6, <4>4, VoteMoves
      <4> QED
        BY <3>2, <3>6, <4>1, <4>2, <4>3, <4>5
    <3> QED
      BY <2>3, <2>4, <3>7
  <2> QED
    BY <2>8, <2>9
<1>4. \A k \in 0 .. n : k \in G
  <2> HIDE DEF G
  <2> QED
    BY <1>2, <1>3, UpTo
<1> QED
  BY <1>1, <1>4

-----------------------------------------------------------------------------
(* The voters of an hour, in order.                                         *)

\* The order of the votes is total: by date, who has none last, then by phone number.
LEMMA TotalOrder ==
  ASSUME NEW state \in Ledger
  PROVE  /\ \A p \in Players : ~Before(state, p, p)
         /\ \A p, q \in Players : p # q => Before(state, p, q) \/ Before(state, q, p)
         /\ \A p, q, r \in Players : Before(state, p, q) /\ Before(state, q, r) => Before(state, p, r)
<1>1. \A p \in Players : p \in Int /\ state[p].lastAt \in Int
  <2>1. \A p \in Players : state[p] \in VoterState
    BY DEF Ledger
  <2> QED
    BY <2>1, VoteRosterAssumption DEF VoterState
<1>2. \A p \in Players : ~Before(state, p, p)
  BY <1>1 DEF Before
<1>3. ASSUME NEW p \in Players, NEW q \in Players, p # q
      PROVE  Before(state, p, q) \/ Before(state, q, p)
  BY <1>1, <1>3 DEF Before
<1>4. ASSUME NEW p \in Players, NEW q \in Players, NEW r \in Players,
             Before(state, p, q), Before(state, q, r)
      PROVE  Before(state, p, r)
  <2>1. PICK a \in Int : a = state[p].lastAt
    BY <1>1
  <2>2. PICK b \in Int : b = state[q].lastAt
    BY <1>1
  <2>3. PICK c \in Int : c = state[r].lastAt
    BY <1>1
  <2>4. IF a = b THEN p < q ELSE a # -1 /\ (b = -1 \/ a < b)
    BY <1>4, <2>1, <2>2 DEF Before
  <2>5. IF b = c THEN q < r ELSE b # -1 /\ (c = -1 \/ b < c)
    BY <1>4, <2>2, <2>3 DEF Before
  <2>6. IF a = c THEN p < r ELSE a # -1 /\ (c = -1 \/ a < c)
    BY <1>1, <2>4, <2>5
  <2> QED
    BY <2>1, <2>3, <2>6 DEF Before
<1> QED
  BY <1>2, <1>3, <1>4

\* Those of S who voted before p, and how many they are.
Below(state, S, p) == {q \in S : Before(state, q, p)}
Rank(state, S, p) == Cardinality(Below(state, S, p))

\* Each has a rank of his own, from the first to the last.
LEMMA Ranks ==
  ASSUME NEW state \in Ledger, NEW S \in SUBSET Players
  PROVE  /\ Cardinality(S) \in Nat
         /\ \A p \in S : Rank(state, S, p) \in 0 .. Cardinality(S) - 1
         /\ \A p, q \in S : Rank(state, S, p) = Rank(state, S, q) => p = q
         /\ \A k \in 0 .. Cardinality(S) - 1 : \E p \in S : Rank(state, S, p) = k
<1>1. IsFiniteSet(S) /\ Cardinality(S) \in Nat
  BY VoteRosterAssumption, FS_Subset, FS_CardinalityType
<1>2. PICK n \in Nat : n = Cardinality(S)
  BY <1>1
<1>3. ASSUME NEW p \in S
      PROVE  /\ IsFiniteSet(Below(state, S, p)) /\ Rank(state, S, p) \in Nat
             /\ Rank(state, S, p) \in 0 .. n - 1
  <2>1. p \in Players /\ p \notin Below(state, S, p)
    BY TotalOrder DEF Below
  <2>2. Below(state, S, p) \in SUBSET (S \ {p})
    BY <2>1 DEF Below
  <2>3. IsFiniteSet(S \ {p}) /\ Cardinality(S \ {p}) = n - 1
    BY <1>1, <1>2, FS_RemoveElement
  <2>4. /\ IsFiniteSet(Below(state, S, p)) /\ Cardinality(Below(state, S, p)) <= n - 1
    BY <2>2, <2>3, FS_Subset
  <2>5. Cardinality(Below(state, S, p)) \in Nat
    BY <2>4, FS_CardinalityType
  <2> QED
    BY <2>4, <2>5 DEF Rank
<1>4. ASSUME NEW p \in S, NEW q \in S, Before(state, p, q)
      PROVE  Rank(state, S, p) < Rank(state, S, q)
  <2>1. p \in Players /\ q \in Players /\ S \subseteq Players
    OBVIOUS
  <2>2. p \in Below(state, S, q) /\ p \notin Below(state, S, p)
    BY <1>4, <2>1, TotalOrder DEF Below
  <2>3. Below(state, S, p) \in SUBSET Below(state, S, q)
    BY <1>4, <2>1, TotalOrder DEF Below
  <2>4. /\ Cardinality(Below(state, S, p)) <= Cardinality(Below(state, S, q))
        /\ Cardinality(Below(state, S, p)) # Cardinality(Below(state, S, q))
    BY <1>3, <2>2, <2>3, FS_Subset
  <2> QED
    BY <1>3, <2>4 DEF Rank
<1>5. ASSUME NEW p \in S, NEW q \in S, Rank(state, S, p) = Rank(state, S, q)
      PROVE  p = q
  <2>1. PICK i \in Nat : i = Rank(state, S, p)
    BY <1>3
  <2>2. p \in Players /\ q \in Players
    OBVIOUS
  <2>3. CASE p # q
    <3>1. Before(state, p, q) \/ Before(state, q, p)
      BY <2>2, <2>3, TotalOrder
    <3> QED
      BY <1>4, <1>5, <2>1, <3>1
  <2> QED
    BY <2>3
<1>6. ASSUME NEW k \in 0 .. n - 1 PROVE \E p \in S : Rank(state, S, p) = k
  <2> DEFINE T == 0 .. n - 1
             f == [p \in S |-> Rank(state, S, p)]
  <2>1. \A p \in S : f[p] = Rank(state, S, p)
    OBVIOUS
  <2>2. f \in [S -> T]
    BY <1>3
  <2>3. DOMAIN f = S
    OBVIOUS
  <2> HIDE DEF f
  <2>4. f \in Injection(S, T)
    <3>1. IsInjective(f)
      BY <1>5, <2>1, <2>3 DEF IsInjective
    <3> QED
      BY <2>2, <3>1 DEF Injection
  <2>5. IsFiniteSet(T) /\ Cardinality(T) = n
    <3>1. 0 \in Int /\ n - 1 \in Int
      OBVIOUS
    <3>2. IsFiniteSet(T) /\ Cardinality(T) = IF 0 > n - 1 THEN 0 ELSE n - 1 - 0 + 1
      BY <3>1, FS_Interval
    <3> QED
      BY <3>2
  <2> HIDE DEF T
  <2>6. f \in Surjection(S, T)
    BY <1>2, <2>4, <2>5, FS_Injection
  <2>7. k \in T
    BY DEF T
  <2>8. PICK p \in S : f[p] = k
    BY <2>6, <2>7 DEF Surjection
  <2> QED
    BY <2>1, <2>8
<1> QED
  BY <1>2, <1>3, <1>5, <1>6

\* Ordered lists each of them once.
LEMMA OrderedIs ==
  ASSUME NEW state \in Ledger, NEW S \in SUBSET Players
  PROVE  /\ Ordered(state, S) \in Seq(Players) /\ Distinct(Ordered(state, S))
         /\ Values(Ordered(state, S)) = S
<1>1. PICK s : s = Ordered(state, S)
  OBVIOUS
<1>2. PICK n \in Nat : n = Cardinality(S)
  BY Ranks
<1>3. s = [k \in 1 .. n |-> CHOOSE p \in S : Rank(state, S, p) = k - 1]
  BY <1>1, <1>2 DEF Ordered, Rank, Below
<1>4. ASSUME NEW k \in 1 .. n PROVE s[k] \in S /\ Rank(state, S, s[k]) = k - 1
  <2>1. k - 1 \in 0 .. n - 1
    OBVIOUS
  <2>2. \E p \in S : Rank(state, S, p) = k - 1
    BY <1>2, <2>1, Ranks
  <2> QED
    BY <1>3, <2>2
<1>5. DOMAIN s = 1 .. n
  BY <1>3
<1>6. s \in Seq(Players)
  <2>1. \A k \in 1 .. n : s[k] \in Players
    BY <1>4
  <2>2. s \in [1 .. n -> Players]
    BY <1>3, <2>1
  <2> QED
    BY <2>2, SeqDef
<1>7. Distinct(s)
  <2>1. ASSUME NEW i \in DOMAIN s, NEW j \in DOMAIN s, s[i] = s[j] PROVE i = j
    <3>1. i \in 1 .. n /\ j \in 1 .. n
      BY <1>5
    <3>2. i - 1 = j - 1
      BY <1>4, <2>1, <3>1
    <3> QED
      BY <3>1, <3>2
  <2> QED
    BY <2>1 DEF Distinct
<1>8. Values(s) = S
  <2>1. ASSUME NEW p \in S PROVE p \in Values(s)
    <3>1. PICK k \in 0 .. n - 1 : k = Rank(state, S, p)
      BY <1>2, Ranks
    <3>2. k + 1 \in 1 .. n /\ (k + 1) - 1 = k
      OBVIOUS
    <3>3. s[k + 1] \in S /\ Rank(state, S, s[k + 1]) = k
      BY <1>4, <3>2
    <3>4. s[k + 1] = p
      BY <3>1, <3>3, Ranks
    <3> QED
      BY <1>5, <3>2, <3>4 DEF Values
  <2>2. ASSUME NEW p \in Values(s) PROVE p \in S
    <3>1. PICK k \in 1 .. n : p = s[k]
      BY <1>5 DEF Values
    <3> QED
      BY <1>4, <3>1
  <2> QED
    BY <2>1, <2>2
<1> QED
  BY <1>1, <1>6, <1>7, <1>8

\* The first roster has the voters of each hour.
LEMMA InitialAgrees ==
  ASSUME NEW final, final.state \in Ledger
  PROVE  Agrees(InitialRosters(final), final.state)
<1>1. PICK r : r = InitialRosters(final)
  OBVIOUS
<1>2. ASSUME NEW h \in Hours
      PROVE  SoundHour(r[h]) /\ Held(r[h]) = Yes(final.state, h)
  <2>1. PICK s : s = Ordered(final.state, Yes(final.state, h))
    OBVIOUS
  <2>2. PICK was : was = (h \in final.taken)
    OBVIOUS
  <2>3. was \in BOOLEAN /\ r[h] = InitialHour(s, was)
    BY <1>1, <2>1, <2>2 DEF InitialRosters
  <2>4. Yes(final.state, h) \in SUBSET Players
    BY DEF Yes
  <2>5. s \in Seq(Players) /\ Distinct(s) /\ Values(s) = Yes(final.state, h)
    BY <2>1, <2>4, OrderedIs
  <2> QED
    BY <2>3, <2>5, InitialSound
<1>3. r \in [Hours -> HourRoster]
  <2>1. r = [h \in Hours |-> r[h]]
    BY <1>1 DEF InitialRosters
  <2> QED
    BY <1>2, <2>1 DEF SoundHour
<1>4. \A h, g \in Hours : h # g => Held(r[h]) \cap Held(r[g]) = {}
  BY <1>2 DEF Yes
<1>5. Agrees(r, final.state)
  BY <1>2, <1>3, <1>4 DEF Agrees, Sound
<1> QED
  BY <1>1, <1>5

-----------------------------------------------------------------------------
(* The rows of the database.                                                *)

\* A list of S, its places and its values.
LEMMA SeqFacts ==
  ASSUME NEW S, NEW s \in Seq(S)
  PROVE  /\ Len(s) \in Nat /\ DOMAIN s = 1 .. Len(s) /\ \A k \in 1 .. Len(s) : s[k] \in S
         /\ Range(s) = {s[k] : k \in 1 .. Len(s)}
<1>1. Len(s) \in Nat /\ DOMAIN s = 1 .. Len(s) /\ \A k \in 1 .. Len(s) : s[k] \in S
  BY LenProperties, ElementOfSeq
<1> QED
  BY <1>1 DEF Range

\* A list with one more value at its end.
LEMMA AppendFacts ==
  ASSUME NEW S, NEW s \in Seq(S), NEW x \in S, NEW t, t = Append(s, x), NEW n \in Nat, n = Len(s)
  PROVE  /\ t \in Seq(S) /\ Len(t) = n + 1 /\ DOMAIN t = 1 .. n + 1 /\ t[n + 1] = x
         /\ DOMAIN s = 1 .. n /\ \A k \in 1 .. n : t[k] = s[k]
BY AppendProperties, LenProperties

\* The values of a list with one more at its end.
LEMMA RangeAppend ==
  ASSUME NEW S, NEW s \in Seq(S), NEW x \in S
  PROVE  Append(s, x) \in Seq(S) /\ Range(Append(s, x)) = Range(s) \cup {x}
<1>1. PICK n \in Nat : n = Len(s)
  BY LenProperties
<1>2. PICK t : t = Append(s, x)
  OBVIOUS
<1>3. /\ t \in Seq(S) /\ DOMAIN t = 1 .. n + 1 /\ t[n + 1] = x
      /\ DOMAIN s = 1 .. n /\ \A k \in 1 .. n : t[k] = s[k]
  BY <1>1, <1>2, AppendFacts
<1>4. \A k \in 1 .. n + 1 : k = n + 1 \/ k \in 1 .. n
  OBVIOUS
<1>5. \A k \in 1 .. n : k \in 1 .. n + 1
  OBVIOUS
<1>6. ASSUME NEW y \in Range(t) PROVE y \in Range(s) \cup {x}
  <2>1. PICK k \in 1 .. n + 1 : y = t[k]
    BY <1>3 DEF Range
  <2> QED
    BY <1>3, <1>4, <2>1 DEF Range
<1>7. ASSUME NEW y \in Range(s) \cup {x} PROVE y \in Range(t)
  <2>1. CASE y = x
    <3>1. n + 1 \in DOMAIN t
      BY <1>3
    <3> QED
      BY <1>3, <2>1, <3>1 DEF Range
  <2>2. CASE y \in Range(s)
    <3>1. PICK k \in 1 .. n : y = s[k]
      BY <1>3, <2>2 DEF Range
    <3>2. y = t[k] /\ k \in DOMAIN t
      BY <1>3, <1>5, <3>1
    <3> QED
      BY <3>2 DEF Range
  <2> QED
    BY <2>1, <2>2
<1>8. Range(t) = Range(s) \cup {x}
  BY <1>6, <1>7
<1> QED
  BY <1>2, <1>3, <1>8

\* A sequence is its front and its last element.
LEMMA FrontLast ==
  ASSUME NEW S, NEW s \in Seq(S), s # <<>>
  PROVE  Front(s) \in Seq(S) /\ Last(s) \in S /\ s = Append(Front(s), Last(s))
<1>1. PICK n \in Nat : n = Len(s) /\ n > 0
  <2>1. Len(s) \in Nat /\ Len(s) # 0
    BY EmptySeq, LenProperties
  <2> QED
    BY <2>1
<1>2. PICK front : front = Front(s)
  OBVIOUS
<1>3. PICK x : x = Last(s)
  OBVIOUS
<1>4. DOMAIN s = 1 .. n /\ \A k \in 1 .. n : s[k] \in S
  BY <1>1, SeqFacts
<1>5. x = s[n] /\ x \in S
  BY <1>1, <1>3, <1>4 DEF Last
<1>6. front = SubSeq(s, 1, n - 1)
  BY <1>1, <1>2 DEF Front
<1>7. front = [k \in 1 .. n - 1 |-> s[k]]
  <2>1. n - 1 \in Nat /\ 1 .. n - 1 = IF 1 <= n - 1 THEN 1 .. n - 1 ELSE 1 .. n - 1
    BY <1>1
  <2> QED
    BY <1>1, <1>4, <1>6
<1>8. front \in Seq(S) /\ Len(front) = n - 1
  <2>1. n - 1 \in Nat
    BY <1>1
  <2>2. \A k \in 1 .. n - 1 : s[k] \in S
    BY <1>1, <1>4
  <2>3. front \in [1 .. n - 1 -> S]
    BY <1>7, <2>2
  <2>4. front \in Seq(S)
    BY <2>1, <2>3, SeqDef
  <2>5. Len(front) \in Nat /\ DOMAIN front = 1 .. Len(front)
    BY <2>4, LenProperties
  <2> QED
    BY <2>1, <2>3, <2>4, <2>5
<1>9. PICK t : t = Append(front, x)
  OBVIOUS
<1>10. /\ t \in Seq(S) /\ DOMAIN t = 1 .. n /\ t[n] = x
       /\ \A k \in 1 .. n - 1 : t[k] = s[k]
  <2>1. PICK m \in Nat : m = Len(front)
    BY <1>1, <1>8
  <2>2. m = n - 1 /\ m + 1 = n
    BY <1>1, <1>8, <2>1
  <2>3. /\ t \in Seq(S) /\ DOMAIN t = 1 .. m + 1 /\ t[m + 1] = x
        /\ \A k \in 1 .. m : t[k] = front[k]
    BY <1>5, <1>8, <1>9, <2>1, AppendFacts
  <2> QED
    BY <1>7, <2>2, <2>3
<1>11. t = s
  <2>1. \A k \in 1 .. n : k = n \/ k \in 1 .. n - 1
    BY <1>1
  <2>2. \A k \in 1 .. n : t[k] = s[k]
    BY <1>5, <1>10, <2>1
  <2>3. t = [k \in 1 .. n |-> t[k]] /\ s = [k \in 1 .. n |-> s[k]]
    <3>1. t = [k \in DOMAIN t |-> t[k]] /\ s = [k \in DOMAIN s |-> s[k]]
      BY <1>10
    <3> QED
      BY <1>4, <1>10, <3>1
  <2> QED
    BY <2>2, <2>3
<1> QED
  BY <1>2, <1>3, <1>5, <1>8, <1>9, <1>11

\* A row is stored once.
LEMMA StoredOnce ==
  ASSUME NEW s \in Seq(Nat), IsInjective(s), NEW i \in Nat, i \notin Range(s)
  PROVE  IsInjective(Append(s, i))
<1>1. PICK n \in Nat : n = Len(s)
  BY LenProperties
<1>2. PICK t : t = Append(s, i)
  OBVIOUS
<1>3. /\ DOMAIN t = 1 .. n + 1 /\ t[n + 1] = i
      /\ DOMAIN s = 1 .. n /\ \A k \in 1 .. n : t[k] = s[k]
  BY <1>1, <1>2, AppendFacts
<1>4. \A k \in 1 .. n : s[k] # i
  BY <1>3 DEF Range
<1>5. \A k \in 1 .. n + 1 : k = n + 1 \/ k \in 1 .. n
  OBVIOUS
<1>6. \A k, l \in 1 .. n : s[k] = s[l] => k = l
  BY <1>3 DEF IsInjective
<1>7. \A k, l \in 1 .. n + 1 : t[k] = t[l] => k = l
  BY <1>3, <1>4, <1>5, <1>6
<1> QED
  BY <1>2, <1>3, <1>7 DEF IsInjective

\* The rows of the database name events that were handed over.
LEMMA RowsOf ==
  ASSUME NEW events \in Seq(Event), NEW rows \in Seq(Nat), Range(rows) \subseteq DOMAIN events
  PROVE  Rows(rows, events, Len(rows)) /\ Len(rows) \in Nat
<1>1. Len(rows) \in Nat /\ DOMAIN rows = 1 .. Len(rows)
  BY SeqFacts
<1> QED
  BY <1>1 DEF Rows, Range

\* Two ledgers that give the members the same votes still do after one more event.
LEMMA SameState ==
  ASSUME NEW events, NEW known, NEW others, NEW ledger, NEW ledger2, NEW new, NEW new2, NEW i,
         Effect(events, known, ledger, new, i), Effect(events, others, ledger2, new2, i),
         i \notin known, i \notin others, ledger.state = ledger2.state
  PROVE  new.state = new2.state
<1>1. Ignored(ledger, events[i]) <=> Ignored(ledger2, events[i])
  BY DEF Ignored
<1> QED
  BY <1>1 DEF Effect

\* Two bases that replay to the same votes do so after one more row, if neither knows it.
LEMMA CutStep ==
  ASSUME NEW events \in Seq(Event), NEW rows \in Seq(Nat), Range(rows) \subseteq DOMAIN events,
         NEW from, NEW other, Base(from), Base(other),
         Replay(events, from, rows).state = Replay(events, other, rows).state,
         NEW i \in DOMAIN events, i \notin from.ids, i \notin other.ids
  PROVE  Replay(events, from, Append(rows, i)).state = Replay(events, other, Append(rows, i)).state
<1>1. i \in Nat
  BY EventFacts
<1>2. Replay(events, from, rows) \in Account /\ Replay(events, other, rows) \in Account
  BY RowsOf, ReplayIntegrates
<1>3. PICK a : a = Replay(events, from, rows)
  OBVIOUS
<1>4. PICK b : b = Replay(events, other, rows)
  OBVIOUS
<1>5. PICK c : c = Replay(events, from, Append(rows, i))
  OBVIOUS
<1>6. PICK d : d = Replay(events, other, Append(rows, i))
  OBVIOUS
<1>7. c = ApplyEvent(events, from.ids, a, i)
  BY <1>1, <1>3, <1>5, ReplayOneMore
<1>8. d = ApplyEvent(events, other.ids, b, i)
  BY <1>1, <1>4, <1>6, ReplayOneMore
<1>9. Effect(events, from.ids, a, c, i) /\ Effect(events, other.ids, b, d, i)
  BY <1>2, <1>3, <1>4, <1>7, <1>8, ApplyFacts
<1>10. a.state = b.state
  BY <1>3, <1>4
<1>11. c.state = d.state
  BY <1>9, <1>10, SameState
<1> QED
  BY <1>5, <1>6, <1>11

\* From a base that has all the rows, and the votes they give, nothing is replayed.
LEMMA CutHere ==
  ASSUME NEW events \in Seq(Event), NEW rows \in Seq(Nat), Range(rows) \subseteq DOMAIN events,
         NEW from, Base(from), NEW new,
         new = [state |-> Replay(events, from, rows).state, ids |-> Replay(events, from, rows).ids]
  PROVE  /\ Base(new) /\ new.state = Replay(events, from, rows).state
         /\ new.ids = from.ids \cup Range(rows)
         /\ Replay(events, new, rows).state = Replay(events, from, rows).state
<1>1. PICK n \in Nat : n = Len(rows) /\ Rows(rows, events, n) /\ DOMAIN rows = 1 .. n
  BY RowsOf, SeqFacts
<1>2. PICK a : a = Replay(events, from, rows)
  OBVIOUS
<1>3. a \in Account /\ a.ids = from.ids \cup {rows[j] : j \in 1 .. n}
  BY <1>1, <1>2, ReplayIntegrates
<1>4. a.ids = from.ids \cup Range(rows)
  BY <1>1, <1>3 DEF Range
<1>5. new.state = a.state /\ new.ids = a.ids
  BY <1>2
<1>6. Base(new)
  BY <1>3, <1>5 DEF Base, Account
<1>7. \A j \in 1 .. n : rows[j] \in new.ids
  BY <1>3, <1>5
<1>8. Replay(events, new, rows) = From(new)
  BY <1>1, <1>6, <1>7, ReplayIntegrates
<1>9. From(new).state = new.state
  BY DEF From
<1> QED
  BY <1>2, <1>4, <1>5, <1>6, <1>8, <1>9

\* Only the votes of the base and the events it knows count.
LEMMA SameBase ==
  ASSUME NEW events, NEW rows, NEW from, NEW other, from.state = other.state, from.ids = other.ids
  PROVE  Replay(events, from, rows) = Replay(events, other, rows)
BY DEF Replay, From

-----------------------------------------------------------------------------
(* What holds in every state.                                               *)

\* Every event handed over is a row or will be handed over again.
VotesInv ==
  /\ sent \in Seq(Event)
  /\ handled \in 0 .. Len(sent)
  /\ stored \in Seq(Nat) /\ IsInjective(stored)
  /\ late \cup Range(stored) = 1 .. handled
  /\ casts \in 0 .. MaxCasts

\* A base of the worker: votes of the ledger, and rows of the database.
Of(from) == from.state \in Ledger /\ from.ids \subseteq Range(stored) \cup {0}

\* What the worker works from is made of votes and of rows.
WorkerInv ==
  /\ stage \in {"open", "listing", "collected", "planned", "booked"}
  /\ listed \subseteq Range(stored)
  /\ Of(photo) /\ Of(snapshot) /\ Of(base) /\ base.taken \subseteq Hours

\* The plan's snapshot is the replay it was cut from: both go on alike.
CutInv ==
  stage \in {"planned", "booked"} =>
    /\ photo.ids \subseteq snapshot.ids
    /\ Replay(sent, snapshot, stored).state = Replay(sent, photo, stored).state

\* What is booked is what was planned.
BaseInv == stage = "booked" => base.state = snapshot.state /\ base.ids = snapshot.ids

\* The inductive invariant of the votes, the rows and the worker.
LedgerInv == VotesInv /\ WorkerInv /\ CutInv /\ BaseInv

\* The replays of the module are the replays of the lemmas.
LEMMA Replayed ==
  /\ \A from, rows : ApplyVoteEvents(from, rows) = Replay(sent, from, rows)
  /\ LiveVotes = Replay(sent, photo, stored)
BY DEF ApplyVoteEvents, LiveVotes, Replay, From

\* An empty ledger is a ledger, and no collection knows a row.
LEMMA NoneType == None \in VoterState /\ NoPhoto.state \in Ledger /\ NoPhoto.ids = {0}
<1>1. None \in VoterState
  BY DEF None, VoterState
<1>2. NoPhoto.state = [p \in Players |-> None] /\ NoPhoto.ids = {0}
  BY DEF NoPhoto
<1> QED
  BY <1>1, <1>2 DEF Ledger

\* Every row is an event, and no row is the one the bases know from the start.
LEMMA RowFacts ==
  ASSUME VotesInv
  PROVE  /\ Range(stored) \subseteq DOMAIN sent /\ Range(stored) \subseteq Nat /\ 0 \notin Range(stored)
         /\ Len(sent) \in Nat /\ DOMAIN sent = 1 .. Len(sent) /\ handled \in Nat /\ handled <= Len(sent)
         /\ \A i \in late \cup Range(stored) : i \in DOMAIN sent /\ i \in Nat /\ i > 0
<1>1. Len(sent) \in Nat /\ DOMAIN sent = 1 .. Len(sent)
  BY SeqFacts DEF VotesInv
<1>2. handled \in Nat /\ handled <= Len(sent)
  BY <1>1 DEF VotesInv
<1>3. \A i \in 1 .. handled : i \in DOMAIN sent /\ i \in Nat /\ i > 0
  BY <1>1, <1>2
<1>4. late \cup Range(stored) = 1 .. handled
  BY DEF VotesInv
<1> QED
  BY <1>1, <1>2, <1>3, <1>4

\* What the worker works from is a base to replay from, and knows no event before it is a row.
LEMMA OfBase ==
  ASSUME VotesInv, NEW from, Of(from)
  PROVE  Base(from) /\ \A i \in DOMAIN sent : i \notin Range(stored) => i \notin from.ids
<1>1. Range(stored) \subseteq Nat /\ DOMAIN sent = 1 .. Len(sent) /\ Len(sent) \in Nat
  BY RowFacts
<1>2. from.ids \subseteq Range(stored) \cup {0}
  BY DEF Of
<1>3. \A i \in DOMAIN sent : i # 0
  BY <1>1
<1> QED
  BY <1>1, <1>2, <1>3 DEF Of, Base

\* The poll gives a ledger.
LEMMA CurrentType ==
  ASSUME VotesInv, NEW p \in Players
  PROVE  /\ VotesOf(p) = {} => Current(p).option = NoVote
         /\ VotesOf(p) # {} => /\ Max(VotesOf(p)) \in VotesOf(p)
                               /\ \A y \in VotesOf(p) : Max(VotesOf(p)) >= y
                               /\ Current(p) = sent[Max(VotesOf(p))]
         /\ Current(p).at \in Nat
<1>1. sent \in Seq(Event) /\ Len(sent) \in Nat /\ DOMAIN sent = 1 .. Len(sent)
  BY RowFacts DEF VotesInv
<1>2. VotesOf(p) \subseteq DOMAIN sent /\ VotesOf(p) \subseteq Int
  BY <1>1 DEF VotesOf
<1>3. IsFiniteSet(VotesOf(p))
  <2>1. IsFiniteSet(1 .. Len(sent))
    BY <1>1, FS_Interval
  <2> QED
    BY <1>1, <1>2, <2>1, FS_Subset
<1>4. CASE VotesOf(p) = {}
  BY <1>4 DEF Current
<1>5. CASE VotesOf(p) # {}
  <2>1. /\ Max(VotesOf(p)) \in VotesOf(p)
        /\ \A y \in VotesOf(p) : Max(VotesOf(p)) >= y
    BY <1>2, <1>3, <1>5, MaxType
  <2>2. Current(p) = sent[Max(VotesOf(p))]
    BY <1>5 DEF Current
  <2>3. Current(p).at \in Nat
    BY <1>1, <1>2, <2>1, <2>2, EventFacts
  <2> QED
    BY <1>5, <2>1, <2>2, <2>3
<1> QED
  BY <1>4, <1>5

\* What a poll answers is a ledger.
LEMMA PhotoStateType ==
  ASSUME VotesInv
  PROVE  PhotoState \in Ledger
<1>1. ASSUME NEW p \in Players
      PROVE  PhotoState[p] \in VoterState
  <2>1. PICK now : now = Current(p)
    OBVIOUS
  <2>2. now.at \in Nat /\ NormalizeOption(now.option) \in Answer
    BY <2>1, CurrentType, NormalizeType
  <2>3. PhotoState[p] = IF now.option = NoVote THEN None
                        ELSE [option |-> NormalizeOption(now.option),
                              lastAt |-> IF p \in Undated THEN -1 ELSE now.at]
    BY <2>1 DEF PhotoState
  <2>4. CASE now.option = NoVote
    BY <2>3, <2>4, NoneType
  <2>5. CASE now.option # NoVote
    <3>1. PICK answer \in Answer : answer = NormalizeOption(now.option)
      BY <2>2
    <3>2. PICK date \in Int : date = IF p \in Undated THEN -1 ELSE now.at
      BY <2>2
    <3>3. PhotoState[p] = [option |-> answer, lastAt |-> date]
      BY <2>3, <2>5, <3>1, <3>2
    <3> QED
      BY <3>3 DEF VoterState, Answer
  <2> QED
    BY <2>4, <2>5
<1>2. PhotoState = [p \in Players |-> PhotoState[p]]
  BY DEF PhotoState
<1> QED
  BY <1>1, <1>2 DEF Ledger

\* The poll before the collection.
LEMMA OpeningFacts ==
  ASSUME NEW first \in [Players -> Options \cup {NoVote}]
  PROVE  /\ Opening(first) \in Seq(Event)
         /\ \A i \in DOMAIN Opening(first) : Opening(first)[i].empty = FALSE /\ Opening(first)[i].at = i
<1> DEFINE S == {p \in Players : first[p] # NoVote}
<1>1. PICK voters : voters = Ordered([p \in Players |-> None], S)
  OBVIOUS
<1>2. S \in SUBSET Players
  OBVIOUS
<1>3. NoPhoto.state = [p \in Players |-> None] /\ NoPhoto.state \in Ledger
  <2>1. NoPhoto.state = [p \in Players |-> None]
    BY DEF NoPhoto
  <2> QED
    BY <2>1, NoneType
<1>4. voters \in Seq(Players)
  <2> HIDE DEF S
  <2> QED
    BY <1>1, <1>2, <1>3, OrderedIs
<1>5. PICK n \in Nat : n = Len(voters) /\ DOMAIN voters = 1 .. n /\ \A i \in 1 .. n : voters[i] \in Players
  BY <1>4, SeqFacts
<1>6. PICK opening : opening = Opening(first)
  OBVIOUS
<1>7. opening = [i \in 1 .. n |-> [voter |-> voters[i], option |-> first[voters[i]],
                                   empty |-> FALSE, at |-> i]]
  BY <1>1, <1>5, <1>6 DEF Opening
<1>8. ASSUME NEW i \in 1 .. n
      PROVE  opening[i] \in Event /\ opening[i].empty = FALSE /\ opening[i].at = i
  <2>1. voters[i] \in Players /\ first[voters[i]] \in Options \cup {NoVote} /\ i \in Nat
    BY <1>5
  <2>2. opening[i] = [voter |-> voters[i], option |-> first[voters[i]], empty |-> FALSE, at |-> i]
    BY <1>7
  <2> QED
    BY <2>1, <2>2 DEF Event
<1>9. opening \in [1 .. n -> Event] /\ DOMAIN opening = 1 .. n
  BY <1>7, <1>8
<1>10. opening \in Seq(Event)
  BY <1>9, SeqDef
<1> QED
  BY <1>6, <1>8, <1>9, <1>10

\* It holds when the poll opens.
LEMMA LedgerInit == VotesInit => LedgerInv
<1> SUFFICES ASSUME VotesInit PROVE LedgerInv
  OBVIOUS
<1>1. /\ sent \in Seq(Event) /\ handled = Len(sent) /\ late = {}
      /\ stored = [i \in DOMAIN sent |-> i] /\ casts = 0 /\ stage = "open" /\ listed = {}
      /\ photo = NoPhoto /\ snapshot = NoPhoto
      /\ base = [state |-> NoPhoto.state, ids |-> NoPhoto.ids, taken |-> {}]
  BY OpeningFacts DEF VotesInit
<1>2. PICK n \in Nat : n = Len(sent) /\ DOMAIN sent = 1 .. n
  BY <1>1, SeqFacts
<1>3. stored = [i \in 1 .. n |-> i]
  BY <1>1, <1>2
<1>4. stored \in Seq(Nat) /\ IsInjective(stored) /\ Range(stored) = 1 .. n
  <2>1. stored \in [1 .. n -> Nat]
    BY <1>3
  <2>2. stored \in Seq(Nat)
    BY <2>1, SeqDef
  <2>3. IsInjective(stored)
    BY <1>3 DEF IsInjective
  <2>4. Range(stored) = 1 .. n
    BY <1>3 DEF Range
  <2> QED
    BY <2>2, <2>3, <2>4
<1>5. VotesInv
  BY <1>1, <1>2, <1>4, VoteRosterAssumption DEF VotesInv
<1>6. Of(photo) /\ Of(snapshot) /\ Of(base) /\ base.taken \subseteq Hours
  <2>1. Of(NoPhoto)
    BY NoneType DEF Of
  <2>2. base.state = NoPhoto.state /\ base.ids = NoPhoto.ids /\ base.taken = {}
    BY <1>1
  <2> QED
    BY <1>1, <2>1, <2>2 DEF Of
<1>7. WorkerInv
  BY <1>1, <1>6 DEF WorkerInv
<1>8. CutInv /\ BaseInv
  BY <1>1 DEF CutInv, BaseInv
<1> QED
  BY <1>5, <1>7, <1>8 DEF LedgerInv

-----------------------------------------------------------------------------
(* Each step keeps it.                                                      *)

\* The votes do not change without an event, a row or a restart.
LEMMA VotesKept ==
  ASSUME VotesInv, UNCHANGED <<sent, casts, listener>>
  PROVE  VotesInv'
BY DEF VotesInv, listener

\* The worker's bases stay bases while it does nothing.
LEMMA WorkerKept ==
  ASSUME WorkerInv, UNCHANGED <<stored, worker>>
  PROVE  WorkerInv'
BY DEF WorkerInv, Of, worker, Ledger

\* What a vote appends.
LEMMA CastFacts ==
  ASSUME VotesInv, NEW p \in Players, NEW option \in Options \cup {NoVote}, NEW empty \in BOOLEAN,
         CastBy(p, option, empty)
  PROVE  \E event \in Event :
           /\ sent' = Append(sent, event)
           /\ event.voter = p /\ event.option = option /\ event.empty = empty
           /\ empty => option = NoVote
           /\ \/ event.at = (IF Len(sent) = 0 THEN 0 ELSE sent[Len(sent)].at) + 1
              \/ /\ Len(sent) > 0 /\ sent[Len(sent)].empty
                 /\ event.at = sent[Len(sent)].at
<1>1. PICK n \in Nat : n = Len(sent) /\ DOMAIN sent = 1 .. n
  BY RowFacts
<1>2. PICK now \in Nat : now = IF n = 0 THEN 0 ELSE sent[n].at
  <2>1. n # 0 => n \in DOMAIN sent
    BY <1>1
  <2>2. n # 0 => sent[n].at \in Nat
    BY <2>1, EventFacts DEF VotesInv
  <2> QED
    BY <2>2
<1>3. PICK same : same = (n > 0 /\ sent[n].voter = p /\ sent[n].empty)
  OBVIOUS
<1>4. PICK at \in {now + 1} \cup (IF same THEN {now} ELSE {}) :
        sent' = Append(sent, [voter |-> p, option |-> option, empty |-> empty, at |-> at])
  BY <1>1, <1>2, <1>3 DEF CastBy
<1>5. empty => option = NoVote
  BY DEF CastBy
<1>6. PICK event : event = [voter |-> p, option |-> option, empty |-> empty, at |-> at]
  OBVIOUS
<1>7. at = now + 1 \/ (n > 0 /\ sent[n].empty /\ at = now)
  <2>1. CASE same
    <3>1. at = now + 1 \/ at = now
      BY <2>1
    <3>2. n > 0 /\ sent[n].empty
      BY <1>3, <2>1, Zenon
    <3> QED
      BY <3>1, <3>2
  <2>2. CASE ~same
    BY <2>2
  <2> QED
    BY <2>1, <2>2
<1>8. at \in Nat
  BY <1>7
<1>9. event \in Event /\ event.voter = p /\ event.option = option /\ event.empty = empty /\ event.at = at
  BY <1>6, <1>8 DEF Event
<1>10. event.at = now + 1 \/ (n > 0 /\ sent[n].empty /\ event.at = sent[n].at)
  <2>1. n > 0 => now = sent[n].at
    BY <1>2
  <2> QED
    BY <1>7, <1>9, <2>1
<1>11. \/ event.at = (IF Len(sent) = 0 THEN 0 ELSE sent[Len(sent)].at) + 1
       \/ /\ Len(sent) > 0 /\ sent[Len(sent)].empty
          /\ event.at = sent[Len(sent)].at
  BY <1>1, <1>2, <1>10
<1>12. sent' = Append(sent, event)
  BY <1>4, <1>6
<1> QED
  BY <1>5, <1>9, <1>11, <1>12

\* A vote sent to the listener touches neither the rows nor the worker, and its event is in
\* no base yet.
LEMMA CastLedger ==
  ASSUME LedgerInv, Cast
  PROVE  LedgerInv'
<1>1. PICK p \in Players, option \in Options \cup {NoVote}, empty \in BOOLEAN :
        CastBy(p, option, empty)
  BY DEF Cast
<1>2. VotesInv /\ WorkerInv /\ CutInv /\ BaseInv
  BY DEF LedgerInv
<1>3. PICK event \in Event : sent' = Append(sent, event)
  BY <1>1, <1>2, CastFacts
<1>4. /\ casts' = casts + 1 /\ casts < MaxCasts
      /\ UNCHANGED <<listener, worker>>
  BY <1>1 DEF CastBy
<1>5. UNCHANGED <<stored, handled, late>> /\ UNCHANGED <<stage, listed, photo, snapshot, base>>
  BY <1>4 DEF listener, worker
<1>6. PICK n \in Nat : n = Len(sent)
  BY <1>2, RowFacts
<1>7. /\ sent \in Seq(Event) /\ handled \in 0 .. n /\ casts \in 0 .. MaxCasts
  BY <1>2, <1>6 DEF VotesInv
<1>8. /\ sent' \in Seq(Event) /\ Len(sent') = n + 1
      /\ DOMAIN sent = 1 .. n /\ \A k \in 1 .. n : sent'[k] = sent[k]
  BY <1>3, <1>6, <1>7, AppendFacts
<1>9. VotesInv'
  <2>1. handled' \in 0 .. Len(sent') /\ casts' \in 0 .. MaxCasts
    BY <1>4, <1>5, <1>7, <1>8, VoteRosterAssumption
  <2> QED
    BY <1>2, <1>5, <1>8, <2>1 DEF VotesInv
<1>10. WorkerInv'
  BY <1>2, <1>4, <1>5, WorkerKept
<1>11. \A k \in DOMAIN stored : sent'[stored[k]] = sent[stored[k]]
  <2>1. \A k \in DOMAIN stored : stored[k] \in Range(stored)
    BY DEF Range
  <2> QED
    BY <1>2, <1>8, <2>1, RowFacts
<1>12. ASSUME NEW from
       PROVE  Replay(sent', from, stored) = Replay(sent, from, stored)
  <2>1. PICK others : others = sent'
    OBVIOUS
  <2>2. \A k \in DOMAIN stored : others[stored[k]] = sent[stored[k]]
    BY <1>11, <2>1
  <2>3. stored \in Seq(Nat)
    BY <1>2 DEF VotesInv
  <2>4. Replay(others, from, stored) = Replay(sent, from, stored)
    BY <2>2, <2>3, ReplayFrame
  <2> QED
    BY <2>1, <2>4
<1>13. CutInv'
  <2>1. /\ Replay(sent', snapshot, stored) = Replay(sent, snapshot, stored)
        /\ Replay(sent', photo, stored) = Replay(sent, photo, stored)
    BY <1>12
  <2>2. /\ Replay(sent', snapshot', stored') = Replay(sent, snapshot, stored)
        /\ Replay(sent', photo', stored') = Replay(sent, photo, stored)
    BY <1>5, <2>1
  <2> QED
    BY <1>2, <1>5, <2>2 DEF CutInv
<1>14. BaseInv'
  BY <1>2, <1>5 DEF BaseInv
<1> QED
  BY <1>9, <1>10, <1>13, <1>14 DEF LedgerInv

\* A row more, or the row that was there.
LEMMA PersistFacts ==
  ASSUME VotesInv, NEW i \in DOMAIN sent, Persist(i)
  PROVE  /\ stored' \in Seq(Nat) /\ IsInjective(stored') /\ Range(stored') = Range(stored) \cup {i}
         /\ stored' = stored \/ (i \notin Range(stored) /\ stored' = Append(stored, i))
<1>1. stored \in Seq(Nat) /\ IsInjective(stored) /\ i \in Nat
  BY RowFacts DEF VotesInv
<1>2. CASE i \in Range(stored)
  BY <1>1, <1>2 DEF Persist
<1>3. CASE i \notin Range(stored)
  <2>1. stored' = Append(stored, i)
    BY <1>3 DEF Persist
  <2>2. PICK n \in Nat : n = Len(stored)
    BY <1>1, LenProperties
  <2>3. PICK t : t = Append(stored, i)
    OBVIOUS
  <2>4. t \in Seq(Nat) /\ Range(t) = Range(stored) \cup {i}
    BY <1>1, <2>3, RangeAppend
  <2>5. IsInjective(t)
    <3>1. IsInjective(Append(stored, i))
      BY <1>1, <1>3, StoredOnce
    <3> QED
      BY <2>3, <3>1
  <2> QED
    BY <1>3, <2>1, <2>3, <2>4, <2>5
<1> QED
  BY <1>2, <1>3

\* A row added to the database, in time or late, is known to no base of the worker: the two
\* replays of the cut take the same step.
LEMMA PersistLedger ==
  ASSUME LedgerInv, NEW i \in DOMAIN sent, Persist(i), UNCHANGED <<sent, worker>>
  PROVE  WorkerInv' /\ CutInv' /\ BaseInv'
<1>1. VotesInv /\ WorkerInv /\ CutInv /\ BaseInv
  BY DEF LedgerInv
<1>2. UNCHANGED <<sent, stage, listed, photo, snapshot, base>>
  BY DEF worker
<1>3. /\ Range(stored') = Range(stored) \cup {i}
      /\ stored' = stored \/ (i \notin Range(stored) /\ stored' = Append(stored, i))
  BY <1>1, PersistFacts
<1>4. WorkerInv'
  <2>1. listed' \subseteq Range(stored')
    BY <1>1, <1>2, <1>3 DEF WorkerInv
  <2>2. Of(photo)' /\ Of(snapshot)' /\ Of(base)'
    <3>1. /\ photo.state \in Ledger /\ photo.ids \subseteq Range(stored) \cup {0}
          /\ snapshot.state \in Ledger /\ snapshot.ids \subseteq Range(stored) \cup {0}
          /\ base.state \in Ledger /\ base.ids \subseteq Range(stored) \cup {0}
      BY <1>1 DEF WorkerInv, Of
    <3> QED
      BY <1>2, <1>3, <3>1 DEF Of, Ledger
  <2> QED
    BY <1>1, <1>2, <2>1, <2>2 DEF WorkerInv
<1>5. CutInv'
  <2>1. CASE stored' = stored
    BY <1>1, <1>2, <2>1 DEF CutInv
  <2>2. CASE i \notin Range(stored) /\ stored' = Append(stored, i)
    <3>1. SUFFICES ASSUME stage' \in {"planned", "booked"}
                   PROVE  /\ photo'.ids \subseteq snapshot'.ids
                          /\ Replay(sent', snapshot', stored').state = Replay(sent', photo', stored').state
      BY DEF CutInv
    <3>2. /\ photo.ids \subseteq snapshot.ids
          /\ Replay(sent, snapshot, stored).state = Replay(sent, photo, stored).state
      BY <1>1, <1>2, <3>1 DEF CutInv
    <3>3. /\ Base(photo) /\ Base(snapshot) /\ i \notin photo.ids /\ i \notin snapshot.ids
          /\ sent \in Seq(Event) /\ stored \in Seq(Nat) /\ Range(stored) \subseteq DOMAIN sent
      BY <1>1, <2>2, OfBase, RowFacts DEF WorkerInv, VotesInv
    <3>4. Replay(sent, snapshot, Append(stored, i)).state = Replay(sent, photo, Append(stored, i)).state
      BY <3>2, <3>3, CutStep
    <3> QED
      BY <1>2, <2>2, <3>2, <3>4
  <2> QED
    BY <1>3, <2>1, <2>2
<1>6. BaseInv'
  BY <1>1, <1>2 DEF BaseInv
<1> QED
  BY <1>4, <1>5, <1>6

\* The listener hands an event over: it becomes a row, or one that will come again.
LEMMA HandleLedger ==
  ASSUME LedgerInv, HandleMessage
  PROVE  LedgerInv'
<1>1. VotesInv /\ WorkerInv /\ CutInv /\ BaseInv
  BY DEF LedgerInv
<1>2. /\ handled < Len(sent) /\ handled' = handled + 1
      /\ UNCHANGED <<sent, casts, worker>>
      /\ \/ Persist(handled + 1) /\ UNCHANGED late
         \/ late' = late \cup {handled + 1} /\ UNCHANGED stored
  BY DEF HandleMessage
<1>3. /\ Len(sent) \in Nat /\ DOMAIN sent = 1 .. Len(sent) /\ handled \in Nat
      /\ late \cup Range(stored) = 1 .. handled
  BY <1>1, RowFacts DEF VotesInv
<1>4. handled + 1 \in DOMAIN sent /\ handled' \in 0 .. Len(sent')
      /\ 1 .. handled' = (1 .. handled) \cup {handled + 1}
  BY <1>2, <1>3
<1>5. CASE Persist(handled + 1) /\ UNCHANGED late
  <2>1. stored' \in Seq(Nat) /\ IsInjective(stored') /\ Range(stored') = Range(stored) \cup {handled + 1}
    BY <1>1, <1>4, <1>5, PersistFacts
  <2>2. late' \cup Range(stored') = 1 .. handled'
    BY <1>3, <1>4, <1>5, <2>1
  <2>3. VotesInv'
    BY <1>1, <1>2, <1>4, <2>1, <2>2 DEF VotesInv
  <2> QED
    BY <1>2, <1>4, <1>5, <2>3, PersistLedger DEF LedgerInv
<1>6. CASE late' = late \cup {handled + 1} /\ UNCHANGED stored
  <2>1. late' \cup Range(stored') = 1 .. handled'
    BY <1>3, <1>4, <1>6
  <2>2. VotesInv'
    BY <1>1, <1>2, <1>4, <1>6, <2>1 DEF VotesInv
  <2>3. WorkerInv' /\ CutInv' /\ BaseInv'
    BY <1>1, <1>2, <1>6, WorkerKept DEF CutInv, BaseInv, worker
  <2> QED
    BY <2>2, <2>3 DEF LedgerInv
<1> QED
  BY <1>2, <1>5, <1>6

\* An event that was not acknowledged comes again, and becomes a row.
LEMMA RedeliverLedger ==
  ASSUME LedgerInv, Redeliver
  PROVE  LedgerInv'
<1>1. VotesInv /\ WorkerInv /\ CutInv /\ BaseInv
  BY DEF LedgerInv
<1>2. PICK i \in late \cup Range(stored) : Persist(i)
  BY DEF Redeliver
<1>3. UNCHANGED <<sent, casts, handled, late, worker>>
  BY DEF Redeliver
<1>4. i \in DOMAIN sent
  BY <1>1, RowFacts
<1>5. stored' \in Seq(Nat) /\ IsInjective(stored') /\ Range(stored') = Range(stored) \cup {i}
  BY <1>1, <1>2, <1>4, PersistFacts
<1>6. late' \cup Range(stored') = 1 .. handled'
  <2>1. late \cup Range(stored) = 1 .. handled
    BY <1>1 DEF VotesInv
  <2> QED
    BY <1>3, <1>5, <2>1
<1>7. VotesInv'
  BY <1>1, <1>3, <1>5, <1>6 DEF VotesInv
<1>8. WorkerInv' /\ CutInv' /\ BaseInv'
  BY <1>2, <1>3, <1>4, PersistLedger
<1> QED
  BY <1>7, <1>8 DEF LedgerInv

\* A collection lists rows that are in the database, and polls the votes.
LEMMA CollectLedger ==
  ASSUME LedgerInv, ListIds \/ ReadPoll \/ CollectFails
  PROVE  LedgerInv'
<1>1. VotesInv /\ WorkerInv
  BY DEF LedgerInv
<1>2. UNCHANGED <<sent, casts, listener, snapshot, base>>
  BY DEF ListIds, ReadPoll, CollectFails
<1>3. UNCHANGED stored
  BY <1>2 DEF listener
<1>4. VotesInv'
  BY <1>1, <1>2, VotesKept
<1>5. stage' \in {"open", "listing", "collected"}
  BY DEF ListIds, ReadPoll, CollectFails
<1>6. listed' \subseteq Range(stored')
  BY <1>3 DEF ListIds, ReadPoll, CollectFails
<1>7. Of(photo)'
  <2>1. CASE ReadPoll
    <3>1. photo' = [state |-> PhotoState, ids |-> listed]
      BY <2>1 DEF ReadPoll
    <3>2. photo'.state \in Ledger /\ photo'.ids = listed
      BY <1>1, <3>1, PhotoStateType
    <3>3. listed \subseteq Range(stored)
      BY <1>1 DEF WorkerInv
    <3> QED
      BY <1>3, <3>2, <3>3 DEF Of, Ledger
  <2>2. CASE ListIds \/ CollectFails
    <3>1. photo' = photo
      BY <2>2 DEF ListIds, CollectFails
    <3> QED
      BY <1>1, <1>3, <3>1 DEF WorkerInv, Of, Ledger
  <2> QED
    BY <2>1, <2>2
<1>8. Of(snapshot)' /\ Of(base)' /\ base'.taken \subseteq Hours
  BY <1>1, <1>2, <1>3 DEF WorkerInv, Of, Ledger
<1>9. WorkerInv'
  BY <1>5, <1>6, <1>7, <1>8 DEF WorkerInv
<1>10. CutInv' /\ BaseInv'
  BY <1>5 DEF CutInv, BaseInv
<1> QED
  BY <1>4, <1>9, <1>10 DEF LedgerInv

\* The plan cuts where its snapshot stands: replaying the rest from there gives what a replay
\* of everything gives.
LEMMA PlanLedger ==
  ASSUME LedgerInv, Plan
  PROVE  LedgerInv'
<1>1. VotesInv /\ WorkerInv
  BY DEF LedgerInv
<1>2. /\ UNCHANGED <<sent, casts, listener, listed, photo, base>> /\ UNCHANGED stored
      /\ stage' = "planned" /\ snapshot' = Snapshot
  BY DEF Plan, listener
<1>3. VotesInv'
  BY <1>1, <1>2, VotesKept
<1>4. PICK new : new = Snapshot
  OBVIOUS
<1>5. new = [state |-> Replay(sent, photo, stored).state, ids |-> Replay(sent, photo, stored).ids]
  BY <1>4, Replayed DEF Snapshot
<1>6. /\ Base(photo) /\ sent \in Seq(Event) /\ stored \in Seq(Nat) /\ Range(stored) \subseteq DOMAIN sent
  BY <1>1, OfBase, RowFacts DEF VotesInv, WorkerInv
<1>7. /\ Base(new) /\ new.ids = photo.ids \cup Range(stored)
      /\ Replay(sent, new, stored).state = Replay(sent, photo, stored).state
  BY <1>5, <1>6, CutHere
<1>8. Of(snapshot)'
  <2>1. photo.ids \subseteq Range(stored) \cup {0}
    BY <1>1 DEF WorkerInv, Of
  <2> QED
    BY <1>2, <1>4, <1>7, <2>1 DEF Of, Base, Ledger
<1>9. WorkerInv'
  <2>1. listed' \subseteq Range(stored') /\ Of(photo)' /\ Of(base)' /\ base'.taken \subseteq Hours
    BY <1>1, <1>2 DEF WorkerInv, Of, Ledger
  <2> QED
    BY <1>2, <1>8, <2>1 DEF WorkerInv
<1>10. CutInv'
  BY <1>2, <1>4, <1>7 DEF CutInv
<1>11. BaseInv'
  BY <1>2 DEF BaseInv
<1> QED
  BY <1>3, <1>9, <1>10, <1>11 DEF LedgerInv

\* The booking keeps the votes and the rows of the snapshot it was planned from.
LEMMA BookLedger ==
  ASSUME LedgerInv, Book
  PROVE  LedgerInv'
<1>1. VotesInv /\ WorkerInv /\ CutInv
  BY DEF LedgerInv
<1>2. /\ UNCHANGED <<sent, casts, listener, listed, photo, snapshot>> /\ UNCHANGED stored
      /\ stage = "planned" /\ stage' = "booked"
  BY DEF Book, listener
<1>3. PICK taken \in SUBSET Hours : base' = [state |-> snapshot.state, ids |-> snapshot.ids, taken |-> taken]
  BY DEF Book
<1>4. base'.state = snapshot.state /\ base'.ids = snapshot.ids /\ base'.taken \subseteq Hours
  BY <1>3
<1>5. VotesInv'
  BY <1>1, <1>2, VotesKept
<1>6. WorkerInv'
  <2>1. listed' \subseteq Range(stored') /\ Of(photo)' /\ Of(snapshot)'
    BY <1>1, <1>2 DEF WorkerInv, Of, Ledger
  <2>2. Of(base)'
    BY <1>1, <1>2, <1>4 DEF WorkerInv, Of, Ledger
  <2> QED
    BY <1>2, <1>4, <2>1, <2>2 DEF WorkerInv
<1>7. CutInv'
  BY <1>1, <1>2 DEF CutInv
<1>8. BaseInv'
  BY <1>2, <1>4 DEF BaseInv
<1> QED
  BY <1>5, <1>6, <1>7, <1>8 DEF LedgerInv

\* Nothing changes when nothing happens.
LEMMA LedgerStill ==
  ASSUME LedgerInv, UNCHANGED votesVars
  PROVE  LedgerInv'
<1>1. UNCHANGED <<sent, casts, listener, stored, stage, listed, photo, snapshot, base>>
  BY DEF votesVars, listener
<1>2. VotesInv'
  BY <1>1, VotesKept DEF LedgerInv
<1>3. WorkerInv'
  BY <1>1, WorkerKept DEF LedgerInv, worker
<1>4. CutInv' /\ BaseInv'
  BY <1>1 DEF LedgerInv, CutInv, BaseInv
<1> QED
  BY <1>2, <1>3, <1>4 DEF LedgerInv

\* It holds in every state.
LEMMA LedgerAlways == VotesSpec => []LedgerInv
<1>1. LedgerInv /\ [VotesNext]_votesVars => LedgerInv'
  <2> SUFFICES ASSUME LedgerInv, [VotesNext]_votesVars PROVE LedgerInv'
    OBVIOUS
  <2>1. CASE Cast
    BY <2>1, CastLedger
  <2>2. CASE HandleMessage
    BY <2>2, HandleLedger
  <2>3. CASE Redeliver
    BY <2>3, RedeliverLedger
  <2>4. CASE ListIds \/ ReadPoll \/ CollectFails
    BY <2>4, CollectLedger
  <2>5. CASE Plan
    BY <2>5, PlanLedger
  <2>6. CASE Book
    BY <2>6, BookLedger
  <2>7. CASE UNCHANGED votesVars
    BY <2>7, LedgerStill
  <2> QED
    BY <2>1, <2>2, <2>3, <2>4, <2>5, <2>6, <2>7 DEF VotesNext
<1> QED
  BY <1>1, LedgerInit, PTL DEF VotesSpec

-----------------------------------------------------------------------------
(* What follows for the ledger and the roster.                              *)

\* It has every variable well formed.
LEMMA TypeFollows == LedgerInv => VotesTypeOK
<1> SUFFICES ASSUME LedgerInv PROVE VotesTypeOK
  OBVIOUS
<1>1. VotesInv /\ WorkerInv /\ CutInv
  BY DEF LedgerInv
<1>2. /\ handled \in Nat /\ handled \in 0 .. Len(sent) /\ late \cup Range(stored) = 1 .. handled
      /\ IsInjective(stored) /\ casts \in 0 .. MaxCasts
  BY <1>1, RowFacts DEF VotesInv
<1>3. sent \in Seq([voter : Players, option : Options \cup {NoVote}, empty : BOOLEAN, at : Nat])
  BY <1>1 DEF VotesInv, Event
<1>4. handled = Cardinality(late \cup Range(stored))
  <2>1. Cardinality(1 .. handled) = IF 1 > handled THEN 0 ELSE handled - 1 + 1
    BY <1>2, FS_Interval
  <2>2. Cardinality(1 .. handled) = handled
    BY <1>2, <2>1
  <2> QED
    BY <1>2, <2>2
<1>5. late \subseteq 1 .. handled /\ Range(stored) \subseteq 1 .. handled
  BY <1>2
<1>6. /\ stage \in {"open", "listing", "collected", "planned", "booked"}
      /\ listed \subseteq Range(stored)
      /\ photo.state \in Ledger /\ snapshot.state \in Ledger /\ base.state \in Ledger
      /\ snapshot.ids \subseteq Range(stored) \cup {0} /\ base.taken \subseteq Hours
  BY <1>1 DEF WorkerInv, Of
<1>7. stage \in {"planned", "booked"} => photo.ids \subseteq snapshot.ids
  BY <1>1 DEF CutInv
<1> QED
  BY <1>2, <1>3, <1>4, <1>5, <1>6, <1>7 DEF VotesTypeOK

\* It makes the cut of the plan invisible: the live votes are those of an uncut replay.
LEMMA CutFollows == LedgerInv => CutInvisible
BY Replayed DEF LedgerInv, CutInv, CutInvisible

\* Replayed with the rows of the database, or with the first of them, the roster is where
\* the votes are; with all of them, these are the votes of the photo.
LEMMA RosterOf ==
  ASSUME LedgerInv, NEW rows \in Seq(Nat), Range(rows) \subseteq Range(stored)
  PROVE  /\ RosterWith(rows) = ApplyMoves(InitialRosters(base), Replay(sent, base, rows).applied)
         /\ Agrees(RosterWith(rows), Replay(sent, base, rows).state)
<1>1. VotesInv /\ WorkerInv
  BY DEF LedgerInv
<1>2. RosterWith(rows) = ApplyMoves(InitialRosters(base), Replay(sent, base, rows).applied)
  BY Replayed DEF RosterWith
<1>3. base.state \in Ledger /\ Base(base) /\ sent \in Seq(Event)
  BY <1>1, OfBase DEF WorkerInv, Of, VotesInv
<1>4. Rows(rows, sent, Len(rows)) /\ Len(rows) \in Nat
  BY <1>1, <1>3, RowsOf, RowFacts
<1>5. Agrees(InitialRosters(base), base.state)
  BY <1>3, InitialAgrees
<1> QED
  BY <1>2, <1>3, <1>4, <1>5, RosterFollows

\* It makes the roster seat, or keep waiting, exactly those whom the ledger has at an hour:
\* the first roster is made of the base's votes and every event moves both.
LEMMA RosterFollowsVotes == LedgerInv => RosterSound
<1> SUFFICES ASSUME LedgerInv, stage = "booked"
             PROVE  /\ \A h \in Hours : /\ Held(Roster[h]) = Yes(LiveVotes.state, h)
                                        /\ Orderly(Roster[h]) /\ Full(Roster[h])
  BY DEF RosterSound, RosterMatchesVotes, NoIdleSeat, Published
<1>1. VotesInv /\ CutInv /\ BaseInv
  BY DEF LedgerInv
<1>2. stored \in Seq(Nat)
  BY <1>1 DEF VotesInv
<1>3. Agrees(Roster, Replay(sent, base, stored).state)
  BY <1>2, RosterOf DEF Roster
<1>4. Replay(sent, base, stored) = Replay(sent, snapshot, stored)
  BY <1>1, SameBase DEF BaseInv
<1>5. Replay(sent, base, stored).state = LiveVotes.state
  BY <1>1, <1>4, Replayed DEF CutInv
<1>6. Agrees(Roster, LiveVotes.state)
  BY <1>3, <1>5
<1> QED
  BY <1>6 DEF Agrees, Sound, SoundHour

\* A withdrawal is a withdrawal, whatever is chosen instead.
LEMMA MoveAway ==
  ASSUME NEW r, NEW p, NEW option, option \notin Hours
  PROVE  Move(r, p, option) = Move(r, p, Nobody)
BY VoteRosterAssumption DEF Move

\* The last row is known or ignored, and changes nothing, or is one move on the roster of the
\* rows before it.
LEMMA OneMove ==
  ASSUME LedgerInv, stored # <<>>
  PROVE  /\ Sound(RosterWith(Front(stored)))
         /\ \/ Roster = RosterWith(Front(stored))
            \/ \E option \in Hours \cup {Nobody} :
                 Roster = Move(RosterWith(Front(stored)), sent[Last(stored)].voter, option)
         /\ sent[Last(stored)].voter \in Players
<1>1. VotesInv /\ WorkerInv
  BY DEF LedgerInv
<1>2. stored \in Seq(Nat) /\ sent \in Seq(Event) /\ Range(stored) \subseteq DOMAIN sent
  BY <1>1, RowFacts DEF VotesInv
<1>3. PICK front : front = Front(stored)
  OBVIOUS
<1>4. PICK i : i = Last(stored)
  OBVIOUS
<1>5. front \in Seq(Nat) /\ i \in Nat /\ stored = Append(front, i)
  BY <1>2, <1>3, <1>4, FrontLast
<1>6. Range(stored) = Range(front) \cup {i}
  BY <1>5, RangeAppend
<1>7. i \in DOMAIN sent /\ Range(front) \subseteq Range(stored) /\ Range(front) \subseteq DOMAIN sent
  BY <1>2, <1>6
<1>8. Base(base)
  BY <1>1, OfBase DEF WorkerInv
<1>9. PICK before : before = Replay(sent, base, front)
  OBVIOUS
<1>10. PICK after : after = Replay(sent, base, stored)
  OBVIOUS
<1>11. PICK start : start = InitialRosters(base)
  OBVIOUS
<1>12. before \in Account
  BY <1>2, <1>5, <1>7, <1>8, <1>9, RowsOf, ReplayIntegrates
<1>13. after = ApplyEvent(sent, base.ids, before, i)
  BY <1>5, <1>9, <1>10, ReplayOneMore
<1>14. Effect(sent, base.ids, before, after, i)
  BY <1>2, <1>7, <1>12, <1>13, ApplyFacts
<1>15. PICK old : old = RosterWith(front)
  OBVIOUS
<1>16. old = ApplyMoves(start, before.applied) /\ Sound(old)
  BY <1>5, <1>7, <1>9, <1>11, <1>15, RosterOf DEF Agrees
<1>17. Roster = ApplyMoves(start, after.applied)
  BY <1>2, <1>10, <1>11, RosterOf DEF Roster
<1>18. PICK event : event = sent[i]
  OBVIOUS
<1>19. event.voter \in Players /\ NormalizeOption(event.option) \in Answer
  BY <1>2, <1>7, <1>18, EventFacts, NormalizeType
<1>20. CASE i \in base.ids \/ Ignored(before, event)
  <2>1. after.applied = before.applied
    BY <1>14, <1>18, <1>20 DEF Effect
  <2> QED
    BY <1>3, <1>4, <1>15, <1>16, <1>17, <1>18, <1>19, <2>1
<1>21. CASE i \notin base.ids /\ ~Ignored(before, event)
  <2>1. PICK option : option = NormalizeOption(event.option)
    OBVIOUS
  <2>2. PICK move : move = [voter |-> event.voter, option |-> option]
    OBVIOUS
  <2>3. after.applied = Append(before.applied, move)
    BY <1>14, <1>18, <1>21, <2>1, <2>2 DEF Effect
  <2>4. PICK M : M = [voter : Players, option : Answer]
    OBVIOUS
  <2>5. before.applied \in Seq(M)
    BY <1>12, <2>4 DEF Account
  <2>6. move \in M
    BY <1>19, <2>1, <2>2, <2>4
  <2>7. ApplyMoves(start, Append(before.applied, move)) = MoveBy(ApplyMoves(start, before.applied), move)
    BY <2>5, <2>6, OneMoreMove
  <2>8. Roster = MoveBy(old, move)
    BY <1>16, <1>17, <2>3, <2>7
  <2>9. Roster = Move(old, event.voter, option)
    BY <2>2, <2>8 DEF MoveBy
  <2>10. \E o \in Hours \cup {Nobody} : Roster = Move(old, event.voter, o)
    <3>1. CASE option \in Hours
      BY <2>9, <3>1
    <3>2. CASE option \notin Hours
      BY <2>9, <3>2, MoveAway
    <3> QED
      BY <3>1, <3>2
  <2> QED
    BY <1>3, <1>4, <1>15, <1>16, <1>18, <1>19, <2>10
<1> QED
  BY <1>20, <1>21

\* It makes each event one move at most, which unseats nobody else and lets nobody pass.
LEMMA OneMoveFollows == LedgerInv => OneMovePerEvent
<1> SUFFICES ASSUME LedgerInv, stored # <<>>
             PROVE  /\ \/ Roster = RosterWith(Front(stored))
                       \/ \E option \in Hours \cup {Nobody} :
                            Roster = Move(RosterWith(Front(stored)), sent[Last(stored)].voter, option)
                    /\ \A h \in Hours : FairTo(RosterWith(Front(stored))[h], Roster[h])
  BY DEF OneMovePerEvent, NeverRewritten, WaitingIsFair
<1>1. PICK old : old = RosterWith(Front(stored))
  OBVIOUS
<1>2. PICK p : p = sent[Last(stored)].voter
  OBVIOUS
<1>3. /\ Sound(old) /\ p \in Players
      /\ Roster = old \/ \E option \in Hours \cup {Nobody} : Roster = Move(old, p, option)
  BY <1>1, <1>2, OneMove
<1>4. ASSUME NEW h \in Hours
      PROVE  FairTo(old[h], Roster[h])
  <2>1. CASE Roster = old
    <3>1. SoundHour(old[h])
      BY <1>3 DEF Sound
    <3> QED
      BY <2>1, <3>1, FairStill
  <2>2. CASE \E option \in Hours \cup {Nobody} : Roster = Move(old, p, option)
    <3>1. PICK option : Roster = Move(old, p, option)
      BY <2>2
    <3>2. PICK new : new = Move(old, p, option)
      OBVIOUS
    <3>3. FairTo(old[h], new[h])
      BY <1>3, <3>2, MoveFair
    <3> QED
      BY <3>1, <3>2, <3>3
  <2> QED
    BY <1>3, <2>1, <2>2
<1> QED
  BY <1>1, <1>2, <1>3, <1>4

-----------------------------------------------------------------------------
(* No vote is lost.                                                         *)

\* WhatsApp's dates follow the order of the votes, but for a vote that comes with an
\* empty retraction; an empty event is a retraction.
Dated(events) ==
  \A i \in 1 .. Len(events) :
    /\ events[i].at > 0
    /\ events[i].empty => events[i].option = NoVote
    /\ \A j \in 1 .. Len(events) : i < j =>
         events[i].at <= events[j].at /\ (events[i].at = events[j].at => events[i].empty)

\* The ids of a collection are those of the rows there were at some moment.
ListedAs(ids, rows) == \E j \in 0 .. Len(rows) : ids = {rows[q] : q \in 1 .. j}

\* What a poll of the m first votes says of p.
Polled(events, entry, p, m) ==
  \E x \in 0 .. m :
    /\ x = 0 \/ events[x].voter = p
    /\ \A y \in 1 .. m : events[y].voter = p => y <= x
    /\ x = 0 => entry = None
    /\ x # 0 => IF events[x].option = NoVote THEN entry = None
                ELSE entry = [option |-> NormalizeOption(events[x].option),
                              lastAt |-> IF p \in Undated THEN -1 ELSE events[x].at]

\* A photo is the poll of the m first votes, and its ids are j rows, all among them.
Pictures(events, rows, from, j, m) ==
  /\ from.ids = {rows[q] : q \in 1 .. j}
  /\ \A q \in 1 .. j : rows[q] <= m
  /\ \A p \in Players : Polled(events, from.state[p], p, m)

\* A photo is such a picture.
Taken(events, rows, from) ==
  \E j \in 0 .. Len(rows), m \in 0 .. Len(events) : Pictures(events, rows, from, j, m)

\* The inductive invariant of the dates and of the photo.
PollInv ==
  /\ Dated(sent) /\ ListedAs(listed, stored)
  /\ photo # NoPhoto => Taken(sent, stored, photo)

\* An event dated after the last one, or a vote with its empty retraction, keeps the dates.
LEMMA DatedAppend ==
  ASSUME NEW events \in Seq(Event), Dated(events), NEW event \in Event,
         event.empty => event.option = NoVote,
         \/ event.at = (IF Len(events) = 0 THEN 0 ELSE events[Len(events)].at) + 1
         \/ /\ Len(events) > 0 /\ events[Len(events)].empty
            /\ event.at = events[Len(events)].at
  PROVE  Dated(Append(events, event))
<1>1. PICK n \in Nat : n = Len(events)
  BY LenProperties
<1>2. PICK all : all = Append(events, event)
  OBVIOUS
<1>3. /\ Len(all) = n + 1 /\ all[n + 1] = event /\ DOMAIN events = 1 .. n
      /\ \A k \in 1 .. n : all[k] = events[k]
  BY <1>1, <1>2, AppendFacts
<1>4. \A k \in 1 .. n : events[k].at \in Nat
  BY <1>3, EventFacts
<1>5. event.at \in Nat
  BY DEF Event
<1>6. \A i \in 1 .. n :
        /\ events[i].at > 0
        /\ events[i].empty => events[i].option = NoVote
        /\ \A j \in 1 .. n : i < j =>
             events[i].at <= events[j].at /\ (events[i].at = events[j].at => events[i].empty)
  BY <1>1 DEF Dated
<1>7. \A k \in 1 .. n + 1 : k = n + 1 \/ k \in 1 .. n
  OBVIOUS
<1>8. event.at > 0
  <2>1. n # 0 => n \in 1 .. n
    OBVIOUS
  <2> QED
    BY <1>1, <1>4, <1>6, <2>1
<1>9. ASSUME NEW i \in 1 .. n
      PROVE  events[i].at <= event.at /\ (events[i].at = event.at => events[i].empty)
  <2>1. n \in 1 .. n /\ n # 0
    OBVIOUS
  <2>2. PICK now \in Nat : now = events[n].at
    BY <1>4, <2>1
  <2>3. PICK date \in Nat : date = events[i].at
    BY <1>4
  <2>4. event.at = now + 1 \/ (events[n].empty /\ event.at = now)
    BY <1>1, <2>1, <2>2
  <2>5. CASE i = n
    BY <2>2, <2>3, <2>4, <2>5
  <2>6. CASE i # n
    <3>1. i < n
      BY <2>6
    <3>2. date <= now /\ (date = now => events[i].empty)
      BY <1>6, <2>1, <2>2, <2>3, <3>1
    <3> QED
      BY <1>5, <2>2, <2>3, <2>4, <3>2
  <2> QED
    BY <2>5, <2>6
<1>10. ASSUME NEW i \in 1 .. n + 1
       PROVE  /\ all[i].at > 0
              /\ all[i].empty => all[i].option = NoVote
              /\ \A j \in 1 .. n + 1 : i < j =>
                   all[i].at <= all[j].at /\ (all[i].at = all[j].at => all[i].empty)
  <2>1. CASE i = n + 1
    <3>1. \A j \in 1 .. n + 1 : ~(i < j)
      BY <2>1
    <3> QED
      BY <1>3, <1>8, <2>1, <3>1
  <2>2. CASE i \in 1 .. n
    <3>1. ASSUME NEW j \in 1 .. n + 1, i < j
          PROVE  all[i].at <= all[j].at /\ (all[i].at = all[j].at => all[i].empty)
      <4>1. CASE j = n + 1
        BY <1>3, <1>9, <2>2, <4>1
      <4>2. CASE j \in 1 .. n
        BY <1>3, <1>6, <2>2, <3>1, <4>2
      <4> QED
        BY <1>7, <4>1, <4>2
    <3> QED
      BY <1>3, <1>6, <2>2, <3>1
  <2> QED
    BY <1>7, <2>1, <2>2
<1> QED
  BY <1>2, <1>3, <1>10 DEF Dated

\* A vote or a row more changes nothing of what a photo was taken of.
LEMMA PolledAppend ==
  ASSUME NEW events, NEW all, NEW m, \A k \in 1 .. m : all[k] = events[k], m \in Nat,
         NEW entry, NEW p, Polled(events, entry, p, m)
  PROVE  Polled(all, entry, p, m)
<1>1. PICK x \in 0 .. m :
        /\ x = 0 \/ events[x].voter = p
        /\ \A y \in 1 .. m : events[y].voter = p => y <= x
        /\ x = 0 => entry = None
        /\ x # 0 => IF events[x].option = NoVote THEN entry = None
                    ELSE entry = [option |-> NormalizeOption(events[x].option),
                                  lastAt |-> IF p \in Undated THEN -1 ELSE events[x].at]
  BY DEF Polled
<1>2. x # 0 => x \in 1 .. m
  OBVIOUS
<1>3. x # 0 => all[x] = events[x]
  BY <1>2
<1>4. x = 0 \/ all[x].voter = p
  BY <1>1, <1>3
<1>5. \A y \in 1 .. m : all[y].voter = p => y <= x
  BY <1>1
<1>6. x # 0 => IF all[x].option = NoVote THEN entry = None
               ELSE entry = [option |-> NormalizeOption(all[x].option),
                             lastAt |-> IF p \in Undated THEN -1 ELSE all[x].at]
  BY <1>1, <1>3
<1> QED
  BY <1>1, <1>4, <1>5, <1>6 DEF Polled

\* What a collection took stays so when votes and rows come after it.
LEMMA TakenAppend ==
  ASSUME NEW events \in Seq(Event), NEW rows \in Seq(Nat), NEW from, Taken(events, rows, from)
  PROVE  /\ \A event \in Event : Taken(Append(events, event), rows, from)
         /\ \A i \in Nat : Taken(events, Append(rows, i), from)
<1>1. PICK j \in 0 .. Len(rows), m \in 0 .. Len(events) : Pictures(events, rows, from, j, m)
  BY DEF Taken
<1>2. Len(rows) \in Nat /\ Len(events) \in Nat /\ j \in Nat /\ m \in Nat
  BY LenProperties
<1>3. ASSUME NEW event \in Event
      PROVE  Taken(Append(events, event), rows, from)
  <2>1. PICK all : all = Append(events, event)
    OBVIOUS
  <2>2. Len(all) = Len(events) + 1 /\ \A k \in 1 .. Len(events) : all[k] = events[k]
    BY <1>2, <2>1, AppendFacts
  <2>3. m \in 0 .. Len(all) /\ \A k \in 1 .. m : all[k] = events[k]
    BY <1>2, <2>2
  <2>4. ASSUME NEW p \in Players PROVE Polled(all, from.state[p], p, m)
    <3>1. Polled(events, from.state[p], p, m)
      BY <1>1 DEF Pictures
    <3> QED
      BY <1>2, <2>3, <3>1, PolledAppend
  <2>5. Pictures(all, rows, from, j, m)
    BY <1>1, <2>4 DEF Pictures
  <2> QED
    BY <2>1, <2>3, <2>5 DEF Taken
<1>4. ASSUME NEW i \in Nat
      PROVE  Taken(events, Append(rows, i), from)
  <2>1. PICK all : all = Append(rows, i)
    OBVIOUS
  <2>2. Len(all) = Len(rows) + 1 /\ \A k \in 1 .. Len(rows) : all[k] = rows[k]
    BY <1>2, <2>1, AppendFacts
  <2>3. j \in 0 .. Len(all) /\ \A k \in 1 .. j : all[k] = rows[k]
    BY <1>2, <2>2
  <2>4. {all[q] : q \in 1 .. j} = {rows[q] : q \in 1 .. j}
    BY <2>3
  <2>5. Pictures(events, all, from, j, m)
    BY <1>1, <2>3, <2>4 DEF Pictures
  <2> QED
    BY <2>1, <2>3, <2>5 DEF Taken
<1> QED
  BY <1>3, <1>4

\* The rows listed stay the first ones when another row comes.
LEMMA ListedAppend ==
  ASSUME NEW rows \in Seq(Nat), NEW ids, ListedAs(ids, rows), NEW i \in Nat
  PROVE  ListedAs(ids, Append(rows, i))
<1>1. PICK j \in 0 .. Len(rows) : ids = {rows[q] : q \in 1 .. j}
  BY DEF ListedAs
<1>2. PICK all : all = Append(rows, i)
  OBVIOUS
<1>3. Len(rows) \in Nat
  BY LenProperties
<1>4. Len(all) = Len(rows) + 1 /\ \A k \in 1 .. Len(rows) : all[k] = rows[k]
  BY <1>2, <1>3, AppendFacts
<1>5. j \in 0 .. Len(all) /\ \A k \in 1 .. j : all[k] = rows[k]
  <2>1. PICK n \in Nat : n = Len(rows)
    BY <1>3
  <2>2. \A k \in 1 .. j : k \in 1 .. n
    BY <2>1
  <2>3. j \in 0 .. n + 1 /\ Len(all) = n + 1
    BY <1>4, <2>1
  <2> QED
    BY <1>4, <2>1, <2>2, <2>3
<1>6. {all[q] : q \in 1 .. j} = {rows[q] : q \in 1 .. j}
  <2>1. \A q \in 1 .. j : all[q] = rows[q]
    BY <1>5
  <2>2. ASSUME NEW y \in {all[q] : q \in 1 .. j} PROVE y \in {rows[q] : q \in 1 .. j}
    BY <2>1
  <2>3. ASSUME NEW y \in {rows[q] : q \in 1 .. j} PROVE y \in {all[q] : q \in 1 .. j}
    <3>1. PICK q \in 1 .. j : y = rows[q]
      OBVIOUS
    <3>2. y = all[q]
      BY <2>1, <3>1
    <3> QED
      BY <3>2
  <2> QED
    BY <2>2, <2>3
<1>7. ids = {all[q] : q \in 1 .. j}
  BY <1>1, <1>6
<1>8. ListedAs(ids, all)
  <2>1. j \in 0 .. Len(all)
    BY <1>5
  <2> QED
    BY <1>7, <2>1 DEF ListedAs
<1> QED
  BY <1>2, <1>8

\* The poll as it is read.
LEMMA PollIs ==
  ASSUME VotesInv, NEW p \in Players
  PROVE  Polled(sent, PhotoState[p], p, Len(sent))
<1>1. PICK n \in Nat : n = Len(sent) /\ DOMAIN sent = 1 .. n
  BY RowFacts
<1>2. PICK now : now = Current(p)
  OBVIOUS
<1>3. PhotoState[p] = IF now.option = NoVote THEN None
                      ELSE [option |-> NormalizeOption(now.option),
                            lastAt |-> IF p \in Undated THEN -1 ELSE now.at]
  BY <1>2 DEF PhotoState
<1>4. PICK entry : entry = PhotoState[p]
  OBVIOUS
<1>5. CASE VotesOf(p) = {}
  <2>1. now.option = NoVote
    BY <1>2, <1>5, CurrentType
  <2>2. \A y \in 1 .. n : sent[y].voter # p
    BY <1>1, <1>5 DEF VotesOf
  <2>3. 0 \in 0 .. n /\ entry = None
    BY <1>3, <1>4, <2>1
  <2>4. Polled(sent, entry, p, n)
    BY <2>2, <2>3 DEF Polled
  <2> QED
    BY <1>1, <1>4, <2>4
<1>6. CASE VotesOf(p) # {}
  <2>1. PICK x : x = Max(VotesOf(p))
    OBVIOUS
  <2>2. x \in VotesOf(p) /\ now = sent[x] /\ \A y \in VotesOf(p) : x >= y
    BY <1>2, <1>6, <2>1, CurrentType
  <2>3. x \in 1 .. n /\ sent[x].voter = p
    BY <1>1, <2>2 DEF VotesOf
  <2>4. \A y \in 1 .. n : sent[y].voter = p => y <= x
    <3>1. ASSUME NEW y \in 1 .. n, sent[y].voter = p PROVE y <= x
      <4>1. y \in VotesOf(p)
        BY <1>1, <3>1 DEF VotesOf
      <4> QED
        BY <2>2, <2>3, <4>1
    <3> QED
      BY <3>1
  <2>5. x \in 0 .. n /\ x # 0
    BY <2>3
  <2>6. IF sent[x].option = NoVote THEN entry = None
        ELSE entry = [option |-> NormalizeOption(sent[x].option),
                      lastAt |-> IF p \in Undated THEN -1 ELSE sent[x].at]
    BY <1>3, <1>4, <2>2
  <2>7. Polled(sent, entry, p, n)
    BY <2>3, <2>4, <2>5, <2>6 DEF Polled
  <2> QED
    BY <1>1, <1>4, <2>7
<1> QED
  BY <1>5, <1>6

\* It holds when the poll opens.
LEMMA PollInit == VotesInit => PollInv
<1> SUFFICES ASSUME VotesInit PROVE PollInv
  OBVIOUS
<1>1. PICK first \in [Players -> Options \cup {NoVote}] : sent = Opening(first)
  BY DEF VotesInit
<1>2. sent \in Seq(Event) /\ \A i \in DOMAIN sent : sent[i].empty = FALSE /\ sent[i].at = i
  BY <1>1, OpeningFacts
<1>3. PICK n \in Nat : n = Len(sent) /\ DOMAIN sent = 1 .. n
  BY <1>2, SeqFacts
<1>4. \A i \in 1 .. n : ~sent[i].empty /\ sent[i].at = i
  BY <1>2, <1>3
<1>5. Dated(sent)
  <2>1. \A i \in 1 .. n : i > 0
    OBVIOUS
  <2>2. \A i, j \in 1 .. n : i < j => i <= j /\ ~(i = j)
    OBVIOUS
  <2> QED
    BY <1>3, <1>4, <2>1, <2>2 DEF Dated
<1>6. ListedAs(listed, stored)
  <2>1. stored = [i \in 1 .. n |-> i] /\ listed = {}
    BY <1>3 DEF VotesInit
  <2>2. stored \in [1 .. n -> Nat]
    BY <2>1
  <2>3. stored \in Seq(Nat)
    BY <2>2, SeqDef
  <2>4. 0 \in 0 .. Len(stored)
    BY <2>3, LenProperties
  <2>5. listed = {stored[q] : q \in 1 .. 0}
    BY <2>1
  <2> QED
    BY <2>4, <2>5 DEF ListedAs
<1>7. photo = NoPhoto
  BY DEF VotesInit
<1> QED
  BY <1>5, <1>6, <1>7 DEF PollInv

\* A vote is dated after those before it.
LEMMA CastPoll ==
  ASSUME VotesInv, PollInv, Cast
  PROVE  PollInv'
<1>1. PICK p \in Players, option \in Options \cup {NoVote}, empty \in BOOLEAN :
        CastBy(p, option, empty)
  BY DEF Cast
<1>2. PICK event \in Event :
        /\ sent' = Append(sent, event)
        /\ event.voter = p /\ event.option = option /\ event.empty = empty
        /\ empty => option = NoVote
        /\ \/ event.at = (IF Len(sent) = 0 THEN 0 ELSE sent[Len(sent)].at) + 1
           \/ /\ Len(sent) > 0 /\ sent[Len(sent)].empty
              /\ event.at = sent[Len(sent)].at
  BY <1>1, CastFacts
<1>3. event.empty => event.option = NoVote
  BY <1>2
<1>4. sent \in Seq(Event) /\ stored \in Seq(Nat) /\ Dated(sent) /\ ListedAs(listed, stored)
  BY DEF VotesInv, PollInv
<1>5. UNCHANGED <<stored, listed, photo>>
  BY <1>1 DEF CastBy, listener, worker
<1>6. Dated(Append(sent, event))
  BY <1>2, <1>3, <1>4, DatedAppend
<1>7. Dated(sent')
  BY <1>2, <1>6
<1>8. photo # NoPhoto => Taken(sent', stored, photo)
  <2>1. SUFFICES ASSUME photo # NoPhoto PROVE Taken(sent', stored, photo)
    OBVIOUS
  <2>2. Taken(sent, stored, photo)
    BY <2>1 DEF PollInv
  <2>3. Taken(Append(sent, event), stored, photo)
    BY <1>4, <2>2, TakenAppend
  <2> QED
    BY <1>2, <2>3
<1>9. ListedAs(listed', stored') /\ (photo' # NoPhoto => Taken(sent', stored', photo'))
  BY <1>4, <1>5, <1>8
<1> QED
  BY <1>7, <1>9 DEF PollInv, NoPhoto, None

\* A row comes after those that were listed.
LEMMA PersistPoll ==
  ASSUME VotesInv, PollInv, NEW i \in DOMAIN sent, Persist(i), UNCHANGED <<sent, listed, photo>>
  PROVE  PollInv'
<1>1. stored' = stored \/ stored' = Append(stored, i)
  BY PersistFacts
<1>2. sent \in Seq(Event) /\ stored \in Seq(Nat) /\ i \in Nat /\ Dated(sent) /\ ListedAs(listed, stored)
  BY RowFacts DEF VotesInv, PollInv
<1>3. ListedAs(listed, Append(stored, i))
  BY <1>2, ListedAppend
<1>4. ListedAs(listed, stored')
  BY <1>1, <1>2, <1>3
<1>5. ASSUME photo # NoPhoto PROVE Taken(sent, stored', photo)
  <2>1. Taken(sent, stored, photo)
    BY <1>5 DEF PollInv
  <2>2. Taken(sent, Append(stored, i), photo)
    BY <1>2, <2>1, TakenAppend
  <2> QED
    BY <1>1, <2>1, <2>2
<1> QED
  BY <1>2, <1>4, <1>5 DEF PollInv, NoPhoto, None

\* When the poll is read.
LEMMA ReadPicture ==
  ASSUME VotesInv, ListedAs(listed, stored), listed \subseteq Range(stored), NEW new,
         new = [state |-> PhotoState, ids |-> listed]
  PROVE  Taken(sent, stored, new)
<1>1. PICK j \in 0 .. Len(stored) : listed = {stored[q] : q \in 1 .. j}
  BY DEF ListedAs
<1>2. PICK m \in Nat : m = Len(sent) /\ DOMAIN sent = 1 .. m /\ Range(stored) \subseteq 1 .. m
  BY RowFacts
<1>3. ASSUME NEW q \in 1 .. j PROVE stored[q] <= m
  <2>1. stored[q] \in listed
    BY <1>1
  <2>2. stored[q] \in 1 .. m
    BY <1>2, <2>1
  <2> QED
    BY <2>2
<1>4. new.state = PhotoState /\ new.ids = listed
  OBVIOUS
<1>5. ASSUME NEW p \in Players PROVE Polled(sent, new.state[p], p, m)
  BY <1>2, <1>4, PollIs
<1>6. new.ids = {stored[q] : q \in 1 .. j}
  BY <1>1, <1>4
<1>7. Pictures(sent, stored, new, j, m)
  BY <1>3, <1>5, <1>6 DEF Pictures
<1>8. m \in 0 .. Len(sent)
  BY <1>2
<1> QED
  BY <1>7, <1>8 DEF Taken

\* The ids are listed before the poll is read: every row the photo knows is a vote it shows.
LEMMA CollectPoll ==
  ASSUME VotesInv, WorkerInv, PollInv, ListIds \/ ReadPoll \/ CollectFails
  PROVE  PollInv'
<1>1. /\ Dated(sent) /\ ListedAs(listed, stored) /\ stored \in Seq(Nat)
      /\ photo # NoPhoto => Taken(sent, stored, photo)
      /\ listed \subseteq Range(stored)
  BY DEF PollInv, VotesInv, WorkerInv
<1>2. UNCHANGED <<sent, stored>>
  BY DEF ListIds, ReadPoll, CollectFails, listener
<1>3. Len(stored) \in Nat /\ Range(stored) = {stored[q] : q \in 1 .. Len(stored)}
  BY <1>1, SeqFacts
<1>4. ListedAs({}, stored)
  <2>1. 0 \in 0 .. Len(stored) /\ {} = {stored[q] : q \in 1 .. 0}
    BY <1>3
  <2> QED
    BY <2>1 DEF ListedAs
<1>5. ListedAs(Range(stored), stored)
  <2>1. Len(stored) \in 0 .. Len(stored)
    BY <1>3
  <2> QED
    BY <1>3, <2>1 DEF ListedAs
<1>6. ListedAs(listed', stored')
  <2>1. listed' = {} \/ listed' = Range(stored)
    BY DEF ListIds, ReadPoll, CollectFails
  <2> QED
    BY <1>2, <1>4, <1>5, <2>1
<1>7. photo' # NoPhoto => Taken(sent', stored', photo')
  <2>1. CASE ReadPoll
    <3>1. photo' = [state |-> PhotoState, ids |-> listed]
      BY <2>1 DEF ReadPoll
    <3>2. PICK new : new = [state |-> PhotoState, ids |-> listed]
      OBVIOUS
    <3>3. Taken(sent, stored, new)
      BY <1>1, <3>2, ReadPicture
    <3> QED
      BY <1>2, <3>1, <3>2, <3>3
  <2>2. CASE ListIds \/ CollectFails
    <3>1. photo' = photo
      BY <2>2 DEF ListIds, CollectFails
    <3> QED
      BY <1>1, <1>2, <3>1
  <2> QED
    BY <2>1, <2>2
<1> QED
  BY <1>1, <1>2, <1>6, <1>7 DEF PollInv, NoPhoto, None

\* Nothing else touches what it is about.
LEMMA StillPoll ==
  ASSUME PollInv, UNCHANGED <<sent, stored, listed, photo>>
  PROVE  PollInv'
BY DEF PollInv, NoPhoto, None

\* It holds in every state.
LEMMA PollAlways == VotesSpec => []PollInv
<1>1. LedgerInv /\ PollInv /\ [VotesNext]_votesVars => PollInv'
  <2> SUFFICES ASSUME LedgerInv, PollInv, [VotesNext]_votesVars PROVE PollInv'
    OBVIOUS
  <2>0. VotesInv /\ WorkerInv
    BY DEF LedgerInv
  <2>1. CASE Cast
    BY <2>0, <2>1, CastPoll
  <2>2. CASE HandleMessage
    <3>1. /\ UNCHANGED <<sent, listed, photo>>
          /\ Persist(handled + 1) \/ UNCHANGED stored
      BY <2>2 DEF HandleMessage, worker
    <3>2. handled + 1 \in DOMAIN sent
      BY <2>0, <2>2, RowFacts DEF HandleMessage
    <3> QED
      BY <2>0, <3>1, <3>2, PersistPoll, StillPoll
  <2>3. CASE Redeliver
    <3>1. PICK i \in late \cup Range(stored) : Persist(i)
      BY <2>3 DEF Redeliver
    <3>2. UNCHANGED <<sent, listed, photo>>
      BY <2>3 DEF Redeliver, worker
    <3>3. i \in DOMAIN sent
      BY <2>0, RowFacts
    <3> QED
      BY <2>0, <3>1, <3>2, <3>3, PersistPoll
  <2>4. CASE ListIds \/ ReadPoll \/ CollectFails
    BY <2>0, <2>4, CollectPoll
  <2>5. CASE Plan
    BY <2>5, StillPoll DEF Plan, listener
  <2>6. CASE Book
    BY <2>6, StillPoll DEF Book, listener
  <2>7. CASE UNCHANGED votesVars
    BY <2>7, StillPoll DEF votesVars
  <2> QED
    BY <2>1, <2>2, <2>3, <2>4, <2>5, <2>6, <2>7 DEF VotesNext
<1> QED
  BY <1>1, PollInit, LedgerAlways, PTL DEF VotesSpec

-----------------------------------------------------------------------------
(* The votes of one member, replayed.                                       *)

\* The ledger gives p his vote x (or none, 0), and no later vote of his is out of date.
Shows(events, entry, p, x) ==
  /\ x \in 0 .. Len(events)
  /\ x # 0 => events[x].voter = p /\ entry.option = NormalizeOption(events[x].option)
  /\ x = 0 => entry.option = Nobody
  /\ \A y \in 1 .. Len(events) : events[y].voter = p /\ y > x => entry.lastAt < events[y].at

\* A withdrawn vote is at no hour.
LEMMA NoVoteIsNobody == NormalizeOption(NoVote) = Nobody
BY VoteRosterAssumption DEF NormalizeOption

\* Later votes are dated later, unless this one is empty.
LEMMA LaterDate ==
  ASSUME NEW events \in Seq(Event), Dated(events),
         NEW x \in 1 .. Len(events), NEW y \in 1 .. Len(events), x < y
  PROVE  /\ events[x].at \in Nat /\ events[y].at \in Nat /\ events[x].at > 0
         /\ Date(events[x]) < events[y].at
         /\ events[x].option # NoVote => events[x].at < events[y].at
<1>1. x \in DOMAIN events /\ y \in DOMAIN events
  BY SeqFacts
<1>2. PICK a \in Nat : a = events[x].at
  BY <1>1, EventFacts
<1>3. PICK b \in Nat : b = events[y].at
  BY <1>1, EventFacts
<1>4. a > 0 /\ a <= b /\ (a = b => events[x].empty) /\ (events[x].empty => events[x].option = NoVote)
  BY <1>2, <1>3 DEF Dated
<1>5. CASE events[x].empty
  <2>1. Date(events[x]) = a - 1
    BY <1>2, <1>5 DEF Date
  <2> QED
    BY <1>2, <1>3, <1>4, <1>5, <2>1
<1>6. CASE ~events[x].empty
  <2>1. Date(events[x]) = a /\ a < b
    BY <1>2, <1>3, <1>4, <1>6 DEF Date
  <2> QED
    BY <1>2, <1>3, <1>4, <2>1
<1> QED
  BY <1>5, <1>6

\* The photo shows the last vote of the poll.
LEMMA PhotoShows ==
  ASSUME NEW events \in Seq(Event), Dated(events), NEW m \in 0 .. Len(events),
         NEW entry, NEW p \in Players, Polled(events, entry, p, m)
  PROVE  \E x : /\ Shows(events, entry, p, x)
                /\ \A y \in 1 .. m : events[y].voter = p => y <= x
<1>1. PICK x \in 0 .. m :
        /\ x = 0 \/ events[x].voter = p
        /\ \A y \in 1 .. m : events[y].voter = p => y <= x
        /\ x = 0 => entry = None
        /\ x # 0 => IF events[x].option = NoVote THEN entry = None
                    ELSE entry = [option |-> NormalizeOption(events[x].option),
                                  lastAt |-> IF p \in Undated THEN -1 ELSE events[x].at]
  BY DEF Polled
<1>2. PICK n \in Nat : n = Len(events) /\ DOMAIN events = 1 .. n
  BY SeqFacts
<1>3. x \in 0 .. n /\ (x # 0 => x \in 1 .. n)
  BY <1>2
<1>4. None.option = Nobody /\ None.lastAt = -1
  BY DEF None
<1>5. x # 0 => events[x].voter = p /\ entry.option = NormalizeOption(events[x].option)
  <2>1. SUFFICES ASSUME x # 0
                 PROVE  events[x].voter = p /\ entry.option = NormalizeOption(events[x].option)
    OBVIOUS
  <2>2. CASE events[x].option = NoVote
    BY <1>1, <1>4, <2>1, <2>2, NoVoteIsNobody
  <2>3. CASE events[x].option # NoVote
    <3>1. entry = [option |-> NormalizeOption(events[x].option),
                   lastAt |-> IF p \in Undated THEN -1 ELSE events[x].at]
      BY <1>1, <2>1, <2>3
    <3> QED
      BY <1>1, <2>1, <3>1
  <2> QED
    BY <2>2, <2>3
<1>6. ASSUME NEW y \in 1 .. n, y > x PROVE entry.lastAt < events[y].at
  <2>1. PICK b \in Nat : b = events[y].at
    BY <1>2, EventFacts
  <2>2. CASE entry = None
    BY <1>4, <2>1, <2>2
  <2>3. CASE entry # None
    <3>1. x # 0 /\ events[x].option # NoVote /\ x \in 1 .. n
      BY <1>1, <1>3, <2>3
    <3>2. entry = [option |-> NormalizeOption(events[x].option),
                   lastAt |-> IF p \in Undated THEN -1 ELSE events[x].at]
      BY <1>1, <3>1
    <3>3. entry.lastAt = IF p \in Undated THEN -1 ELSE events[x].at
      BY <3>2
    <3>4. events[x].at < events[y].at
      BY <1>2, <1>6, <3>1, LaterDate
    <3>5. CASE p \in Undated
      BY <2>1, <3>3, <3>5
    <3>6. CASE p \notin Undated
      BY <3>3, <3>4, <3>6
    <3> QED
      BY <3>5, <3>6
  <2> QED
    BY <2>2, <2>3
<1>7. x = 0 => entry.option = Nobody
  BY <1>1, <1>4
<1>8. Shows(events, entry, p, x)
  BY <1>2, <1>3, <1>5, <1>6, <1>7 DEF Shows
<1> QED
  BY <1>1, <1>8

\* An event after the one shown is ignored only if it has nothing to retract, and is the
\* one shown when it is applied.
LEMMA ShowsNext ==
  ASSUME NEW events \in Seq(Event), Dated(events), NEW i \in DOMAIN events, NEW p \in Players,
         NEW ledger \in Account, NEW x, Shows(events, ledger.state[p], p, x), events[i].voter = p,
         i > x, Ignored(ledger, events[i])
  PROVE  Shows(events, ledger.state[p], p, i)
<1>1. PICK n \in Nat : n = Len(events) /\ DOMAIN events = 1 .. n
  BY SeqFacts
<1>2. x \in 0 .. n /\ i \in 1 .. n
  BY <1>1 DEF Shows
<1>3. PICK entry : entry = ledger.state[p]
  OBVIOUS
<1>4. \A y \in 1 .. n : events[y].voter = p /\ y > x => entry.lastAt < events[y].at
  BY <1>1, <1>3 DEF Shows
<1>5. entry.lastAt \in Int
  <2>1. entry \in VoterState
    BY <1>3 DEF Account, Ledger
  <2> QED
    BY <2>1 DEF VoterState
<1>6. entry.lastAt < events[i].at /\ events[i].at \in Nat
  BY <1>1, <1>2, <1>4, EventFacts
<1>7. ~Stale(ledger.state, events[i])
  BY <1>3, <1>5, <1>6 DEF Stale
<1>8. events[i].empty /\ entry.option = Nobody
  BY <1>3, <1>7 DEF Ignored, NothingToRetract
<1>9. events[i].option = NoVote
  BY <1>1, <1>2, <1>8 DEF Dated
<1>10. entry.option = NormalizeOption(events[i].option)
  BY <1>8, <1>9, NoVoteIsNobody
<1>11. \A y \in 1 .. n : y > i => y > x
  BY <1>2
<1>12. Shows(events, entry, p, i)
  <2>1. i \in 0 .. n /\ i # 0
    BY <1>2
  <2>2. \A y \in 1 .. n : events[y].voter = p /\ y > i => entry.lastAt < events[y].at
    BY <1>4, <1>11
  <2> QED
    BY <1>1, <1>10, <2>1, <2>2 DEF Shows
<1> QED
  BY <1>3, <1>12

\* What an event that is applied leaves in the ledger.
Entry(event) == [option |-> NormalizeOption(event.option), lastAt |-> Date(event)]

\* An event that is applied is what the ledger shows, with a date before every later vote's.
LEMMA ShowsApplied ==
  ASSUME NEW events \in Seq(Event), Dated(events), NEW i \in DOMAIN events, NEW p \in Players,
         events[i].voter = p
  PROVE  Shows(events, Entry(events[i]), p, i)
<1>1. PICK n \in Nat : n = Len(events) /\ DOMAIN events = 1 .. n
  BY SeqFacts
<1>2. PICK entry : entry = Entry(events[i])
  OBVIOUS
<1>3. entry.option = NormalizeOption(events[i].option) /\ entry.lastAt = Date(events[i])
  BY <1>2 DEF Entry
<1>4. i \in 1 .. n /\ i \in 0 .. n /\ i # 0
  BY <1>1
<1>5. ASSUME NEW y \in 1 .. n, y > i PROVE entry.lastAt < events[y].at
  <2>1. i < y
    BY <1>4, <1>5
  <2>2. Date(events[i]) < events[y].at
    BY <1>1, <1>4, <2>1, LaterDate
  <2> QED
    BY <1>3, <2>2
<1>6. Shows(events, entry, p, i)
  BY <1>1, <1>3, <1>4, <1>5 DEF Shows
<1> QED
  BY <1>2, <1>6

\* What one step of a replay leaves p in the ledger.
Leaves(events, known, ledger, new, i, p) ==
  /\ (i \in known \/ events[i].voter # p \/ Ignored(ledger, events[i])) =>
       new.state[p] = ledger.state[p]
  /\ (i \notin known /\ events[i].voter = p /\ ~Ignored(ledger, events[i])) =>
       new.state[p] = Entry(events[i])

\* An event leaves the others as they were, and its voter too when it is known or ignored.
LEMMA EntryStep ==
  ASSUME NEW events, NEW known, NEW ledger \in Account, NEW new, NEW i, NEW p \in Players,
         Effect(events, known, ledger, new, i), events[i].voter \in Players
  PROVE  Leaves(events, known, ledger, new, i, p)
<1>1. ledger.state \in [Players -> VoterState]
  BY DEF Account, Ledger
<1>2. CASE i \in known \/ Ignored(ledger, events[i])
  <2>1. new.state = ledger.state
    BY <1>2 DEF Effect
  <2> QED
    BY <1>2, <2>1 DEF Leaves
<1>3. CASE i \notin known /\ ~Ignored(ledger, events[i])
  <2>1. PICK voter \in Players : voter = events[i].voter
    OBVIOUS
  <2>2. new.state = [ledger.state EXCEPT ![voter] = Entry(events[i])]
    BY <1>3, <2>1 DEF Effect, Entry
  <2>3. voter # p => new.state[p] = ledger.state[p]
    BY <1>1, <2>2
  <2>4. voter = p => new.state[p] = Entry(events[i])
    BY <1>1, <2>2
  <2> QED
    BY <1>3, <2>1, <2>3, <2>4 DEF Leaves
<1> QED
  BY <1>2, <1>3

\* The events of p came in the order of his votes.
Sorted(events, rows, p, n) ==
  \A a, b \in 1 .. n :
    a < b /\ events[rows[a]].voter = p /\ events[rows[b]].voter = p => rows[a] < rows[b]

\* The setting of the two inductions: the rows replayed from a photo.
Film(L, events, from, rows, n, j, m) ==
  /\ Replays(L, events, from, rows, n) /\ Base(from) /\ Rows(rows, events, n)
  /\ \A a, b \in 1 .. n : rows[a] = rows[b] => a = b
  /\ j \in 0 .. n /\ m \in 0 .. Len(events) /\ Pictures(events, rows, from, j, m)

\* One step of the replay applies one row, known to the photo when it is one of its j rows.
LEMMA FilmStep ==
  ASSUME NEW n \in Nat, NEW events \in Seq(Event), NEW from, NEW rows, NEW L, NEW j, NEW m,
         Film(L, events, from, rows, n, j, m), NEW k \in 0 .. n - 1
  PROVE  /\ k + 1 \in 1 .. n /\ k + 1 \in 0 .. n /\ k \in 0 .. n
         /\ rows[k + 1] \in DOMAIN events /\ rows[k + 1] \in Nat /\ rows[k + 1] > 0
         /\ events[rows[k + 1]].voter \in Players
         /\ L[k] \in Account
         /\ Effect(events, from.ids, L[k], L[k + 1], rows[k + 1])
         /\ rows[k + 1] \in from.ids <=> k + 1 <= j
<1>1. /\ Replays(L, events, from, rows, n) /\ Base(from) /\ Rows(rows, events, n)
      /\ \A a, b \in 1 .. n : rows[a] = rows[b] => a = b
      /\ j \in 0 .. n /\ from.ids = {rows[q] : q \in 1 .. j}
  BY DEF Film, Pictures
<1>2. /\ k + 1 \in 1 .. n /\ k + 1 \in 0 .. n /\ k \in 0 .. n
      /\ rows[k + 1] \in DOMAIN events /\ L[k] \in Account
      /\ Effect(events, from.ids, L[k], L[k + 1], rows[k + 1])
  BY <1>1, ReplayStep
<1>3. /\ rows[k + 1] \in Nat /\ rows[k + 1] > 0 /\ events[rows[k + 1]].voter \in Players
  BY <1>2, EventFacts
<1>4. PICK c \in 1 .. n : c = k + 1
  BY <1>2
<1>5. rows[c] \in from.ids <=> c <= j
  <2>1. c <= j => c \in 1 .. j
    BY <1>1
  <2>2. c <= j => rows[c] \in from.ids
    BY <1>1, <2>1
  <2>3. ASSUME rows[c] \in from.ids PROVE c <= j
    <3>1. PICK q \in 1 .. j : rows[c] = rows[q]
      BY <1>1, <2>3
    <3>2. q \in 1 .. n
      BY <1>1
    <3>3. c = q
      BY <1>1, <3>1, <3>2
    <3> QED
      BY <1>1, <3>3
  <2> QED
    BY <2>2, <2>3
<1> QED
  BY <1>2, <1>3, <1>4, <1>5

\* Of the events up to k, and those of the photo, p shows the last.
Latest(L, events, rows, p, n, j, k) ==
  \E x : /\ Shows(events, L[k].state[p], p, x)
         /\ \A q \in 1 .. n : (q <= k \/ q <= j) /\ events[rows[q]].voter = p => rows[q] <= x

\* The next event of p is his next vote: it is not out of date, and the ledger shows it.
LEMMA LatestStep ==
  ASSUME NEW n \in Nat, NEW events \in Seq(Event), Dated(events), NEW from, NEW rows, NEW L,
         NEW j, NEW m, Film(L, events, from, rows, n, j, m),
         NEW p \in Players, Sorted(events, rows, p, n),
         NEW k \in 0 .. n - 1, Latest(L, events, rows, p, n, j, k)
  PROVE  Latest(L, events, rows, p, n, j, k + 1)
<1>1. PICK c \in Nat : c = k + 1
  OBVIOUS
<1>2. PICK i : i = rows[c]
  OBVIOUS
<1>3. PICK ledger : ledger = L[k]
  OBVIOUS
<1>4. PICK new : new = L[c]
  OBVIOUS
<1>5. /\ c \in 1 .. n /\ i \in DOMAIN events /\ i \in Nat /\ events[i].voter \in Players
      /\ ledger \in Account /\ Effect(events, from.ids, ledger, new, i)
      /\ i \in from.ids <=> c <= j
  BY <1>1, <1>2, <1>3, <1>4, FilmStep
<1>13. /\ (i \in from.ids \/ events[i].voter # p \/ Ignored(ledger, events[i])) =>
            new.state[p] = ledger.state[p]
       /\ (i \notin from.ids /\ events[i].voter = p /\ ~Ignored(ledger, events[i])) =>
            new.state[p] = Entry(events[i])
  <2>1. Leaves(events, from.ids, ledger, new, i, p)
    BY <1>5, EntryStep
  <2> QED
    BY <2>1 DEF Leaves
<1>6. j \in Nat /\ j <= n /\ \A q \in 1 .. n : rows[q] \in Nat
  <2>1. j \in 0 .. n /\ Rows(rows, events, n)
    BY DEF Film
  <2>2. DOMAIN events = 1 .. Len(events) /\ Len(events) \in Nat
    BY SeqFacts
  <2> QED
    BY <2>1, <2>2 DEF Rows
<1>7. PICK x : /\ Shows(events, ledger.state[p], p, x)
               /\ \A q \in 1 .. n : (q <= k \/ q <= j) /\ events[rows[q]].voter = p => rows[q] <= x
  BY <1>3 DEF Latest
<1>8. x \in Nat
  <2>1. Len(events) \in Nat
    BY LenProperties
  <2> QED
    BY <1>7, <2>1 DEF Shows
<1>9. \A q \in 1 .. n : q <= c <=> (q <= k \/ q = c)
  BY <1>1
<1>10. CASE events[i].voter # p \/ i \in from.ids
  <2>1. new.state[p] = ledger.state[p]
    BY <1>10, <1>13
  <2>2. Shows(events, new.state[p], p, x)
    BY <1>7, <2>1
  <2>3. ASSUME NEW q \in 1 .. n, q <= c \/ q <= j, events[rows[q]].voter = p
        PROVE  rows[q] <= x
    <3>1. q # c \/ c <= j
      BY <1>2, <1>5, <1>10, <2>3
    <3>2. q <= k \/ q <= j
      BY <1>5, <1>6, <1>9, <2>3, <3>1
    <3> QED
      BY <1>7, <2>3, <3>2
  <2>4. Latest(L, events, rows, p, n, j, c)
    BY <1>4, <2>2, <2>3 DEF Latest
  <2> QED
    BY <1>1, <2>4
<1>11. CASE /\ events[i].voter = p /\ i \notin from.ids
            /\ Ignored(ledger, events[i]) /\ i <= x
  <2>1. new.state[p] = ledger.state[p]
    BY <1>11, <1>13
  <2>2. Shows(events, new.state[p], p, x)
    BY <1>7, <2>1
  <2>3. ASSUME NEW q \in 1 .. n, q <= c \/ q <= j, events[rows[q]].voter = p
        PROVE  rows[q] <= x
    <3>1. CASE q = c
      BY <1>2, <1>11, <3>1
    <3>2. CASE q # c
      <4>1. q <= k \/ q <= j
        BY <1>9, <2>3, <3>2
      <4> QED
        BY <1>7, <2>3, <4>1
    <3> QED
      BY <3>1, <3>2
  <2>4. Latest(L, events, rows, p, n, j, c)
    BY <1>4, <2>2, <2>3 DEF Latest
  <2> QED
    BY <1>1, <2>4
<1>12. CASE /\ events[i].voter = p /\ i \notin from.ids
            /\ (Ignored(ledger, events[i]) => i > x)
  <2>1. Shows(events, new.state[p], p, i)
    <3>1. CASE Ignored(ledger, events[i])
      <4>1. Shows(events, ledger.state[p], p, i)
        BY <1>5, <1>7, <1>12, <3>1, ShowsNext
      <4>2. new.state[p] = ledger.state[p]
        BY <1>12, <1>13, <3>1
      <4> QED
        BY <4>1, <4>2
    <3>2. CASE ~Ignored(ledger, events[i])
      <4>1. Shows(events, Entry(events[i]), p, i)
        BY <1>5, <1>12, ShowsApplied
      <4>2. new.state[p] = Entry(events[i])
        BY <1>12, <1>13, <3>2
      <4> QED
        BY <4>1, <4>2
    <3> QED
      BY <3>1, <3>2
  <2>2. ~(c <= j)
    BY <1>5, <1>12
  <2>3. ASSUME NEW q \in 1 .. n, q <= c \/ q <= j, events[rows[q]].voter = p
        PROVE  rows[q] <= i
    <3>1. CASE q = c
      BY <1>2, <1>5, <3>1
    <3>2. CASE q # c
      <4>1. q < c
        BY <1>5, <1>6, <2>2, <2>3, <3>2
      <4>2. rows[q] < rows[c]
        BY <1>2, <1>5, <1>12, <2>3, <4>1 DEF Sorted
      <4> QED
        BY <1>2, <1>5, <1>6, <4>2
    <3> QED
      BY <3>1, <3>2
  <2>4. Latest(L, events, rows, p, n, j, c)
    BY <1>4, <2>1, <2>3 DEF Latest
  <2> QED
    BY <1>1, <2>4
<1> QED
  <2>1. i <= x \/ i > x
    BY <1>5, <1>8
  <2> QED
    BY <1>10, <1>11, <1>12, <2>1

\* In order, whatever the photo says: in the end the ledger shows the last vote.
LEMMA LatestAlways ==
  ASSUME NEW n \in Nat, NEW events \in Seq(Event), Dated(events), NEW from, NEW rows, NEW L,
         NEW j, NEW m, Film(L, events, from, rows, n, j, m),
         NEW p \in Players, Sorted(events, rows, p, n)
  PROVE  Latest(L, events, rows, p, n, j, n)
<1> DEFINE G == {k \in 0 .. n : Latest(L, events, rows, p, n, j, k)}
<1>1. 0 \in G
  <2>1. /\ L[0] = From(from) /\ m \in 0 .. Len(events) /\ j \in 0 .. n
        /\ \A q \in 1 .. j : rows[q] <= m
        /\ Polled(events, from.state[p], p, m)
        /\ Rows(rows, events, n)
    BY DEF Film, Replays, Pictures
  <2>2. PICK x : /\ Shows(events, from.state[p], p, x)
                 /\ \A y \in 1 .. m : events[y].voter = p => y <= x
    BY <2>1, PhotoShows
  <2>3. L[0].state[p] = from.state[p]
    BY <2>1 DEF From
  <2>4. ASSUME NEW q \in 1 .. n, q <= 0 \/ q <= j, events[rows[q]].voter = p
        PROVE  rows[q] <= x
    <3>1. q \in 1 .. j
      BY <2>1, <2>4
    <3>2. rows[q] \in DOMAIN events
      BY <2>1 DEF Rows
    <3>3. rows[q] \in Nat /\ rows[q] > 0 /\ m \in Nat
      <4>1. Len(events) \in Nat
        BY LenProperties
      <4> QED
        BY <2>1, <3>2, <4>1, EventFacts
    <3>4. rows[q] \in 1 .. m
      BY <2>1, <3>1, <3>3
    <3> QED
      BY <2>2, <2>4, <3>4
  <2>5. Latest(L, events, rows, p, n, j, 0)
    BY <2>2, <2>3, <2>4 DEF Latest
  <2> QED
    BY <2>5
<1>2. ASSUME NEW k \in 0 .. n - 1, k \in G PROVE k + 1 \in G
  <2>1. Latest(L, events, rows, p, n, j, k)
    BY <1>2
  <2>2. Latest(L, events, rows, p, n, j, k + 1)
    BY <2>1, LatestStep
  <2>3. k + 1 \in 0 .. n
    OBVIOUS
  <2> QED
    BY <2>2, <2>3
<1>3. \A k \in 0 .. n : k \in G
  <2> HIDE DEF G
  <2> QED
    BY <1>1, <1>2, UpTo
<1>4. n \in G
  <2> HIDE DEF G
  <2> QED
    BY <1>3
<1> QED
  BY <1>4

\* In any order: once the last vote of p is in the photo or has come, the ledger has it
\* with its date; until then, everything it has is dated before.
Dawned(L, events, rows, p, m, f, k) ==
  LET entry == L[k].state[p]
  IN  /\ (f <= m \/ \E q \in 1 .. k : rows[q] = f) =>
           entry.option = NormalizeOption(events[f].option) /\ entry.lastAt = events[f].at
      /\ ~(f <= m \/ \E q \in 1 .. k : rows[q] = f) => entry.lastAt < events[f].at

\* The last vote of p, neither withdrawn nor undated.
LastVote(events, p, f) ==
  /\ f \in 1 .. Len(events) /\ events[f].voter = p /\ events[f].option # NoVote
  /\ \A y \in 1 .. Len(events) : events[y].voter = p => y <= f

\* It holds in the photo.
LEMMA DawnedFirst ==
  ASSUME NEW n \in Nat, NEW events \in Seq(Event), Dated(events), NEW from, NEW rows, NEW L,
         NEW j, NEW m, Film(L, events, from, rows, n, j, m),
         NEW p \in Players \ Undated, NEW f, LastVote(events, p, f)
  PROVE  Dawned(L, events, rows, p, m, f, 0)
<1>1. /\ L[0] = From(from) /\ m \in 0 .. Len(events) /\ Polled(events, from.state[p], p, m)
  BY DEF Film, Replays, Pictures
<1>2. PICK entry : entry = from.state[p]
  OBVIOUS
<1>3. L[0].state[p] = entry
  BY <1>1, <1>2 DEF From
<1>4. PICK x \in 0 .. m :
        /\ x = 0 \/ events[x].voter = p
        /\ \A y \in 1 .. m : events[y].voter = p => y <= x
        /\ x = 0 => entry = None
        /\ x # 0 => IF events[x].option = NoVote THEN entry = None
                    ELSE entry = [option |-> NormalizeOption(events[x].option),
                                  lastAt |-> IF p \in Undated THEN -1 ELSE events[x].at]
  BY <1>1, <1>2 DEF Polled
<1>5. PICK n2 \in Nat : n2 = Len(events) /\ DOMAIN events = 1 .. n2
  BY SeqFacts
<1>6. /\ f \in 1 .. n2 /\ events[f].voter = p /\ events[f].option # NoVote
      /\ \A y \in 1 .. n2 : events[y].voter = p => y <= f
  BY <1>5 DEF LastVote
<1>7. PICK b \in Nat : b = events[f].at
  BY <1>5, <1>6, EventFacts
<1>8. ~(\E q \in 1 .. 0 : rows[q] = f)
  OBVIOUS
<1>9. x \in Nat /\ m \in Nat /\ m <= n2 /\ x <= m /\ (x # 0 => x \in 1 .. n2)
  BY <1>1, <1>5
<1>10. CASE f <= m
  <2>1. f <= x /\ x # 0
    <3>1. f \in 1 .. m
      BY <1>6, <1>9, <1>10
    <3> QED
      BY <1>4, <1>6, <3>1
  <2>2. x <= f
    BY <1>4, <1>6, <1>9, <2>1
  <2>3. x = f
    BY <1>6, <1>9, <2>1, <2>2
  <2>4. entry = [option |-> NormalizeOption(events[f].option), lastAt |-> events[f].at]
    BY <1>4, <1>6, <2>1, <2>3
  <2> QED
    BY <1>3, <1>10, <2>4 DEF Dawned
<1>11. CASE ~(f <= m)
  <2>1. entry.lastAt < events[f].at
    <3>1. None.lastAt = -1
      BY DEF None
    <3>2. CASE entry = None
      BY <1>7, <3>1, <3>2
    <3>3. CASE entry # None
      <4>1. x # 0 /\ x \in 1 .. n2 /\ events[x].option # NoVote
        BY <1>4, <1>9, <3>3
      <4>2. entry = [option |-> NormalizeOption(events[x].option), lastAt |-> events[x].at]
        BY <1>4, <4>1
      <4>3. x < f
        BY <1>6, <1>9, <1>11
      <4>4. events[x].at < events[f].at
        BY <1>5, <1>6, <4>1, <4>3, LaterDate
      <4> QED
        BY <4>2, <4>4
    <3> QED
      BY <3>2, <3>3
  <2> QED
    BY <1>3, <1>8, <1>11, <2>1 DEF Dawned
<1> QED
  BY <1>10, <1>11

\* The next event is another one, and leaves a vote dated before the last, or is the last vote
\* itself, whose date nothing in the ledger passes.
LEMMA DawnedStep ==
  ASSUME NEW n \in Nat, NEW events \in Seq(Event), Dated(events), NEW from, NEW rows, NEW L,
         NEW j, NEW m, Film(L, events, from, rows, n, j, m),
         NEW p \in Players, NEW f, LastVote(events, p, f),
         NEW k \in 0 .. n - 1, Dawned(L, events, rows, p, m, f, k)
  PROVE  Dawned(L, events, rows, p, m, f, k + 1)
<1>1. PICK c \in Nat : c = k + 1
  OBVIOUS
<1>2. PICK i : i = rows[c]
  OBVIOUS
<1>3. PICK ledger : ledger = L[k]
  OBVIOUS
<1>4. PICK new : new = L[c]
  OBVIOUS
<1>5. /\ c \in 1 .. n /\ i \in DOMAIN events /\ i \in Nat /\ i > 0 /\ events[i].voter \in Players
      /\ ledger \in Account /\ Effect(events, from.ids, ledger, new, i)
      /\ i \in from.ids <=> c <= j
  BY <1>1, <1>2, <1>3, <1>4, FilmStep
<1>6. Leaves(events, from.ids, ledger, new, i, p)
  BY <1>5, EntryStep
<1>7. PICK N \in Nat : N = Len(events) /\ DOMAIN events = 1 .. N
  BY SeqFacts
<1>8. /\ f \in 1 .. N /\ events[f].voter = p /\ events[f].option # NoVote
      /\ \A y \in 1 .. N : events[y].voter = p => y <= f
  BY <1>7 DEF LastVote
<1>9. PICK b \in Nat : b = events[f].at
  BY <1>7, <1>8, EventFacts
<1>10. PICK entry : entry = ledger.state[p]
  OBVIOUS
<1>11. PICK date \in Int : date = entry.lastAt
  <2>1. entry \in VoterState
    BY <1>5, <1>10 DEF Account, Ledger
  <2> QED
    BY <2>1 DEF VoterState
<1>12. PICK done : done = (f <= m \/ \E q \in 1 .. k : rows[q] = f)
  OBVIOUS
<1>13. /\ done => entry.option = NormalizeOption(events[f].option) /\ entry.lastAt = b
       /\ ~done => entry.lastAt < b
  BY <1>3, <1>9, <1>10, <1>12 DEF Dawned
<1>14. (f <= m \/ \E q \in 1 .. c : rows[q] = f) <=> (done \/ i = f)
  <2>1. \A q \in 1 .. c : q \in 1 .. k \/ q = c
    BY <1>1
  <2>2. \A q \in 1 .. k : q \in 1 .. c
    BY <1>1
  <2>3. c \in 1 .. c
    BY <1>1
  <2> QED
    BY <1>2, <1>12, <2>1, <2>2, <2>3
<1>15. i \in from.ids => i # f \/ done
  <2>1. ASSUME i \in from.ids, i = f PROVE done
    <3>1. c \in 1 .. j
      BY <1>1, <1>5, <2>1 DEF Film
    <3>2. rows[c] <= m
      BY <3>1 DEF Film, Pictures
    <3> QED
      BY <1>2, <1>12, <2>1, <3>2
  <2> QED
    BY <2>1
<1>16. CASE i \in from.ids \/ events[i].voter # p
  <2>1. new.state[p] = entry
    BY <1>6, <1>10, <1>16 DEF Leaves
  <2>2. i = f => done
    BY <1>8, <1>15, <1>16
  <2>3. Dawned(L, events, rows, p, m, f, c)
    BY <1>4, <1>9, <1>13, <1>14, <2>1, <2>2 DEF Dawned
  <2> QED
    BY <1>1, <2>3
<1>17. CASE i \notin from.ids /\ events[i].voter = p
  <2>1. i \in 1 .. N /\ i <= f
    BY <1>5, <1>7, <1>8, <1>17
  <2>2. PICK a \in Nat : a = events[i].at
    BY <1>5, EventFacts
  <2>3. a <= b /\ (i # f => Date(events[i]) < b)
    <3>1. CASE i = f
      BY <1>9, <2>2, <3>1
    <3>2. CASE i # f
      <4>1. i < f
        BY <1>8, <2>1, <3>2
      <4>2. Date(events[i]) < b
        BY <1>7, <1>8, <1>9, <2>1, <4>1, LaterDate
      <4>3. a <= b
        BY <1>7, <1>8, <1>9, <2>1, <2>2, <4>1 DEF Dated
      <4> QED
        BY <3>2, <4>2, <4>3
    <3> QED
      BY <3>1, <3>2
  <2>4. Stale(ledger.state, events[i]) <=> a <= date
    BY <1>10, <1>11, <1>17, <2>2 DEF Stale
  <2>5. CASE Ignored(ledger, events[i])
    <3>1. new.state[p] = entry
      BY <1>6, <1>10, <2>5 DEF Leaves
    <3>2. i = f => done
      <4>1. ASSUME i = f, ~done PROVE FALSE
        <5>1. date < b /\ a = b
          BY <1>9, <1>11, <1>13, <2>2, <4>1
        <5>2. ~Stale(ledger.state, events[i])
          BY <2>4, <5>1
        <5>3. events[f].empty
          BY <2>5, <4>1, <5>2 DEF Ignored, NothingToRetract
        <5>4. events[f].option = NoVote
          BY <1>7, <1>8, <5>3 DEF Dated
        <5> QED
          BY <1>8, <5>4
      <4> QED
        BY <4>1
    <3>3. Dawned(L, events, rows, p, m, f, c)
      BY <1>4, <1>9, <1>13, <1>14, <3>1, <3>2 DEF Dawned
    <3> QED
      BY <1>1, <3>3
  <2>6. CASE ~Ignored(ledger, events[i])
    <3>1. new.state[p] = Entry(events[i])
      BY <1>6, <1>17, <2>6 DEF Leaves
    <3>2. new.state[p].option = NormalizeOption(events[i].option) /\ new.state[p].lastAt = Date(events[i])
      BY <3>1 DEF Entry
    <3>3. ~done
      <4>1. ~(a <= date)
        BY <2>4, <2>6 DEF Ignored
      <4> QED
        BY <1>11, <1>13, <2>3, <4>1
    <3>4. CASE i = f
      <4>1. ~events[f].empty
        BY <1>7, <1>8 DEF Dated
      <4>2. Date(events[i]) = events[f].at
        BY <3>4, <4>1 DEF Date
      <4>3. Dawned(L, events, rows, p, m, f, c)
        BY <1>4, <1>14, <3>2, <3>4, <4>2 DEF Dawned
      <4> QED
        BY <1>1, <4>3
    <3>5. CASE i # f
      <4>1. new.state[p].lastAt < events[f].at
        BY <1>9, <2>3, <3>2, <3>5
      <4>2. Dawned(L, events, rows, p, m, f, c)
        BY <1>4, <1>14, <3>3, <3>5, <4>1 DEF Dawned
      <4> QED
        BY <1>1, <4>2
    <3> QED
      BY <3>4, <3>5
  <2> QED
    BY <2>5, <2>6
<1> QED
  BY <1>16, <1>17

\* It holds after every row.
LEMMA DawnedAlways ==
  ASSUME NEW n \in Nat, NEW events \in Seq(Event), Dated(events), NEW from, NEW rows, NEW L,
         NEW j, NEW m, Film(L, events, from, rows, n, j, m),
         NEW p \in Players \ Undated, NEW f, LastVote(events, p, f)
  PROVE  Dawned(L, events, rows, p, m, f, n)
<1> DEFINE G == {k \in 0 .. n : Dawned(L, events, rows, p, m, f, k)}
<1>1. 0 \in G
  <2>1. Dawned(L, events, rows, p, m, f, 0)
    BY DawnedFirst
  <2> QED
    BY <2>1
<1>2. ASSUME NEW k \in 0 .. n - 1, k \in G PROVE k + 1 \in G
  <2>1. Dawned(L, events, rows, p, m, f, k)
    BY <1>2
  <2>2. Dawned(L, events, rows, p, m, f, k + 1)
    BY <2>1, DawnedStep
  <2>3. k + 1 \in 0 .. n
    OBVIOUS
  <2> QED
    BY <2>2, <2>3
<1> HIDE DEF G
<1>3. \A k \in 0 .. n : k \in G
  BY <1>1, <1>2, UpTo
<1>4. n \in G
  BY <1>3
<1> QED
  BY <1>4 DEF G

\* Once every event is a row, the ledger has the last vote of each member whose events came in
\* order, or whose last vote is dated and not withdrawn.
LEMMA NoneLost == LedgerInv /\ PollInv => NoVoteLost
<1> SUFFICES ASSUME LedgerInv, PollInv, photo # NoPhoto, Range(stored) = DOMAIN sent,
                    NEW p \in Players,
                    InOrder(p) \/ (Current(p).option # NoVote /\ p \notin Undated)
             PROVE  LiveVotes.state[p].option = NormalizeOption(Current(p).option)
  BY DEF NoVoteLost
<1>1. VotesInv /\ WorkerInv
  BY DEF LedgerInv
<1>2. /\ sent \in Seq(Event) /\ stored \in Seq(Nat) /\ IsInjective(stored)
      /\ Dated(sent) /\ Base(photo) /\ Range(stored) \subseteq DOMAIN sent
  BY <1>1, OfBase, RowFacts DEF VotesInv, PollInv, WorkerInv
<1>3. PICK n \in Nat : n = Len(stored) /\ DOMAIN stored = 1 .. n /\ Rows(stored, sent, n)
  BY <1>2, RowsOf, SeqFacts
<1>4. PICK N \in Nat : N = Len(sent) /\ DOMAIN sent = 1 .. N
  BY <1>2, SeqFacts
<1>5. PICK j \in 0 .. n, m \in 0 .. N : Pictures(sent, stored, photo, j, m)
  BY <1>3, <1>4 DEF PollInv, Taken
<1>6. PICK L : Replays(L, sent, photo, stored, n) /\ Replay(sent, photo, stored) = L[n]
  BY <1>3, ReplayChain
<1>7. Film(L, sent, photo, stored, n, j, m)
  BY <1>2, <1>3, <1>4, <1>5, <1>6 DEF Film, IsInjective
<1>8. LiveVotes.state[p] = L[n].state[p]
  BY <1>6, Replayed
<1>9. \A y \in 1 .. N : \E q \in 1 .. n : stored[q] = y
  BY <1>3, <1>4 DEF Range
<1>10. PICK now : now = Current(p)
  OBVIOUS
<1>11. CASE InOrder(p)
  <2>1. Sorted(sent, stored, p, n)
    BY <1>3, <1>11 DEF Sorted, InOrder
  <2>2. Latest(L, sent, stored, p, n, j, n)
    BY <1>2, <1>7, <2>1, LatestAlways
  <2>3. PICK x : /\ Shows(sent, L[n].state[p], p, x)
                 /\ \A q \in 1 .. n : (q <= n \/ q <= j) /\ sent[stored[q]].voter = p => stored[q] <= x
    BY <2>2 DEF Latest
  <2>4. \A y \in 1 .. N : sent[y].voter = p => y <= x
    <3>1. ASSUME NEW y \in 1 .. N, sent[y].voter = p PROVE y <= x
      <4>1. PICK q \in 1 .. n : stored[q] = y
        BY <1>9
      <4>2. q <= n
        OBVIOUS
      <4> QED
        BY <2>3, <3>1, <4>1, <4>2
    <3> QED
      BY <3>1
  <2>5. /\ x \in 0 .. N
        /\ x # 0 => sent[x].voter = p /\ L[n].state[p].option = NormalizeOption(sent[x].option)
        /\ x = 0 => L[n].state[p].option = Nobody
    BY <1>4, <2>3 DEF Shows
  <2>6. CASE VotesOf(p) = {}
    <3>1. x = 0
      <4>1. x # 0 => x \in 1 .. N
        BY <2>5
      <4>2. x # 0 => x \in VotesOf(p)
        BY <1>4, <2>5, <4>1 DEF VotesOf
      <4> QED
        BY <2>6, <4>2
    <3>2. now.option = NoVote
      BY <1>1, <1>10, <2>6, CurrentType
    <3> QED
      BY <1>8, <1>10, <2>5, <3>1, <3>2, NoVoteIsNobody
  <2>7. CASE VotesOf(p) # {}
    <3>1. PICK f : f = Max(VotesOf(p))
      OBVIOUS
    <3>2. f \in VotesOf(p) /\ now = sent[f] /\ \A y \in VotesOf(p) : f >= y
      BY <1>1, <1>10, <2>7, <3>1, CurrentType
    <3>3. f \in 1 .. N /\ sent[f].voter = p
      BY <1>4, <3>2 DEF VotesOf
    <3>4. f <= x /\ x # 0 /\ x \in 1 .. N
      BY <2>4, <2>5, <3>3
    <3>5. x \in VotesOf(p)
      BY <1>4, <2>5, <3>4 DEF VotesOf
    <3>6. x = f
      BY <3>2, <3>3, <3>4, <3>5
    <3> QED
      BY <1>8, <1>10, <2>5, <3>2, <3>4, <3>6
  <2> QED
    BY <2>6, <2>7
<1>12. CASE Current(p).option # NoVote /\ p \notin Undated
  <2>1. now.option # NoVote /\ VotesOf(p) # {}
    BY <1>1, <1>10, <1>12, CurrentType
  <2>2. PICK f : f = Max(VotesOf(p))
    OBVIOUS
  <2>3. f \in VotesOf(p) /\ now = sent[f] /\ \A y \in VotesOf(p) : f >= y
    BY <1>1, <1>10, <2>1, <2>2, CurrentType
  <2>4. f \in 1 .. N /\ sent[f].voter = p
    BY <1>4, <2>3 DEF VotesOf
  <2>5. \A y \in 1 .. N : sent[y].voter = p => y <= f
    <3>1. ASSUME NEW y \in 1 .. N, sent[y].voter = p PROVE y <= f
      <4>1. y \in VotesOf(p)
        BY <1>4, <3>1 DEF VotesOf
      <4> QED
        BY <2>3, <2>4, <4>1
    <3> QED
      BY <3>1
  <2>6. LastVote(sent, p, f)
    BY <1>4, <2>1, <2>3, <2>4, <2>5 DEF LastVote
  <2>7. Dawned(L, sent, stored, p, m, f, n)
    <3>1. p \in Players \ Undated
      BY <1>12
    <3> QED
      BY <1>2, <1>7, <2>6, <3>1, DawnedAlways
  <2>8. \E q \in 1 .. n : stored[q] = f
    BY <1>9, <2>4
  <2>9. L[n].state[p].option = NormalizeOption(sent[f].option)
    BY <2>7, <2>8 DEF Dawned
  <2> QED
    BY <1>8, <1>10, <2>3, <2>9
<1> QED
  BY <1>11, <1>12

\* No vote is lost between the poll and the ledger.  Once every event of the listener is a
\* row, replaying the rows as applyVoteEvents does, from the poll collectVotes read, gives
\* each member his last vote, whatever raced with the collection and in whatever order the
\* rows came, late ones included (his own may be out of order only if that last vote is dated
\* and no retraction).  Nor does it matter where the plan cuts the replay in two.
THEOREM LedgerHolds == VotesSpec => []LedgerSound
<1>1. LedgerInv /\ PollInv => LedgerSound
  BY TypeFollows, NoneLost, CutFollows DEF LedgerSound
<1> QED
  BY <1>1, LedgerAlways, PollAlways, PTL

\* The final roster that applyVoteMoves plays from the first allocation and the events since
\* agrees with the ledger: it seats or keeps waiting exactly those who vote for an hour, each
\* of them once, and leaves no seat free while somebody waits, after any number of events.
THEOREM RosterHolds == VotesSpec => []RosterSound
BY LedgerAlways, RosterFollowsVotes, PTL

\* One more row of the database, late or not, is one move of the final roster at most, of the
\* member who voted: the published roster is not rewritten, and nobody who waits is passed by
\* another who waits for the same hour.
THEOREM OneMoveHolds == VotesSpec => []OneMovePerEvent
BY LedgerAlways, OneMoveFollows, PTL

-----------------------------------------------------------------------------
(* The types of a publication.                                              *)

\* An operation may be set to any well-typed record.
LEMMA SetType ==
  ASSUME TypeOK, NEW w \in Writers, NEW r \in WriterType, Set(w, r)
  PROVE  writer' \in [Writers -> WriterType]
BY DEF TypeOK, Set

\* An idle operation is well typed, whatever its step and its kind.
LEMMA IdleType ==
  ASSUME NEW pc \in PCs, NEW op \in AllOps \cup {"none"}
  PROVE  [Idle EXCEPT !.pc = pc, !.op = op] \in WriterType /\ Idle \in WriterType
BY DEF Idle, Unseen, WriterType, SeenType, Texts, PCs

\* Going to another step keeps an operation well typed.
LEMMA GotoType ==
  ASSUME TypeOK, NEW w \in Writers, NEW pc \in PCs, Goto(w, pc)
  PROVE  writer' \in [Writers -> WriterType]
<1>1. writer[w] \in WriterType /\ writer[w].op \in AllOps \cup {"none"}
  BY DEF TypeOK, WriterType
<1>2. [Idle EXCEPT !.pc = pc, !.op = writer[w].op] \in WriterType
  BY <1>1, IdleType
<1>3. [writer[w] EXCEPT !.pc = pc] \in WriterType
  BY <1>1 DEF WriterType
<1>4. QED
  BY <1>2, <1>3, SetType DEF Goto

\* A failure is counted.
LEMMA MishapType ==
  ASSUME TypeOK, NEW kind, Mishap(kind)
  PROVE  used' \in [ops : Nat, mishaps : Nat]
BY DEF TypeOK, Mishap

\* Starting an operation keeps the types.
LEMMA StartType ==
  ASSUME TypeOK, NEW w \in Writers, NEW op \in AllOps, NEW text \in Texts, NEW pin \in BOOLEAN,
         Start(w, op, text, pin)
  PROVE  writer' \in [Writers -> WriterType] /\ used' \in [ops : Nat, mishaps : Nat]
<1>1. [Idle EXCEPT !.pc = "ready", !.op = op, !.text = text, !.pin = pin] \in WriterType
  BY DEF Idle, Unseen, WriterType, SeenType, PCs
<1>2. QED
  BY <1>1, SetType DEF Start, TypeOK

\* Each step an operation may begin with keeps the types.
LEMMA BeginType ==
  ASSUME TypeOK, NEW w \in Writers, Begin(w)
  PROVE  TypeOK'
<1>0. /\ PinEnabled \in BOOLEAN /\ Publications \subseteq AllOps /\ Withdrawals \subseteq AllOps
      /\ Provisional \subseteq Texts /\ Final \subseteq Texts /\ NoText \in Texts
  BY ConstantsAssumption DEF AllOps, Texts
<1>1. ASSUME NEW op \in AllOps, NEW text \in Texts, NEW pin \in BOOLEAN, Start(w, op, text, pin),
             row' \in RowType, still' \in BOOLEAN, UNCHANGED <<stale, slow, chat, last>>
      PROVE  TypeOK'
  BY <1>1, StartType DEF TypeOK
<1>2. CASE Collect(w)
  <2>1. PICK text \in Provisional : Start(w, "collect", text, PinEnabled)
    BY <1>2 DEF Collect
  <2>2. QED
    BY <1>0, <1>1, <1>2, <2>1 DEF Collect, Publications, TypeOK
<1>3. CASE Announce(w)
  <2>1. PICK text \in Final : Start(w, "announce", text, PinEnabled)
    BY <1>3 DEF Announce
  <2>2. row' \in RowType
    BY <1>3 DEF Announce, TypeOK, RowType
  <2>3. text \in Texts /\ "announce" \in AllOps
    BY <1>0 DEF Publications
  <2>4. still' \in BOOLEAN /\ UNCHANGED <<stale, slow, chat, last>>
    BY <1>3 DEF Announce, TypeOK
  <2>5. QED
    BY <1>0, <1>1, <2>1, <2>2, <2>3, <2>4
<1>4. CASE Tick(w)
  <2>1. PICK text \in Texts : Start(w, "tick", text, PinEnabled)
    BY <1>0, <1>4 DEF Tick
  <2>2. QED
    BY <1>0, <1>1, <1>4, <2>1 DEF Tick, Publications, TypeOK
<1>5. CASE StartWithdrawal(w)
  <2>1. PICK op \in Withdrawals : Start(w, op, NoText, FALSE)
    BY <1>5 DEF StartWithdrawal, Withdrawals
  <2>2. QED
    BY <1>0, <1>1, <1>5, <2>1 DEF StartWithdrawal, TypeOK
<1>6. CASE Stop(w)
  <2>1. CASE row.msg = 0
    BY <1>6, <2>1 DEF Stop, TypeOK, RowType
  <2>2. CASE row.msg # 0
    <3>1. PICK op \in Withdrawals : Start(w, op, NoText, FALSE)
      BY <1>6, <2>2 DEF Stop, Withdrawals
    <3>2. QED
      BY <1>0, <1>1, <1>6, <2>2, <3>1 DEF Stop, TypeOK
  <2>3. QED
    BY <2>1, <2>2
<1>7. CASE Cancel(w)
  <2>1. row' \in RowType /\ still' \in BOOLEAN
    BY <1>7 DEF Cancel, TypeOK, RowType
  <2>2. QED
    BY <1>0, <1>1, <1>7, <2>1 DEF Cancel, Withdrawals, TypeOK
<1>8. CASE RetryOrphan(w)
  <2>1. PICK pin \in BOOLEAN :
          Set(w, [Idle EXCEPT !.pc = "ready", !.op = "orphan", !.pin = pin])
    BY <1>0, <1>8 DEF RetryOrphan
  <2>2. [Idle EXCEPT !.pc = "ready", !.op = "orphan", !.pin = pin] \in WriterType
    BY DEF Idle, Unseen, WriterType, SeenType, PCs, AllOps, Texts
  <2>3. writer' \in [Writers -> WriterType]
    BY <2>1, <2>2, SetType
  <2>4. QED
    BY <1>8, <2>3 DEF RetryOrphan, TypeOK
<1>9. QED
  BY <1>2, <1>3, <1>4, <1>5, <1>6, <1>7, <1>8 DEF Begin

\* What follows the retirement of a roster is a step.
LEMMA AfterRetireType ==
  ASSUME NEW r
  PROVE  AfterRetire(r) \in {"forget", "pin", "release"} /\ AfterRetire(r) \in PCs
BY DEF AfterRetire, PCs

\* The parts of a well-typed operation.
LEMMA PartsType ==
  ASSUME TypeOK, NEW w \in Writers
  PROVE  /\ writer[w] \in WriterType /\ writer[w].seen \in SeenType
         /\ writer[w].msg \in Nat /\ writer[w].text \in Texts
         /\ writer[w].seen.msg \in Nat /\ writer[w].seen.orphan \in Nat
         /\ row \in RowType /\ chat.sent \in Nat
BY DEF TypeOK, WriterType, SeenType

\* Each step of an operation under way keeps the types.
LEMMA StepType ==
  ASSUME TypeOK, NEW w \in Writers, Step(w)
  PROVE  TypeOK'
<1>a. /\ writer[w] \in WriterType /\ writer[w].seen \in SeenType
      /\ writer[w].msg \in Nat /\ writer[w].text \in Texts
      /\ writer[w].seen.msg \in Nat /\ writer[w].seen.orphan \in Nat
      /\ row \in RowType /\ chat.sent \in Nat
  BY PartsType
<1>b. /\ chat \in [sent : Nat, pinned : SUBSET Nat, runOut : SUBSET Nat]
      /\ last \in Texts /\ NoText \in Texts /\ stale \in BOOLEAN /\ slow \in BOOLEAN
      /\ still \in BOOLEAN /\ used \in [ops : Nat, mishaps : Nat]
      /\ Idle \in WriterType /\ NoClaim \in Writers \cup {NoClaim}
  BY IdleType DEF TypeOK, Texts, PCs
<1>1. CASE Claim(w)
  <2>1. FirstStep(writer[w].op, writer[w].text, row) \in PCs
    BY DEF FirstStep, PCs
  <2>2. Fresh \in SeenType
    BY <1>a DEF Fresh, SeenType, RowType
  <2>3. \A pc \in PCs : [writer[w] EXCEPT !.pc = pc, !.seen = Fresh] \in WriterType
    BY <1>a, <2>2 DEF WriterType
  <2>4. writer' \in [Writers -> WriterType]
    BY <1>1, <2>1, <2>3, SetType, GotoType DEF Claim
  <2>5. row' \in RowType
    BY <1>1, <1>a DEF Claim, RowType
  <2>6. QED
    BY <1>1, <1>b, <2>4, <2>5 DEF Claim, TypeOK
<1>2. CASE Busy(w)
  BY <1>2, <1>a, <1>b, SetType DEF Busy, TypeOK
<1>3. CASE Send(w)
  <2>1. [writer[w] EXCEPT !.pc = "store", !.msg = chat.sent + 1] \in WriterType
    <3>1. chat.sent + 1 \in Nat /\ "store" \in PCs
      BY <1>a DEF PCs
    <3>2. \A pc \in PCs, msg \in Nat : [writer[w] EXCEPT !.pc = pc, !.msg = msg] \in WriterType
      BY <1>a DEF WriterType
    <3>3. QED
      BY <3>1, <3>2
  <2>2. writer' \in [Writers -> WriterType]
    BY <1>3, <2>1, SetType, GotoType DEF Send, PCs
  <2>3. used' \in [ops : Nat, mishaps : Nat]
    BY <1>3, <1>b, MishapType DEF Send
  <2>4. chat' \in [sent : Nat, pinned : SUBSET Nat, runOut : SUBSET Nat] /\ last' \in Texts
    BY <1>3, <1>a, <1>b DEF Send
  <2>5. QED
    BY <1>3, <1>a, <1>b, <2>2, <2>3, <2>4 DEF Send, TypeOK
<1>4. CASE KeepPrint(w)
  <2>1. writer' \in [Writers -> WriterType]
    BY <1>4, GotoType DEF KeepPrint, PCs
  <2>2. row' \in RowType
    BY <1>4, <1>a DEF KeepPrint, RowType
  <2>3. QED
    BY <1>4, <1>b, <2>1, <2>2 DEF KeepPrint, TypeOK
<1>5. CASE Store(w)
  <2>1. writer' \in [Writers -> WriterType]
    BY <1>5, GotoType DEF Store, PCs
  <2>2. row' \in RowType
    BY <1>5, <1>a DEF Store, RowType
  <2>3. QED
    BY <1>5, <1>b, <2>1, <2>2 DEF Store, TypeOK
<1>6. CASE Retire(w)
  <2>1. writer' \in [Writers -> WriterType]
    BY <1>6, AfterRetireType, GotoType DEF Retire, PCs
  <2>2. used' \in [ops : Nat, mishaps : Nat]
    BY <1>6, <1>b, MishapType DEF Retire
  <2>3. chat' \in [sent : Nat, pinned : SUBSET Nat, runOut : SUBSET Nat]
    BY <1>6, <1>b DEF Retire
  <2>4. QED
    BY <1>6, <1>a, <1>b, <2>1, <2>2, <2>3 DEF Retire, TypeOK
<1>7. CASE Unpin(w)
  <2>1. writer' \in [Writers -> WriterType]
    BY <1>7, AfterRetireType, GotoType DEF Unpin, PCs
  <2>2. used' \in [ops : Nat, mishaps : Nat]
    BY <1>7, <1>b, MishapType DEF Unpin
  <2>3. chat' \in [sent : Nat, pinned : SUBSET Nat, runOut : SUBSET Nat]
    BY <1>7, <1>b DEF Unpin
  <2>4. QED
    BY <1>7, <1>a, <1>b, <2>1, <2>2, <2>3 DEF Unpin, TypeOK
<1>8. CASE KeepOrphan(w)
  <2>1. \A pc \in PCs : [[writer[w] EXCEPT !.pin = FALSE] EXCEPT !.pc = pc] \in WriterType
    BY <1>a DEF WriterType
  <2>2. writer' \in [Writers -> WriterType]
    BY <1>8, <2>1, AfterRetireType, SetType, GotoType DEF KeepOrphan
  <2>3. row' \in RowType
    BY <1>8, <1>a DEF KeepOrphan, RowType
  <2>4. QED
    BY <1>8, <1>b, <2>2, <2>3 DEF KeepOrphan, TypeOK
<1>9. CASE Forget(w)
  <2>1. writer' \in [Writers -> WriterType]
    BY <1>9, GotoType DEF Forget, PCs
  <2>2. row' \in RowType /\ last' \in Texts
    <3>1. \/ row' = [row EXCEPT !.pinnedAt = FALSE] /\ last' = last
          \/ row' = [row EXCEPT !.msg = 0, !.fp = NoText, !.pinnedAt = FALSE] /\ last' = NoText
      BY <1>9, Zenon DEF Forget
    <3>2. /\ [row EXCEPT !.pinnedAt = FALSE] \in RowType
          /\ [row EXCEPT !.msg = 0, !.fp = NoText, !.pinnedAt = FALSE] \in RowType
      BY <1>a, <1>b DEF RowType
    <3>3. QED
      BY <3>1, <3>2, <1>b
  <2>3. QED
    BY <1>9, <1>b, <2>1, <2>2 DEF Forget, TypeOK
<1>10. CASE Pin(w)
  <2>1. writer' \in [Writers -> WriterType]
    BY <1>10, GotoType DEF Pin, PCs
  <2>2. used' \in [ops : Nat, mishaps : Nat]
    BY <1>10, <1>b, MishapType DEF Pin
  <2>3. chat' \in [sent : Nat, pinned : SUBSET Nat, runOut : SUBSET Nat]
    <3>1. [chat EXCEPT !.pinned = @ \cup {writer[w].msg}, !.runOut = @ \ {writer[w].msg}]
            \in [sent : Nat, pinned : SUBSET Nat, runOut : SUBSET Nat]
      BY <1>a, <1>b
    <3>2. QED
      BY <1>10, <1>b, <3>1 DEF Pin
  <2>4. QED
    BY <1>10, <1>a, <1>b, <2>1, <2>2, <2>3 DEF Pin, TypeOK
<1>11. CASE KeepPin(w)
  <2>1. writer' \in [Writers -> WriterType]
    BY <1>11, GotoType DEF KeepPin, PCs
  <2>2. row' \in RowType
    BY <1>11, <1>a DEF KeepPin, RowType
  <2>3. QED
    BY <1>11, <1>b, <2>1, <2>2 DEF KeepPin, TypeOK
<1>12. CASE UnpinOrphan(w)
  <2>1. writer' \in [Writers -> WriterType]
    BY <1>12, GotoType DEF UnpinOrphan, PCs
  <2>2. used' \in [ops : Nat, mishaps : Nat]
    BY <1>12, <1>b, MishapType DEF UnpinOrphan
  <2>3. chat' \in [sent : Nat, pinned : SUBSET Nat, runOut : SUBSET Nat]
    BY <1>12, <1>b DEF UnpinOrphan
  <2>4. QED
    BY <1>12, <1>a, <1>b, <2>1, <2>2, <2>3 DEF UnpinOrphan, TypeOK
<1>13. CASE ForgetOrphan(w)
  <2>1. [writer[w] EXCEPT !.pc = "pin", !.msg = writer[w].seen.msg] \in WriterType
    BY <1>a DEF WriterType, PCs
  <2>2. writer' \in [Writers -> WriterType]
    BY <1>13, <2>1, SetType, GotoType DEF ForgetOrphan, PCs
  <2>3. row' \in RowType
    BY <1>13, <1>a DEF ForgetOrphan, RowType
  <2>4. QED
    BY <1>13, <1>b, <2>2, <2>3 DEF ForgetOrphan, TypeOK
<1>14. CASE Release(w)
  <2>1. [Idle EXCEPT !.pc = "stopped"] \in WriterType
    BY DEF Idle, Unseen, WriterType, SeenType, Texts, PCs
  <2>2. writer' \in [Writers -> WriterType]
    BY <1>14, <1>b, <2>1, SetType DEF Release
  <2>3. row' \in RowType /\ stale' \in BOOLEAN
    BY <1>14, <1>a, <1>b DEF Release, RowType
  <2>4. QED
    BY <1>14, <1>b, <2>2, <2>3 DEF Release, TypeOK
<1>15. CASE Stopped(w)
  <2>1. writer' \in [Writers -> WriterType]
    BY <1>15, <1>b, SetType DEF Stopped
  <2>2. row' \in RowType
    BY <1>15, <1>a DEF Stopped, RowType
  <2>3. QED
    BY <1>15, <1>b, <2>1, <2>2 DEF Stopped, TypeOK
<1>16. QED
  BY <1>1, <1>2, <1>3, <1>4, <1>5, <1>6, <1>7, <1>8, <1>9, <1>10, <1>11, <1>12, <1>13, <1>14,
     <1>15 DEF Step

\* Row failures, restarts, the clock and the pins keep the types.
LEMMA RestType ==
  ASSUME TypeOK,
         (\E w \in Writers : Throw(w)) \/ GoStale \/ Crash \/ PinRunsOut \/ UNCHANGED vars
  PROVE  TypeOK'
<1>a. Idle \in WriterType /\ [Idle EXCEPT !.pc = "release"] \in WriterType
  BY DEF Idle, Unseen, WriterType, SeenType, Texts, PCs
<1>1. ASSUME NEW w \in Writers, Throw(w) PROVE TypeOK'
  <2>1. writer' \in [Writers -> WriterType]
    BY <1>1, <1>a, SetType DEF Throw
  <2>2. used' \in [ops : Nat, mishaps : Nat]
    BY <1>1, MishapType DEF Throw
  <2>3. QED
    BY <1>1, <2>1, <2>2 DEF Throw, TypeOK
<1>2. CASE GoStale
  <2>1. used' \in [ops : Nat, mishaps : Nat] /\ slow' \in BOOLEAN
    BY <1>2, MishapType DEF GoStale, TypeOK
  <2>2. QED
    BY <1>2, <2>1 DEF GoStale, TypeOK
<1>3. CASE Crash
  <2>1. used' \in [ops : Nat, mishaps : Nat]
    BY <1>3, MishapType DEF Crash
  <2>2. QED
    BY <1>3, <1>a, <2>1 DEF Crash, TypeOK
<1>4. CASE PinRunsOut
  <2>1. used' \in [ops : Nat, mishaps : Nat]
    BY <1>4, MishapType DEF PinRunsOut
  <2>2. PICK m \in (chat.pinned \cup {row.orphan}) :
          chat' = [chat EXCEPT !.pinned = @ \ {m}, !.runOut = @ \cup {m}]
    BY <1>4 DEF PinRunsOut
  <2>3. m \in Nat
    BY DEF TypeOK, RowType
  <2>4. chat' \in [sent : Nat, pinned : SUBSET Nat, runOut : SUBSET Nat]
    BY <2>2, <2>3 DEF TypeOK
  <2>5. QED
    BY <1>4, <2>1, <2>4 DEF PinRunsOut, TypeOK
<1>5. CASE UNCHANGED vars
  BY <1>5 DEF vars, TypeOK
<1>6. QED
  BY <1>1, <1>2, <1>3, <1>4, <1>5

\* The initial row and the idle operations are well typed.
LEMMA InitType == Init => TypeOK
<1>1. NoRow \in RowType
  BY DEF NoRow, RowType, Texts
<1>2. Idle \in WriterType
  BY DEF Idle, Unseen, WriterType, SeenType, Texts, PCs
<1>3. [sent |-> 0, pinned |-> {}, runOut |-> {}]
        \in [sent : Nat, pinned : SUBSET Nat, runOut : SUBSET Nat]
  OBVIOUS
<1>4. [ops |-> 0, mishaps |-> 0] \in [ops : Nat, mishaps : Nat] /\ NoText \in Texts
  BY DEF Texts
<1>5. QED
  BY <1>1, <1>2, <1>3, <1>4 DEF Init, TypeOK

\* Every reachable state is well typed.
THEOREM PublishTypeCorrect == Spec => []TypeOK
<1>1. TypeOK /\ [Next]_vars => TypeOK'
  BY BeginType, StepType, RestType DEF Next
<1>2. QED
  BY InitType, <1>1, PTL DEF Spec

-----------------------------------------------------------------------------
(* Mutual exclusion.  The claim names whoever is inside and has not gone     *)
(* stale: that is what makes OneWriter inductive.                           *)

ClaimInv == ~slow => \A w \in Writers : Inside(w) => row.claim = w /\ ~stale

\* A step of the holder that leaves the claim alone, and any step of an operation
\* that does not enter, keeps the invariant.
LEMMA ClaimKept ==
  ASSUME ClaimInv, TypeOK, NEW w \in Writers, NEW r, Set(w, r),
         r.pc \in Outside \/ Inside(w),
         row'.claim = row.claim, stale' = stale, slow' = slow
  PROVE  ClaimInv'
<1>1. SUFFICES ASSUME ~slow', NEW v \in Writers, Inside(v)'
               PROVE  row'.claim = v /\ ~stale'
  BY DEF ClaimInv
<1>2. CASE v = w
  BY <1>1, <1>2 DEF ClaimInv, Set, Inside, TypeOK
<1>3. CASE v # w
  BY <1>1, <1>3 DEF ClaimInv, Set, Inside, TypeOK
<1>4. QED
  BY <1>2, <1>3

\* The same of a step to another program counter.
LEMMA ClaimGoto ==
  ASSUME ClaimInv, TypeOK, NEW w \in Writers, NEW pc, Goto(w, pc), Inside(w),
         row'.claim = row.claim, stale' = stale, slow' = slow
  PROVE  ClaimInv'
BY ClaimKept DEF Goto

\* An operation begins outside.
LEMMA ClaimBegin ==
  ASSUME ClaimInv, TypeOK, NEW w \in Writers, Begin(w)
  PROVE  ClaimInv'
<1>a. "ready" \in Outside /\ row \in RowType
  BY DEF Outside, TypeOK
<1>1. ASSUME NEW op, NEW text, NEW pin, Start(w, op, text, pin), row'.claim = row.claim,
             stale' = stale, slow' = slow
      PROVE  ClaimInv'
  <2> DEFINE r == [Idle EXCEPT !.pc = "ready", !.op = op, !.text = text, !.pin = pin]
  <2>1. Set(w, r) /\ r.pc \in Outside
    BY <1>1, <1>a DEF Start, Idle
  <2>2. QED
    BY <1>1, <2>1, ClaimKept
<1>2. CASE Collect(w)
  BY <1>1, <1>2 DEF Collect
<1>3. CASE Announce(w)
  BY <1>1, <1>3, <1>a DEF Announce, RowType
<1>4. CASE Tick(w)
  BY <1>1, <1>4 DEF Tick
<1>5. CASE StartWithdrawal(w)
  BY <1>1, <1>5 DEF StartWithdrawal
<1>6. CASE Stop(w)
  <2>1. CASE row.msg = 0
    BY <1>6, <1>a, <2>1 DEF Stop, ClaimInv, Inside, RowType
  <2>2. CASE row.msg # 0
    BY <1>1, <1>6, <2>2 DEF Stop
  <2>3. QED
    BY <2>1, <2>2
<1>7. CASE Cancel(w)
  BY <1>1, <1>7, <1>a DEF Cancel, RowType
<1>8. CASE RetryOrphan(w)
  <2>1. PICK pin : Set(w, [Idle EXCEPT !.pc = "ready", !.op = "orphan", !.pin = pin])
    BY <1>8 DEF RetryOrphan
  <2>2. [Idle EXCEPT !.pc = "ready", !.op = "orphan", !.pin = pin].pc \in Outside
    BY <1>a DEF Idle
  <2>3. QED
    BY <1>8, <2>1, <2>2, ClaimKept DEF RetryOrphan
<1>9. QED
  BY <1>2, <1>3, <1>4, <1>5, <1>6, <1>7, <1>8 DEF Begin

\* Only the taking of a free or stale claim lets an operation in, and then there is
\* nobody else inside.
LEMMA ClaimStep ==
  ASSUME ClaimInv, TypeOK, NEW w \in Writers, Step(w)
  PROVE  ClaimInv'
<1>a. row \in RowType /\ Idle.pc \in Outside /\ NoClaim \notin Writers
  BY ConstantsAssumption DEF TypeOK, Idle, Outside
<1>1. CASE Claim(w)
  <2>1. row'.claim = w /\ stale' = FALSE /\ slow' = slow
    BY <1>1, <1>a DEF Claim, RowType
  <2>2. \A v \in Writers \ {w} : writer'[v] = writer[v]
    BY <1>1 DEF Claim, Goto, Set, TypeOK
  <2>3. ~slow => \A v \in Writers : ~Inside(v)
    BY <1>1, <1>a DEF Claim, ClaimInv
  <2>4. QED
    BY <2>1, <2>2, <2>3 DEF ClaimInv, Inside
<1>2. CASE Busy(w)
  BY <1>2, <1>a, ClaimKept DEF Busy
<1>3. CASE Release(w)
  <2>1. \A v \in Writers \ {w} : writer'[v] = writer[v]
    BY <1>3 DEF Release, Set, TypeOK
  <2>2. writer'[w].pc \in Outside
    BY <1>3 DEF Release, Set, TypeOK, Idle, Outside
  <2>3. Inside(w) /\ slow' = slow
    BY <1>3 DEF Release, Inside, Outside
  <2>4. QED
    BY <2>1, <2>2, <2>3 DEF ClaimInv, Inside
<1>4. CASE Stopped(w)
  BY <1>4, <1>a, ClaimKept DEF Stopped, RowType
<1>5. CASE Send(w)
  <2>1. Inside(w) /\ row' = row /\ stale' = stale /\ slow' = slow
    BY <1>5 DEF Send, Inside, Outside
  <2>2. QED
    BY <1>5, <2>1, ClaimKept, ClaimGoto DEF Send
<1>6. CASE Retire(w)
  <2>1. Inside(w) /\ row' = row /\ stale' = stale /\ slow' = slow
    BY <1>6 DEF Retire, Inside, Outside
  <2>2. QED
    BY <1>6, <2>1, ClaimGoto DEF Retire
<1>7. CASE Unpin(w)
  <2>1. Inside(w) /\ row' = row /\ stale' = stale /\ slow' = slow
    BY <1>7 DEF Unpin, Inside, Outside
  <2>2. QED
    BY <1>7, <2>1, ClaimGoto DEF Unpin
<1>8. CASE Pin(w)
  <2>1. Inside(w) /\ row' = row /\ stale' = stale /\ slow' = slow
    BY <1>8 DEF Pin, Inside, Outside
  <2>2. QED
    BY <1>8, <2>1, ClaimGoto DEF Pin
<1>9. CASE UnpinOrphan(w)
  <2>1. Inside(w) /\ row' = row /\ stale' = stale /\ slow' = slow
    BY <1>9 DEF UnpinOrphan, Inside, Outside
  <2>2. QED
    BY <1>9, <2>1, ClaimGoto DEF UnpinOrphan
<1>10. CASE KeepPrint(w)
  <2>1. Inside(w) /\ row'.claim = row.claim /\ stale' = stale /\ slow' = slow
    BY <1>10, <1>a DEF KeepPrint, Inside, Outside, RowType
  <2>2. QED
    BY <1>10, <2>1, ClaimGoto DEF KeepPrint
<1>11. CASE Store(w)
  <2>1. Inside(w) /\ row'.claim = row.claim /\ stale' = stale /\ slow' = slow
    BY <1>11, <1>a DEF Store, Inside, Outside, RowType
  <2>2. QED
    BY <1>11, <2>1, ClaimGoto DEF Store
<1>12. CASE KeepOrphan(w)
  <2>1. Inside(w) /\ row'.claim = row.claim /\ stale' = stale /\ slow' = slow
    BY <1>12, <1>a DEF KeepOrphan, Inside, Outside, RowType
  <2>2. QED
    BY <1>12, <2>1, ClaimKept, ClaimGoto DEF KeepOrphan
<1>13. CASE Forget(w)
  <2>1. Inside(w) /\ row'.claim = row.claim /\ stale' = stale /\ slow' = slow
    BY <1>13, <1>a DEF Forget, Inside, Outside, RowType
  <2>2. QED
    BY <1>13, <2>1, ClaimGoto DEF Forget
<1>14. CASE KeepPin(w)
  <2>1. Inside(w) /\ row'.claim = row.claim /\ stale' = stale /\ slow' = slow
    BY <1>14, <1>a DEF KeepPin, Inside, Outside, RowType
  <2>2. QED
    BY <1>14, <2>1, ClaimGoto DEF KeepPin
<1>15. CASE ForgetOrphan(w)
  <2>1. Inside(w) /\ row'.claim = row.claim /\ stale' = stale /\ slow' = slow
    BY <1>15, <1>a DEF ForgetOrphan, Inside, Outside, RowType
  <2>2. QED
    BY <1>15, <2>1, ClaimKept, ClaimGoto DEF ForgetOrphan
<1>16. QED
  BY <1>1, <1>2, <1>3, <1>4, <1>5, <1>6, <1>7, <1>8, <1>9, <1>10, <1>11, <1>12, <1>13, <1>14,
     <1>15 DEF Step

\* A failed update, a restart or the clock lets nobody in, and the clock that takes a
\* claim from its holder makes that holder a slow one.
LEMMA ClaimRest ==
  ASSUME ClaimInv, TypeOK,
         (\E w \in Writers : Throw(w)) \/ GoStale \/ Crash \/ PinRunsOut \/ UNCHANGED vars
  PROVE  ClaimInv'
<1>a. Idle.pc \in Outside
  BY DEF Idle, Outside
<1>1. ASSUME NEW w \in Writers, Throw(w) PROVE ClaimInv'
  <2>1. row' = row /\ stale' = stale /\ slow' = slow
    BY <1>1 DEF Throw
  <2>2. CASE writer[w].pc \in {"release", "stopped"}
    BY <1>1, <1>a, <2>1, <2>2, ClaimKept DEF Throw
  <2>3. CASE writer[w].pc \notin {"release", "stopped"}
    <3>1. Inside(w)
      BY <1>1, <2>3 DEF Throw, Inside, Outside
    <3>2. QED
      BY <1>1, <2>1, <2>3, <3>1, ClaimKept DEF Throw
  <2>4. QED
    BY <2>2, <2>3
<1>2. CASE GoStale
  BY <1>2 DEF GoStale, ClaimInv, Inside
<1>3. CASE Crash
  BY <1>3, <1>a DEF Crash, ClaimInv, Inside
<1>4. CASE PinRunsOut
  BY <1>4 DEF PinRunsOut, ClaimInv, Inside
<1>5. CASE UNCHANGED vars
  BY <1>5 DEF vars, ClaimInv, Inside
<1>6. QED
  BY <1>1, <1>2, <1>3, <1>4, <1>5

\* The claim excludes in every reachable state.
LEMMA ClaimCorrect == Spec => []ClaimInv
<1>1. Init => ClaimInv
  BY DEF Init, ClaimInv, Inside, Idle, Outside
<1>2. ClaimInv /\ TypeOK /\ [Next]_vars => ClaimInv'
  BY ClaimBegin, ClaimStep, ClaimRest DEF Next
<1>3. QED
  BY <1>1, <1>2, PublishTypeCorrect, PTL DEF Spec

\* withRosterClaim: as long as no operation outlasts its claim, at most one works on
\* the roster, whatever crashes and whatever fails.
THEOREM MutualExclusion == Spec => []OneWriter
<1>1. ClaimInv => OneWriter
  BY DEF ClaimInv, OneWriter
<1>2. QED
  BY <1>1, ClaimCorrect, PTL

-----------------------------------------------------------------------------
(* The final roster.  It is stored outside the claim, so a provisional        *)
(* publication may be under way; but then the final text is not on the group  *)
(* yet, and cannot get there before the provisional one is done.             *)

Storing == {"send", "keepPrint", "store"}

FinalInv ==
  /\ row.fp \in Final => row.final
  /\ \A w \in Writers : writer[w].text \in Final => row.final
  /\ ~slow => \A w \in Writers :
       writer[w].pc \in Storing /\ writer[w].text \in Provisional => row.fp \notin Final

\* What setting an operation does to it and to the others.
LEMMA SetFacts ==
  ASSUME TypeOK, NEW w \in Writers, NEW r, Set(w, r)
  PROVE  writer'[w] = r /\ \A v \in Writers \ {w} : writer'[v] = writer[v]
BY DEF TypeOK, Set

\* What going to another step does to an operation and to the others.
LEMMA GotoFacts ==
  ASSUME TypeOK, NEW w \in Writers, NEW pc, Goto(w, pc)
  PROVE  /\ \A v \in Writers \ {w} : writer'[v] = writer[v]
         /\ writer'[w].pc = pc
         /\ writer'[w].text = IF pc = "release" THEN NoText ELSE writer[w].text
<1>1. [Idle EXCEPT !.pc = pc, !.op = writer[w].op].text = NoText
      /\ [Idle EXCEPT !.pc = pc, !.op = writer[w].op].pc = pc
  BY DEF Idle
<1>2. [writer[w] EXCEPT !.pc = pc].text = writer[w].text /\ [writer[w] EXCEPT !.pc = pc].pc = pc
  BY DEF TypeOK, WriterType
<1>3. QED
  BY <1>1, <1>2, SetFacts DEF Goto

\* A step that sends nothing new and writes no text keeps the invariant.
LEMMA FinalFrame ==
  ASSUME FinalInv, TypeOK, NEW w \in Writers,
         \A v \in Writers \ {w} : writer'[v] = writer[v],
         writer'[w].text \in {writer[w].text, NoText},
         writer'[w].pc \in Storing =>
           writer[w].pc \in Storing /\ writer'[w].text = writer[w].text,
         row'.final = row.final, row'.fp \in {row.fp, NoText}, slow' = slow
  PROVE  FinalInv'
<1>1. NoText \notin Final /\ NoText \notin Provisional
  BY ConstantsAssumption
<1>2. row'.fp \in Final => row.fp \in Final
  BY <1>1
<1>3. \A v \in Writers : writer'[v].text \in Final => writer[v].text \in Final
  BY <1>1
<1>4. ~slow' => \A v \in Writers :
        writer'[v].pc \in Storing /\ writer'[v].text \in Provisional => row'.fp \notin Final
  BY <1>2 DEF FinalInv
<1>5. QED
  BY <1>2, <1>3, <1>4 DEF FinalInv

\* An operation begins with a final text only once the final roster is stored.
LEMMA FinalBegin ==
  ASSUME FinalInv, TypeOK, NEW w \in Writers, Begin(w)
  PROVE  FinalInv' /\ row'.fp = row.fp
<1>a. row \in RowType /\ NoText \notin Final
  BY ConstantsAssumption DEF TypeOK
<1>b. "ready" \notin Storing
  BY DEF Storing
<1>1. ASSUME NEW op, NEW text, NEW pin, Start(w, op, text, pin), text \in Final => row'.final,
             row.final => row'.final, row'.fp = row.fp, slow' = slow
      PROVE  FinalInv'
  <2>1. /\ writer'[w].pc = "ready" /\ writer'[w].text = text
        /\ \A v \in Writers \ {w} : writer'[v] = writer[v]
    <3> DEFINE r == [Idle EXCEPT !.pc = "ready", !.op = op, !.text = text, !.pin = pin]
    <3>1. Set(w, r)
      BY <1>1 DEF Start
    <3>2. writer'[w] = r /\ \A v \in Writers \ {w} : writer'[v] = writer[v]
      BY <3>1, SetFacts
    <3>3. r.pc = "ready" /\ r.text = text
      BY DEF Idle
    <3>4. QED
      BY <3>2, <3>3
  <2>2. QED
    BY <1>1, <1>b, <2>1 DEF FinalInv
<1>2. CASE Collect(w)
  BY <1>1, <1>2, ConstantsAssumption DEF Collect
<1>3. CASE Announce(w)
  <2>1. row'.final /\ row'.fp = row.fp /\ slow' = slow
    BY <1>3, <1>a DEF Announce, RowType
  <2>2. QED
    BY <1>1, <1>3, <2>1 DEF Announce
<1>4. CASE Tick(w)
  <2>1. row' = row /\ slow' = slow
    BY <1>4 DEF Tick
  <2>2. PICK text \in (IF row.final THEN Final ELSE Provisional) :
          Start(w, "tick", text, PinEnabled)
    BY <1>4 DEF Tick
  <2>3. text \in Final => row.final
    BY <2>2, ConstantsAssumption
  <2>4. QED
    BY <1>1, <2>1, <2>2, <2>3
<1>5. CASE StartWithdrawal(w)
  BY <1>1, <1>5, <1>a DEF StartWithdrawal
<1>6. CASE Stop(w)
  <2>1. CASE row.msg = 0
    BY <1>6, <1>a, <2>1 DEF Stop, FinalInv, RowType
  <2>2. CASE row.msg # 0
    BY <1>1, <1>6, <1>a, <2>2 DEF Stop
  <2>3. QED
    BY <2>1, <2>2
<1>7. CASE Cancel(w)
  <2>1. row'.final = row.final /\ row'.fp = row.fp /\ slow' = slow
    BY <1>7, <1>a DEF Cancel, RowType
  <2>2. QED
    BY <1>1, <1>7, <1>a, <2>1 DEF Cancel
<1>8. CASE RetryOrphan(w)
  <2>1. PICK pin : Set(w, [Idle EXCEPT !.pc = "ready", !.op = "orphan", !.pin = pin])
    BY <1>8 DEF RetryOrphan
  <2>2. /\ writer'[w].pc = "ready" /\ writer'[w].text = NoText
        /\ \A v \in Writers \ {w} : writer'[v] = writer[v]
    <3> DEFINE r == [Idle EXCEPT !.pc = "ready", !.op = "orphan", !.pin = pin]
    <3>1. writer'[w] = r /\ \A v \in Writers \ {w} : writer'[v] = writer[v]
      BY <2>1, SetFacts
    <3>2. r.pc = "ready" /\ r.text = NoText
      BY DEF Idle
    <3>3. QED
      BY <3>1, <3>2
  <2>3. row' = row /\ slow' = slow
    BY <1>8 DEF RetryOrphan
  <2>4. QED
    BY <1>b, <2>2, <2>3, FinalFrame
<1>9. QED
  BY <1>2, <1>3, <1>4, <1>5, <1>6, <1>7, <1>8 DEF Begin

\* Of the steps under way, only the two that store a text change it for another.
TextStored(w) ==
  /\ writer[w].pc \in {"keepPrint", "store"}
  /\ row'.fp = writer[w].text

\* A text that is stored was authorised by the fresh row, and nobody else is storing.
LEMMA FinalStore ==
  ASSUME FinalInv, TypeOK, OneWriter, NEW w \in Writers, KeepPrint(w) \/ Store(w)
  PROVE  FinalInv' /\ TextStored(w)
<1>1. /\ row'.fp = writer[w].text /\ row'.final = row.final /\ slow' = slow
      /\ writer[w].pc \in {"keepPrint", "store"}
  BY DEF KeepPrint, Store, TypeOK, RowType
<1>2. /\ writer'[w].pc \notin Storing /\ writer'[w].text \in {writer[w].text, NoText}
      /\ \A v \in Writers \ {w} : writer'[v] = writer[v]
  BY GotoFacts DEF KeepPrint, Store, Storing
<1>3. NoText \notin Final
  BY ConstantsAssumption
<1>4. Inside(w)
  BY <1>1 DEF Inside, Outside
<1>5. ~slow => \A v \in Writers \ {w} : writer[v].pc \notin Storing
  BY <1>4 DEF OneWriter, Inside, Outside, Storing
<1>6. QED
  BY <1>1, <1>2, <1>3, <1>5 DEF FinalInv, TextStored

\* Every step under way keeps the invariant, and changes the stored text for none or
\* for the one of a storing operation.
LEMMA FinalStep ==
  ASSUME FinalInv, TypeOK, OneWriter, NEW w \in Writers, Step(w)
  PROVE  FinalInv' /\ (row'.fp \in {row.fp, NoText} \/ TextStored(w))
<1>a. /\ row \in RowType /\ writer[w] \in WriterType
      /\ Idle.pc \notin Storing /\ Idle.text = NoText
  BY DEF TypeOK, Idle, Storing
<1>1. ASSUME NEW pc \in {"release", "retire", "unpin", "keepOrphan", "pin", "keepPin", "forget",
                         "unpinOrphan", "forgetOrphan"}, Goto(w, pc),
             row'.final = row.final, row'.fp \in {row.fp, NoText}, slow' = slow
      PROVE  FinalInv'
  <2>1. pc \notin Storing
    BY <1>1 DEF Storing
  <2>2. QED
    BY <1>1, <2>1, GotoFacts, FinalFrame
<1>2. ASSUME NEW r, Set(w, r), r.pc \notin Storing, r.text \in {writer[w].text, NoText},
             row'.final = row.final, row'.fp \in {row.fp, NoText}, slow' = slow
      PROVE  FinalInv'
  BY <1>2, SetFacts, FinalFrame
<1>3. CASE Claim(w)
  <2> DEFINE pc == FirstStep(writer[w].op, writer[w].text, row)
  <2>1. row'.final = row.final /\ row'.fp = row.fp /\ slow' = slow
    BY <1>3, <1>a DEF Claim, RowType
  <2>2. CASE pc = "release"
    BY <1>1, <1>3, <2>1, <2>2 DEF Claim
  <2>3. CASE pc # "release"
    <3>1. Set(w, [writer[w] EXCEPT !.pc = pc, !.seen = Fresh])
      BY <1>3, <2>3 DEF Claim
    <3>2. /\ writer'[w].pc = pc /\ writer'[w].text = writer[w].text
          /\ \A v \in Writers \ {w} : writer'[v] = writer[v]
      <4> DEFINE r == [writer[w] EXCEPT !.pc = pc, !.seen = Fresh]
      <4>1. writer'[w] = r /\ \A v \in Writers \ {w} : writer'[v] = writer[v]
        BY <3>1, SetFacts
      <4>2. r.pc = pc /\ r.text = writer[w].text
        BY <1>a DEF WriterType
      <4>3. QED
        BY <4>1, <4>2
    <3>3. pc \in Storing /\ writer[w].text \in Provisional => ~row.final
      BY DEF FirstStep, Storing
    <3>4. pc \in Storing /\ writer[w].text \in Provisional => row.fp \notin Final
      BY <3>3 DEF FinalInv
    <3>5. QED
      BY <2>1, <3>2, <3>4 DEF FinalInv
  <2>4. QED
    BY <2>1, <2>2, <2>3
<1>4. CASE Busy(w)
  BY <1>2, <1>4, <1>a DEF Busy
<1>5. CASE Send(w)
  <2>1. row' = row /\ slow' = slow /\ writer[w].pc \in Storing
    BY <1>5 DEF Send, Storing
  <2>2. CASE Set(w, [writer[w] EXCEPT !.pc = "store", !.msg = chat.sent + 1])
    <3>1. writer'[w].text = writer[w].text /\ \A v \in Writers \ {w} : writer'[v] = writer[v]
      <4> DEFINE r == [writer[w] EXCEPT !.pc = "store", !.msg = chat.sent + 1]
      <4>1. writer'[w] = r /\ \A v \in Writers \ {w} : writer'[v] = writer[v]
        BY <2>2, SetFacts
      <4>2. r.text = writer[w].text
        BY <1>a DEF WriterType
      <4>3. QED
        BY <4>1, <4>2
    <3>2. QED
      BY <2>1, <3>1, FinalFrame
  <2>3. CASE Goto(w, "release")
    BY <1>1, <2>1, <2>3
  <2>4. CASE Goto(w, "keepPrint")
    BY <2>1, <2>4, GotoFacts, FinalFrame
  <2>5. QED
    BY <1>5, <2>1, <2>2, <2>3, <2>4 DEF Send
<1>6. CASE KeepPrint(w) \/ Store(w)
  BY <1>6, FinalStore
<1>7. CASE Retire(w)
  BY <1>1, <1>7, AfterRetireType DEF Retire
<1>8. CASE Unpin(w)
  BY <1>1, <1>8, AfterRetireType DEF Unpin
<1>9. CASE KeepOrphan(w)
  <2>1. row'.final = row.final /\ row'.fp = row.fp /\ slow' = slow
    BY <1>9, <1>a DEF KeepOrphan, RowType
  <2> DEFINE r == [writer[w] EXCEPT !.pin = FALSE]
             pc == AfterRetire(r)
  <2>2. r.text = writer[w].text /\ pc \notin Storing
    BY <1>a, AfterRetireType DEF WriterType, Storing
  <2>3. [r EXCEPT !.pc = pc].pc = pc /\ [r EXCEPT !.pc = pc].text = writer[w].text
    BY <1>a DEF WriterType
  <2>4. Goto(w, "release") \/ Set(w, [r EXCEPT !.pc = pc])
    BY <1>9 DEF KeepOrphan
  <2>5. QED
    BY <1>1, <1>2, <2>1, <2>2, <2>3, <2>4
<1>10. CASE Forget(w)
  <2>1. row'.final = row.final /\ row'.fp \in {row.fp, NoText} /\ slow' = slow
    BY <1>10, <1>a DEF Forget, RowType
  <2>2. QED
    BY <1>1, <1>10, <2>1 DEF Forget
<1>11. CASE Pin(w)
  BY <1>1, <1>11 DEF Pin
<1>12. CASE KeepPin(w)
  <2>1. row'.final = row.final /\ row'.fp = row.fp /\ slow' = slow
    BY <1>12, <1>a DEF KeepPin, RowType
  <2>2. QED
    BY <1>1, <1>12, <2>1 DEF KeepPin
<1>13. CASE UnpinOrphan(w)
  BY <1>1, <1>13 DEF UnpinOrphan
<1>14. CASE ForgetOrphan(w)
  <2>1. row'.final = row.final /\ row'.fp = row.fp /\ slow' = slow
    BY <1>14, <1>a DEF ForgetOrphan, RowType
  <2> DEFINE r == [writer[w] EXCEPT !.pc = "pin", !.msg = writer[w].seen.msg]
  <2>2. r.pc \notin Storing /\ r.text = writer[w].text
    BY <1>a DEF WriterType, Storing
  <2>3. Goto(w, "release") \/ Set(w, r)
    BY <1>14 DEF ForgetOrphan
  <2>4. QED
    BY <1>1, <1>2, <2>1, <2>2, <2>3
<1>15. CASE Release(w)
  <2>1. row'.final = row.final /\ row'.fp = row.fp /\ slow' = slow
    BY <1>15, <1>a DEF Release, RowType
  <2>2. Set(w, Idle) \/ Set(w, [Idle EXCEPT !.pc = "stopped"])
    BY <1>15 DEF Release
  <2>3. [Idle EXCEPT !.pc = "stopped"].pc \notin Storing /\ [Idle EXCEPT !.pc = "stopped"].text = NoText
    BY DEF Idle, Storing
  <2>4. QED
    BY <1>2, <1>a, <2>1, <2>2, <2>3
<1>16. CASE Stopped(w)
  <2>1. row'.final = row.final /\ row'.fp = row.fp /\ slow' = slow
    BY <1>16, <1>a DEF Stopped, RowType
  <2>2. QED
    BY <1>2, <1>16, <1>a, <2>1 DEF Stopped
<1>17. QED
  BY <1>3, <1>4, <1>5, <1>6, <1>7, <1>8, <1>9, <1>10, <1>11, <1>12, <1>13, <1>14, <1>15, <1>16
     DEF Step

\* Failures write no text.
LEMMA FinalRest ==
  ASSUME FinalInv, TypeOK,
         (\E w \in Writers : Throw(w)) \/ GoStale \/ Crash \/ PinRunsOut \/ UNCHANGED vars
  PROVE  FinalInv' /\ row' = row
<1>a. /\ Idle.pc \notin Storing /\ Idle.text = NoText
      /\ [Idle EXCEPT !.pc = "release"].pc \notin Storing
      /\ [Idle EXCEPT !.pc = "release"].text = NoText /\ NoText \notin Final
  BY ConstantsAssumption DEF Idle, Storing
<1>1. ASSUME NEW w \in Writers, Throw(w) PROVE FinalInv' /\ row' = row
  <2>1. row' = row /\ slow' = slow
    BY <1>1 DEF Throw
  <2>2. writer'[w].pc \notin Storing /\ writer'[w].text = NoText
    BY <1>1, <1>a, SetFacts DEF Throw
  <2>3. \A v \in Writers \ {w} : writer'[v] = writer[v]
    BY <1>1, SetFacts DEF Throw
  <2>4. QED
    BY <2>1, <2>2, <2>3, FinalFrame
<1>2. CASE GoStale
  BY <1>2 DEF GoStale, FinalInv
<1>3. CASE Crash
  BY <1>3, <1>a DEF Crash, FinalInv
<1>4. CASE PinRunsOut
  BY <1>4 DEF PinRunsOut, FinalInv
<1>5. CASE UNCHANGED vars
  BY <1>5 DEF vars, FinalInv
<1>6. QED
  BY <1>1, <1>2, <1>3, <1>4, <1>5

\* publishOnFreshRow: as long as no operation outlasts its claim, a provisional text
\* never takes the place of a final one in the row.
THEOREM FinalRosterStays == Spec => FinalStays
<1>1. Init => FinalInv
  BY ConstantsAssumption DEF Init, FinalInv, NoRow, Idle, Storing
<1>2. FinalInv /\ TypeOK /\ OneWriter /\ [Next]_vars => FinalInv'
  BY FinalBegin, FinalStep, FinalRest DEF Next
<1>3. FinalInv /\ TypeOK /\ OneWriter /\ [Next]_vars
        => [~slow /\ row.fp \in Final => row'.fp \notin Provisional]_vars
  <2>1. SUFFICES ASSUME FinalInv, TypeOK, OneWriter, [Next]_vars, ~slow, row.fp \in Final
                 PROVE  row'.fp \notin Provisional
    OBVIOUS
  <2>2. row'.fp \in {row.fp, NoText} \/ \E w \in Writers : TextStored(w)
    BY <2>1, FinalBegin, FinalStep, FinalRest DEF Next
  <2>3. ASSUME NEW w \in Writers, TextStored(w) PROVE row'.fp \notin Provisional
    BY <2>1, <2>3 DEF FinalInv, TextStored, Storing
  <2>4. QED
    BY <2>1, <2>2, <2>3, ConstantsAssumption
<1>4. QED
  BY <1>1, <1>2, <1>3, PublishTypeCorrect, MutualExclusion, PTL DEF Spec, FinalStays

-----------------------------------------------------------------------------
(* Cancelled.  A cancellation that finds nobody publishing leaves only        *)
(* operations that will read a cancelled row, or the end of one.              *)

\* What going to another step leaves in an operation.
LEMMA GotoRecord ==
  ASSUME TypeOK, NEW w \in Writers, NEW pc, Goto(w, pc)
  PROVE  /\ \A v \in Writers \ {w} : writer'[v] = writer[v]
         /\ writer'[w].pc = pc /\ writer'[w].op = writer[w].op
         /\ pc # "release" => /\ writer'[w].seen = writer[w].seen
                             /\ writer'[w].msg = writer[w].msg
                             /\ writer'[w].text = writer[w].text
                             /\ writer'[w].pin = writer[w].pin
<1>1. /\ [Idle EXCEPT !.pc = pc, !.op = writer[w].op].pc = pc
      /\ [Idle EXCEPT !.pc = pc, !.op = writer[w].op].op = writer[w].op
  BY DEF Idle
<1>2. /\ [writer[w] EXCEPT !.pc = pc].pc = pc
      /\ [writer[w] EXCEPT !.pc = pc].op = writer[w].op
      /\ [writer[w] EXCEPT !.pc = pc].seen = writer[w].seen
      /\ [writer[w] EXCEPT !.pc = pc].msg = writer[w].msg
      /\ [writer[w] EXCEPT !.pc = pc].text = writer[w].text
      /\ [writer[w] EXCEPT !.pc = pc].pin = writer[w].pin
  BY DEF TypeOK, WriterType
<1>3. QED
  BY <1>1, <1>2, SetFacts DEF Goto

Shut == {"idle", "ready", "retire", "unpin", "keepOrphan", "forget", "unpinOrphan",
         "forgetOrphan", "release", "stopped"}
Named(r) == r.pc = "ready" => r.op \in AllOps
Down(r) ==
  /\ r.pc \in Shut
  /\ r.pc \in {"retire", "unpin", "keepOrphan"} => r.op \in Withdrawals
  /\ r.pc = "forgetOrphan" => r.seen.over
  /\ r.pc = "unpinOrphan" => r.seen.over
DownInv ==
  /\ \A w \in Writers : Named(writer[w])
  /\ still => row.cancelled /\ \A w \in Writers : Down(writer[w])

\* A step of one operation on a job that stays cancelled.
LEMMA DownFrame ==
  ASSUME DownInv, NEW w \in Writers, \A v \in Writers \ {w} : writer'[v] = writer[v],
         Named(writer'[w]), still => Down(writer'[w]),
         row.cancelled => row'.cancelled, still' = still
  PROVE  DownInv'
BY DEF DownInv

\* The steps an operation begins with leave it ready.
LEMMA DownBegin ==
  ASSUME DownInv, TypeOK, NEW w \in Writers, Begin(w)
  PROVE  DownInv' /\ chat' = chat
<1>a. row \in RowType
  BY DEF TypeOK
<1>b. ASSUME NEW op \in AllOps, NEW text, NEW pin,
             Set(w, [Idle EXCEPT !.pc = "ready", !.op = op, !.text = text, !.pin = pin])
      PROVE  /\ \A v \in Writers \ {w} : writer'[v] = writer[v]
             /\ writer'[w].pc = "ready" /\ writer'[w].op = op
             /\ Named(writer'[w]) /\ Down(writer'[w])
  <2> DEFINE r == [Idle EXCEPT !.pc = "ready", !.op = op, !.text = text, !.pin = pin]
  <2>1. r.pc = "ready" /\ r.op = op
    BY DEF Idle
  <2>2. writer'[w] = r /\ \A v \in Writers \ {w} : writer'[v] = writer[v]
    BY <1>b, SetFacts
  <2>3. QED
    BY <2>1, <2>2 DEF Named, Down, Shut
<1>1. ASSUME NEW op \in AllOps, NEW text, NEW pin, Start(w, op, text, pin),
             row.cancelled => row'.cancelled, still' = still
      PROVE  DownInv'
  BY <1>1, <1>b, DownFrame DEF Start
<1>2. CASE Collect(w)
  BY <1>1, <1>2 DEF Collect, AllOps, Publications
<1>3. CASE Announce(w)
  <2>1. row'.cancelled = row.cancelled /\ still' = still
    BY <1>3, <1>a DEF Announce, RowType
  <2>2. QED
    BY <1>1, <1>3, <2>1 DEF Announce, AllOps, Publications
<1>4. CASE Tick(w)
  BY <1>1, <1>4 DEF Tick, AllOps, Publications
<1>5. CASE StartWithdrawal(w)
  BY <1>1, <1>5 DEF StartWithdrawal, AllOps, Withdrawals
<1>6. CASE Stop(w)
  <2>1. CASE row.msg = 0
    <3>1. writer' = writer /\ row'.cancelled = row.cancelled /\ still' = still
      BY <1>6, <1>a, <2>1 DEF Stop, RowType
    <3>2. QED
      BY <1>6, <3>1 DEF DownInv, Stop
  <2>2. CASE row.msg # 0
    BY <1>1, <1>6, <2>2 DEF Stop, AllOps, Withdrawals
  <2>3. QED
    BY <1>6, <2>1, <2>2 DEF Stop
<1>7. CASE Cancel(w)
  <2>1. row'.cancelled /\ chat' = chat /\ still' = \A v \in Writers : ~Inside(v)
    BY <1>7, <1>a DEF Cancel, RowType
  <2>2. /\ \A v \in Writers \ {w} : writer'[v] = writer[v]
        /\ Named(writer'[w]) /\ Down(writer'[w])
    BY <1>7, <1>b DEF Cancel, Start, AllOps, Withdrawals
  <2>3. \A v \in Writers : ~Inside(v) => Down(writer[v])
    BY DEF Inside, Outside, Down, Shut
  <2>4. QED
    BY <2>1, <2>2, <2>3 DEF DownInv
<1>8. CASE RetryOrphan(w)
  <2>1. PICK pin : Set(w, [Idle EXCEPT !.pc = "ready", !.op = "orphan", !.pin = pin])
    BY <1>8 DEF RetryOrphan
  <2> DEFINE r == [Idle EXCEPT !.pc = "ready", !.op = "orphan", !.pin = pin]
  <2>2. r.pc = "ready" /\ r.op = "orphan"
    BY DEF Idle
  <2>3. writer'[w] = r /\ \A v \in Writers \ {w} : writer'[v] = writer[v]
    BY <2>1, SetFacts
  <2>4. Named(writer'[w]) /\ Down(writer'[w])
    BY <2>2, <2>3 DEF Named, Down, Shut, AllOps
  <2>5. QED
    BY <1>8, <2>3, <2>4, DownFrame DEF RetryOrphan
<1>9. QED
  BY <1>2, <1>3, <1>4, <1>5, <1>6, <1>7, <1>8
     DEF Begin, Collect, Announce, Tick, StartWithdrawal, Stop, Cancel, RetryOrphan

\* After the cancellation the fresh row stops a publication, and an orphan pass
\* knows that the job is over.
LEMMA DownClaim ==
  ASSUME DownInv, TypeOK, NEW w \in Writers, Claim(w)
  PROVE  DownInv'
<1> DEFINE pc == FirstStep(writer[w].op, writer[w].text, row)
           r  == [writer[w] EXCEPT !.pc = pc, !.seen = Fresh]
<1>1. row'.cancelled = row.cancelled /\ still' = still
  BY DEF Claim, TypeOK, RowType
<1>2. Named(writer[w]) /\ writer[w].pc = "ready" /\ writer[w].op \in AllOps
  BY DEF DownInv, Claim, Named
<1>3. CASE pc = "release"
  <2>1. Goto(w, "release")
    BY <1>3 DEF Claim
  <2>2. QED
    BY <1>1, <2>1, GotoRecord, DownFrame DEF Named, Down, Shut
<1>4. CASE pc # "release"
  <2>1. Set(w, r)
    BY <1>4 DEF Claim
  <2>2. r.pc = pc /\ r.op = writer[w].op /\ r.seen.over = (row.stopped \/ row.cancelled)
    BY DEF TypeOK, WriterType, Fresh
  <2>3. pc # "ready"
    BY DEF FirstStep
  <2>4. row.cancelled => pc \in Shut /\ (pc = "retire" => writer[w].op \in Withdrawals)
                         /\ pc \notin {"unpin", "keepOrphan", "forgetOrphan"}
    BY <1>2 DEF FirstStep, Shut, AllOps
  <2>5. still => Down(r)
    BY <2>2, <2>4 DEF Down, DownInv
  <2>6. QED
    BY <1>1, <2>1, <2>2, <2>3, <2>5, SetFacts, DownFrame DEF Named
<1>5. QED
  BY <1>3, <1>4

\* Under the claim, whoever is down neither sends nor pins, and stays down.
LEMMA DownStep ==
  ASSUME DownInv, TypeOK, NEW w \in Writers, Step(w)
  PROVE  DownInv' /\ (still => chat'.sent = chat.sent /\ chat'.pinned \subseteq chat.pinned)
<1>a. /\ row \in RowType /\ writer[w] \in WriterType
      /\ still => row.cancelled /\ Down(writer[w])
      /\ chat \in [sent : Nat, pinned : SUBSET Nat, runOut : SUBSET Nat]
  BY DEF TypeOK, DownInv
<1>b. Named(Idle) /\ Down(Idle) /\ Named([Idle EXCEPT !.pc = "stopped"])
      /\ Down([Idle EXCEPT !.pc = "stopped"])
  BY DEF Named, Down, Idle, Shut
<1>c. \A m : /\ [chat EXCEPT !.pinned = @ \ {m}].sent = chat.sent
             /\ [chat EXCEPT !.pinned = @ \ {m}].pinned \subseteq chat.pinned
  BY <1>a
<1>1. ASSUME NEW pc, pc # "ready", Goto(w, pc), row.cancelled => row'.cancelled, still' = still,
             still /\ pc # "release" =>
               /\ pc \in Shut \ {"unpinOrphan"}
               /\ pc \in {"retire", "unpin", "keepOrphan"} => writer[w].op \in Withdrawals
               /\ pc = "forgetOrphan" => writer[w].seen.over
      PROVE  DownInv'
  <2>1. Named(writer'[w])
    BY <1>1, GotoRecord DEF Named
  <2>2. still => Down(writer'[w])
    BY <1>1, GotoRecord DEF Down, Shut
  <2>3. QED
    BY <1>1, <2>1, <2>2, GotoRecord, DownFrame
<1>2. CASE Claim(w)
  BY <1>2, DownClaim DEF Claim
<1>3. CASE Busy(w)
  BY <1>3, <1>b, SetFacts, DownFrame DEF Busy
<1>4. CASE Send(w)
  <2>1. ~still /\ row' = row /\ still' = still
    BY <1>4, <1>a DEF Send, Down, Shut
  <2>2. CASE Set(w, [writer[w] EXCEPT !.pc = "store", !.msg = chat.sent + 1])
    <3>1. [writer[w] EXCEPT !.pc = "store", !.msg = chat.sent + 1].pc = "store"
      BY <1>a DEF WriterType
    <3>2. QED
      BY <2>1, <2>2, <3>1, SetFacts, DownFrame DEF Named
  <2>3. CASE Goto(w, "keepPrint") \/ Goto(w, "release")
    BY <1>1, <2>1, <2>3 DEF PCs
  <2>4. QED
    BY <1>4, <2>1, <2>2, <2>3 DEF Send
<1>5. CASE KeepPrint(w) \/ Store(w) \/ KeepPin(w)
  <2>1. ~still /\ row'.cancelled = row.cancelled /\ still' = still
    BY <1>5, <1>a DEF KeepPrint, Store, KeepPin, RowType, Down, Shut
  <2>2. QED
    BY <1>1, <1>5, <2>1 DEF KeepPrint, Store, KeepPin, PCs
<1>6. CASE Retire(w)
  <2>1. row' = row /\ still' = still /\ (still => writer[w].op \in Withdrawals)
    BY <1>6, <1>a DEF Retire, Down
  <2>2. AfterRetire(writer[w]) # "ready" /\ (still => AfterRetire(writer[w]) = "forget")
    BY <2>1 DEF AfterRetire
  <2>3. Goto(w, "unpin") => DownInv'
    BY <1>1, <2>1 DEF Shut
  <2>4. Goto(w, AfterRetire(writer[w])) => DownInv'
    BY <1>1, <2>1, <2>2 DEF Shut
  <2>5. DownInv'
    BY <1>6, <2>3, <2>4 DEF Retire
  <2>6. QED
    BY <1>6, <1>c, <2>5 DEF Retire
<1>7. CASE Unpin(w)
  <2>1. row' = row /\ still' = still /\ (still => writer[w].op \in Withdrawals)
    BY <1>7, <1>a DEF Unpin, Down
  <2>2. AfterRetire(writer[w]) # "ready" /\ (still => AfterRetire(writer[w]) = "forget")
    BY <2>1 DEF AfterRetire
  <2>3. Goto(w, "keepOrphan") => DownInv'
    BY <1>1, <2>1 DEF Shut
  <2>4. Goto(w, AfterRetire(writer[w])) => DownInv'
    BY <1>1, <2>1, <2>2 DEF Shut
  <2>5. DownInv'
    BY <1>7, <2>3, <2>4 DEF Unpin
  <2>6. QED
    BY <1>7, <1>c, <2>5 DEF Unpin
<1>8. CASE KeepOrphan(w)
  <2> DEFINE r  == [writer[w] EXCEPT !.pin = FALSE]
             pc == AfterRetire(r)
  <2>1. row'.cancelled = row.cancelled /\ still' = still /\ chat' = chat
    BY <1>8, <1>a DEF KeepOrphan, RowType
  <2>2. pc \in {"forget", "release"} /\ [r EXCEPT !.pc = pc].pc = pc
    BY <1>a DEF AfterRetire, WriterType
  <2>3. CASE pc = "release"
    BY <1>1, <1>8, <2>1, <2>3 DEF KeepOrphan, PCs
  <2>4. CASE pc # "release"
    <3>1. Set(w, [r EXCEPT !.pc = pc])
      BY <1>8, <2>4 DEF KeepOrphan
    <3>2. QED
      BY <2>1, <2>2, <2>4, <3>1, SetFacts, DownFrame DEF Named, Down, Shut
  <2>5. QED
    BY <2>1, <2>3, <2>4
<1>9. CASE Forget(w)
  <2>1. row'.cancelled = row.cancelled
    BY <1>9, <1>a DEF Forget, RowType
  <2>2. QED
    BY <1>1, <1>9, <2>1 DEF Forget, PCs
<1>10. CASE Pin(w)
  <2>1. ~still /\ row' = row /\ still' = still
    BY <1>10, <1>a DEF Pin, Down, Shut
  <2>2. QED
    BY <1>1, <1>10, <2>1 DEF Pin, PCs
<1>11. CASE UnpinOrphan(w)
  <2>1. row' = row /\ still' = still /\ (still => writer[w].seen.over)
    BY <1>11, <1>a DEF UnpinOrphan, Down
  <2>2. (Goto(w, "forgetOrphan") => DownInv') /\ (Goto(w, "release") => DownInv')
    BY <1>1, <2>1 DEF Shut
  <2>3. DownInv'
    BY <1>11, <2>2 DEF UnpinOrphan
  <2>4. QED
    BY <1>11, <1>c, <2>3 DEF UnpinOrphan
<1>12. CASE ForgetOrphan(w)
  <2>1. row'.cancelled = row.cancelled /\ still' = still /\ chat' = chat
    BY <1>12, <1>a DEF ForgetOrphan, RowType
  <2>2. still => ~Repins(writer[w])
    BY <1>12, <1>a DEF ForgetOrphan, Down, Repins
  <2>3. CASE Repins(writer[w])
    <3>1. Set(w, [writer[w] EXCEPT !.pc = "pin", !.msg = writer[w].seen.msg])
      BY <1>12, <2>3 DEF ForgetOrphan
    <3>2. [writer[w] EXCEPT !.pc = "pin", !.msg = writer[w].seen.msg].pc = "pin"
      BY <1>a DEF WriterType
    <3>3. QED
      BY <2>1, <2>2, <2>3, <3>1, <3>2, SetFacts, DownFrame DEF Named
  <2>4. CASE ~Repins(writer[w])
    BY <1>1, <1>12, <2>1, <2>4 DEF ForgetOrphan, PCs
  <2>5. QED
    BY <2>1, <2>3, <2>4
<1>13. CASE Release(w)
  <2>1. row'.cancelled = row.cancelled
    BY <1>13, <1>a DEF Release, RowType
  <2>2. QED
    BY <1>13, <1>b, <2>1, SetFacts, DownFrame DEF Release
<1>14. CASE Stopped(w)
  <2>1. row'.cancelled = row.cancelled
    BY <1>14, <1>a DEF Stopped, RowType
  <2>2. QED
    BY <1>14, <1>b, <2>1, SetFacts, DownFrame DEF Stopped
<1>15. QED
  BY <1>2, <1>3, <1>4, <1>5, <1>6, <1>7, <1>8, <1>9, <1>10, <1>11, <1>12, <1>13, <1>14
     DEF Step, Claim, Busy, KeepPrint, Store, KeepPin, Forget, Release, Stopped

\* Failures end operations, and unpin at most.
LEMMA DownRest ==
  ASSUME DownInv, TypeOK,
         (\E w \in Writers : Throw(w)) \/ GoStale \/ Crash \/ PinRunsOut \/ UNCHANGED vars
  PROVE  DownInv' /\ chat'.sent = chat.sent /\ chat'.pinned \subseteq chat.pinned
<1>a. /\ Named(Idle) /\ Down(Idle)
      /\ Named([Idle EXCEPT !.pc = "release"]) /\ Down([Idle EXCEPT !.pc = "release"])
  BY DEF Named, Down, Idle, Shut
<1>1. ASSUME NEW w \in Writers, Throw(w) PROVE DownInv' /\ chat' = chat
  BY <1>1, <1>a, SetFacts, DownFrame DEF Throw
<1>2. CASE GoStale
  BY <1>2 DEF GoStale, DownInv
<1>3. CASE Crash
  BY <1>3, <1>a DEF Crash, DownInv
<1>4. CASE PinRunsOut
  <2>1. DownInv'
    BY <1>4 DEF PinRunsOut, DownInv
  <2>2. chat'.sent = chat.sent /\ chat'.pinned \subseteq chat.pinned
    BY <1>4 DEF PinRunsOut, TypeOK
  <2>3. QED
    BY <2>1, <2>2
<1>5. CASE UNCHANGED vars
  BY <1>5 DEF vars, DownInv
<1>6. QED
  BY <1>1, <1>2, <1>3, <1>4, <1>5

\* cancelJobForClosure: whatever fails, a job cancelled while nobody was publishing is
\* never published nor pinned again, by a pass that started before or after.
THEOREM CancellationSticks == Spec => CancelledStaysDown
<1>1. Init => DownInv
  BY DEF Init, DownInv, Named, Idle
<1>2. DownInv /\ TypeOK /\ [Next]_vars => DownInv'
  BY DownBegin, DownStep, DownRest DEF Next
<1>3. DownInv /\ TypeOK /\ [Next]_vars
        => [still => chat'.sent = chat.sent /\ chat'.pinned \subseteq chat.pinned]_vars
  BY DownBegin, DownStep, DownRest DEF Next
<1>4. QED
  BY <1>1, <1>2, <1>3, PublishTypeCorrect, PTL DEF Spec, CancelledStaysDown

-----------------------------------------------------------------------------
(* What the row says of the group.  Nobody at work, it names the text last    *)
(* sent and whatever is pinned; whoever works on the roster holds the rest of *)
(* the truth in memory, which is why it takes the claim.  A lost answer, an    *)
(* update that throws, a crash or a second writer loses that memory, and the   *)
(* two theorems below suppose huddle-bot refuses calls and pins run out only.  *)

Gentle == Mishaps \subseteq {"refuse", "expire"}

Recording == {"keepPrint", "store"}
Retiring == {"retire", "unpin", "keepOrphan"}

\* A roster is pinned, or an orphan is left, but not both.
Kept(r) == r.pinnedAt => r.msg # 0 /\ r.orphan = 0
UpToDate(r) ==
  r.seen.msg = row.msg /\ r.seen.pinnedAt = row.pinnedAt /\ r.seen.orphan = row.orphan

PinsKnown == Kept(row) /\ chat.pinned \subseteq Tracked

\* Between the retirement of the old roster and the pin of the new one.
RetiringWell(r) ==
  /\ Kept(r.seen) /\ r.seen.orphan = row.orphan
  /\ chat.pinned \subseteq {r.seen.orphan} \cup (IF r.seen.pinnedAt THEN {r.seen.msg} ELSE {})
  /\ IF r.op \in Publications THEN r.msg = row.msg /\ r.msg # 0 /\ ~row.pinnedAt
     ELSE r.op \in Withdrawals /\ UpToDate(r)

Work(r) ==
  /\ last = IF r.pc \in Recording THEN r.text ELSE row.fp
  /\ r.pc = "send" => r.text # row.fp
  /\ r.pc \in Storing => r.op \in Publications
  /\ r.pc \in Storing \cup {"unpinOrphan"} => UpToDate(r) /\ PinsKnown
  /\ r.pc = "store" => r.msg # 0
  /\ r.pc \in Retiring => RetiringWell(r)
  /\ r.pc \in {"unpin", "keepOrphan"} => r.seen.pinnedAt
  /\ r.pc = "forget" => chat.pinned \subseteq {row.orphan}
  /\ r.pc \in {"pin", "keepPin"} => r.msg = row.msg /\ r.msg # 0 /\ row.orphan = 0
  /\ r.pc = "pin" => chat.pinned = {} /\ ~row.pinnedAt
  /\ r.pc = "keepPin" => chat.pinned \subseteq {r.msg}
  /\ r.pc = "unpinOrphan" => row.orphan # 0
  /\ r.pc = "forgetOrphan" => UpToDate(r) /\ chat.pinned = {} /\ Kept(row)
  /\ r.pc = "release" => PinsKnown

GroupInv ==
  /\ 0 \notin chat.pinned /\ chat.pinned \cap chat.runOut = {}
  /\ (\A w \in Writers : ~Inside(w)) => last = row.fp /\ PinsKnown
  /\ \A w \in Writers : Inside(w) => Work(writer[w])

\* A step outside the claim that touches neither the roster's columns nor the group.
LEMMA GroupFrame ==
  ASSUME GroupInv, chat' = chat, last' = last,
         row'.msg = row.msg, row'.fp = row.fp, row'.pinnedAt = row.pinnedAt, row'.orphan = row.orphan,
         \A v \in Writers : writer'[v] = writer[v] \/ (~Inside(v) /\ ~Inside(v)')
  PROVE  GroupInv'
<1>1. \A v \in Writers : Inside(v)' <=> Inside(v)
  BY DEF Inside
<1>2. PinsKnown' <=> PinsKnown
  BY DEF PinsKnown, Kept, Tracked
<1>3. ASSUME NEW v \in Writers, Inside(v)' PROVE Work(writer[v])'
  <2>1. writer'[v] = writer[v] /\ Work(writer[v])
    BY <1>1, <1>3 DEF GroupInv
  <2>2. QED
    BY <1>2, <2>1 DEF Work, RetiringWell, UpToDate, Kept
<1>4. QED
  BY <1>1, <1>2, <1>3 DEF GroupInv

\* A step of the only operation at work.
LEMMA GroupSole ==
  ASSUME NEW w \in Writers, \A v \in Writers \ {w} : ~Inside(v),
         \A v \in Writers \ {w} : writer'[v] = writer[v],
         0 \notin chat'.pinned, chat'.pinned \cap chat'.runOut = {},
         writer'[w].pc \notin Outside => Work(writer[w])',
         writer'[w].pc \in Outside => last' = row'.fp /\ PinsKnown'
  PROVE  GroupInv'
<1>1. \A v \in Writers \ {w} : ~Inside(v)'
  BY DEF Inside
<1>2. Inside(w)' <=> writer'[w].pc \notin Outside
  BY DEF Inside
<1>3. QED
  BY <1>1, <1>2 DEF GroupInv

\* Under the claim nobody else is at work; and nobody is when it is taken.
LEMMA Alone ==
  ASSUME ClaimInv, ~slow, NEW w \in Writers, Inside(w) \/ row.claim = NoClaim \/ stale
  PROVE  \A v \in Writers \ {w} : ~Inside(v)
BY ConstantsAssumption DEF ClaimInv

\* Without slow operations among the mishaps there is none.
LEMMA NeverSlow ==
  ASSUME Gentle
  PROVE  Spec => []~slow
<1>1. Init => ~slow
  BY DEF Init
<1>2. ~slow /\ [Next]_vars => ~slow'
  <2>1. SUFFICES ASSUME ~slow, [Next]_vars PROVE slow' = slow
    OBVIOUS
  <2>2. ASSUME NEW w \in Writers, Begin(w) PROVE slow' = slow
    BY <2>2 DEF Begin, Collect, Announce, Tick, StartWithdrawal, Stop, Cancel, RetryOrphan
  <2>3. ASSUME NEW w \in Writers, Step(w) PROVE slow' = slow
    BY <2>3 DEF Step, Claim, Busy, Send, KeepPrint, Store, Retire, Unpin, KeepOrphan, Forget, Pin,
                KeepPin, UnpinOrphan, ForgetOrphan, Release, Stopped
  <2>4. ASSUME NEW w \in Writers, Throw(w) PROVE slow' = slow
    BY <2>4 DEF Throw
  <2>5. CASE GoStale
    BY <2>5 DEF GoStale, Mishap, Gentle
  <2>6. CASE Crash \/ PinRunsOut \/ UNCHANGED vars
    BY <2>6 DEF Crash, PinRunsOut, vars
  <2>7. QED
    BY <2>1, <2>2, <2>3, <2>4, <2>5, <2>6 DEF Next
<1>3. QED
  BY <1>1, <1>2, PTL DEF Spec

\* The steps an operation begins with.
LEMMA GroupBegin ==
  ASSUME GroupInv, TypeOK, NEW w \in Writers, Begin(w)
  PROVE  GroupInv' /\ chat' = chat
<1>a. row \in RowType
  BY DEF TypeOK
<1>b. ASSUME NEW op, NEW text, NEW pin,
             Set(w, [Idle EXCEPT !.pc = "ready", !.op = op, !.text = text, !.pin = pin])
      PROVE  writer'[w].pc = "ready" /\ \A v \in Writers \ {w} : writer'[v] = writer[v]
  <2> DEFINE r == [Idle EXCEPT !.pc = "ready", !.op = op, !.text = text, !.pin = pin]
  <2>1. r.pc = "ready"
    BY DEF Idle
  <2>2. QED
    BY <1>b, <2>1, SetFacts
<1>1. /\ chat' = chat /\ last' = last
      /\ row'.msg = row.msg /\ row'.fp = row.fp /\ row'.pinnedAt = row.pinnedAt
      /\ row'.orphan = row.orphan
  BY <1>a DEF Begin, Collect, Announce, Tick, StartWithdrawal, Stop, Cancel, RetryOrphan, RowType
<1>2. \/ /\ writer[w].pc = "idle" /\ writer'[w].pc = "ready"
         /\ \A v \in Writers \ {w} : writer'[v] = writer[v]
      \/ writer' = writer
  <2>1. ASSUME NEW op, NEW text, NEW pin, Start(w, op, text, pin)
        PROVE  writer[w].pc = "idle" /\ writer'[w].pc = "ready"
               /\ \A v \in Writers \ {w} : writer'[v] = writer[v]
    BY <1>b, <2>1 DEF Start
  <2>2. CASE RetryOrphan(w)
    <3>1. PICK pin : Set(w, [Idle EXCEPT !.pc = "ready", !.op = "orphan", !.pin = pin])
      BY <2>2 DEF RetryOrphan
    <3> DEFINE r == [Idle EXCEPT !.pc = "ready", !.op = "orphan", !.pin = pin]
    <3>2. r.pc = "ready"
      BY DEF Idle
    <3>3. QED
      BY <2>2, <3>1, <3>2, SetFacts DEF RetryOrphan
  <2>3. QED
    BY <2>1, <2>2 DEF Begin, Collect, Announce, Tick, StartWithdrawal, Stop, Cancel
<1>3. \A v \in Writers : writer'[v] = writer[v] \/ (~Inside(v) /\ ~Inside(v)')
  BY <1>2 DEF Inside, Outside
<1>4. QED
  BY <1>1, <1>3, GroupFrame

\* Taking the claim: what the row says is what the operation goes on with.
LEMMA GroupClaim ==
  ASSUME GroupInv, TypeOK, ClaimInv, DownInv, ~slow, NEW w \in Writers, Claim(w)
  PROVE  GroupInv' /\ chat' = chat
<1> DEFINE pc == FirstStep(writer[w].op, writer[w].text, row)
           r  == [writer[w] EXCEPT !.pc = pc, !.seen = Fresh]
<1>1. /\ row'.msg = row.msg /\ row'.fp = row.fp /\ row'.pinnedAt = row.pinnedAt
      /\ row'.orphan = row.orphan /\ chat' = chat /\ last' = last
  BY DEF Claim, TypeOK, RowType
<1>2. writer[w].pc = "ready" /\ writer[w].op \in AllOps
  BY DEF Claim, DownInv, Named
<1>3. \A v \in Writers \ {w} : ~Inside(v)
  BY Alone DEF Claim
<1>4. last = row.fp /\ PinsKnown
  BY <1>2, <1>3 DEF GroupInv, Inside, Outside
<1>5. last' = row'.fp /\ PinsKnown'
  BY <1>1, <1>4 DEF PinsKnown, Kept, Tracked
<1>6. pc \in {"release", "send", "unpinOrphan", "retire"}
  BY DEF FirstStep
<1>7. CASE pc = "release"
  <2>1. Goto(w, "release")
    BY <1>7 DEF Claim
  <2>2. Work(writer[w])'
    BY <1>5, <2>1, GotoRecord DEF Work, Recording, Storing, Retiring
  <2>3. QED
    BY <1>1, <1>3, <1>5, <2>1, <2>2, GotoRecord, GroupSole DEF GroupInv
<1>8. CASE pc # "release"
  <2>1. Set(w, r)
    BY <1>8 DEF Claim
  <2>2. /\ r.pc = pc /\ r.op = writer[w].op /\ r.text = writer[w].text
        /\ r.seen.msg = row.msg /\ r.seen.pinnedAt = row.pinnedAt /\ r.seen.orphan = row.orphan
    BY DEF TypeOK, WriterType, Fresh
  <2>3. writer'[w] = r /\ \A v \in Writers \ {w} : writer'[v] = writer[v]
    BY <2>1, SetFacts
  <2>4. UpToDate(writer[w])'
    BY <1>1, <2>2, <2>3 DEF UpToDate
  <2>5. /\ pc = "send" => writer[w].text # row.fp /\ writer[w].op \in Publications
        /\ pc = "retire" => writer[w].op \in Withdrawals
        /\ pc = "unpinOrphan" => row.orphan # 0
    BY <1>2 DEF FirstStep, AllOps
  <2>6. writer[w].op \in Withdrawals => writer[w].op \notin Publications
    BY DEF Withdrawals, Publications
  <2>7. pc = "retire" => RetiringWell(writer[w])'
    BY <1>1, <1>4, <2>2, <2>3, <2>4, <2>5, <2>6 DEF RetiringWell, PinsKnown, Kept, Tracked
  <2>8. Work(writer[w])'
    BY <1>1, <1>5, <1>6, <1>8, <2>2, <2>3, <2>4, <2>5, <2>7 DEF Work, Recording, Storing, Retiring
  <2>9. pc \notin Outside
    BY <1>6 DEF Outside
  <2>10. QED
    BY <1>1, <1>3, <2>2, <2>3, <2>8, <2>9, GroupSole DEF GroupInv
<1>9. QED
  BY <1>1, <1>7, <1>8

\* The parts of the group a call to huddle-bot changes.
LEMMA ChatFacts ==
  ASSUME TypeOK, NEW m
  PROVE  /\ [chat EXCEPT !.pinned = @ \ {m}].pinned = chat.pinned \ {m}
         /\ [chat EXCEPT !.pinned = @ \ {m}].runOut = chat.runOut
         /\ [chat EXCEPT !.pinned = @ \ {m}].sent = chat.sent
BY DEF TypeOK

\* What follows a retirement that leaves the old roster neither pinned nor unknown.
LEMMA GroupRetired ==
  ASSUME TypeOK, NEW w \in Writers, Work(writer[w]), writer[w].pc \in Retiring,
         Goto(w, AfterRetire(writer[w])), UNCHANGED <<row, last>>,
         0 \notin chat'.pinned, chat'.pinned \subseteq {row.orphan}
  PROVE  writer'[w].pc \notin Outside /\ Work(writer[w])'
<1> DEFINE pc == AfterRetire(writer[w])
<1>1. writer'[w].pc = pc /\ writer'[w].op = writer[w].op /\ pc \in {"forget", "pin", "release"}
  BY GotoRecord, AfterRetireType
<1>2. last = row.fp /\ RetiringWell(writer[w])
  BY DEF Work, Retiring, Recording
<1>3. CASE writer[w].op \in Publications
  <2>1. writer[w].op \notin Withdrawals
    BY <1>3 DEF Publications, Withdrawals
  <2>2. /\ writer[w].msg = row.msg /\ row.msg # 0 /\ ~row.pinnedAt
        /\ writer[w].seen.orphan = row.orphan
    BY <1>2, <1>3 DEF RetiringWell
  <2>3. PinsKnown'
    BY <2>2 DEF PinsKnown, Kept, Tracked
  <2>4. CASE pc = "pin"
    <3>1. row.orphan = 0 /\ chat'.pinned = {}
      BY <2>2, <2>4 DEF AfterRetire
    <3>2. QED
      BY <1>1, <1>2, <2>2, <2>4, <3>1, GotoRecord
         DEF Work, Recording, Retiring, Storing, Outside
  <2>5. CASE pc = "release"
    BY <1>1, <1>2, <2>3, <2>5 DEF Work, Recording, Retiring, Storing, Outside
  <2>6. QED
    BY <2>1, <2>4, <2>5 DEF AfterRetire
<1>4. CASE writer[w].op \notin Publications
  <2>1. pc = "forget"
    BY <1>2, <1>4 DEF RetiringWell, AfterRetire
  <2>2. QED
    BY <1>1, <1>2, <2>1 DEF Work, Recording, Retiring, Storing, Outside
<1>5. QED
  BY <1>3, <1>4

\* Going on with the retirement when the old roster may still be pinned.
LEMMA GroupRetiring ==
  ASSUME TypeOK, NEW w \in Writers, Work(writer[w]), writer[w].pc \in Retiring,
         NEW pc \in {"unpin", "keepOrphan"}, Goto(w, pc), writer[w].seen.pinnedAt,
         UNCHANGED <<row, last>>, chat'.pinned \subseteq chat.pinned
  PROVE  writer'[w].pc \notin Outside /\ Work(writer[w])'
<1>1. /\ writer'[w].pc = pc /\ writer'[w].op = writer[w].op /\ writer'[w].seen = writer[w].seen
      /\ writer'[w].msg = writer[w].msg
  BY GotoRecord
<1>2. last = row.fp /\ RetiringWell(writer[w])
  BY DEF Work, Retiring, Recording
<1>3. RetiringWell(writer[w])'
  BY <1>1, <1>2 DEF RetiringWell, UpToDate, Kept
<1>4. QED
  BY <1>1, <1>2, <1>3 DEF Work, Recording, Retiring, Storing, Outside

\* Each step under the claim keeps what the row and the operation know together.
LEMMA GroupWork ==
  ASSUME Gentle, TypeOK, GroupInv, NEW w \in Writers, Inside(w), Step(w)
  PROVE  /\ 0 \notin chat'.pinned /\ chat'.pinned \cap chat'.runOut = {}
         /\ writer'[w].pc \notin Outside => Work(writer[w])'
         /\ writer'[w].pc \in Outside => last' = row'.fp /\ PinsKnown'
         /\ chat'.sent # chat.sent => last' # last
<1> DEFINE r == writer[w]
<1>a. /\ row \in RowType /\ writer[w] \in WriterType /\ chat.sent \in Nat
      /\ chat \in [sent : Nat, pinned : SUBSET Nat, runOut : SUBSET Nat]
      /\ row.msg \in Nat /\ row.orphan \in Nat /\ r.seen.msg \in Nat
  BY PartsType DEF TypeOK, RowType
<1>b. Work(writer[w]) /\ 0 \notin chat.pinned /\ chat.pinned \cap chat.runOut = {}
  BY DEF GroupInv
<1>c. ~Mishap("lose") /\ ~Mishap("throw")
  BY DEF Gentle, Mishap
<1>1. CASE Claim(w) \/ Busy(w) \/ Stopped(w)
  BY <1>1 DEF Claim, Busy, Stopped, Inside, Outside
<1>2. CASE Send(w)
  <2>1. /\ r.pc = "send" /\ row' = row /\ r.text # row.fp /\ last = row.fp
        /\ r.op \in Publications /\ UpToDate(r) /\ PinsKnown
    BY <1>2, <1>b DEF Send, Work, Storing, Recording
  <2>2. CASE chat' = chat /\ last' = last /\ Goto(w, "release")
    <3>1. PinsKnown'
      BY <2>1, <2>2 DEF PinsKnown, Kept, Tracked
    <3>2. QED
      BY <1>b, <2>1, <2>2, <3>1, GotoRecord DEF Work, Recording, Retiring, Storing
  <2>3. CASE chat' = [chat EXCEPT !.sent = @ + 1] /\ last' = r.text
    <3>1. /\ chat'.pinned = chat.pinned /\ chat'.runOut = chat.runOut
          /\ chat'.sent = chat.sent + 1
      BY <1>a, <2>3
    <3>2. PinsKnown' /\ last' # last
      BY <2>1, <2>3, <3>1 DEF PinsKnown, Kept, Tracked
    <3>3. CASE Goto(w, "keepPrint")
      <4>1. UpToDate(writer[w])'
        BY <2>1, <3>3, GotoRecord DEF UpToDate
      <4>2. QED
        BY <1>b, <2>1, <2>3, <3>1, <3>2, <3>3, <4>1, GotoRecord
           DEF Work, Recording, Retiring, Storing, Outside
    <3>4. CASE Set(w, [r EXCEPT !.pc = "store", !.msg = chat.sent + 1])
      <4> DEFINE s == [r EXCEPT !.pc = "store", !.msg = chat.sent + 1]
      <4>1. s.pc = "store" /\ s.msg = chat.sent + 1 /\ s.op = r.op /\ s.text = r.text /\ s.seen = r.seen
        BY <1>a DEF WriterType
      <4>2. writer'[w] = s
        BY <3>4, SetFacts
      <4>3. chat.sent + 1 # 0
        BY <1>a
      <4>4. UpToDate(writer[w])'
        BY <2>1, <4>1, <4>2 DEF UpToDate
      <4>5. QED
        BY <1>b, <2>1, <2>3, <3>1, <3>2, <4>1, <4>2, <4>3, <4>4
           DEF Work, Recording, Retiring, Storing, Outside
    <3>5. QED
      BY <1>2, <1>a, <1>c, <2>3, <3>1, <3>3, <3>4 DEF Send
  <2>4. QED
    BY <1>2, <1>c, <2>2, <2>3 DEF Send
<1>3. CASE KeepPrint(w)
  <2>1. /\ r.pc = "keepPrint" /\ last = r.text /\ PinsKnown /\ chat' = chat /\ last' = last
    BY <1>3, <1>b DEF KeepPrint, Work, Storing, Recording
  <2>2. /\ row'.fp = r.text /\ row'.msg = row.msg /\ row'.pinnedAt = row.pinnedAt
        /\ row'.orphan = row.orphan
    BY <1>3, <1>a DEF KeepPrint, RowType
  <2>3. PinsKnown'
    BY <2>1, <2>2 DEF PinsKnown, Kept, Tracked
  <2>4. writer'[w].pc = "release"
    BY <1>3, GotoRecord DEF KeepPrint
  <2>5. QED
    BY <1>b, <2>1, <2>2, <2>3, <2>4 DEF Work, Recording, Retiring, Storing, Outside
<1>4. CASE Store(w)
  <2>1. /\ r.pc = "store" /\ last = r.text /\ PinsKnown /\ chat' = chat /\ last' = last
        /\ UpToDate(r) /\ r.op \in Publications /\ r.msg # 0
    BY <1>4, <1>b DEF Store, Work, Storing, Recording
  <2>2. /\ row'.fp = r.text /\ row'.msg = r.msg /\ row'.pinnedAt = FALSE
        /\ row'.orphan = row.orphan
    BY <1>4, <1>a DEF Store, RowType
  <2>3. /\ writer'[w].pc = "retire" /\ writer'[w].op = r.op /\ writer'[w].msg = r.msg
        /\ writer'[w].seen = r.seen /\ writer'[w].text = r.text
    BY <1>4, GotoRecord DEF Store
  <2>4. Kept(r.seen) /\ r.seen.orphan = row.orphan
    BY <2>1 DEF UpToDate, PinsKnown, Kept
  <2>5. chat.pinned \subseteq {r.seen.orphan} \cup (IF r.seen.pinnedAt THEN {r.seen.msg} ELSE {})
    BY <2>1 DEF UpToDate, PinsKnown, Tracked
  <2>6. RetiringWell(writer[w])'
    BY <2>1, <2>2, <2>3, <2>4, <2>5 DEF RetiringWell, Kept
  <2>7. QED
    BY <1>b, <2>1, <2>2, <2>3, <2>6 DEF Work, Recording, Retiring, Storing, Outside
<1>5. CASE Retire(w)
  <2>1. /\ r.pc = "retire" /\ RetiringWell(r) /\ row' = row /\ last' = last
        /\ r.pc \in Retiring
    BY <1>5, <1>b DEF Retire, Work, Retiring
  <2>2. /\ chat'.pinned \in {chat.pinned, chat.pinned \ {r.seen.msg}}
        /\ chat'.runOut = chat.runOut /\ chat'.sent = chat.sent
    BY <1>5, ChatFacts DEF Retire
  <2>3. CASE Goto(w, AfterRetire(r)) /\ (chat'.pinned = chat.pinned \ {r.seen.msg} \/ ~r.seen.pinnedAt)
    <3>1. chat'.pinned \subseteq {row.orphan}
      BY <2>1, <2>2, <2>3 DEF RetiringWell
    <3>2. writer'[w].pc \notin Outside /\ Work(writer[w])'
      BY <1>b, <2>1, <2>2, <2>3, <3>1, GroupRetired
    <3>3. QED
      BY <1>b, <2>2, <3>2
  <2>4. CASE Goto(w, "unpin") /\ r.seen.pinnedAt
    <3>1. writer'[w].pc \notin Outside /\ Work(writer[w])'
      BY <1>b, <2>1, <2>2, <2>4, GroupRetiring
    <3>2. QED
      BY <1>b, <2>2, <3>1
  <2>5. r.seen.msg = 0 => ~r.seen.pinnedAt
    BY <2>1 DEF RetiringWell, Kept
  <2>6. QED
    BY <1>5, <1>c, <2>3, <2>4, <2>5, ChatFacts DEF Retire
<1>6. CASE Unpin(w)
  <2>1. /\ r.pc = "unpin" /\ RetiringWell(r) /\ row' = row /\ last' = last
        /\ r.pc \in Retiring /\ r.seen.pinnedAt
    BY <1>6, <1>b DEF Unpin, Work, Retiring
  <2>2. /\ chat'.pinned \in {chat.pinned, chat.pinned \ {r.seen.msg}}
        /\ chat'.runOut = chat.runOut /\ chat'.sent = chat.sent
    BY <1>6, ChatFacts DEF Unpin
  <2>3. CASE Goto(w, AfterRetire(r)) /\ chat'.pinned = chat.pinned \ {r.seen.msg}
    <3>1. chat'.pinned \subseteq {row.orphan}
      BY <2>1, <2>3 DEF RetiringWell
    <3>2. writer'[w].pc \notin Outside /\ Work(writer[w])'
      BY <1>b, <2>1, <2>3, <3>1, GroupRetired
    <3>3. QED
      BY <1>b, <2>2, <3>2
  <2>4. CASE Goto(w, "keepOrphan")
    <3>1. writer'[w].pc \notin Outside /\ Work(writer[w])'
      BY <1>b, <2>1, <2>2, <2>4, GroupRetiring
    <3>2. QED
      BY <1>b, <2>2, <3>1
  <2>5. QED
    BY <1>6, <2>3, <2>4, ChatFacts DEF Unpin
<1>7. CASE KeepOrphan(w)
  <2> DEFINE s  == [r EXCEPT !.pin = FALSE]
             pc == AfterRetire(s)
  <2>1. /\ r.pc = "keepOrphan" /\ RetiringWell(r) /\ r.seen.pinnedAt /\ last = row.fp
        /\ last' = last /\ chat' = chat
    BY <1>7, <1>a, <1>b DEF KeepOrphan, Work, Retiring, Recording, WriterType
  <2>2. /\ row'.orphan = r.seen.msg /\ row'.msg = row.msg /\ row'.fp = row.fp
        /\ row'.pinnedAt = row.pinnedAt
    BY <1>7, <1>a DEF KeepOrphan, RowType, WriterType
  <2>3. chat.pinned \subseteq {r.seen.msg}
    BY <1>b, <2>1 DEF RetiringWell, Kept
  <2>4. s.op = r.op /\ s.pin = FALSE
    BY <1>a DEF WriterType
  <2>5. CASE r.op \in Publications
    <3>1. r.op \notin Withdrawals
      BY <2>5 DEF Publications, Withdrawals
    <3>2. pc = "release"
      BY <2>4, <3>1 DEF AfterRetire
    <3>3. writer'[w].pc = "release"
      BY <1>7, <3>2, GotoRecord DEF KeepOrphan
    <3>4. ~row.pinnedAt
      BY <2>1, <2>5 DEF RetiringWell
    <3>5. PinsKnown'
      BY <2>1, <2>2, <2>3, <3>4 DEF PinsKnown, Kept, Tracked
    <3>6. QED
      BY <1>b, <2>1, <2>2, <3>3, <3>5 DEF Work, Recording, Retiring, Storing, Outside
  <2>6. CASE r.op \notin Publications
    <3>1. pc = "forget"
      BY <2>1, <2>4, <2>6 DEF RetiringWell, AfterRetire
    <3>2. Set(w, [s EXCEPT !.pc = pc]) /\ [s EXCEPT !.pc = pc].pc = pc
      BY <1>7, <1>a, <3>1 DEF KeepOrphan, WriterType
    <3>3. writer'[w].pc = "forget"
      BY <3>1, <3>2, SetFacts
    <3>4. QED
      BY <1>b, <2>1, <2>2, <2>3, <3>3 DEF Work, Recording, Retiring, Storing, Outside
  <2>7. QED
    BY <2>5, <2>6
<1>8. CASE Forget(w)
  <2>1. r.pc = "forget" /\ last = row.fp /\ chat.pinned \subseteq {row.orphan} /\ chat' = chat
    BY <1>8, <1>b DEF Forget, Work, Recording
  <2>2. row'.pinnedAt = FALSE /\ row'.orphan = row.orphan /\ last' = row'.fp
    <3>1. \/ row' = [row EXCEPT !.pinnedAt = FALSE] /\ last' = last
          \/ row' = [row EXCEPT !.msg = 0, !.fp = NoText, !.pinnedAt = FALSE] /\ last' = NoText
      BY <1>8, Zenon DEF Forget
    <3>2. QED
      BY <1>a, <2>1, <3>1 DEF RowType
  <2>3. PinsKnown'
    BY <2>1, <2>2 DEF PinsKnown, Kept, Tracked
  <2>4. writer'[w].pc = "release"
    BY <1>8, GotoRecord DEF Forget
  <2>5. QED
    BY <1>b, <2>1, <2>2, <2>3, <2>4 DEF Work, Recording, Retiring, Storing, Outside
<1>9. CASE Pin(w)
  <2>1. /\ r.pc = "pin" /\ last = row.fp /\ row' = row /\ last' = last
        /\ r.msg = row.msg /\ r.msg # 0 /\ row.orphan = 0 /\ chat.pinned = {} /\ ~row.pinnedAt
    BY <1>9, <1>b DEF Pin, Work, Recording
  <2>2. CASE Goto(w, "keepPin")
    <3>1. chat' = [chat EXCEPT !.pinned = @ \cup {r.msg}, !.runOut = @ \ {r.msg}]
      <4>1. ~Goto(w, "release")
        BY <2>2, GotoRecord
      <4>2. QED
        BY <1>9, <4>1 DEF Pin
    <3>2. chat'.pinned = {r.msg} /\ chat'.runOut = chat.runOut \ {r.msg} /\ chat'.sent = chat.sent
      BY <1>a, <2>1, <3>1
    <3>3. writer'[w].pc = "keepPin" /\ writer'[w].msg = r.msg
      BY <2>2, GotoRecord
    <3>4. QED
      BY <2>1, <3>2, <3>3 DEF Work, Recording, Retiring, Storing, Outside
  <2>3. CASE Goto(w, "release") /\ chat' = chat
    <3>1. PinsKnown'
      BY <2>1, <2>3 DEF PinsKnown, Kept, Tracked
    <3>2. writer'[w].pc = "release"
      BY <2>3, GotoRecord
    <3>3. QED
      BY <1>b, <2>1, <2>3, <3>1, <3>2 DEF Work, Recording, Retiring, Storing, Outside
  <2>4. QED
    BY <1>9, <1>c, <2>2, <2>3 DEF Pin
<1>10. CASE KeepPin(w)
  <2>1. /\ r.pc = "keepPin" /\ last = row.fp /\ chat' = chat /\ last' = last
        /\ r.msg = row.msg /\ r.msg # 0 /\ row.orphan = 0 /\ chat.pinned \subseteq {r.msg}
    BY <1>10, <1>b DEF KeepPin, Work, Recording
  <2>2. /\ row'.pinnedAt = TRUE /\ row'.msg = row.msg /\ row'.fp = row.fp
        /\ row'.orphan = row.orphan
    BY <1>10, <1>a DEF KeepPin, RowType
  <2>3. PinsKnown'
    BY <2>1, <2>2 DEF PinsKnown, Kept, Tracked
  <2>4. writer'[w].pc = "release"
    BY <1>10, GotoRecord DEF KeepPin
  <2>5. QED
    BY <1>b, <2>1, <2>2, <2>3, <2>4 DEF Work, Recording, Retiring, Storing, Outside
<1>11. CASE UnpinOrphan(w)
  <2>1. /\ r.pc = "unpinOrphan" /\ last = row.fp /\ row' = row /\ last' = last
        /\ UpToDate(r) /\ PinsKnown /\ row.orphan # 0
    BY <1>11, <1>b DEF UnpinOrphan, Work, Recording
  <2>2. chat.pinned \subseteq {row.orphan} /\ r.seen.orphan = row.orphan
    BY <2>1 DEF PinsKnown, Kept, Tracked, UpToDate
  <2>3. CASE Goto(w, "forgetOrphan")
    <3>1. /\ chat'.pinned = {} /\ chat'.runOut = chat.runOut /\ chat'.sent = chat.sent
      <4>1. ~Goto(w, "release")
        BY <2>3, GotoRecord
      <4>2. QED
        BY <1>11, <1>b, <2>2, <4>1, ChatFacts DEF UnpinOrphan
    <3>2. /\ writer'[w].pc = "forgetOrphan" /\ writer'[w].seen = r.seen
      BY <2>3, GotoRecord
    <3>3. UpToDate(writer[w])' /\ Kept(row)'
      BY <2>1, <3>2 DEF UpToDate, PinsKnown, Kept
    <3>4. QED
      BY <2>1, <3>1, <3>2, <3>3 DEF Work, Recording, Retiring, Storing, Outside
  <2>4. CASE Goto(w, "release") /\ chat' = chat
    <3>1. PinsKnown'
      BY <2>1, <2>4 DEF PinsKnown, Kept, Tracked
    <3>2. writer'[w].pc = "release"
      BY <2>4, GotoRecord
    <3>3. QED
      BY <1>b, <2>1, <2>4, <3>1, <3>2 DEF Work, Recording, Retiring, Storing, Outside
  <2>5. QED
    BY <1>11, <1>c, <2>3, <2>4 DEF UnpinOrphan
<1>12. CASE ForgetOrphan(w)
  <2>1. /\ r.pc = "forgetOrphan" /\ last = row.fp /\ chat' = chat /\ last' = last
        /\ UpToDate(r) /\ chat.pinned = {} /\ Kept(row)
    BY <1>12, <1>b DEF ForgetOrphan, Work, Recording
  <2>2. /\ row'.orphan = 0 /\ row'.msg = row.msg /\ row'.fp = row.fp
        /\ row'.pinnedAt = row.pinnedAt
    BY <1>12, <1>a DEF ForgetOrphan, RowType
  <2>3. CASE Repins(r)
    <3> DEFINE s == [r EXCEPT !.pc = "pin", !.msg = r.seen.msg]
    <3>1. writer'[w] = s
      BY <1>12, <2>3, SetFacts DEF ForgetOrphan
    <3>2. s.pc = "pin" /\ s.msg = r.seen.msg
      BY <1>a DEF WriterType
    <3>3. r.seen.msg = row.msg /\ row.msg # 0 /\ ~row.pinnedAt
      BY <2>1, <2>3 DEF UpToDate, Repins
    <3>4. QED
      BY <1>b, <2>1, <2>2, <3>1, <3>2, <3>3 DEF Work, Recording, Retiring, Storing, Outside
  <2>4. CASE ~Repins(r)
    <3>1. PinsKnown'
      BY <2>1, <2>2 DEF PinsKnown, Kept, Tracked
    <3>2. writer'[w].pc = "release"
      BY <1>12, <2>4, GotoRecord DEF ForgetOrphan
    <3>3. QED
      BY <1>b, <2>1, <2>2, <3>1, <3>2 DEF Work, Recording, Retiring, Storing, Outside
  <2>5. QED
    BY <2>3, <2>4
<1>13. CASE Release(w)
  <2>1. r.pc = "release" /\ last = row.fp /\ PinsKnown /\ chat' = chat /\ last' = last
    BY <1>13, <1>b DEF Release, Work, Recording
  <2>2. /\ row'.msg = row.msg /\ row'.fp = row.fp /\ row'.pinnedAt = row.pinnedAt
        /\ row'.orphan = row.orphan
    BY <1>13, <1>a DEF Release, RowType
  <2>3. PinsKnown'
    BY <2>1, <2>2 DEF PinsKnown, Kept, Tracked
  <2>4. writer'[w].pc \in {"idle", "stopped"}
    BY <1>13, SetFacts DEF Release, Idle
  <2>5. QED
    BY <1>b, <2>1, <2>2, <2>3, <2>4 DEF Outside
<1>14. QED
  BY <1>1, <1>2, <1>3, <1>4, <1>5, <1>6, <1>7, <1>8, <1>9, <1>10, <1>11, <1>12, <1>13 DEF Step

\* A step leaves the other operations alone.
LEMMA StepOthers ==
  ASSUME TypeOK, NEW w \in Writers, Step(w)
  PROVE  \A v \in Writers \ {w} : writer'[v] = writer[v]
<1>1. \A pc : Goto(w, pc) => \A v \in Writers \ {w} : writer'[v] = writer[v]
  BY GotoRecord
<1>2. \A r : Set(w, r) => \A v \in Writers \ {w} : writer'[v] = writer[v]
  BY SetFacts
<1>3. (\E pc : Goto(w, pc)) \/ (\E r : Set(w, r))
  BY DEF Step, Claim, Busy, Send, KeepPrint, Store, Retire, Unpin, KeepOrphan, Forget, Pin,
         KeepPin, UnpinOrphan, ForgetOrphan, Release, Stopped
<1>4. QED
  BY <1>1, <1>2, <1>3

\* Every step of an operation keeps the invariant, and sends the group a text that is
\* not the last one.
LEMMA GroupStep ==
  ASSUME Gentle, GroupInv, TypeOK, ClaimInv, DownInv, ~slow, NEW w \in Writers, Step(w)
  PROVE  GroupInv' /\ (chat'.sent # chat.sent => last' # last)
<1>1. CASE Claim(w)
  BY <1>1, GroupClaim
<1>2. CASE Busy(w) \/ Stopped(w)
  <2>1. /\ chat' = chat /\ last' = last
        /\ row'.msg = row.msg /\ row'.fp = row.fp /\ row'.pinnedAt = row.pinnedAt
        /\ row'.orphan = row.orphan
    BY <1>2 DEF Busy, Stopped, TypeOK, RowType
  <2>2. writer'[w].pc = "idle" /\ ~Inside(w) /\ \A v \in Writers \ {w} : writer'[v] = writer[v]
    BY <1>2, SetFacts DEF Busy, Stopped, Inside, Outside, Idle
  <2>3. \A v \in Writers : writer'[v] = writer[v] \/ (~Inside(v) /\ ~Inside(v)')
    BY <2>2 DEF Inside, Outside
  <2>4. QED
    BY <2>1, <2>3, GroupFrame
<1>3. CASE Inside(w)
  <2>1. \A v \in Writers \ {w} : ~Inside(v)
    BY <1>3, Alone
  <2>2. QED
    BY <1>3, <2>1, GroupWork, StepOthers, GroupSole
<1>4. QED
  BY <1>1, <1>2, <1>3
     DEF Step, Send, KeepPrint, Store, Retire, Unpin, KeepOrphan, Forget, Pin, KeepPin,
         UnpinOrphan, ForgetOrphan, Release, Inside, Outside, WriterType

\* The clock and the pins that run out.
LEMMA GroupRest ==
  ASSUME Gentle, GroupInv, TypeOK,
         (\E w \in Writers : Throw(w)) \/ GoStale \/ Crash \/ PinRunsOut \/ UNCHANGED vars
  PROVE  GroupInv' /\ chat'.sent = chat.sent
<1>1. ~(\E w \in Writers : Throw(w)) /\ ~Crash
  BY DEF Throw, Crash, Mishap, Gentle
<1>2. CASE GoStale \/ UNCHANGED vars
  BY <1>2, GroupFrame DEF GoStale, vars
<1>3. CASE PinRunsOut
  <2>1. PICK m \in (chat.pinned \cup {row.orphan}) \ (chat.runOut \cup {0}) :
          chat' = [chat EXCEPT !.pinned = @ \ {m}, !.runOut = @ \cup {m}]
    BY <1>3 DEF PinRunsOut
  <2>2. /\ chat'.pinned = chat.pinned \ {m} /\ chat'.runOut = chat.runOut \cup {m}
        /\ chat'.sent = chat.sent
    BY <2>1 DEF TypeOK
  <2>3. row' = row /\ writer' = writer /\ last' = last
    BY <1>3 DEF PinRunsOut
  <2>4. PinsKnown => PinsKnown'
    BY <2>2, <2>3 DEF PinsKnown, Kept, Tracked
  <2>5. ASSUME NEW w \in Writers, Work(writer[w]) PROVE Work(writer[w])'
    <3>1. RetiringWell(writer[w]) => RetiringWell(writer[w])'
      BY <2>2, <2>3 DEF RetiringWell, UpToDate, Kept
    <3>2. UpToDate(writer[w])' <=> UpToDate(writer[w])
      BY <2>3 DEF UpToDate
    <3>3. Kept(row)' <=> Kept(row)
      BY <2>3 DEF Kept
    <3>4. QED
      BY <2>2, <2>3, <2>4, <2>5, <3>1, <3>2, <3>3 DEF Work
  <2>6. QED
    BY <2>2, <2>3, <2>4, <2>5 DEF GroupInv, Inside
<1>4. QED
  BY <1>1, <1>2, <1>3 DEF GoStale, vars

\* What the operations know of the group together holds in every reachable state.
LEMMA GroupCorrect ==
  ASSUME Gentle
  PROVE  Spec => [](GroupInv /\ TypeOK /\ ClaimInv /\ DownInv /\ ~slow)
<1>1. Init => GroupInv
  BY DEF Init, GroupInv, Inside, Idle, Outside, NoRow, PinsKnown, Kept, Tracked
<1>2. GroupInv /\ TypeOK /\ ClaimInv /\ DownInv /\ ~slow /\ [Next]_vars => GroupInv'
  BY GroupBegin, GroupStep, GroupRest DEF Next
<1>3. Init => DownInv
  BY DEF Init, DownInv, Named, Idle
<1>4. DownInv /\ TypeOK /\ [Next]_vars => DownInv'
  BY DownBegin, DownStep, DownRest DEF Next
<1>5. QED
  BY <1>1, <1>2, <1>3, <1>4, PublishTypeCorrect, ClaimCorrect, NeverSlow, PTL DEF Spec

\* retireRoster, pinRoster, retryOrphanUnpin: refused calls and pins that run out leave
\* one message pinned at most, which the row knows once nobody is at work.
THEOREM PinsStayTracked ==
  ASSUME Gentle
  PROVE  Spec => []PinsTracked
<1>1. GroupInv /\ TypeOK /\ ClaimInv /\ ~slow => PinsTracked
  <2>1. SUFFICES ASSUME GroupInv, TypeOK, ClaimInv, ~slow PROVE PinsTracked
    OBVIOUS
  <2>2. PinsKnown => \E m : chat.pinned \subseteq {m}
    BY <2>1 DEF GroupInv, PinsKnown, Kept, Tracked
  <2>3. \A w \in Writers : RetiringWell(writer[w]) => \E m : chat.pinned \subseteq {m}
    BY <2>1 DEF GroupInv, RetiringWell, Kept
  <2>4. \A w \in Writers : Inside(w) => \E m : chat.pinned \subseteq {m}
    <3>1. SUFFICES ASSUME NEW w \in Writers, Inside(w), ~PinsKnown, ~RetiringWell(writer[w])
                   PROVE  \E m : chat.pinned \subseteq {m}
      BY <2>2, <2>3
    <3>2. Work(writer[w]) /\ writer[w].pc \in PCs \ Outside
      BY <2>1, <3>1 DEF GroupInv, Inside, TypeOK, WriterType
    <3>3. writer[w].pc \in {"forget", "pin", "keepPin", "forgetOrphan"}
      BY <3>1, <3>2 DEF Work, Storing, Retiring, PCs, Outside
    <3>4. QED
      BY <3>2, <3>3 DEF Work
  <2>5. PICK m : chat.pinned \subseteq {m}
    BY <2>1, <2>2, <2>4 DEF GroupInv
  <2>6. Cardinality(chat.pinned) <= 1
    <3>1. IsFiniteSet({m}) /\ Cardinality({m}) = 1
      BY FS_Singleton
    <3>2. Cardinality(chat.pinned) \in Nat /\ Cardinality(chat.pinned) <= Cardinality({m})
      BY <2>5, <3>1, FS_Subset, FS_CardinalityType
    <3>3. QED
      BY <3>1, <3>2
  <2>7. QED
    BY <2>1, <2>6 DEF PinsTracked, GroupInv, PinsKnown
<1>2. QED
  BY <1>1, GroupCorrect, PTL

\* publishOnFreshRow: of two publications of the same change, the second finds the
\* text of the first in the row its claim returns, so nothing is sent twice in a row.
THEOREM NeverSentTwice ==
  ASSUME Gentle
  PROVE  Spec => NoRepeat
<1>1. GroupInv /\ TypeOK /\ ClaimInv /\ DownInv /\ ~slow /\ [Next]_vars
        => [chat'.sent # chat.sent => last' # last]_vars
  BY GroupBegin, GroupStep, GroupRest DEF Next
<1>2. QED
  BY <1>1, GroupCorrect, PTL DEF Spec, NoRepeat
=============================================================================
