------------------------- MODULE PlanPlayersProofs --------------------------
(***************************************************************************)
(* Theorems about the players of the booking plan (PlanJob): every voter   *)
(* is placed once, players with priority are kept apart, the club accepts  *)
(* the names, and a group names its members as often as they ask.  They    *)
(* hold for any rule, votes, volunteers and free slots, and rest on the    *)
(* lemmas about lists, groups and sessions that PlanJobProofs proves.      *)
(***************************************************************************)
EXTENDS PlanJobProofs

-----------------------------------------------------------------------------
(* Every voter is placed once.                                              *)

\* Of hours in a row with a single voter each, every other one moves.
LEMMA MovesExist ==
  ASSUME NEW n \in Nat, NEW solo, solo \in [1 .. n -> BOOLEAN]
  PROVE  \E f : f = [i \in 1 .. n |-> solo[i] /\ (i = 1 \/ ~f[i - 1])]
<1> DEFINE stops(i) == {j \in 0 .. (i - 1) : j = 0 \/ ~solo[j]}
           start(i) == Max(stops(i))
           f == [i \in 1 .. n |-> solo[i] /\ (i - start(i)) % 2 = 1]
<1>1. ASSUME NEW i \in 1 .. n
      PROVE  start(i) \in stops(i) /\ \A j \in stops(i) : start(i) >= j
  <2>1. IsFiniteSet(0 .. (i - 1))
    BY FS_Interval
  <2>2. stops(i) \subseteq 0 .. (i - 1) /\ 0 \in stops(i)
    OBVIOUS
  <2>3. IsFiniteSet(stops(i)) /\ stops(i) \subseteq Int /\ stops(i) # {}
    BY <2>1, <2>2, FS_Subset
  <2> HIDE DEF stops
  <2> QED
    BY <2>3, MaxType
<1>2. \A i \in 1 .. n : stops(i) \subseteq 0 .. (i - 1)
  OBVIOUS
<1>3. ASSUME NEW i \in 1 .. n, i = 1 \/ ~solo[i - 1] PROVE start(i) = i - 1
  <2>1. i - 1 \in stops(i)
    BY <1>3
  <2> HIDE DEF stops, start
  <2>2. start(i) \in 0 .. (i - 1) /\ start(i) >= i - 1
    BY <1>1, <1>2, <2>1
  <2> QED
    BY <2>2
<1>4. ASSUME NEW i \in 1 .. n, i # 1, solo[i - 1] PROVE start(i) = start(i - 1)
  <2>1. stops(i) = stops(i - 1)
    <3>1. 0 .. (i - 1) = (0 .. (i - 2)) \cup {i - 1}
      BY <1>4
    <3> QED
      BY <1>4, <3>1
  <2> QED
    BY <2>1
<1>5. ASSUME NEW i \in 1 .. n PROVE f[i] = (solo[i] /\ (i = 1 \/ ~f[i - 1]))
  <2>1. CASE i = 1 \/ ~solo[i - 1]
    <3>1. (i - start(i)) % 2 = 1
      BY <1>3, <2>1
    <3>2. i # 1 => ~f[i - 1]
      BY <2>1
    <3> HIDE DEF start
    <3> QED
      BY <3>1, <3>2
  <2>2. CASE i # 1 /\ solo[i - 1]
    <3>1. start(i) = start(i - 1)
      BY <1>4, <2>2
    <3>2. i - 1 \in 1 .. n
      BY <2>2
    <3>3. start(i - 1) \in 0 .. (i - 2)
      <4>1. PICK m \in 1 .. n : m = i - 1
        BY <3>2
      <4> HIDE DEF start, stops
      <4>2. start(m) \in 0 .. (m - 1)
        BY <1>1, <1>2
      <4> QED
        BY <4>1, <4>2
    <3>4. PICK s \in 0 .. (i - 2) : s = start(i) /\ s = start(i - 1)
      BY <3>1, <3>3
    <3>5. f[i] = (solo[i] /\ (i - s) % 2 = 1) /\ f[i - 1] = (solo[i - 1] /\ (i - 1 - s) % 2 = 1)
      BY <3>2, <3>4
    <3> HIDE DEF f, start
    <3>6. (i - s) % 2 = 1 <=> ~((i - 1 - s) % 2 = 1)
      BY <3>4
    <3> QED
      BY <2>2, <3>5, <3>6
  <2> QED
    BY <2>1, <2>2
<1>6. f = [i \in 1 .. n |-> solo[i] /\ (i = 1 \/ ~f[i - 1])]
  <2>1. DOMAIN f = 1 .. n /\ f = [i \in 1 .. n |-> f[i]]
    OBVIOUS
  <2> HIDE DEF f
  <2> QED
    BY <1>5, <2>1
<1> HIDE DEF f
<1> QED
  BY <1>6

\* CascadeSoloVotersForward by the hours whose voter moves.
Cascaded(votes, n, moves) ==
  [i \in 1 .. n |-> (IF moves[i] THEN << >> ELSE votes[i])
                    \o (IF i > 1 /\ moves[i - 1] THEN votes[i - 1] ELSE << >>)]
LEMMA MovesIs ==
  ASSUME NEW votes, NEW n \in Nat, n = Len(votes)
  PROVE  \E f : /\ \A i \in 1 .. n : f[i] \in BOOLEAN
                /\ \A i \in 1 .. n : f[i] = (i < n /\ Len(votes[i]) = 1 /\ (i = 1 \/ ~f[i - 1]))
                /\ CascadeSoloVotersForward(votes) = Cascaded(votes, n, f)
<1> DEFINE moves[i \in 1 .. n] == i < n /\ Len(votes[i]) = 1 /\ (i = 1 \/ ~moves[i - 1])
           solo == [i \in 1 .. n |-> i < n /\ Len(votes[i]) = 1]
<1>1. CascadeSoloVotersForward(votes) = Cascaded(votes, n, moves)
  BY DEF CascadeSoloVotersForward, Cascaded
<1>2. \E f : f = [i \in 1 .. n |-> solo[i] /\ (i = 1 \/ ~f[i - 1])]
  <2>1. solo \in [1 .. n -> BOOLEAN]
    OBVIOUS
  <2> HIDE DEF solo
  <2> QED
    BY <2>1, MovesExist
<1>3. \E f : f = [i \in 1 .. n |-> i < n /\ Len(votes[i]) = 1 /\ (i = 1 \/ ~f[i - 1])]
  <2>1. \A i \in 1 .. n : solo[i] = (i < n /\ Len(votes[i]) = 1)
    OBVIOUS
  <2> HIDE DEF solo
  <2>2. PICK f : f = [i \in 1 .. n |-> solo[i] /\ (i = 1 \/ ~f[i - 1])]
    BY <1>2
  <2>3. f = [i \in 1 .. n |-> i < n /\ Len(votes[i]) = 1 /\ (i = 1 \/ ~f[i - 1])]
    BY <2>1, <2>2, Zenon
  <2> QED
    BY <2>3
<1>4. moves = [i \in 1 .. n |-> i < n /\ Len(votes[i]) = 1 /\ (i = 1 \/ ~moves[i - 1])]
  BY <1>3, Zenon
<1> HIDE DEF moves
<1>5. \A i \in 1 .. n : moves[i] = (i < n /\ Len(votes[i]) = 1 /\ (i = 1 \/ ~moves[i - 1]))
  BY <1>4, Zenon
<1>6. \A i \in 1 .. n : moves[i] \in BOOLEAN
  BY <1>5, Zenon
<1> QED
  BY <1>1, <1>5, <1>6, Zenon

\* Nobody is twice in one of some lists, or in two of them.
Separate(lists, n) ==
  /\ \A h \in 1 .. n : IsList(lists[h]) /\ Distinct(lists[h])
  /\ \A h, g \in 1 .. n : h # g => ToSet(lists[h]) \cap ToSet(lists[g]) = {}

LEMMA DistinctEmpty == Distinct(<< >>)
<1>1. DOMAIN << >> = {}
  BY EmptyHas
<1> QED
  BY <1>1 DEF Distinct

\* Two lists without repetition that share nobody follow each other without one.
LEMMA DistinctConcat ==
  ASSUME NEW s, IsList(s), Distinct(s), NEW t, IsList(t), Distinct(t), ToSet(s) \cap ToSet(t) = {}
  PROVE  Distinct(s \o t)
<1>1. PICK u : u = s \o t
  OBVIOUS
<1>2. Joined(s, t, u)
  BY <1>1, ConcatHas
<1>3. ASSUME NEW i \in DOMAIN s, NEW j \in DOMAIN t PROVE s[i] # t[j]
  BY DEF ToSet
<1>4. ASSUME NEW i \in DOMAIN u, NEW j \in DOMAIN u, u[i] = u[j] PROVE i = j
  <2>1. i \in DOMAIN s \/ \E k \in DOMAIN t : i = Len(s) + k
    BY <1>2 DEF Joined
  <2>2. j \in DOMAIN s \/ \E k \in DOMAIN t : j = Len(s) + k
    BY <1>2 DEF Joined
  <2>3. CASE i \in DOMAIN s /\ j \in DOMAIN s
    BY <1>2, <1>4, <2>3 DEF Joined, Distinct
  <2>4. ASSUME NEW k \in DOMAIN t, i = Len(s) + k, j \in DOMAIN s PROVE FALSE
    BY <1>2, <1>3, <1>4, <2>4 DEF Joined
  <2>5. ASSUME NEW k \in DOMAIN t, j = Len(s) + k, i \in DOMAIN s PROVE FALSE
    BY <1>2, <1>3, <1>4, <2>5 DEF Joined
  <2>6. ASSUME NEW k \in DOMAIN t, i = Len(s) + k, NEW l \in DOMAIN t, j = Len(s) + l PROVE i = j
    <3>1. t[k] = t[l]
      BY <1>2, <1>4, <2>6 DEF Joined
    <3> QED
      BY <2>6, <3>1 DEF Distinct
  <2> QED
    BY <2>1, <2>2, <2>3, <2>4, <2>5, <2>6
<1> QED
  BY <1>1, <1>4 DEF Distinct

\* What is picked of a list without repetition has none.
LEMMA DistinctPicked ==
  ASSUME NEW s, IsList(s), Distinct(s), NEW numbers, numbers \subseteq DOMAIN s
  PROVE  Distinct(Picked(s, numbers)) /\ Len(Picked(s, numbers)) = Cardinality(numbers)
<1> DEFINE rank == [i \in numbers |-> i]
<1>1. DOMAIN s \subseteq Nat /\ IsFiniteSet(DOMAIN s)
  BY ListHas
<1>2. IsFiniteSet(numbers)
  BY <1>1, FS_Subset
<1>3. DOMAIN rank = numbers /\ \A i \in numbers : rank[i] = i
  OBVIOUS
<1> HIDE DEF rank
<1>4. Ranking(rank)
  BY <1>1, <1>2, <1>3 DEF Ranking
<1>5. PICK order : order = Sorted(rank)
  OBVIOUS
<1>6. Listing(numbers, order)
  BY <1>3, <1>4, <1>5, SortedIs
<1>7. PICK t : t = [k \in DOMAIN order |-> s[order[k]]]
  OBVIOUS
<1>8. Picked(s, numbers) = t
  BY <1>5, <1>7 DEF Picked, rank
<1>9. Len(order) \in Nat /\ DOMAIN order = 1 .. Len(order) /\ Len(order) = Cardinality(numbers)
  BY <1>6, ListHas DEF Listing
<1>10. Len(t) = Cardinality(numbers)
  <2>1. t = [k \in 1 .. Len(order) |-> t[k]]
    BY <1>7, <1>9
  <2> QED
    BY <1>9, <2>1, ListFrom
<1>11. \A k \in DOMAIN order : order[k] \in numbers
  BY <1>6 DEF Listing, ToSet
<1>12. Distinct(t)
  <2>1. ASSUME NEW i \in DOMAIN t, NEW j \in DOMAIN t, t[i] = t[j] PROVE i = j
    <3>1. i \in DOMAIN order /\ j \in DOMAIN order /\ s[order[i]] = s[order[j]]
      BY <1>7, <2>1
    <3>2. order[i] = order[j]
      BY <1>11, <3>1 DEF Distinct
    <3> QED
      BY <1>6, <3>1, <3>2 DEF Listing
  <2> QED
    BY <2>1 DEF Distinct
<1> QED
  BY <1>8, <1>10, <1>12

\* The votes stay separate when those who are alone move, and each is found again.
LEMMA CascadeKeeps ==
  ASSUME NEW votes, NEW n \in Nat, n = Len(votes), Separate(votes, n)
  PROVE  /\ Separate(CascadeSoloVotersForward(votes), n)
         /\ DOMAIN CascadeSoloVotersForward(votes) = 1 .. n
         /\ \A h \in 1 .. n : \A p \in ToSet(CascadeSoloVotersForward(votes)[h]) :
              \E g \in 1 .. n : p \in ToSet(votes[g])
         /\ \A h \in 1 .. n : \A p \in ToSet(votes[h]) :
              \/ p \in ToSet(CascadeSoloVotersForward(votes)[h])
              \/ /\ Len(votes[h]) = 1 /\ h + 1 \in 1 .. n
                 /\ p \in ToSet(CascadeSoloVotersForward(votes)[h + 1])
<1>1. PICK moves : /\ \A i \in 1 .. n : moves[i] \in BOOLEAN
                   /\ \A i \in 1 .. n : moves[i] = (i < n /\ Len(votes[i]) = 1 /\ (i = 1 \/ ~moves[i - 1]))
                   /\ CascadeSoloVotersForward(votes) = Cascaded(votes, n, moves)
  BY MovesIs
<1>2. PICK c : c = CascadeSoloVotersForward(votes)
  OBVIOUS
<1> DEFINE own(i) == IF moves[i] THEN << >> ELSE votes[i]
           come(i) == IF i > 1 /\ moves[i - 1] THEN votes[i - 1] ELSE << >>
<1>3. \A i \in 1 .. n : c[i] = own(i) \o come(i)
  BY <1>1, <1>2 DEF Cascaded
<1>4. IsList(<< >>) /\ ToSet(<< >>) = {} /\ Distinct(<< >>)
  BY EmptyHas, HoldsEmpty, DistinctEmpty
<1>5. ASSUME NEW i \in 1 .. n, i > 1 /\ moves[i - 1] PROVE i - 1 \in 1 .. n
  BY <1>5
<1>6. ASSUME NEW i \in 1 .. n
      PROVE  /\ IsList(own(i)) /\ IsList(come(i)) /\ Distinct(own(i)) /\ Distinct(come(i))
             /\ ToSet(own(i)) \cap ToSet(come(i)) = {}
  <2>1. IsList(own(i)) /\ Distinct(own(i)) /\ ToSet(own(i)) \subseteq ToSet(votes[i])
    BY <1>4 DEF Separate
  <2>2. CASE i > 1 /\ moves[i - 1]
    <3>1. i - 1 \in 1 .. n /\ i - 1 # i
      BY <1>5, <2>2
    <3>2. come(i) = votes[i - 1]
      BY <2>2
    <3> HIDE DEF own, come
    <3> QED
      BY <2>1, <3>1, <3>2 DEF Separate
  <2>3. CASE ~(i > 1 /\ moves[i - 1])
    <3>1. come(i) = << >>
      BY <2>3
    <3> HIDE DEF own, come
    <3> QED
      BY <1>4, <2>1, <3>1
  <2> QED
    BY <2>2, <2>3
<1>7. ASSUME NEW i \in 1 .. n
      PROVE  IsList(c[i]) /\ Distinct(c[i]) /\ ToSet(c[i]) = ToSet(own(i)) \cup ToSet(come(i))
  <2>1. PICK a, b : a = own(i) /\ b = come(i)
    OBVIOUS
  <2> HIDE DEF own, come
  <2>2. IsList(a) /\ IsList(b) /\ Distinct(a) /\ Distinct(b) /\ ToSet(a) \cap ToSet(b) = {}
    BY <1>6, <2>1
  <2>3. Joined(a, b, a \o b)
    BY <2>2, ConcatHas
  <2>4. IsList(a \o b) /\ Distinct(a \o b) /\ ToSet(a \o b) = ToSet(a) \cup ToSet(b)
    BY <2>2, <2>3, HoldsConcat, DistinctConcat DEF Joined
  <2> QED
    BY <1>3, <2>1, <2>4
\* Where a player of an hour has voted.
<1>8. ASSUME NEW i \in 1 .. n, NEW p \in ToSet(c[i])
      PROVE  \E a \in 1 .. n : p \in ToSet(votes[a])
                                /\ ((a = i /\ ~moves[i]) \/ (a = i - 1 /\ moves[i - 1]))
  <2>1. p \in ToSet(own(i)) \/ p \in ToSet(come(i))
    BY <1>7
  <2>2. p \in ToSet(own(i)) => p \in ToSet(votes[i]) /\ ~moves[i]
    BY <1>4
  <2>3. p \in ToSet(come(i)) => i > 1 /\ moves[i - 1] /\ p \in ToSet(votes[i - 1])
    BY <1>4
  <2> QED
    BY <1>5, <2>1, <2>2, <2>3
<1>9. ASSUME NEW h \in 1 .. n, NEW g \in 1 .. n, NEW p, p \in ToSet(votes[h]), p \in ToSet(votes[g])
      PROVE  h = g
  BY <1>9 DEF Separate
<1>10. ASSUME NEW h \in 1 .. n, NEW g \in 1 .. n, NEW p \in ToSet(c[h]) \cap ToSet(c[g]) PROVE h = g
  <2>1. PICK a \in 1 .. n : p \in ToSet(votes[a]) /\ ((a = h /\ ~moves[h]) \/ (a = h - 1 /\ moves[h - 1]))
    BY <1>8
  <2>2. PICK b \in 1 .. n : p \in ToSet(votes[b]) /\ ((b = g /\ ~moves[g]) \/ (b = g - 1 /\ moves[g - 1]))
    BY <1>8
  <2>3. a = b
    BY <1>9, <2>1, <2>2
  <2> QED
    BY <2>1, <2>2, <2>3
<1>11. Separate(c, n)
  BY <1>7, <1>10 DEF Separate
<1>12. ASSUME NEW h \in 1 .. n, NEW p \in ToSet(c[h]) PROVE \E g \in 1 .. n : p \in ToSet(votes[g])
  BY <1>8
<1>13. ASSUME NEW h \in 1 .. n, NEW p \in ToSet(votes[h])
       PROVE  \/ p \in ToSet(c[h])
              \/ Len(votes[h]) = 1 /\ h + 1 \in 1 .. n /\ p \in ToSet(c[h + 1])
  <2>1. CASE ~moves[h]
    <3>1. own(h) = votes[h]
      BY <2>1
    <3> HIDE DEF own, come
    <3> QED
      BY <1>7, <3>1
  <2>2. CASE moves[h]
    <3>1. h < n /\ Len(votes[h]) = 1
      BY <1>1, <2>2
    <3>2. PICK g \in 1 .. n : g = h + 1 /\ g > 1 /\ g - 1 = h
      BY <3>1
    <3>3. come(g) = votes[h]
      BY <2>2, <3>2
    <3>4. p \in ToSet(c[g])
      <4> HIDE DEF own, come
      <4> QED
        BY <1>7, <3>3
    <3> QED
      BY <3>1, <3>2, <3>4
  <2> QED
    BY <1>1, <2>1, <2>2
<1>14. DOMAIN c = 1 .. n
  BY <1>1, <1>2 DEF Cascaded
<1> QED
  BY <1>2, <1>11, <1>12, <1>13, <1>14

\* What a part of a list holds, and where.
LEMMA PartHas ==
  ASSUME NEW s, IsList(s), NEW m \in Nat \ {0}, NEW n \in Int, n <= Len(s)
  PROVE  /\ IsList(SubSeq(s, m, n))
         /\ DOMAIN SubSeq(s, m, n) = 1 .. (n - m + 1)
         /\ \A k \in 1 .. (n - m + 1) : SubSeq(s, m, n)[k] = s[m + k - 1] /\ m + k - 1 \in DOMAIN s
<1>1. PICK S : S = ToSet(s)
  OBVIOUS
<1>2. DOMAIN s = 1 .. Len(s) /\ Len(s) \in Nat
  BY ListHas
<1>3. \A i \in m .. n : s[i] \in S
  <2>1. \A i \in DOMAIN s : s[i] \in S
    BY <1>1 DEF ToSet
  <2> QED
    BY <1>2, <2>1
<1>4. PICK t : t = SubSeq(s, m, n)
  OBVIOUS
<1>5. t \in Seq(S) /\ Len(t) = (IF m <= n THEN n - m + 1 ELSE 0)
      /\ \A i \in 1 .. n - m + 1 : t[i] = s[m + i - 1]
  BY <1>3, <1>4, SubSeqProperties
<1>6. DOMAIN t = 1 .. (n - m + 1)
  BY <1>5, LenProperties
<1>7. IsList(t)
  BY <1>5, ListOf
<1>8. \A k \in 1 .. (n - m + 1) : m + k - 1 \in DOMAIN s
  BY <1>2
<1> QED
  BY <1>4, <1>5, <1>6, <1>7, <1>8

\* A part of a list without repetition has none.
LEMMA DistinctPart ==
  ASSUME NEW s, IsList(s), Distinct(s), NEW m \in Nat \ {0}, NEW n \in Int, n <= Len(s)
  PROVE  Distinct(SubSeq(s, m, n))
<1>1. PICK t : t = SubSeq(s, m, n)
  OBVIOUS
<1>2. DOMAIN t = 1 .. (n - m + 1)
      /\ \A k \in 1 .. (n - m + 1) : t[k] = s[m + k - 1] /\ m + k - 1 \in DOMAIN s
  BY <1>1, PartHas
<1>3. ASSUME NEW i \in DOMAIN t, NEW j \in DOMAIN t, t[i] = t[j] PROVE i = j
  <2>1. m + i - 1 = m + j - 1
    BY <1>2, <1>3 DEF Distinct
  <2> QED
    BY <1>2, <2>1
<1> QED
  BY <1>1, <1>3 DEF Distinct

\* The margin keeps the hours separate, and adds only volunteers who play at none of them.
LEMMA MarginKeeps ==
  ASSUME NEW votes, NEW n \in Nat, DOMAIN votes = 1 .. n, Separate(votes, n),
         NEW lenders, IsList(lenders), Distinct(lenders), NEW margin \in Nat
  PROVE  /\ Separate(ApplyUnexpectedPlayersMargin(votes, lenders, margin), n)
         /\ \A h \in 1 .. n :
              /\ ToSet(votes[h]) \subseteq ToSet(ApplyUnexpectedPlayersMargin(votes, lenders, margin)[h])
              /\ \A p \in ToSet(ApplyUnexpectedPlayersMargin(votes, lenders, margin)[h]) :
                   p \in ToSet(votes[h]) \cup ToSet(lenders)
<1> DEFINE numbers == {k \in DOMAIN lenders : \A i \in DOMAIN votes : lenders[k] \notin ToSet(votes[i])}
           some(i) == {j \in 1 .. (i - 1) : votes[j] # << >>}
           before(i) == margin * Cardinality(some(i))
<1>1. PICK pool : pool = Picked(lenders, numbers)
  OBVIOUS
<1>2. /\ IsList(pool) /\ Len(pool) \in Nat /\ Distinct(pool) /\ ToSet(pool) = {lenders[i] : i \in numbers}
      /\ DOMAIN pool = 1 .. Len(pool)
  <2>1. numbers \subseteq DOMAIN lenders
    OBVIOUS
  <2> HIDE DEF numbers
  <2> QED
    BY <1>1, <2>1, PickedIs, DistinctPicked, ListHas
<1>3. ToSet(pool) \subseteq ToSet(lenders) /\ \A i \in 1 .. n : ToSet(pool) \cap ToSet(votes[i]) = {}
  BY <1>2 DEF ToSet
<1>4. ASSUME NEW i \in 1 .. n
      PROVE  /\ IsFiniteSet(some(i)) /\ Cardinality(some(i)) \in Nat /\ before(i) \in Nat
             /\ \A j \in 1 .. n : j > i /\ votes[i] # << >> => before(j) >= before(i) + margin
  <2>1. ASSUME NEW j \in 1 .. n PROVE IsFiniteSet(some(j)) /\ Cardinality(some(j)) \in Nat
    <3>1. IsFiniteSet(1 .. (j - 1)) /\ some(j) \subseteq 1 .. (j - 1)
      BY FS_Interval
    <3> HIDE DEF some
    <3> QED
      BY <3>1, FS_Subset, FS_CardinalityType
  <2>2. ASSUME NEW j \in 1 .. n, j > i, votes[i] # << >> PROVE before(j) >= before(i) + margin
    <3>1. some(i) \cup {i} \subseteq some(j) /\ i \notin some(i)
      BY <2>2
    <3>2. PICK a, b : a = some(i) /\ b = some(j)
      OBVIOUS
    <3> HIDE DEF some
    <3>3. IsFiniteSet(a) /\ IsFiniteSet(b) /\ a \cup {i} \subseteq b /\ i \notin a
      BY <2>1, <3>1, <3>2
    <3>4. IsFiniteSet(a \cup {i}) /\ Cardinality(a \cup {i}) = Cardinality(a) + 1
      BY <3>3, FS_AddElement
    <3>5. Cardinality(b) >= Cardinality(a) + 1
      BY <3>3, <3>4, FS_Subset, FS_CardinalityType
    <3>6. PICK ca \in Nat, cb \in Nat : ca = Cardinality(a) /\ cb = Cardinality(b)
      BY <3>3, FS_CardinalityType
    <3>7. PICK d \in Nat : cb = ca + 1 + d
      <4>1. cb - ca - 1 \in Nat /\ cb = ca + 1 + (cb - ca - 1)
        BY <3>5, <3>6
      <4> QED
        BY <4>1
    <3>8. margin * (ca + 1 + d) = margin * ca + margin + margin * d /\ margin * d >= 0
      OBVIOUS
    <3>9. before(i) = margin * ca /\ before(j) = margin * (ca + 1 + d)
      BY <3>2, <3>6, <3>7
    <3> HIDE DEF before
    <3> QED
      BY <3>8, <3>9
  <2>3. before(i) \in Nat
    <3>1. PICK c \in Nat : c = Cardinality(some(i))
      BY <2>1
    <3>2. before(i) = margin * c
      BY <3>1
    <3>3. margin * c \in Nat
      OBVIOUS
    <3> QED
      BY <3>2, <3>3
  <2> HIDE DEF some, before
  <2> QED
    BY <2>1, <2>2, <2>3
<1> DEFINE more(i) == SubSeq(pool, before(i) + 1, Min({before(i) + margin, Len(pool)}))
<1>5. PICK m : m = ApplyUnexpectedPlayersMargin(votes, lenders, margin)
  OBVIOUS
<1>6. m = [i \in DOMAIN votes |-> IF votes[i] = << >> THEN << >> ELSE votes[i] \o more(i)]
  BY <1>1, <1>5 DEF ApplyUnexpectedPlayersMargin
\* The part of the pool for an hour.
<1>7. ASSUME NEW i \in 1 .. n
      PROVE  /\ IsList(more(i)) /\ Distinct(more(i))
             /\ \A p \in ToSet(more(i)) : \E k \in DOMAIN pool :
                  p = pool[k] /\ before(i) < k /\ k <= before(i) + margin
  <2>1. PICK b \in Nat : b = before(i)
    BY <1>4
  <2> HIDE DEF before
  <2>2. PICK e : e = Min({b + margin, Len(pool)})
    OBVIOUS
  <2>3. {b + margin, Len(pool)} \subseteq Nat /\ {b + margin, Len(pool)} # {}
    BY <1>2
  <2>4. e \in {b + margin, Len(pool)} /\ \A k \in {b + margin, Len(pool)} : e <= k
    BY <2>2, <2>3, MinType
  <2>5. e \in Int /\ e <= Len(pool) /\ e <= b + margin
    <3>1. b + margin \in Nat
      OBVIOUS
    <3>2. Len(pool) \in Nat
      BY <1>2
    <3>3. e \in Nat
      BY <2>4, <3>1, <3>2
    <3> QED
      BY <2>4, <3>3
  <2>6. PICK t : t = SubSeq(pool, b + 1, e)
    OBVIOUS
  <2>7. b + 1 \in Nat \ {0}
    OBVIOUS
  <2>8. /\ IsList(t) /\ Distinct(t) /\ DOMAIN t = 1 .. (e - (b + 1) + 1)
        /\ \A k \in 1 .. (e - (b + 1) + 1) : t[k] = pool[b + 1 + k - 1] /\ b + 1 + k - 1 \in DOMAIN pool
    BY <1>2, <2>5, <2>6, <2>7, PartHas, DistinctPart
  <2>9. ASSUME NEW p \in ToSet(t)
        PROVE  \E k \in DOMAIN pool : p = pool[k] /\ b < k /\ k <= b + margin
    <3>1. PICK k \in 1 .. (e - (b + 1) + 1) : p = t[k]
      BY <2>8 DEF ToSet
    <3>2. b + 1 + k - 1 \in DOMAIN pool /\ p = pool[b + 1 + k - 1]
      BY <2>8, <3>1
    <3>3. b < b + 1 + k - 1 /\ b + 1 + k - 1 <= b + margin
      BY <2>5
    <3> QED
      BY <3>2, <3>3
  <2> QED
    BY <2>1, <2>2, <2>6, <2>8, <2>9
<1>8. ASSUME NEW i \in 1 .. n, votes[i] # << >>
      PROVE  /\ IsList(m[i]) /\ Distinct(m[i]) /\ ToSet(m[i]) = ToSet(votes[i]) \cup ToSet(more(i))
             /\ ToSet(more(i)) \subseteq ToSet(pool)
  <2>1. PICK a, b : a = votes[i] /\ b = more(i)
    OBVIOUS
  <2>2. IsList(b) /\ Distinct(b) /\ ToSet(b) \subseteq ToSet(pool)
    <3> HIDE DEF more
    <3>1. IsList(b) /\ Distinct(b) /\ \A p \in ToSet(b) : \E k \in DOMAIN pool : p = pool[k]
      BY <1>7, <2>1
    <3> QED
      BY <3>1 DEF ToSet
  <2> HIDE DEF more
  <2>3. IsList(a) /\ Distinct(a) /\ ToSet(a) \cap ToSet(b) = {}
    BY <1>3, <2>1, <2>2 DEF Separate
  <2>4. Joined(a, b, a \o b)
    BY <2>2, <2>3, ConcatHas
  <2>5. IsList(a \o b) /\ Distinct(a \o b) /\ ToSet(a \o b) = ToSet(a) \cup ToSet(b)
    BY <2>2, <2>3, <2>4, HoldsConcat, DistinctConcat DEF Joined
  <2>6. m[i] = a \o b
    BY <1>6, <1>8, <2>1
  <2> QED
    BY <2>1, <2>2, <2>5, <2>6
<1>9. ASSUME NEW i \in 1 .. n, votes[i] = << >>
      PROVE  IsList(m[i]) /\ Distinct(m[i]) /\ ToSet(m[i]) = {} /\ ToSet(votes[i]) = {}
  BY <1>6, <1>9, EmptyHas, HoldsEmpty, DistinctEmpty
<1>10. \A i \in 1 .. n : IsList(m[i]) /\ Distinct(m[i])
  <2> HIDE DEF more
  <2> QED
    BY <1>8, <1>9
<1>11. ASSUME NEW h \in 1 .. n, NEW g \in 1 .. n, h < g, NEW p \in ToSet(m[h]), p \in ToSet(m[g])
       PROVE  FALSE
  <2> HIDE DEF more, before
  <2>1. votes[h] # << >> /\ votes[g] # << >>
    BY <1>9, <1>11
  <2>2. p \in ToSet(votes[h]) \/ (p \in ToSet(more(h)) /\ p \in ToSet(pool))
    BY <1>8, <2>1
  <2>3. p \in ToSet(votes[g]) \/ (p \in ToSet(more(g)) /\ p \in ToSet(pool))
    BY <1>8, <1>11, <2>1
  <2>4. p \notin ToSet(votes[h]) \/ p \notin ToSet(votes[g])
    BY <1>11 DEF Separate
  <2>5. p \in ToSet(more(h)) /\ p \in ToSet(more(g))
    BY <1>3, <2>2, <2>3, <2>4
  <2>6. PICK k \in DOMAIN pool : p = pool[k] /\ before(h) < k /\ k <= before(h) + margin
    BY <1>7, <2>5
  <2>7. PICK l \in DOMAIN pool : p = pool[l] /\ before(g) < l /\ l <= before(g) + margin
    BY <1>7, <2>5
  <2>8. k = l
    BY <1>2, <2>6, <2>7 DEF Distinct
  <2>9. k \in Nat
    BY <1>2
  <2>10. before(g) >= before(h) + margin /\ before(g) \in Nat /\ before(h) \in Nat
    BY <1>4, <1>11, <2>1
  <2> QED
    BY <2>6, <2>7, <2>8, <2>9, <2>10
<1>12. Separate(m, n)
  <2>1. \A h, g \in 1 .. n : h # g => h < g \/ g < h
    OBVIOUS
  <2>2. \A h, g \in 1 .. n : h # g => ToSet(m[h]) \cap ToSet(m[g]) = {}
    BY <1>11, <2>1
  <2> QED
    BY <1>10, <2>2 DEF Separate
<1>13. \A h \in 1 .. n : ToSet(votes[h]) \subseteq ToSet(m[h])
  <2> HIDE DEF more
  <2> QED
    BY <1>8, <1>9
<1>14. \A h \in 1 .. n : \A p \in ToSet(m[h]) : p \in ToSet(votes[h]) \cup ToSet(lenders)
  <2> HIDE DEF more
  <2> QED
    BY <1>3, <1>8, <1>9
<1> QED
  BY <1>5, <1>12, <1>13, <1>14

\* What is known of an evening before its plan.
EveningOk(i) ==
  /\ \E n \in Nat : DOMAIN i.hours = 1 .. n /\ Separate(i.confirmed, n)
  /\ \A h \in DOMAIN i.hours : ToSet(i.confirmed[h]) \subseteq DOMAIN i.minSlots
  /\ \A h \in DOMAIN i.hours : \A p \in ToSet(i.votes[h]) :
       \/ p \in ToSet(i.confirmed[h])
       \/ /\ Len(i.votes[h]) = 1 /\ h + 1 \in DOMAIN i.hours
          /\ p \in ToSet(i.confirmed[h + 1])
  /\ IsList(i.lenders) /\ Distinct(i.lenders) /\ ToSet(i.lenders) \subseteq DOMAIN i.minSlots
  /\ IsList(i.priorityBookers) /\ Distinct(i.priorityBookers)
  /\ \A p \in DOMAIN i.minSlots : i.minSlots[p] \in 1 .. 6
  /\ i.maxDaily \in Nat \ {0} /\ i.maxPlayers \in Nat /\ i.maxCourts \in Nat

\* Any evening is so from the start,
LEMMA EveningInit == ASSUME Init PROVE EveningOk(inp)
<1>1. PICK i \in Inputs : inp = [i EXCEPT !.confirmed = WithMargin(i)]
  BY DEF Init
<1>2. /\ {"hours", "minSlots", "votes", "confirmed", "lenders", "margin", "maxPlayers", "maxCourts",
          "maxDaily", "priorityBookers"} \subseteq DOMAIN i
      /\ i.maxPlayers \in Nat /\ i.maxCourts \in Nat /\ i.hours \in Seq(Nat)
      /\ i.minSlots \in [DOMAIN i.minSlots -> 1..6] /\ i.margin \in Nat /\ i.maxDaily \in Nat \ {0}
      /\ i.lenders \in Seq(DOMAIN i.minSlots)
      /\ i.votes \in Seq(Seq(DOMAIN i.minSlots)) /\ Len(i.votes) = Len(i.hours)
      /\ i.priorityBookers \in Seq(ToSet(i.priorityBookers))
  BY InputsAssumption
<1>3. /\ \A h, g \in DOMAIN i.votes : \A k \in DOMAIN i.votes[h], l \in DOMAIN i.votes[g] :
           i.votes[h][k] = i.votes[g][l] => h = g /\ k = l
      /\ \A k, l \in DOMAIN i.lenders : i.lenders[k] = i.lenders[l] => k = l
      /\ \A k, l \in DOMAIN i.priorityBookers : i.priorityBookers[k] = i.priorityBookers[l] => k = l
  BY InputsAssumption
<1>4. /\ inp.lenders = i.lenders /\ inp.minSlots = i.minSlots /\ inp.hours = i.hours
      /\ inp.maxPlayers = i.maxPlayers /\ inp.maxCourts = i.maxCourts /\ inp.maxDaily = i.maxDaily
      /\ inp.priorityBookers = i.priorityBookers /\ inp.votes = i.votes
      /\ inp.confirmed = WithMargin(i)
  BY <1>1, <1>2
<1>5. PICK n \in Nat : n = Len(i.votes) /\ n = Len(i.hours) /\ DOMAIN i.hours = 1 .. n
                       /\ DOMAIN i.votes = 1 .. n
  BY <1>2, LenProperties
<1>6. PICK votes : votes = i.votes
  OBVIOUS
<1>7. PICK T : T = DOMAIN i.minSlots
  OBVIOUS
<1>8. \A h \in 1 .. n : votes[h] \in Seq(T)
  <2>1. PICK U : U = Seq(T)
    OBVIOUS
  <2> QED
    BY <1>2, <1>5, <1>6, <1>7, <2>1, ElementOfSeq
<1>9. \A h \in 1 .. n : IsList(votes[h]) /\ ToSet(votes[h]) \subseteq T
  <2>1. ASSUME NEW h \in 1 .. n PROVE \A k \in DOMAIN votes[h] : votes[h][k] \in T
    BY <1>8, LenProperties, ElementOfSeq
  <2> QED
    BY <1>8, <2>1, ListOf DEF ToSet
<1>10. Separate(votes, n)
  <2>1. \A h, g \in 1 .. n : h # g => ToSet(votes[h]) \cap ToSet(votes[g]) = {}
    BY <1>3, <1>5, <1>6 DEF ToSet
  <2>2. \A h \in 1 .. n : Distinct(votes[h])
    BY <1>3, <1>5, <1>6 DEF Distinct
  <2> QED
    BY <1>9, <2>1, <2>2 DEF Separate
<1>11. PICK lenders : lenders = i.lenders
  OBVIOUS
<1>12. IsList(lenders) /\ Distinct(lenders) /\ ToSet(lenders) \subseteq T
  <2>1. lenders \in Seq(T)
    BY <1>2, <1>7, <1>11
  <2>2. \A k \in DOMAIN lenders : lenders[k] \in T
    BY <2>1, LenProperties, ElementOfSeq
  <2> QED
    BY <1>3, <1>11, <2>1, <2>2, ListOf DEF ToSet, Distinct
<1>13. PICK c : c = CascadeSoloVotersForward(votes)
  OBVIOUS
<1>14. Separate(c, n) /\ DOMAIN c = 1 .. n
  BY <1>5, <1>6, <1>10, <1>13, CascadeKeeps
<1>15. \A h \in 1 .. n : \A p \in ToSet(c[h]) : \E g \in 1 .. n : p \in ToSet(votes[g])
  BY <1>5, <1>6, <1>10, <1>13, CascadeKeeps
<1>16. ASSUME NEW h \in 1 .. n, NEW p \in ToSet(votes[h])
       PROVE  \/ p \in ToSet(c[h])
              \/ Len(votes[h]) = 1 /\ h + 1 \in 1 .. n /\ p \in ToSet(c[h + 1])
  <2>1. n = Len(votes)
    BY <1>5, <1>6
  <2>2. \A g \in 1 .. n : \A q \in ToSet(votes[g]) :
          \/ q \in ToSet(CascadeSoloVotersForward(votes)[g])
          \/ /\ Len(votes[g]) = 1 /\ g + 1 \in 1 .. n
             /\ q \in ToSet(CascadeSoloVotersForward(votes)[g + 1])
    BY <1>10, <2>1, CascadeKeeps
  <2> QED
    BY <1>13, <2>2
<1>17. PICK m : m = ApplyUnexpectedPlayersMargin(c, lenders, i.margin)
  OBVIOUS
<1>18. Separate(m, n)
  BY <1>2, <1>12, <1>14, <1>17, MarginKeeps
<1>19. \A h \in 1 .. n : /\ ToSet(c[h]) \subseteq ToSet(m[h])
                         /\ \A p \in ToSet(m[h]) : p \in ToSet(c[h]) \cup ToSet(lenders)
  BY <1>2, <1>12, <1>14, <1>17, MarginKeeps
<1>20. inp.confirmed = m
  BY <1>4, <1>6, <1>11, <1>13, <1>17 DEF WithMargin
<1>21. \A h \in 1 .. n : ToSet(m[h]) \subseteq T
  BY <1>9, <1>12, <1>15, <1>19
<1>22. \A h \in 1 .. n : \A p \in ToSet(votes[h]) :
         \/ p \in ToSet(m[h])
         \/ Len(votes[h]) = 1 /\ h + 1 \in 1 .. n /\ p \in ToSet(m[h + 1])
  BY <1>16, <1>19
<1>23. IsList(inp.priorityBookers) /\ Distinct(inp.priorityBookers)
  BY <1>2, <1>3, <1>4 DEF IsList, Distinct
<1>24. \A p \in DOMAIN inp.minSlots : inp.minSlots[p] \in 1 .. 6
  BY <1>2, <1>4
<1>25. \E k \in Nat : DOMAIN inp.hours = 1 .. k /\ Separate(inp.confirmed, k)
  BY <1>4, <1>5, <1>18, <1>20
<1>26. \A h \in DOMAIN inp.hours : ToSet(inp.confirmed[h]) \subseteq DOMAIN inp.minSlots
  BY <1>4, <1>5, <1>7, <1>20, <1>21
<1>27. \A h \in DOMAIN inp.hours : \A p \in ToSet(inp.votes[h]) :
         \/ p \in ToSet(inp.confirmed[h])
         \/ /\ Len(inp.votes[h]) = 1 /\ h + 1 \in DOMAIN inp.hours
            /\ p \in ToSet(inp.confirmed[h + 1])
  BY <1>4, <1>5, <1>6, <1>20, <1>22
<1> QED
  BY <1>2, <1>4, <1>7, <1>11, <1>12, <1>23, <1>24, <1>25, <1>26, <1>27 DEF EveningOk

\* and stays so: the plan changes neither the rule nor the votes.
LEMMA InputSame == [Next]_vars => inp' = inp
<1> SUFFICES ASSUME [Next]_vars PROVE inp' = inp
  OBVIOUS
<1>1. CASE UNCHANGED vars
  BY <1>1 DEF vars
<1>2. CASE Next
  BY <1>2 DEF Next, NotEnoughPlayers, JoinSession, PlanHour, Finish, SkipTime, BookGroupRound, NextGroup,
       GroupsDone, FindRound, PlacePair, RoundPlaced, NextLayer, LayersDone, JoinCourt, RotationDone,
       RetryRound, ExtendRound, CourtJoined, LateJoined, Escalate, AcceptPlan, vars
<1> QED
  BY <1>1, <1>2

LEMMA EveningInvariant == Spec => []EveningOk(inp)
<1>1. Init => EveningOk(inp)
  BY EveningInit
<1>2. EveningOk(inp) /\ [Next]_vars => EveningOk(inp)'
  BY InputSame DEF EveningOk
<1> QED
  BY <1>1, <1>2, PTL DEF Spec

LEMMA VotersFollow == ASSUME EveningOk(inp) PROVE VotersKept
<1> DEFINE hoursOf(p, v) == {h \in DOMAIN inp.hours : p \in ToSet(v[h])}
<1>1. PICK n \in Nat : DOMAIN inp.hours = 1 .. n /\ Separate(inp.confirmed, n)
  BY DEF EveningOk
<1>2. ASSUME NEW p \in Names PROVE Cardinality(hoursOf(p, inp.confirmed)) <= 1
  <2>1. \A h, g \in hoursOf(p, inp.confirmed) : h = g
    BY <1>1 DEF Separate
  <2>2. PICK S : S = hoursOf(p, inp.confirmed)
    OBVIOUS
  <2> HIDE DEF hoursOf
  <2>3. CASE S = {}
    BY <2>2, <2>3, FS_EmptySet
  <2>4. CASE S # {}
    <3>1. PICK h \in S : TRUE
      BY <2>4
    <3>2. S = {h}
      BY <2>1, <2>2
    <3> QED
      BY <2>2, <3>2, FS_Singleton
  <2> QED
    BY <2>3, <2>4
<1>3. ASSUME NEW p \in Names, NEW h \in hoursOf(p, inp.votes)
      PROVE  \/ p \in ToSet(inp.confirmed[h])
             \/ Len(inp.votes[h]) = 1 /\ h + 1 \in DOMAIN inp.hours
                /\ p \in ToSet(inp.confirmed[h + 1])
  BY DEF EveningOk
<1> QED
  BY <1>2, <1>3 DEF VotersKept

\* Every voter is at one hour at most, the one voted for or, for somebody who was alone, the
\* next one (cascadeSoloVotersForward, applyUnexpectedPlayersMargin).
THEOREM VotersPlacedOnce == Spec => []VotersKept
<1>1. EveningOk(inp) => VotersKept
  BY VotersFollow
<1> QED
  BY <1>1, EveningInvariant, PTL

\* A list without repetition is as long as it has elements.
LEMMA DistinctLength ==
  ASSUME NEW s, IsList(s), Distinct(s)
  PROVE  IsFiniteSet(ToSet(s)) /\ Cardinality(ToSet(s)) = Len(s)
<1>1. PICK n \in Nat : n = Len(s) /\ DOMAIN s = 1 .. n
  BY ListHas
<1>2. PICK T : T = ToSet(s)
  OBVIOUS
<1> DEFINE f == [k \in 1 .. n |-> s[k]]
<1>3. f \in [1 .. n -> T] /\ DOMAIN f = 1 .. n /\ \A k \in 1 .. n : f[k] = s[k]
  BY <1>1, <1>2 DEF ToSet
<1> HIDE DEF f
<1>4. \A i, j \in 1 .. n : f[i] = f[j] => i = j
  BY <1>1, <1>3 DEF Distinct
<1>5. \A t \in T : \E i \in 1 .. n : f[i] = t
  BY <1>1, <1>2, <1>3 DEF ToSet
<1>6. f \in Bijection(1 .. n, T)
  BY <1>3, <1>4, <1>5 DEF Bijection, Injection, Surjection, IsInjective
<1>7. ExistsBijection(1 .. n, T)
  BY <1>6 DEF ExistsBijection
<1>8. IsFiniteSet(1 .. n) /\ Cardinality(1 .. n) = n
  BY FS_Interval
<1>9. IsFiniteSet(T) /\ Cardinality(T) = Cardinality(1 .. n)
  BY <1>7, <1>8, FS_Bijection
<1> QED
  BY <1>1, <1>2, <1>8, <1>9

\* A player without priority after each with priority, and then those left of one kind.
LEMMA PrioritizedIs ==
  ASSUME NEW confirmed, IsList(confirmed), Distinct(confirmed),
         NEW priority, IsList(priority), Distinct(priority),
         NEW players, players = PrioritizePlayers(confirmed, priority)
  PROVE  /\ IsList(players) /\ Distinct(players) /\ ToSet(players) = ToSet(confirmed)
         /\ \A i \in Nat : 2 * i - 1 \in DOMAIN players /\ 2 * i \in DOMAIN players
                           /\ players[2 * i - 1] \in ToSet(priority) /\ players[2 * i] \in ToSet(priority)
              => 2 * Cardinality(ToSet(confirmed) \cap ToSet(priority)) > Len(confirmed)
<1> DEFINE chosen == {i \in DOMAIN priority : priority[i] \in ToSet(confirmed)}
           others == {i \in DOMAIN confirmed : confirmed[i] \notin ToSet(priority)}
<1>1. PICK P, R : P = Picked(priority, chosen) /\ R = Picked(confirmed, others)
  OBVIOUS
<1>2. /\ IsList(P) /\ Distinct(P) /\ ToSet(P) = {priority[i] : i \in chosen}
      /\ IsList(R) /\ Distinct(R) /\ ToSet(R) = {confirmed[i] : i \in others}
  <2>1. chosen \subseteq DOMAIN priority /\ others \subseteq DOMAIN confirmed
    OBVIOUS
  <2> HIDE DEF chosen, others
  <2> QED
    BY <1>1, <2>1, PickedIs, DistinctPicked
<1>3. ToSet(P) = ToSet(confirmed) \cap ToSet(priority) /\ ToSet(R) = ToSet(confirmed) \ ToSet(priority)
  BY <1>2 DEF ToSet
<1>4. PICK a \in Nat, b \in Nat : a = Len(P) /\ b = Len(R) /\ DOMAIN P = 1 .. a /\ DOMAIN R = 1 .. b
  BY <1>2, ListHas
<1>5. a = Cardinality(ToSet(confirmed) \cap ToSet(priority)) /\ Len(confirmed) = a + b
  <2>1. PICK x, y, z : x = ToSet(P) /\ y = ToSet(R) /\ z = ToSet(confirmed)
    OBVIOUS
  <2>2. /\ IsFiniteSet(x) /\ Cardinality(x) = a /\ IsFiniteSet(y) /\ Cardinality(y) = b
        /\ Cardinality(z) = Len(confirmed)
    BY <1>2, <1>4, <2>1, DistinctLength
  <2>3. z = x \cup y /\ x \cap y = {}
    BY <1>3, <2>1
  <2>4. Cardinality(z) = Cardinality(x) + Cardinality(y) - Cardinality({})
    BY <2>2, <2>3, FS_Union
  <2> QED
    BY <1>3, <2>1, <2>2, <2>4, FS_EmptySet
<1>6. PICK m \in Nat : m = Min({a, b}) /\ m <= a /\ m <= b /\ (m = a \/ m = b)
  <2>1. {a, b} \subseteq Nat /\ {a, b} # {}
    OBVIOUS
  <2> QED
    BY <2>1, MinType
<1>7. PICK z : z = [i \in 1..(2 * m) |-> IF i % 2 = 1 THEN P[(i + 1) \div 2] ELSE R[i \div 2]]
  OBVIOUS
<1>8. PICK p, r : p = SubSeq(P, m + 1, a) /\ r = SubSeq(R, m + 1, b)
  OBVIOUS
<1>9. players = (z \o p) \o r
  BY <1>1, <1>4, <1>6, <1>7, <1>8 DEF PrioritizePlayers
<1> HIDE DEF chosen, others
<1>10. IsList(z) /\ Len(z) = 2 * m /\ DOMAIN z = 1 .. (2 * m)
  BY <1>7, ListFrom
<1>11. \A k \in 1 .. m : z[2 * k - 1] = P[k] /\ z[2 * k] = R[k]
  <2>1. ASSUME NEW k \in 1 .. m PROVE z[2 * k - 1] = P[k] /\ z[2 * k] = R[k]
    <3>1. 2 * k - 1 \in 1 .. (2 * m) /\ 2 * k \in 1 .. (2 * m) /\ (2 * k - 1) % 2 = 1 /\ (2 * k) % 2 = 0
      OBVIOUS
    <3>2. ((2 * k - 1) + 1) \div 2 = k /\ (2 * k) \div 2 = k
      OBVIOUS
    <3> QED
      BY <1>7, <3>1, <3>2
  <2> QED
    BY <2>1
<1>12. \A i \in 1 .. (2 * m) : \E k \in 1 .. m : i = 2 * k - 1 \/ i = 2 * k
  <2>1. ASSUME NEW i \in 1 .. (2 * m) PROVE \E k \in 1 .. m : i = 2 * k - 1 \/ i = 2 * k
    <3>1. PICK k \in Int : i = 2 * k - 1 \/ i = 2 * k
      <4>1. (i + 1) \div 2 \in Int /\ (i = 2 * ((i + 1) \div 2) - 1 \/ i = 2 * ((i + 1) \div 2))
        OBVIOUS
      <4> QED
        BY <4>1
    <3>2. k \in 1 .. m
      BY <3>1
    <3> QED
      BY <3>1, <3>2
  <2> QED
    BY <2>1
<1>13. \A k \in 1 .. m : k \in DOMAIN P /\ k \in DOMAIN R
  BY <1>4, <1>6
<1>14. ToSet(P) \cap ToSet(R) = {} /\ \A k \in DOMAIN P, l \in DOMAIN R : P[k] # R[l]
  <2>1. ToSet(P) \cap ToSet(R) = {}
    BY <1>3
  <2> QED
    BY <2>1 DEF ToSet
<1>15. Distinct(z)
  <2>1. ASSUME NEW i \in DOMAIN z, NEW j \in DOMAIN z, z[i] = z[j] PROVE i = j
    <3>1. PICK k \in 1 .. m : i = 2 * k - 1 \/ i = 2 * k
      BY <1>10, <1>12
    <3>2. PICK l \in 1 .. m : j = 2 * l - 1 \/ j = 2 * l
      BY <1>10, <1>12
    <3>3. \/ P[k] = P[l] /\ i = 2 * k - 1 /\ j = 2 * l - 1
          \/ R[k] = R[l] /\ i = 2 * k /\ j = 2 * l
      BY <1>11, <1>13, <1>14, <2>1, <3>1, <3>2
    <3>4. k = l
      BY <1>2, <1>13, <3>3 DEF Distinct
    <3> QED
      BY <3>3, <3>4
  <2> QED
    BY <2>1 DEF Distinct
\* What is left of each list.
<1>16. /\ IsList(p) /\ Distinct(p) /\ DOMAIN p = 1 .. (a - m) /\ Len(p) = a - m
       /\ \A k \in 1 .. (a - m) : p[k] = P[m + k] /\ m + k \in DOMAIN P
  <2>1. m + 1 \in Nat \ {0} /\ a \in Int /\ a <= Len(P)
    BY <1>4
  <2>2. /\ IsList(p) /\ Distinct(p) /\ DOMAIN p = 1 .. (a - (m + 1) + 1)
        /\ \A k \in 1 .. (a - (m + 1) + 1) : p[k] = P[m + 1 + k - 1] /\ m + 1 + k - 1 \in DOMAIN P
    BY <1>2, <1>8, <2>1, PartHas, DistinctPart
  <2>3. a - (m + 1) + 1 = a - m /\ a - m \in Nat /\ \A k \in 1 .. (a - m) : m + 1 + k - 1 = m + k
    BY <1>6
  <2>4. Len(p) = a - m
    <3>1. DOMAIN p = 1 .. Len(p) /\ Len(p) \in Nat
      BY <2>2, ListHas
    <3> QED
      BY <2>2, <2>3, <3>1
  <2> QED
    BY <2>2, <2>3, <2>4
<1>17. /\ IsList(r) /\ Distinct(r) /\ DOMAIN r = 1 .. (b - m) /\ Len(r) = b - m
       /\ \A k \in 1 .. (b - m) : r[k] = R[m + k] /\ m + k \in DOMAIN R
  <2>1. m + 1 \in Nat \ {0} /\ b \in Int /\ b <= Len(R)
    BY <1>4
  <2>2. /\ IsList(r) /\ Distinct(r) /\ DOMAIN r = 1 .. (b - (m + 1) + 1)
        /\ \A k \in 1 .. (b - (m + 1) + 1) : r[k] = R[m + 1 + k - 1] /\ m + 1 + k - 1 \in DOMAIN R
    BY <1>2, <1>8, <2>1, PartHas, DistinctPart
  <2>3. b - (m + 1) + 1 = b - m /\ b - m \in Nat /\ \A k \in 1 .. (b - m) : m + 1 + k - 1 = m + k
    BY <1>6
  <2>4. Len(r) = b - m
    <3>1. DOMAIN r = 1 .. Len(r) /\ Len(r) \in Nat
      BY <2>2, ListHas
    <3> QED
      BY <2>2, <2>3, <3>1
  <2> QED
    BY <2>2, <2>3, <2>4
<1>18. \A x \in ToSet(z) : \E k \in 1 .. m : x = P[k] \/ x = R[k]
  <2>1. ASSUME NEW i \in DOMAIN z PROVE \E k \in 1 .. m : z[i] = P[k] \/ z[i] = R[k]
    <3>1. PICK k \in 1 .. m : i = 2 * k - 1 \/ i = 2 * k
      BY <1>10, <1>12
    <3> QED
      BY <1>11, <3>1
  <2> QED
    BY <2>1 DEF ToSet
<1>19. \A x \in ToSet(p) : \E k \in DOMAIN P : x = P[k] /\ k > m
  <2>1. ASSUME NEW i \in 1 .. (a - m) PROVE m + i > m
    OBVIOUS
  <2> QED
    BY <1>16, <2>1 DEF ToSet
<1>20. \A x \in ToSet(r) : \E k \in DOMAIN R : x = R[k] /\ k > m
  <2>1. ASSUME NEW i \in 1 .. (b - m) PROVE m + i > m
    OBVIOUS
  <2> QED
    BY <1>17, <2>1 DEF ToSet
<1>21. ToSet(z) \cap ToSet(p) = {}
  <2>1. ASSUME NEW x \in ToSet(z), x \in ToSet(p) PROVE FALSE
    <3>1. PICK k \in 1 .. m : x = P[k] \/ x = R[k]
      BY <1>18
    <3>2. PICK l \in DOMAIN P : x = P[l] /\ l > m
      BY <1>19, <2>1
    <3>3. x = P[k] /\ k = l
      BY <1>2, <1>13, <1>14, <3>1, <3>2 DEF Distinct
    <3> QED
      BY <3>2, <3>3
  <2> QED
    BY <2>1
<1>22. (ToSet(z) \cup ToSet(p)) \cap ToSet(r) = {}
  <2>1. ASSUME NEW x \in ToSet(z), x \in ToSet(r) PROVE FALSE
    <3>1. PICK k \in 1 .. m : x = P[k] \/ x = R[k]
      BY <1>18
    <3>2. PICK l \in DOMAIN R : x = R[l] /\ l > m
      BY <1>20, <2>1
    <3>3. x = R[k] /\ k = l
      BY <1>2, <1>13, <1>14, <3>1, <3>2 DEF Distinct
    <3> QED
      BY <3>2, <3>3
  <2>2. ASSUME NEW x \in ToSet(p), x \in ToSet(r) PROVE FALSE
    BY <1>14, <1>19, <1>20, <2>2
  <2> QED
    BY <2>1, <2>2
<1>23. PICK u : u = z \o p
  OBVIOUS
<1>24. Joined(z, p, u) /\ IsList(u) /\ Distinct(u) /\ ToSet(u) = ToSet(z) \cup ToSet(p)
  <2>1. Joined(z, p, u)
    BY <1>10, <1>16, <1>23, ConcatHas
  <2> QED
    BY <1>10, <1>15, <1>16, <1>21, <1>23, <2>1, DistinctConcat, HoldsConcat DEF Joined
<1>25. /\ Joined(u, r, players) /\ IsList(players) /\ Distinct(players)
       /\ ToSet(players) = ToSet(u) \cup ToSet(r)
  <2>1. Joined(u, r, players)
    BY <1>9, <1>17, <1>23, <1>24, ConcatHas
  <2> QED
    BY <1>9, <1>17, <1>22, <1>23, <1>24, <2>1, DistinctConcat, HoldsConcat DEF Joined
<1>26. ToSet(players) = ToSet(confirmed)
  <2>1. ToSet(z) \subseteq ToSet(P) \cup ToSet(R)
    BY <1>13, <1>18 DEF ToSet
  <2>2. ToSet(p) \subseteq ToSet(P) /\ ToSet(r) \subseteq ToSet(R)
    BY <1>19, <1>20 DEF ToSet
  <2>3. ASSUME NEW k \in DOMAIN P PROVE P[k] \in ToSet(z) \cup ToSet(p)
    <3>1. CASE k <= m
      <4>1. k \in 1 .. m
        BY <1>4, <3>1
      <4>2. 2 * k - 1 \in DOMAIN z
        BY <1>10, <4>1
      <4> QED
        BY <1>11, <4>1, <4>2 DEF ToSet
    <3>2. CASE ~(k <= m)
      <4>1. k - m \in 1 .. (a - m) /\ m + (k - m) = k
        BY <1>4, <3>2
      <4> QED
        BY <1>16, <4>1 DEF ToSet
    <3> QED
      BY <3>1, <3>2
  <2>4. ASSUME NEW k \in DOMAIN R PROVE R[k] \in ToSet(z) \cup ToSet(r)
    <3>1. CASE k <= m
      <4>1. k \in 1 .. m
        BY <1>4, <3>1
      <4>2. 2 * k \in DOMAIN z
        BY <1>10, <4>1
      <4> QED
        BY <1>11, <4>1, <4>2 DEF ToSet
    <3>2. CASE ~(k <= m)
      <4>1. k - m \in 1 .. (b - m) /\ m + (k - m) = k
        BY <1>4, <3>2
      <4> QED
        BY <1>17, <4>1 DEF ToSet
    <3> QED
      BY <3>1, <3>2
  <2>5. ToSet(P) \subseteq ToSet(z) \cup ToSet(p) /\ ToSet(R) \subseteq ToSet(z) \cup ToSet(r)
    <3>1. \A x \in ToSet(P) : \E k \in DOMAIN P : x = P[k]
      BY DEF ToSet
    <3>2. \A x \in ToSet(R) : \E k \in DOMAIN R : x = R[k]
      BY DEF ToSet
    <3> QED
      BY <2>3, <2>4, <3>1, <3>2
  <2>6. ToSet(players) = ToSet(P) \cup ToSet(R)
    BY <1>24, <1>25, <2>1, <2>2, <2>5
  <2>7. ToSet(P) \cup ToSet(R) = ToSet(confirmed)
    BY <1>3
  <2> QED
    BY <2>6, <2>7
\* Two with priority are neighbours only once the others are used up.
<1>27. ASSUME NEW i \in Nat, 2 * i - 1 \in DOMAIN players, 2 * i \in DOMAIN players,
              players[2 * i - 1] \in ToSet(priority), players[2 * i] \in ToSet(priority)
       PROVE  2 * a > a + b
  <2>1. \A k \in DOMAIN R : R[k] \notin ToSet(priority)
    BY <1>3 DEF ToSet
  <2>2. CASE i <= m
    <3>1. i \in 1 .. m
      <4>1. 2 * i - 1 >= 1
        <5>1. DOMAIN players = 1 .. Len(players)
          BY <1>25, ListHas
        <5> QED
          BY <1>27, <5>1
      <4> QED
        BY <2>2, <4>1
    <3>2. 2 * i \in DOMAIN z
      BY <1>10, <3>1
    <3>3. players[2 * i] = R[i]
      BY <1>11, <1>24, <1>25, <3>1, <3>2 DEF Joined
    <3> QED
      BY <1>13, <1>27, <2>1, <3>1, <3>3
  <2>3. CASE ~(i <= m) /\ a > b
    BY <2>3
  <2>4. CASE ~(i <= m) /\ ~(a > b)
    <3>1. m = a /\ DOMAIN p = {}
      <4>1. m = a
        BY <1>6, <2>4
      <4>2. a - m = 0 /\ 1 .. 0 = {}
        BY <4>1
      <4> QED
        BY <1>16, <4>1, <4>2
    <3>2. Len(u) = 2 * m /\ DOMAIN u = 1 .. (2 * m)
      <4>1. Len(u) = 2 * m + (a - m) /\ 2 * m + (a - m) = 2 * m
        BY <1>10, <1>16, <1>24, <3>1 DEF Joined
      <4> QED
        BY <1>24, <4>1, ListHas
    <3>3. 2 * i \notin DOMAIN u
      BY <2>4, <3>2
    <3>4. PICK k \in DOMAIN r : 2 * i = Len(u) + k
      BY <1>25, <1>27, <3>3 DEF Joined
    <3>5. players[2 * i] = r[k]
      BY <1>25, <3>4 DEF Joined
    <3> QED
      BY <1>17, <1>27, <2>1, <3>5
  <2> QED
    BY <2>2, <2>3, <2>4
<1> QED
  BY <1>5, <1>25, <1>26, <1>27

\* Lists of the same length that agree everywhere are the same.
LEMMA SameList ==
  ASSUME NEW s, IsList(s), NEW t, IsList(t), Len(s) = Len(t), \A i \in DOMAIN s : s[i] = t[i]
  PROVE  s = t
<1>1. s = [i \in 1 .. Len(s) |-> s[i]] /\ t = [i \in 1 .. Len(t) |-> t[i]] /\ DOMAIN s = 1 .. Len(s)
  BY ListHas
<1> QED
  BY <1>1

\* The first pairs of a list after the first `base` ones.
PairsFrom(players, base, c, seqs) ==
  /\ IsList(seqs) /\ Len(seqs) = c
  /\ \A i \in 1 .. c : seqs[i] = <<players[2 * (base + i) - 1], players[2 * (base + i)]>>

PlayersFrom(players, base, c, flat) ==
  /\ IsList(flat) /\ Len(flat) = 2 * c
  /\ \A k \in 1 .. (2 * c) : flat[k] = players[2 * base + k]

\* The players of pairs one after the other are the players from the first of them on.
LEMMA FlattenedPairs ==
  ASSUME NEW players, NEW base \in Nat, NEW c \in Nat, NEW seqs, PairsFrom(players, base, c, seqs)
  PROVE  PlayersFrom(players, base, c, FlattenSeq(seqs))
<1>0. /\ IsList(seqs) /\ Len(seqs) = c
      /\ \A i \in 1 .. c : seqs[i] = <<players[2 * (base + i) - 1], players[2 * (base + i)]>>
  BY DEF PairsFrom
<1> USE <1>0
<1> DEFINE closed(i) == [k \in 1 .. (2 * i) |-> players[2 * base + k]]
<1>1. ASSUME NEW i \in Nat
      PROVE  /\ IsList(closed(i)) /\ Len(closed(i)) = 2 * i /\ DOMAIN closed(i) = 1 .. (2 * i)
             /\ \A k \in 1 .. (2 * i) : closed(i)[k] = players[2 * base + k]
  <2>1. PICK t : t = closed(i)
    OBVIOUS
  <2>2. t = [k \in 1 .. (2 * i) |-> t[k]] /\ 2 * i \in Nat /\ DOMAIN t = 1 .. (2 * i)
        /\ \A k \in 1 .. (2 * i) : t[k] = players[2 * base + k]
    BY <2>1
  <2>3. IsList(t) /\ Len(t) = 2 * i
    BY <2>2, ListFrom
  <2> QED
    BY <2>1, <2>2, <2>3
<1> HIDE DEF closed
<1>2. ASSUME NEW i \in 1 .. c
      PROVE  /\ IsList(seqs[i]) /\ Len(seqs[i]) = 2 /\ DOMAIN seqs[i] = 1 .. 2
             /\ seqs[i][1] = players[2 * (base + i) - 1] /\ seqs[i][2] = players[2 * (base + i)]
  <2>1. PICK s : s = seqs[i]
    OBVIOUS
  <2>2. s = <<players[2 * (base + i) - 1], players[2 * (base + i)]>>
    BY <2>1
  <2>3. s = [k \in 1 .. 2 |-> s[k]] /\ DOMAIN s = 1 .. 2
    BY <2>2
  <2>4. IsList(s) /\ Len(s) = 2
    BY <2>3, ListFrom
  <2> QED
    BY <2>1, <2>2, <2>3, <2>4
\* One pair more.
<1>3. ASSUME NEW i \in 1 .. c, i # 1 PROVE closed(i) = closed(i - 1) \o seqs[i]
  <2>1. PICK s, t, u, v : s = closed(i - 1) /\ t = seqs[i] /\ u = s \o t /\ v = closed(i)
    OBVIOUS
  <2>2. i - 1 \in Nat /\ i \in Nat /\ 2 * (i - 1) + 2 = 2 * i
    BY <1>3
  <2>3. /\ IsList(s) /\ Len(s) = 2 * (i - 1) /\ DOMAIN s = 1 .. (2 * (i - 1))
        /\ \A k \in 1 .. (2 * (i - 1)) : s[k] = players[2 * base + k]
    BY <1>1, <2>1, <2>2
  <2>4. /\ IsList(v) /\ Len(v) = 2 * i /\ DOMAIN v = 1 .. (2 * i)
        /\ \A k \in 1 .. (2 * i) : v[k] = players[2 * base + k]
    BY <1>1, <2>1, <2>2
  <2>5. /\ IsList(t) /\ Len(t) = 2 /\ DOMAIN t = 1 .. 2
        /\ t[1] = players[2 * (base + i) - 1] /\ t[2] = players[2 * (base + i)]
    BY <1>2, <2>1
  <2>6. Joined(s, t, u)
    BY <2>1, <2>3, <2>5, ConcatHas
  <2>7. IsList(u) /\ Len(u) = Len(v)
    BY <2>2, <2>3, <2>4, <2>5, <2>6 DEF Joined
  <2>8. ASSUME NEW k \in 1 .. (2 * i) PROVE v[k] = u[k]
    <3>1. CASE k <= 2 * (i - 1)
      <4>1. k \in DOMAIN s
        BY <2>3, <3>1
      <4> QED
        BY <2>3, <2>4, <2>6, <4>1 DEF Joined
    <3>2. CASE k = 2 * (i - 1) + 1
      <4>1. u[2 * (i - 1) + 1] = t[1]
        BY <2>3, <2>5, <2>6 DEF Joined
      <4>2. 2 * (base + i) - 1 = 2 * base + k
        BY <3>2
      <4> QED
        BY <2>4, <2>5, <3>2, <4>1, <4>2
    <3>3. CASE k = 2 * (i - 1) + 2
      <4>1. u[2 * (i - 1) + 2] = t[2]
        BY <2>3, <2>5, <2>6 DEF Joined
      <4>2. 2 * (base + i) = 2 * base + k
        BY <3>3
      <4> QED
        BY <2>4, <2>5, <3>3, <4>1, <4>2
    <3>4. i \in Nat /\ k \in Nat /\ k <= 2 * i
      OBVIOUS
    <3>5. k <= 2 * (i - 1) \/ k = 2 * (i - 1) + 1 \/ k = 2 * (i - 1) + 2
      BY <3>4
    <3> QED
      BY <3>1, <3>2, <3>3, <3>5
  <2>9. v = u
    BY <2>4, <2>7, <2>8, SameList
  <2> QED
    BY <2>1, <2>9
<1>4. ASSUME 1 \in 1 .. c PROVE closed(1) = seqs[1]
  <2>1. PICK t, v : t = seqs[1] /\ v = closed(1)
    OBVIOUS
  <2>2. /\ IsList(t) /\ Len(t) = 2 /\ DOMAIN t = 1 .. 2
        /\ t[1] = players[2 * (base + 1) - 1] /\ t[2] = players[2 * (base + 1)]
    BY <1>2, <1>4, <2>1
  <2>3. /\ IsList(v) /\ Len(v) = 2 /\ DOMAIN v = 1 .. 2
        /\ v[1] = players[2 * base + 1] /\ v[2] = players[2 * base + 2]
    <3>1. 1 \in Nat /\ 2 * 1 = 2 /\ 1 \in 1 .. 2 /\ 2 \in 1 .. 2
      OBVIOUS
    <3>2. /\ IsList(closed(1)) /\ Len(closed(1)) = 2 * 1 /\ DOMAIN closed(1) = 1 .. (2 * 1)
          /\ \A k \in 1 .. (2 * 1) : closed(1)[k] = players[2 * base + k]
      BY <1>1
    <3> QED
      BY <2>1, <3>1, <3>2
  <2>4. 2 * (base + 1) - 1 = 2 * base + 1 /\ 2 * (base + 1) = 2 * base + 2
    OBVIOUS
  <2>5. \A k \in DOMAIN v : v[k] = t[k]
    BY <2>2, <2>3, <2>4
  <2> QED
    BY <2>1, <2>2, <2>3, <2>5, SameList
<1>5. CASE c = 0
  <2>1. FlattenSeq(seqs) = seqs
    BY <1>5 DEF FlattenSeq
  <2> QED
    BY <1>5, <2>1 DEF PlayersFrom
<1>6. CASE c # 0
  <2> DEFINE flatten[i \in 1 .. c] == IF i = 1 THEN seqs[i] ELSE flatten[i - 1] \o seqs[i]
  <2>1. FlattenSeq(seqs) = flatten[c]
    BY <1>6 DEF FlattenSeq
  <2>2. \E f : f = [i \in 1 .. c |-> IF i = 1 THEN seqs[i] ELSE f[i - 1] \o seqs[i]]
    <3>1. PICK f : f = [i \in 1 .. c |-> closed(i)]
      OBVIOUS
    <3>2. \A i \in 1 .. c : i # 1 => i - 1 \in 1 .. c
      OBVIOUS
    <3>3. \A i \in 1 .. c : closed(i) = IF i = 1 THEN seqs[i] ELSE f[i - 1] \o seqs[i]
      BY <1>3, <1>4, <3>1, <3>2
    <3>4. f = [i \in 1 .. c |-> IF i = 1 THEN seqs[i] ELSE f[i - 1] \o seqs[i]]
      BY <3>1, <3>3
    <3> QED
      BY <3>4
  <2>3. flatten = [i \in 1 .. c |-> IF i = 1 THEN seqs[i] ELSE flatten[i - 1] \o seqs[i]]
    BY <2>2, Zenon
  <2> HIDE DEF flatten
  <2>4. \A i \in 1 .. c : flatten[i] = IF i = 1 THEN seqs[i] ELSE flatten[i - 1] \o seqs[i]
    BY <2>3, Zenon
  \* There is no first place where they differ.
  <2> DEFINE wrong == {i \in 1 .. c : flatten[i] # closed(i)}
  <2>5. wrong = {}
    <3>1. SUFFICES ASSUME wrong # {} PROVE FALSE
      OBVIOUS
    <3>2. PICK i : i = Min(wrong)
      OBVIOUS
    <3>3. wrong \subseteq Nat
      OBVIOUS
    <3>4. i \in wrong /\ \A j \in wrong : i <= j
      <4> HIDE DEF wrong
      <4> QED
        BY <3>1, <3>2, <3>3, MinType
    <3>5. i \in 1 .. c /\ flatten[i] # closed(i)
      BY <3>4
    <3>6. CASE i = 1
      BY <1>4, <2>4, <3>5, <3>6
    <3>7. CASE i # 1
      <4>1. i - 1 \in 1 .. c /\ ~(i <= i - 1)
        BY <3>5, <3>7
      <4>2. flatten[i - 1] = closed(i - 1)
        BY <3>4, <4>1
      <4> QED
        BY <1>3, <2>4, <3>5, <3>7, <4>2
    <3> QED
      BY <3>6, <3>7
  <2>6. flatten[c] = closed(c)
    BY <1>6, <2>5
  <2> QED
    BY <1>1, <2>1, <2>6 DEF PlayersFrom
<1> QED
  BY <1>5, <1>6

\* A list without repetition, one of its elements taken out.
LEMMA RemovedIs ==
  ASSUME NEW s, IsList(s), Distinct(s), NEW k \in DOMAIN s
  PROVE  /\ IsList(RemoveAt(s, k)) /\ Distinct(RemoveAt(s, k))
         /\ ToSet(RemoveAt(s, k)) = ToSet(s) \ {s[k]}
<1>1. PICK n \in Nat : n = Len(s) /\ DOMAIN s = 1 .. n /\ k \in 1 .. n
  BY ListHas
<1>2. PICK a, b : a = SubSeq(s, 1, k - 1) /\ b = SubSeq(s, k + 1, n)
  OBVIOUS
<1>3. /\ IsList(a) /\ Distinct(a) /\ DOMAIN a = 1 .. (k - 1)
      /\ \A i \in 1 .. (k - 1) : a[i] = s[i]
  <2>1. 1 \in Nat \ {0} /\ k - 1 \in Int /\ k - 1 <= Len(s)
    BY <1>1
  <2>2. /\ IsList(a) /\ DOMAIN a = 1 .. ((k - 1) - 1 + 1)
        /\ \A i \in 1 .. ((k - 1) - 1 + 1) : a[i] = s[1 + i - 1]
    BY <1>2, <2>1, PartHas
  <2>3. Distinct(a)
    BY <1>2, <2>1, DistinctPart
  <2>4. (k - 1) - 1 + 1 = k - 1 /\ \A i \in 1 .. (k - 1) : 1 + i - 1 = i
    BY <1>1
  <2> QED
    BY <2>2, <2>3, <2>4
<1>4. /\ IsList(b) /\ Distinct(b) /\ DOMAIN b = 1 .. (n - k)
      /\ \A i \in 1 .. (n - k) : b[i] = s[k + i]
  <2>1. k + 1 \in Nat \ {0} /\ n \in Int /\ n <= Len(s)
    BY <1>1
  <2>2. /\ IsList(b) /\ DOMAIN b = 1 .. (n - (k + 1) + 1)
        /\ \A i \in 1 .. (n - (k + 1) + 1) : b[i] = s[(k + 1) + i - 1]
    BY <1>2, <2>1, PartHas
  <2>3. Distinct(b)
    BY <1>2, <2>1, DistinctPart
  <2>4. n - (k + 1) + 1 = n - k /\ \A i \in 1 .. (n - k) : (k + 1) + i - 1 = k + i
    BY <1>1
  <2> QED
    BY <2>2, <2>3, <2>4
<1>5. ASSUME NEW i \in 1 .. (k - 1), NEW j \in 1 .. (n - k) PROVE s[i] # s[k + j]
  <2>1. i \in 1 .. n /\ k + j \in 1 .. n /\ i # k + j
    BY <1>1
  <2> QED
    BY <1>1, <2>1 DEF Distinct
<1>6. ToSet(a) \cap ToSet(b) = {}
  BY <1>3, <1>4, <1>5 DEF ToSet
<1>7. RemoveAt(s, k) = a \o b
  BY <1>1, <1>2 DEF RemoveAt
<1>8. IsList(a \o b) /\ Distinct(a \o b) /\ ToSet(a \o b) = ToSet(a) \cup ToSet(b)
  BY <1>3, <1>4, <1>6, ConcatHas, DistinctConcat, HoldsConcat DEF Joined
<1>9. ToSet(a) \cup ToSet(b) = ToSet(s) \ {s[k]}
  <2>1. ASSUME NEW x \in ToSet(a) PROVE x \in ToSet(s) \ {s[k]}
    <3>1. PICK i \in 1 .. (k - 1) : x = s[i]
      BY <1>3 DEF ToSet
    <3>2. i \in 1 .. n /\ i # k
      BY <1>1
    <3> QED
      BY <1>1, <3>1, <3>2 DEF ToSet, Distinct
  <2>2. ASSUME NEW x \in ToSet(b) PROVE x \in ToSet(s) \ {s[k]}
    <3>1. PICK i \in 1 .. (n - k) : x = s[k + i]
      BY <1>4 DEF ToSet
    <3>2. k + i \in 1 .. n /\ k + i # k
      BY <1>1
    <3> QED
      BY <1>1, <3>1, <3>2 DEF ToSet, Distinct
  <2>3. ASSUME NEW x \in ToSet(s), x # s[k] PROVE x \in ToSet(a) \cup ToSet(b)
    <3>1. PICK i \in 1 .. n : x = s[i]
      BY <1>1 DEF ToSet
    <3>2. CASE i < k
      <4>1. i \in 1 .. (k - 1)
        BY <1>1, <3>2
      <4> QED
        BY <1>3, <3>1, <4>1 DEF ToSet
    <3>3. CASE i > k
      <4>1. PICK j : j = i - k
        OBVIOUS
      <4>2. j \in 1 .. (n - k) /\ k + j = i
        BY <1>1, <3>3, <4>1
      <4> QED
        BY <1>4, <3>1, <4>2 DEF ToSet
    <3>4. i # k
      BY <2>3, <3>1
    <3> QED
      BY <1>1, <3>2, <3>3, <3>4
  <2> QED
    BY <2>1, <2>2, <2>3
<1> QED
  BY <1>7, <1>8, <1>9

\* Volunteers each once.
Pool(queue) == IsList(queue) /\ Distinct(queue)

\* The names of a pair after volunteers of a queue have stood in: the holder's, another one
\* for the partner, who may be the joker only where somebody had to give way to him.
Standing(pair, queue, blocked, joker, found, left) ==
  /\ Pool(left) /\ ToSet(left) \subseteq ToSet(queue)
  /\ DOMAIN found = 1 .. 2
  /\ \A i \in 1 .. 2 : \/ found[i] = joker
                       \/ /\ found[i] \notin blocked
                          /\ found[i] \in {pair[1], pair[2]} \cup (ToSet(queue) \ ToSet(left))
  /\ pair[1] # pair[2] => found[1] # found[2]
  /\ found[1] = joker => pair[1] = joker \/ joker \in ToSet(queue)
  /\ /\ joker \notin {pair[1], pair[2]} \cup ToSet(queue)
     /\ {found[1], found[2]} \subseteq {pair[1], pair[2]}
     => found[1] = pair[1] /\ found[2] = pair[2]

\* A volunteer takes the i-th place of a pair.
Lends(s, i, blocked, joker, t, name) ==
  /\ name \in ToSet(s.queue)
  /\ ~IsBlocked(name, blocked, joker) /\ name \notin {s.pair[1], s.pair[2]}
  /\ IsBlocked(s.pair[i], blocked, joker)
  /\ {"pair", "queue"} \subseteq DOMAIN t
  /\ t.pair = [s.pair EXCEPT ![i] = name] /\ DOMAIN t.pair = 1 .. 2
  /\ Pool(t.queue) /\ ToSet(t.queue) = ToSet(s.queue) \ {name}

\* If there is one, and the name in it is blocked.
LEMMA LentNames ==
  ASSUME NEW s, {"pair", "queue"} \subseteq DOMAIN s, DOMAIN s.pair = 1 .. 2, Pool(s.queue),
         NEW i \in {1, 2}, NEW blocked, NEW joker, NEW t, t = LendName(s, i, blocked, joker)
  PROVE  t = s \/ \E name : Lends(s, i, blocked, joker, t, name)
<1> DEFINE free == {k \in DOMAIN s.queue :
                      ~IsBlocked(s.queue[k], blocked, joker) /\ s.queue[k] \notin ToSet(s.pair)}
<1>1. CASE ~IsBlocked(s.pair[i], blocked, joker) \/ free = {}
  BY <1>1 DEF LendName
<1>2. CASE ~(~IsBlocked(s.pair[i], blocked, joker) \/ free = {})
  <2>1. PICK k : k = Min(free)
    OBVIOUS
  <2>2. t = [pair |-> [s.pair EXCEPT ![i] = s.queue[k]], queue |-> RemoveAt(s.queue, k)]
    BY <1>2, <2>1 DEF LendName
  <2>3. free \subseteq Nat /\ free # {} /\ free \subseteq DOMAIN s.queue
    BY <1>2, ListHas DEF Pool
  <2>4. k \in free
    <3> HIDE DEF free
    <3> QED
      BY <2>1, <2>3, MinType
  <2>5. PICK name : name = s.queue[k]
    OBVIOUS
  <2>6. name \in ToSet(s.queue) /\ ~IsBlocked(name, blocked, joker) /\ name \notin ToSet(s.pair)
    BY <2>4, <2>5 DEF ToSet
  <2>7. ToSet(s.pair) = {s.pair[1], s.pair[2]}
    BY DEF ToSet
  <2>8. PICK q : q = RemoveAt(s.queue, k)
    OBVIOUS
  <2>9. Pool(q) /\ ToSet(q) = ToSet(s.queue) \ {name}
    BY <2>4, <2>5, <2>8, RemovedIs DEF Pool
  <2>10. /\ {"pair", "queue"} \subseteq DOMAIN t /\ t.queue = q
         /\ t.pair = [s.pair EXCEPT ![i] = name] /\ DOMAIN t.pair = 1 .. 2
    BY <2>2, <2>5, <2>8
  <2> QED
    BY <1>2, <2>6, <2>7, <2>9, <2>10 DEF Lends
<1> QED
  BY <1>1, <1>2

\* The first place, then the second.
LEMMA BothLent ==
  ASSUME NEW pair, DOMAIN pair = 1 .. 2, NEW queue, Pool(queue), NEW blocked, NEW joker,
         NEW s, s = [pair |-> pair, queue |-> queue],
         NEW a, a = LendName(s, 1, blocked, joker), NEW b, b = LendName(a, 2, blocked, joker)
  PROVE  /\ {"pair", "queue"} \subseteq DOMAIN b /\ DOMAIN b.pair = 1 .. 2
         /\ Pool(b.queue) /\ ToSet(b.queue) \subseteq ToSet(queue)
         /\ \A i \in 1 .. 2 : \/ b.pair[i] = pair[i]
                              \/ /\ ~IsBlocked(b.pair[i], blocked, joker)
                                 /\ b.pair[i] \in ToSet(queue) \ ToSet(b.queue)
                                 /\ b.pair[i] # pair[i]
         /\ b.pair[1] \in ToSet(queue) \ ToSet(b.queue) \/ b.pair[1] = pair[1]
         /\ pair[1] # pair[2] => b.pair[1] # b.pair[2]
         /\ b.pair[2] # pair[2] => b.pair[2] # b.pair[1]
         /\ b.pair[1] # pair[1] => b.pair[1] # pair[2]
<1>1. {"pair", "queue"} \subseteq DOMAIN s /\ s.pair = pair /\ s.queue = queue
  OBVIOUS
<1>2. /\ {"pair", "queue"} \subseteq DOMAIN a /\ DOMAIN a.pair = 1 .. 2
      /\ Pool(a.queue) /\ a.pair[2] = pair[2]
      /\ \/ a.pair[1] = pair[1] /\ ToSet(a.queue) = ToSet(queue)
         \/ /\ ~IsBlocked(a.pair[1], blocked, joker) /\ a.pair[1] \in ToSet(queue)
            /\ a.pair[1] # pair[1] /\ a.pair[1] # pair[2]
            /\ ToSet(a.queue) = ToSet(queue) \ {a.pair[1]}
  <2>1. CASE a = s
    BY <1>1, <2>1
  <2>2. ASSUME NEW name, Lends(s, 1, blocked, joker, a, name)
        PROVE  /\ {"pair", "queue"} \subseteq DOMAIN a /\ DOMAIN a.pair = 1 .. 2
               /\ Pool(a.queue) /\ a.pair[2] = pair[2]
               /\ ~IsBlocked(a.pair[1], blocked, joker) /\ a.pair[1] \in ToSet(queue)
               /\ a.pair[1] # pair[1] /\ a.pair[1] # pair[2]
               /\ ToSet(a.queue) = ToSet(queue) \ {a.pair[1]}
    <3>1. a.pair[1] = name /\ a.pair[2] = pair[2]
      BY <1>1, <2>2 DEF Lends
    <3> QED
      BY <1>1, <2>2, <3>1 DEF Lends
  <2>3. 1 \in {1, 2} /\ Pool(s.queue) /\ DOMAIN s.pair = 1 .. 2
    BY <1>1
  <2>4. a = s \/ \E name : Lends(s, 1, blocked, joker, a, name)
    BY <1>1, <2>3, LentNames
  <2> QED
    BY <1>1, <2>1, <2>2, <2>4
<1>3. CASE b = a
  BY <1>2, <1>3
<1>4. ASSUME NEW name, Lends(a, 2, blocked, joker, b, name)
      PROVE  /\ {"pair", "queue"} \subseteq DOMAIN b /\ DOMAIN b.pair = 1 .. 2
             /\ Pool(b.queue) /\ ToSet(b.queue) \subseteq ToSet(queue)
             /\ \A i \in 1 .. 2 : \/ b.pair[i] = pair[i]
                                  \/ /\ ~IsBlocked(b.pair[i], blocked, joker)
                                     /\ b.pair[i] \in ToSet(queue) \ ToSet(b.queue)
                                     /\ b.pair[i] # pair[i]
             /\ b.pair[1] \in ToSet(queue) \ ToSet(b.queue) \/ b.pair[1] = pair[1]
             /\ pair[1] # pair[2] => b.pair[1] # b.pair[2]
             /\ b.pair[2] # pair[2] => b.pair[2] # b.pair[1]
             /\ b.pair[1] # pair[1] => b.pair[1] # pair[2]
  <2>1. b.pair[1] = a.pair[1] /\ b.pair[2] = name
    BY <1>2, <1>4 DEF Lends
  <2>2. \A i \in 1 .. 2 : i = 1 \/ i = 2
    OBVIOUS
  <2> QED
    BY <1>2, <1>4, <2>1, <2>2 DEF Lends
<1>5. 2 \in {1, 2}
  OBVIOUS
<1>6. \A i \in 1 .. 2 : i = 1 \/ i = 2
  OBVIOUS
<1>7. b = a \/ \E name : Lends(a, 2, blocked, joker, b, name)
  BY <1>2, <1>5, LentNames
<1> QED
  BY <1>2, <1>3, <1>4, <1>6, <1>7

\* What resolveBookablePair returns.
LEMMA ResolvedNames ==
  ASSUME NEW pair, DOMAIN pair = 1 .. 2, NEW queue, Pool(queue), NEW blocked, NEW joker,
         NEW r, r = ResolveBookablePair(pair, blocked, queue, joker)
  PROVE  /\ {"pair", "queue"} \subseteq DOMAIN r
         /\ Pool(r.queue) /\ ToSet(r.queue) \subseteq ToSet(queue)
         /\ r.pair # Unbookable => Standing(pair, queue, blocked, joker, r.pair, r.queue)
<1>1. PICK s : s = [pair |-> pair, queue |-> queue]
  OBVIOUS
<1>2. PICK a : a = LendName(s, 1, blocked, joker)
  OBVIOUS
<1>3. PICK b : b = LendName(a, 2, blocked, joker)
  OBVIOUS
<1> DEFINE still == {i \in {1, 2} : IsBlocked(b.pair[i], blocked, joker)}
<1>4. r = IF still = {} THEN b
          ELSE IF joker = NoOne \/ joker \in ToSet(b.pair) \/ still = {1, 2}
               THEN [pair |-> Unbookable, queue |-> queue]
               ELSE [pair |-> WithJoker(b, still, joker), queue |-> b.queue]
  BY <1>1, <1>2, <1>3 DEF ResolveBookablePair
<1>5. /\ {"pair", "queue"} \subseteq DOMAIN b /\ DOMAIN b.pair = 1 .. 2
      /\ Pool(b.queue) /\ ToSet(b.queue) \subseteq ToSet(queue)
      /\ \A i \in 1 .. 2 : \/ b.pair[i] = pair[i]
                           \/ /\ ~IsBlocked(b.pair[i], blocked, joker)
                              /\ b.pair[i] \in ToSet(queue) \ ToSet(b.queue)
                              /\ b.pair[i] # pair[i]
      /\ pair[1] # pair[2] => b.pair[1] # b.pair[2]
      /\ b.pair[2] # pair[2] => b.pair[2] # b.pair[1]
      /\ b.pair[1] # pair[1] => b.pair[1] # pair[2]
  BY <1>1, <1>2, <1>3, BothLent
<1>6. \A i : i \in still <=> i \in {1, 2} /\ b.pair[i] # joker /\ b.pair[i] \in blocked
  BY DEF IsBlocked
<1>7. still \subseteq {1, 2} /\ \A i \in 1 .. 2 : i = 1 \/ i = 2
  OBVIOUS
<1>8. 1 \in 1 .. 2 /\ 2 \in 1 .. 2
  OBVIOUS
<1> HIDE DEF still
<1>9. CASE still = {}
  <2>1. r = b
    BY <1>4, <1>9
  <2>2. \A i \in 1 .. 2 : b.pair[i] = joker \/ b.pair[i] \notin blocked
    BY <1>6, <1>7, <1>9
  <2>3. \A i \in 1 .. 2 : \/ b.pair[i] = joker
                          \/ /\ b.pair[i] \notin blocked
                             /\ b.pair[i] \in {pair[1], pair[2]} \cup (ToSet(queue) \ ToSet(b.queue))
    BY <1>5, <1>7, <2>2
  <2>4. ASSUME {b.pair[1], b.pair[2]} \subseteq {pair[1], pair[2]}
        PROVE  b.pair[1] = pair[1] /\ b.pair[2] = pair[2]
    <3>1. b.pair[1] = pair[1]
      BY <1>5, <2>4
    <3>2. b.pair[2] = pair[2]
      BY <1>5, <2>4, <3>1
    <3> QED
      BY <3>1, <3>2
  <2>6. b.pair[1] = joker => pair[1] = joker \/ joker \in ToSet(queue)
    BY <1>5, <1>8
  <2>5. Standing(pair, queue, blocked, joker, b.pair, b.queue)
    BY <1>5, <2>3, <2>4, <2>6 DEF Standing
  <2> QED
    BY <1>5, <2>1, <2>5
<1>10. CASE still # {} /\ (joker = NoOne \/ joker \in ToSet(b.pair) \/ still = {1, 2})
  <2>1. r = [pair |-> Unbookable, queue |-> queue]
    BY <1>4, <1>10
  <2>2. {"pair", "queue"} \subseteq DOMAIN r /\ r.pair = Unbookable /\ r.queue = queue
    BY <2>1
  <2> QED
    BY <2>2
<1>11. CASE still # {} /\ ~(joker = NoOne \/ joker \in ToSet(b.pair) \/ still = {1, 2})
  <2>1. r = [pair |-> WithJoker(b, still, joker), queue |-> b.queue]
    BY <1>4, <1>11
  <2>2. {"pair", "queue"} \subseteq DOMAIN r /\ r.pair = WithJoker(b, still, joker) /\ r.queue = b.queue
    BY <2>1
  <2>3. b.pair[1] # joker /\ b.pair[2] # joker
    BY <1>5, <1>8, <1>11 DEF ToSet
  <2>4. still = {1} \/ still = {2}
    BY <1>7, <1>11
  <2>5. PICK n \in 1 .. 2 : WithJoker(b, still, joker) = <<b.pair[n], joker>> /\ n \notin still
    <3>1. CASE still = {2}
      BY <1>8, <3>1 DEF WithJoker
    <3>2. CASE still = {1}
      BY <1>8, <3>2 DEF WithJoker
    <3> QED
      BY <2>4, <3>1, <3>2
  <2>6. PICK f : f = <<b.pair[n], joker>>
    OBVIOUS
  <2>7. DOMAIN f = 1 .. 2 /\ f[1] = b.pair[n] /\ f[2] = joker
    BY <2>6
  <2>8. f[1] # joker /\ f[1] \notin blocked
    BY <1>6, <1>7, <2>3, <2>5, <2>7
  <2>9. f[1] \in {pair[1], pair[2]} \cup (ToSet(queue) \ ToSet(b.queue))
    BY <1>5, <1>7, <2>7
  <2>10. \A i \in 1 .. 2 : \/ f[i] = joker
                           \/ /\ f[i] \notin blocked
                              /\ f[i] \in {pair[1], pair[2]} \cup (ToSet(queue) \ ToSet(b.queue))
    BY <1>7, <2>7, <2>8, <2>9
  <2>11. Standing(pair, queue, blocked, joker, f, b.queue)
    BY <1>5, <2>7, <2>8, <2>10 DEF Standing
  <2> QED
    BY <1>5, <2>2, <2>5, <2>6, <2>11
<1> QED
  BY <1>9, <1>10, <1>11

\* The pair of a line (allocateBookablePair): as it is when nobody in it is blocked.
LEMMA BookableNames ==
  ASSUME NEW pair, DOMAIN pair = 1 .. 2, NEW lines, Pool(work.queue),
         NEW found, found = Bookable(pair, lines)
  PROVE  /\ {"pair", "queue"} \subseteq DOMAIN found
         /\ Pool(found.queue) /\ ToSet(found.queue) \subseteq ToSet(work.queue)
         /\ found.pair # Unbookable =>
              Standing(pair, work.queue, Blocked(pair, lines), inp.joker, found.pair, found.queue)
<1>1. PICK queue, blocked, joker :
        queue = work.queue /\ blocked = Blocked(pair, lines) /\ joker = inp.joker
  OBVIOUS
<1>2. CASE ToSet(pair) \cap blocked = {}
  <2>1. found = [pair |-> pair, queue |-> queue]
    BY <1>1, <1>2 DEF Bookable
  <2>2. {"pair", "queue"} \subseteq DOMAIN found /\ found.pair = pair /\ found.queue = queue
    BY <2>1
  <2>3. pair[1] \notin blocked /\ pair[2] \notin blocked
    BY <1>2 DEF ToSet
  <2>4. \A i \in 1 .. 2 : i = 1 \/ i = 2
    OBVIOUS
  <2>5. Standing(pair, queue, blocked, joker, pair, queue)
    BY <1>1, <2>3, <2>4 DEF Standing
  <2> QED
    BY <1>1, <2>2, <2>5
<1>3. CASE ToSet(pair) \cap blocked # {}
  <2>1. found = ResolveBookablePair(pair, blocked, queue, joker)
    BY <1>1, <1>3 DEF Bookable
  <2>2. Pool(queue)
    BY <1>1
  <2>3. /\ {"pair", "queue"} \subseteq DOMAIN found
        /\ Pool(found.queue) /\ ToSet(found.queue) \subseteq ToSet(queue)
        /\ found.pair # Unbookable => Standing(pair, queue, blocked, joker, found.pair, found.queue)
    BY <2>1, <2>2, ResolvedNames
  <2> QED
    BY <1>1, <2>3
<1> QED
  BY <1>2, <1>3

\* The next round of a session names two members, not one twice.
LEMMA NextPairDiffers ==
  ASSUME IsList(ext.members), Distinct(ext.members), Len(ext.members) >= 2, IsList(ExtLines)
  PROVE  DOMAIN NextPair = 1 .. 2 /\ NextPair[1] # NextPair[2]
<1> DEFINE value == [i \in DOMAIN ext.members |-> Count(ExtLines, ext.members[i])]
<1>1. PICK n \in Nat : n = Len(ext.members) /\ DOMAIN ext.members = 1 .. n
  BY ListHas
<1>2. DOMAIN value = 1 .. n /\ \A i \in 1 .. n : value[i] \in Int
  <2>1. DOMAIN value = 1 .. n /\ \A i \in 1 .. n : value[i] = Count(ExtLines, ext.members[i])
    BY <1>1
  <2>2. \A i \in 1 .. n : Count(ExtLines, ext.members[i]) \in Int
    BY Counts
  <2> QED
    BY <2>1, <2>2
<1>3. PICK order : order = InOrder(value)
  OBVIOUS
<1>4. NextPair = <<ext.members[order[1]], ext.members[order[2]]>>
  BY <1>3 DEF NextPair
<1> HIDE DEF value
<1>5. Listing(1 .. n, order)
  BY <1>2, <1>3, InOrderIs
<1>6. DOMAIN order = 1 .. n
  <2>1. Cardinality(1 .. n) = n
    BY FS_Interval
  <2> QED
    BY <1>5, <2>1, ListHas DEF Listing
<1>7. order[1] \in 1 .. n /\ order[2] \in 1 .. n /\ order[1] # order[2]
  <2>1. 1 \in DOMAIN order /\ 2 \in DOMAIN order /\ 1 # 2
    BY <1>1, <1>6
  <2>2. order[1] \in ToSet(order) /\ order[2] \in ToSet(order) /\ order[1] # order[2]
    BY <1>5, <2>1 DEF ToSet, Listing
  <2>3. ToSet(order) = 1 .. n
    BY <1>5 DEF Listing
  <2> QED
    BY <2>2, <2>3
<1>8. ext.members[order[1]] # ext.members[order[2]]
  BY <1>1, <1>7 DEF Distinct
<1> QED
  BY <1>4, <1>8

\* Members in the order of their demands: nobody is doubled.
LEMMA OrderedOnce ==
  ASSUME NEW members, IsList(members), Distinct(members),
         NEW slots, \A p \in DOMAIN slots : slots[p] \in Nat
  PROVE  Distinct(OrderMembersByDemand(members, slots))
<1>1. CASE Len(members) <= 2
  BY <1>1 DEF OrderMembersByDemand
<1>2. CASE ~(Len(members) <= 2)
  <2> DEFINE value == [i \in DOMAIN members |-> -Demand(members[i], slots)]
  <2>1. PICK n \in Nat : n = Len(members) /\ DOMAIN members = 1 .. n
    BY ListHas
  <2>2. \A p : Demand(p, slots) \in Nat
    BY DEF Demand, DEFAULT_MIN_PLAY_SLOTS
  <2>3. DOMAIN value = 1 .. n /\ \A i \in 1 .. n : value[i] \in Int
    <3>1. \A i \in 1 .. n : value[i] = -Demand(members[i], slots)
      BY <2>1
    <3> QED
      BY <2>1, <2>2, <3>1
  <2>4. PICK order : order = InOrder(value)
    OBVIOUS
  <2>5. PICK t : t = [i \in DOMAIN members |-> members[order[i]]]
    OBVIOUS
  <2>6. OrderMembersByDemand(members, slots) = t
    BY <1>2, <2>4, <2>5 DEF OrderMembersByDemand
  <2> HIDE DEF value
  <2>7. Listing(1 .. n, order)
    BY <2>3, <2>4, InOrderIs
  <2>8. DOMAIN order = 1 .. n
    <3>1. Cardinality(1 .. n) = n
      BY FS_Interval
    <3> QED
      BY <2>7, <3>1, ListHas DEF Listing
  <2>9. \A i \in 1 .. n : order[i] \in 1 .. n
    BY <2>7, <2>8 DEF Listing, ToSet
  <2>10. \A i, j \in 1 .. n : order[i] = order[j] => i = j
    BY <2>7, <2>8 DEF Listing
  <2>11. \A i \in 1 .. n : t[i] = members[order[i]]
    BY <2>1, <2>5
  <2>12. DOMAIN t = 1 .. n
    BY <2>1, <2>5
  <2>13. Distinct(t)
    BY <2>1, <2>9, <2>10, <2>11, <2>12 DEF Distinct
  <2> QED
    BY <2>6, <2>13
<1> QED
  BY <1>1, <1>2

\* Those who join a session are not members yet.
LEMMA TeamJoins ==
  ASSUME NEW k, NEW session, IsList(session.members), Distinct(session.members),
         NEW joiners, IsList(joiners), Distinct(joiners), NEW queue, NEW taken, EveningOk(inp),
         NEW e, e = Joining(k, session, joiners, queue, taken)
  PROVE  /\ e.session = session /\ e.queue = queue /\ e.added = << >> /\ e.k = k
         /\ IsList(e.members) /\ Distinct(e.members)
         /\ ToSet(e.members) \subseteq ToSet(session.members) \cup ToSet(joiners)
<1> DEFINE numbers == {i \in DOMAIN joiners : joiners[i] \notin ToSet(session.members)}
           room == IF inp.maxPlayers > Len(session.members)
                   THEN inp.maxPlayers - Len(session.members) ELSE 0
<1>1. PICK new : new = Picked(joiners, numbers)
  OBVIOUS
<1>2. PICK m : m = Min({room, Len(new)})
  OBVIOUS
<1>3. PICK part : part = SubSeq(new, 1, m)
  OBVIOUS
<1>4. PICK members : members = session.members \o part
  OBVIOUS
<1>5. /\ e.session = session /\ e.queue = queue /\ e.added = << >> /\ e.k = k
      /\ e.members = OrderMembersByDemand(members, inp.minSlots)
  BY <1>1, <1>2, <1>3, <1>4 DEF Joining
<1>6. IsList(new) /\ Distinct(new) /\ ToSet(new) \cap ToSet(session.members) = {}
      /\ ToSet(new) \subseteq ToSet(joiners)
  <2>1. numbers \subseteq DOMAIN joiners
    OBVIOUS
  <2>2. \A i \in numbers : joiners[i] \notin ToSet(session.members) /\ joiners[i] \in ToSet(joiners)
    BY DEF ToSet
  <2> HIDE DEF numbers
  <2>3. IsList(new) /\ Distinct(new) /\ ToSet(new) = {joiners[i] : i \in numbers}
    BY <1>1, <2>1, PickedIs, DistinctPicked
  <2> QED
    BY <2>2, <2>3
<1>7. room \in Nat
  <2>1. Len(session.members) \in Nat /\ inp.maxPlayers \in Nat
    BY ListHas DEF EveningOk
  <2> QED
    BY <2>1
<1> HIDE DEF room
<1>8. m \in Nat /\ m <= Len(new)
  <2>1. {room, Len(new)} \subseteq Nat /\ {room, Len(new)} # {}
    BY <1>6, <1>7, ListHas
  <2>2. m \in {room, Len(new)} /\ \A x \in {room, Len(new)} : m <= x
    BY <1>2, <2>1, MinType
  <2> QED
    BY <2>1, <2>2
<1>9. IsList(part) /\ Distinct(part) /\ ToSet(part) \subseteq ToSet(new)
  <2>1. 1 \in Nat \ {0} /\ m \in Int /\ m <= Len(new)
    BY <1>8
  <2> QED
    BY <1>3, <1>6, <2>1, PartOf, DistinctPart
<1>10. /\ IsList(members) /\ Distinct(members)
       /\ ToSet(members) = ToSet(session.members) \cup ToSet(part)
  <2>1. ToSet(session.members) \cap ToSet(part) = {}
    BY <1>6, <1>9
  <2> QED
    BY <1>4, <1>9, <2>1, ConcatHas, DistinctConcat, HoldsConcat DEF Joined
<1>11. \A p \in DOMAIN inp.minSlots : inp.minSlots[p] \in Nat
  BY DEF EveningOk
<1>12. PICK o : o = OrderMembersByDemand(members, inp.minSlots)
  OBVIOUS
<1>13. IsList(o) /\ Distinct(o) /\ ToSet(o) \subseteq ToSet(members)
  BY <1>10, <1>11, <1>12, OrderedIs, OrderedOnce
<1> QED
  BY <1>5, <1>6, <1>9, <1>10, <1>12, <1>13

\* One more booking of the day is not one too many.
InTheLimit(x) == x = inp.joker \/ DayCount(x) < inp.maxDaily \/ DayCount(x) + 1 <= inp.maxDaily

\* A volunteer takes the place of a player at the limit.
GivesWay(s, i, t, name) ==
  /\ name \in ToSet(s.queue) \ s.lent /\ DayCount(name) + 1 <= inp.maxDaily
  /\ LimitFields \subseteq DOMAIN t /\ t.pair = [s.pair EXCEPT ![i] = name]
  /\ t.lent = s.lent \cup {name} /\ t.over = s.over
  /\ Pool(t.queue) /\ ToSet(t.queue) \subseteq ToSet(s.queue)

\* The place is marked when there is none.
Marked(s, i, t) ==
  /\ LimitFields \subseteq DOMAIN t /\ t.pair = s.pair /\ t.lent = s.lent
  /\ t.over = s.over \cup {i} /\ t.queue = s.queue

LEMMA LimitedOnce ==
  ASSUME NEW s, LimitFields \subseteq DOMAIN s, Pool(s.queue), NEW i \in {1, 2},
         NEW t, t = UnderTheLimit(s, i)
  PROVE  \/ t = s /\ InTheLimit(s.pair[i])
         \/ Marked(s, i, t)
         \/ \E name : GivesWay(s, i, t, name)
<1> DEFINE able == {k \in DOMAIN s.queue : s.queue[k] \notin s.lent
                                           /\ DayCount(s.queue[k]) + 1 <= inp.maxDaily}
<1>1. CASE s.pair[i] = inp.joker \/ DayCount(s.pair[i]) < inp.maxDaily
  <2>1. t = s
    BY <1>1 DEF UnderTheLimit
  <2> QED
    BY <1>1, <2>1 DEF InTheLimit
<1>2. CASE ~(s.pair[i] = inp.joker \/ DayCount(s.pair[i]) < inp.maxDaily) /\ able = {}
  <2>1. t = [s EXCEPT !.over = @ \cup {i}]
    BY <1>2 DEF UnderTheLimit
  <2> QED
    BY <2>1 DEF Marked, LimitFields
<1>3. CASE ~(s.pair[i] = inp.joker \/ DayCount(s.pair[i]) < inp.maxDaily) /\ able # {}
  <2>1. PICK k : k = Min(able)
    OBVIOUS
  <2>2. able \subseteq Nat /\ able \subseteq DOMAIN s.queue
    BY ListHas DEF Pool
  <2>3. PICK name : name = s.queue[k]
    OBVIOUS
  <2>4. PICK q : q = IF DayCount(name) + 1 >= inp.maxDaily THEN RemoveAt(s.queue, k) ELSE s.queue
    OBVIOUS
  <2>5. t = [pair |-> [s.pair EXCEPT ![i] = name], lent |-> s.lent \cup {name},
             over |-> s.over, queue |-> q]
    BY <1>3, <2>1, <2>3, <2>4 DEF UnderTheLimit
  <2>6. k \in able
    <3> HIDE DEF able
    <3> QED
      BY <1>3, <2>1, <2>2, MinType
  <2>7. name \in ToSet(s.queue) \ s.lent /\ DayCount(name) + 1 <= inp.maxDaily
    BY <2>3, <2>6 DEF ToSet
  <2>8. Pool(q) /\ ToSet(q) \subseteq ToSet(s.queue)
    <3>1. k \in DOMAIN s.queue
      BY <2>6
    <3>2. PICK z : z = RemoveAt(s.queue, k)
      OBVIOUS
    <3>3. Pool(z) /\ ToSet(z) \subseteq ToSet(s.queue)
      BY <3>1, <3>2, RemovedIs DEF Pool
    <3>4. q = z \/ q = s.queue
      BY <2>4, <3>2
    <3> QED
      BY <3>3, <3>4
  <2>9. /\ LimitFields \subseteq DOMAIN t /\ t.pair = [s.pair EXCEPT ![i] = name]
        /\ t.lent = s.lent \cup {name} /\ t.over = s.over /\ t.queue = q
    BY <2>5 DEF LimitFields
  <2>10. GivesWay(s, i, t, name)
    BY <2>7, <2>8, <2>9 DEF GivesWay
  <2> QED
    BY <2>10
<1> QED
  BY <1>1, <1>2, <1>3

\* One name of a pair changed.
LEMMA OtherName ==
  ASSUME NEW pair, DOMAIN pair = 1 .. 2, NEW i \in 1 .. 2, NEW name,
         NEW other, other = [pair EXCEPT ![i] = name]
  PROVE  DOMAIN other = 1 .. 2 /\ other[i] = name /\ \A j \in 1 .. 2 : j # i => other[j] = pair[j]
OBVIOUS

\* Both places looked at.
LEMMA LimitedTwice ==
  ASSUME NEW pair, DOMAIN pair = 1 .. 2, NEW queue, Pool(queue),
         NEW s, s = [pair |-> pair, queue |-> queue, lent |-> {}, over |-> {}],
         NEW a, a = UnderTheLimit(s, 1), NEW b, b = UnderTheLimit(a, 2)
  PROVE  /\ LimitFields \subseteq DOMAIN b /\ DOMAIN b.pair = 1 .. 2 /\ b.over \subseteq {1, 2}
         /\ Pool(b.queue) /\ ToSet(b.queue) \subseteq ToSet(queue)
         /\ \A i \in 1 .. 2 : i \in b.over \/ InTheLimit(b.pair[i])
         /\ \A i \in 1 .. 2 : b.pair[i] = pair[i] \/ b.pair[i] \in ToSet(queue)
         /\ pair[1] # pair[2] /\ {pair[1], pair[2]} \cap ToSet(queue) = {} => b.pair[1] # b.pair[2]
<1>1. /\ LimitFields \subseteq DOMAIN s /\ s.pair = pair /\ s.queue = queue /\ s.lent = {}
      /\ s.over = {}
  BY DEF LimitFields
<1>2. 1 \in {1, 2} /\ 2 \in {1, 2} /\ \A i \in 1 .. 2 : i = 1 \/ i = 2
  OBVIOUS
<1>3. \A name : DayCount(name) + 1 <= inp.maxDaily => InTheLimit(name)
  BY DEF InTheLimit
<1>4. /\ LimitFields \subseteq DOMAIN a /\ DOMAIN a.pair = 1 .. 2 /\ a.over \subseteq {1}
      /\ Pool(a.queue) /\ ToSet(a.queue) \subseteq ToSet(queue)
      /\ 1 \in a.over \/ InTheLimit(a.pair[1])
      /\ a.pair[2] = pair[2]
      /\ a.pair[1] = pair[1] \/ (a.pair[1] \in ToSet(queue) /\ a.pair[1] \in a.lent)
  <2>1. CASE a = s /\ InTheLimit(s.pair[1])
    BY <1>1, <2>1
  <2>2. CASE Marked(s, 1, a)
    BY <1>1, <2>2 DEF Marked
  <2>3. ASSUME NEW name, GivesWay(s, 1, a, name)
        PROVE  /\ LimitFields \subseteq DOMAIN a /\ DOMAIN a.pair = 1 .. 2 /\ a.over \subseteq {1}
               /\ Pool(a.queue) /\ ToSet(a.queue) \subseteq ToSet(queue)
               /\ InTheLimit(a.pair[1]) /\ a.pair[2] = pair[2]
               /\ a.pair[1] \in ToSet(queue) /\ a.pair[1] \in a.lent
    <3>1. DOMAIN a.pair = 1 .. 2 /\ a.pair[1] = name /\ a.pair[2] = pair[2]
      <4>1. a.pair = [pair EXCEPT ![1] = name]
        BY <1>1, <2>3 DEF GivesWay
      <4>2. 1 \in 1 .. 2 /\ 2 \in 1 .. 2 /\ 2 # 1
        OBVIOUS
      <4> QED
        BY <4>1, <4>2, OtherName
    <3> QED
      BY <1>1, <1>3, <2>3, <3>1 DEF GivesWay
  <2> QED
    BY <1>1, <1>2, <2>1, <2>2, <2>3, LimitedOnce
<1>5. CASE b = a /\ InTheLimit(a.pair[2])
  BY <1>2, <1>4, <1>5
<1>6. CASE Marked(a, 2, b)
  BY <1>2, <1>4, <1>6 DEF Marked
<1>7. ASSUME NEW name, GivesWay(a, 2, b, name)
      PROVE  /\ LimitFields \subseteq DOMAIN b /\ DOMAIN b.pair = 1 .. 2 /\ b.over \subseteq {1, 2}
             /\ Pool(b.queue) /\ ToSet(b.queue) \subseteq ToSet(queue)
             /\ \A i \in 1 .. 2 : i \in b.over \/ InTheLimit(b.pair[i])
             /\ \A i \in 1 .. 2 : b.pair[i] = pair[i] \/ b.pair[i] \in ToSet(queue)
             /\ pair[1] # pair[2] /\ {pair[1], pair[2]} \cap ToSet(queue) = {} => b.pair[1] # b.pair[2]
  <2>1. DOMAIN b.pair = 1 .. 2 /\ b.pair[2] = name /\ b.pair[1] = a.pair[1]
    <3>1. b.pair = [a.pair EXCEPT ![2] = name]
      BY <1>7 DEF GivesWay
    <3>2. 1 \in 1 .. 2 /\ 2 \in 1 .. 2 /\ 1 # 2
      OBVIOUS
    <3> QED
      BY <1>4, <3>1, <3>2, OtherName
  <2>2. name \in ToSet(queue) /\ name \notin a.lent /\ InTheLimit(name)
    BY <1>3, <1>4, <1>7 DEF GivesWay
  <2>3. /\ LimitFields \subseteq DOMAIN b /\ b.over = a.over
        /\ Pool(b.queue) /\ ToSet(b.queue) \subseteq ToSet(queue)
    BY <1>4, <1>7 DEF GivesWay
  <2> QED
    BY <1>2, <1>4, <2>1, <2>2, <2>3
<1>8. \/ b = a /\ InTheLimit(a.pair[2])
      \/ Marked(a, 2, b)
      \/ \E name : GivesWay(a, 2, b, name)
  BY <1>2, <1>4, LimitedOnce
<1> QED
  BY <1>5, <1>6, <1>7, <1>8

\* Nobody at the limit carries the next round of a session.
LEMMA ExtensionNames ==
  ASSUME DOMAIN NextPair = 1 .. 2, NextPair[1] # NextPair[2], Pool(ext.queue),
         RegisteredPair.pair # Unbookable,
         NEW P, P = {NextPair[1], NextPair[2]}, NEW Q, Q = ToSet(ext.queue), NEW f, f = ExtensionPair.pair
  PROVE  /\ Pool(ExtensionPair.queue) /\ ToSet(ExtensionPair.queue) \subseteq Q
         /\ f # Unbookable =>
              /\ DOMAIN f = 1 .. 2
              /\ \A i \in 1 .. 2 : f[i] = inp.joker \/ f[i] \in P \cup Q
              /\ \A i \in 1 .. 2 : f[i] = inp.joker \/ f[i] \notin inp.unregistered \/ f[i] \in Q
              /\ \A i \in 1 .. 2 : InTheLimit(f[i])
              /\ inp.joker \notin P \cup Q /\ P \cap Q = {} => f[1] # inp.joker /\ f[1] # f[2]
<1>1. PICK r, J, U : r = RegisteredPair /\ J = inp.joker /\ U = inp.unregistered
  OBVIOUS
<1>2. PICK pair, queue : pair = NextPair /\ queue = ext.queue
  OBVIOUS
<1>3. Standing(pair, queue, U, J, r.pair, r.queue)
  <2>1. CASE ToSet(pair) \cap U = {}
    <3>1. r = [pair |-> pair, queue |-> queue]
      BY <1>1, <1>2, <2>1 DEF RegisteredPair
    <3>2. r.pair = pair /\ r.queue = queue
      BY <3>1
    <3>3. pair[1] \notin U /\ pair[2] \notin U
      BY <1>2, <2>1 DEF ToSet
    <3>4. \A i \in 1 .. 2 : i = 1 \/ i = 2
      OBVIOUS
    <3>5. Pool(queue) /\ DOMAIN pair = 1 .. 2
      BY <1>2
    <3> QED
      BY <3>2, <3>3, <3>4, <3>5 DEF Standing
  <2>2. CASE ToSet(pair) \cap U # {}
    <3>1. r = ResolveBookablePair(pair, U, queue, J)
      BY <1>1, <1>2, <2>2 DEF RegisteredPair, Registered
    <3>2. Pool(queue) /\ DOMAIN pair = 1 .. 2 /\ r.pair # Unbookable
      BY <1>1, <1>2
    <3> QED
      BY <3>1, <3>2, ResolvedNames
  <2> QED
    BY <2>1, <2>2
<1>4. PICK p, q : p = r.pair /\ q = r.queue
  OBVIOUS
<1>5. PICK s : s = [pair |-> p, queue |-> q, lent |-> {}, over |-> {}]
  OBVIOUS
<1>6. PICK a : a = UnderTheLimit(s, 1)
  OBVIOUS
<1>7. PICK b : b = UnderTheLimit(a, 2)
  OBVIOUS
<1>8. /\ DOMAIN p = 1 .. 2 /\ Pool(q) /\ ToSet(q) \subseteq Q
      /\ \A i \in 1 .. 2 : p[i] = J \/ (p[i] \notin U /\ p[i] \in P \cup (Q \ ToSet(q)))
      /\ p[1] # p[2] /\ (p[1] = J => J \in P \cup Q)
  BY <1>2, <1>3, <1>4 DEF Standing
<1>9. /\ LimitFields \subseteq DOMAIN b /\ DOMAIN b.pair = 1 .. 2 /\ b.over \subseteq {1, 2}
      /\ Pool(b.queue) /\ ToSet(b.queue) \subseteq ToSet(q)
      /\ \A i \in 1 .. 2 : i \in b.over \/ InTheLimit(b.pair[i])
      /\ \A i \in 1 .. 2 : b.pair[i] = p[i] \/ b.pair[i] \in ToSet(q)
      /\ p[1] # p[2] /\ {p[1], p[2]} \cap ToSet(q) = {} => b.pair[1] # b.pair[2]
  BY <1>5, <1>6, <1>7, <1>8, LimitedTwice
<1>10. PICK blocked : blocked = {b.pair[i] : i \in b.over}
  OBVIOUS
<1>11. PICK c : c = ResolveBookablePair(b.pair, blocked, << >>, J)
  OBVIOUS
<1>12. ExtensionPair = IF b.over = {} THEN [pair |-> b.pair, queue |-> b.queue]
                       ELSE [pair |-> c.pair, queue |-> b.queue]
  BY <1>1, <1>4, <1>5, <1>6, <1>7, <1>10, <1>11 DEF ExtensionPair
<1>13. /\ ExtensionPair.queue = b.queue
       /\ (b.over = {} /\ f = b.pair) \/ (b.over # {} /\ f = c.pair)
  <2>1. CASE b.over = {}
    BY <1>12, <2>1
  <2>2. CASE b.over # {}
    BY <1>12, <2>2
  <2> QED
    BY <2>1, <2>2
<1>14. 1 \in 1 .. 2 /\ 2 \in 1 .. 2 /\ \A i \in 1 .. 2 : i = 1 \/ i = 2
  OBVIOUS
<1>15. \A i \in 1 .. 2 : b.pair[i] = J \/ b.pair[i] \in P \cup Q
  BY <1>8, <1>9
<1>16. \A i \in 1 .. 2 : b.pair[i] = J \/ b.pair[i] \notin U \/ b.pair[i] \in Q
  BY <1>8, <1>9
<1>17. ASSUME J \notin P \cup Q, P \cap Q = {} PROVE b.pair[1] # J /\ b.pair[1] # b.pair[2]
  <2>1. {p[1], p[2]} \cap ToSet(q) = {}
    BY <1>8, <1>14, <1>17
  <2>2. b.pair[1] # J
    BY <1>8, <1>9, <1>14, <1>17
  <2> QED
    BY <1>8, <1>9, <2>1, <2>2
<1>18. ASSUME b.over = {}, f = b.pair
       PROVE  /\ DOMAIN f = 1 .. 2
              /\ \A i \in 1 .. 2 : f[i] = J \/ f[i] \in P \cup Q
              /\ \A i \in 1 .. 2 : f[i] = J \/ f[i] \notin U \/ f[i] \in Q
              /\ \A i \in 1 .. 2 : InTheLimit(f[i])
              /\ J \notin P \cup Q /\ P \cap Q = {} => f[1] # J /\ f[1] # f[2]
  BY <1>9, <1>15, <1>16, <1>17, <1>18
<1>19. ASSUME b.over # {}, f = c.pair, f # Unbookable
       PROVE  /\ DOMAIN f = 1 .. 2
              /\ \A i \in 1 .. 2 : f[i] = J \/ f[i] \in P \cup Q
              /\ \A i \in 1 .. 2 : f[i] = J \/ f[i] \notin U \/ f[i] \in Q
              /\ \A i \in 1 .. 2 : InTheLimit(f[i])
              /\ J \notin P \cup Q /\ P \cap Q = {} => f[1] # J /\ f[1] # f[2]
  <2>1. PICK e, d : e = << >> /\ d = b.pair
    OBVIOUS
  <2>2. Pool(e) /\ ToSet(e) = {} /\ DOMAIN d = 1 .. 2
    BY <1>9, <2>1, EmptyHas, DistinctEmpty, HoldsEmpty DEF Pool
  <2>3. c = ResolveBookablePair(d, blocked, e, J) /\ c.pair # Unbookable
    BY <1>11, <1>19, <2>1
  <2>4. Standing(d, e, blocked, J, f, c.queue)
    BY <1>19, <2>2, <2>3, ResolvedNames
  <2>5. \A i \in 1 .. 2 : f[i] = J \/ (f[i] \notin blocked /\ (f[i] = d[1] \/ f[i] = d[2]))
    BY <2>2, <2>4 DEF Standing
  <2>6. ASSUME NEW i \in 1 .. 2, f[i] # J PROVE \E n \in 1 .. 2 : n \notin b.over /\ f[i] = b.pair[n]
    BY <1>10, <1>14, <2>1, <2>5, <2>6
  <2>7. InTheLimit(J)
    BY <1>1 DEF InTheLimit
  <2>8. \A i \in 1 .. 2 : InTheLimit(f[i])
    BY <1>9, <2>6, <2>7
  <2>9. DOMAIN f = 1 .. 2 /\ (f[1] = J => d[1] = J) /\ (d[1] # d[2] => f[1] # f[2])
    BY <2>2, <2>4 DEF Standing
  <2> QED
    BY <1>15, <1>16, <1>17, <2>1, <2>6, <2>8, <2>9
<1> QED
  BY <1>1, <1>8, <1>9, <1>13, <1>18, <1>19

\* The players left over by the first pairs, the rotator last.
LEMMA OverflowIs ==
  ASSUME NEW players, IsList(players), NEW n \in Nat, n = Len(players) \div 2,
         NEW base \in Nat, base <= n,
         NEW over, over = FlattenSeq(SubSeq(PairsOf(players), base + 1, n)) \o RotatorsOf(players)
  PROVE  /\ Len(over) \in Nat
         /\ \A k \in 1 .. Len(over) : over[k] = players[2 * base + k] /\ 2 * base + k \in DOMAIN players
<1>1. PICK l \in Nat : l = Len(players) /\ DOMAIN players = 1 .. l
  BY ListHas
<1>2. n = l \div 2
  BY <1>1
<1>3. PICK pairs : pairs = PairsOf(players)
  OBVIOUS
<1>4. /\ pairs = [i \in 1 .. n |-> pairs[i]]
      /\ \A i \in 1 .. n : pairs[i] = <<players[2 * i - 1], players[2 * i]>>
  BY <1>1, <1>2, <1>3 DEF PairsOf
<1>5. IsList(pairs) /\ Len(pairs) = n
  BY <1>4, ListFrom
<1>6. PICK c \in Nat : c = n - base
  <2>1. n - base \in Nat
    OBVIOUS
  <2> QED
    BY <2>1
<1>7. PICK seqs : seqs = SubSeq(pairs, base + 1, n)
  OBVIOUS
<1>8. /\ IsList(seqs) /\ Len(seqs) = c
      /\ \A i \in 1 .. c : seqs[i] = <<players[2 * (base + i) - 1], players[2 * (base + i)]>>
  <2>1. base + 1 \in Nat \ {0} /\ n \in Int /\ n <= Len(pairs)
    BY <1>5
  <2>2. /\ IsList(seqs) /\ DOMAIN seqs = 1 .. (n - (base + 1) + 1)
        /\ \A k \in 1 .. (n - (base + 1) + 1) : seqs[k] = pairs[(base + 1) + k - 1]
    BY <1>5, <1>7, <2>1, PartHas
  <2>3. n - (base + 1) + 1 = c /\ \A k \in 1 .. c : (base + 1) + k - 1 = base + k /\ base + k \in 1 .. n
    BY <1>6
  <2>4. Len(seqs) = c
    <3>1. DOMAIN seqs = 1 .. c /\ DOMAIN seqs = 1 .. Len(seqs) /\ Len(seqs) \in Nat
      BY <2>2, <2>3, ListHas
    <3> QED
      BY <3>1
  <2> QED
    BY <1>4, <2>2, <2>3, <2>4
<1>9. PICK f : f = FlattenSeq(seqs)
  OBVIOUS
<1>10. PICK m \in Nat : m = 2 * c
  OBVIOUS
<1>11. PICK d \in Nat : d = 2 * base
  OBVIOUS
<1>12. IsList(f) /\ Len(f) = m /\ DOMAIN f = 1 .. m /\ \A k \in 1 .. m : f[k] = players[d + k]
  <2>1. PairsFrom(players, base, c, seqs)
    BY <1>8 DEF PairsFrom
  <2>2. PlayersFrom(players, base, c, f)
    BY <1>9, <2>1, FlattenedPairs
  <2>3. IsList(f) /\ Len(f) = m /\ \A k \in 1 .. m : f[k] = players[d + k]
    BY <1>10, <1>11, <2>2 DEF PlayersFrom
  <2> QED
    BY <2>3, ListHas
<1>13. PICK r : r = RotatorsOf(players)
  OBVIOUS
<1>14. over = f \o r
  BY <1>3, <1>7, <1>9, <1>13
<1>15. d + m = 2 * n
  BY <1>6, <1>10, <1>11
<1>16. CASE l % 2 = 1
  <2>1. r = <<players[l]>>
    BY <1>1, <1>13, <1>16 DEF RotatorsOf, Last
  <2>2. r = [i \in 1 .. 1 |-> r[i]] /\ r[1] = players[l] /\ DOMAIN r = 1 .. 1
    BY <2>1
  <2>3. IsList(r) /\ Len(r) = 1
    BY <2>2, ListFrom
  <2>4. Joined(f, r, over)
    BY <1>12, <1>14, <2>3, ConcatHas
  <2>5. Len(over) = m + 1 /\ over[m + 1] = players[l] /\ \A k \in 1 .. m : over[k] = f[k]
    BY <1>12, <2>2, <2>3, <2>4 DEF Joined
  <2>6. d + (m + 1) = l
    BY <1>2, <1>15, <1>16
  <2>7. ASSUME NEW k \in 1 .. (m + 1)
        PROVE  over[k] = players[d + k] /\ d + k \in 1 .. l
    <3>1. CASE k = m + 1
      <4>1. over[k] = players[l] /\ d + k = l
        BY <2>5, <2>6, <3>1
      <4>2. l \in 1 .. l
        BY <1>16
      <4> QED
        BY <4>1, <4>2
    <3>2. CASE k # m + 1
      <4>1. k \in 1 .. m /\ d + k \in 1 .. l
        BY <2>6, <3>2
      <4> QED
        BY <1>12, <2>5, <4>1
    <3> QED
      BY <3>1, <3>2
  <2> QED
    BY <1>1, <1>11, <2>5, <2>7
<1>17. CASE l % 2 # 1
  <2>1. r = << >>
    BY <1>1, <1>13, <1>17 DEF RotatorsOf
  <2>2. IsList(r) /\ Len(r) = 0
    BY <2>1, EmptyHas
  <2>3. Joined(f, r, over)
    BY <1>12, <1>14, <2>2, ConcatHas
  <2>4. Len(over) = m /\ \A k \in 1 .. m : over[k] = f[k]
    <3>1. Len(over) = m + 0 /\ m + 0 = m
      BY <1>12, <2>2, <2>3 DEF Joined
    <3>2. \A k \in DOMAIN f : over[k] = f[k]
      BY <2>3 DEF Joined
    <3> QED
      BY <1>12, <3>1, <3>2
  <2>5. d + m = l
    BY <1>2, <1>15, <1>17
  <2>6. ASSUME NEW k \in 1 .. m PROVE d + k \in 1 .. l
    BY <2>5
  <2>7. \A k \in 1 .. m : over[k] = players[d + k] /\ d + k \in 1 .. l
    BY <1>12, <2>4, <2>6
  <2> QED
    BY <1>1, <1>11, <2>4, <2>7
<1> QED
  BY <1>16, <1>17

\* Groups of two or three players, each of them in one group, for the rounds they need.
GroupsApart(groups, players, slots) ==
  /\ \A g \in DOMAIN groups :
       /\ Distinct(groups[g].members) /\ ToSet(groups[g].members) \subseteq ToSet(players)
       /\ groups[g].rounds = ComputeRoundsNeeded(groups[g].members, slots)
  /\ \A g, h \in DOMAIN groups :
       g # h => ToSet(groups[g].members) \cap ToSet(groups[h].members) = {}

LEMMA GroupsSeats ==
  ASSUME NEW players, IsList(players), Distinct(players), NEW maxPlayers, NEW target \in Nat,
         NEW slots, \A p \in DOMAIN slots : slots[p] \in Nat,
         NEW groups, groups = BuildGroupsForBooking(players, maxPlayers, target, slots)
  PROVE  GroupsApart(groups, players, slots)
<1> DEFINE pairs == PairsOf(players)
           base == Min({target, Len(pairs)})
           overflow == FlattenSeq(SubSeq(pairs, base + 1, Len(pairs))) \o RotatorsOf(players)
           room == Min({maxPlayers, MAX_PLAYERS_PER_COURT_GROUP}) >= 3
           members(i) == IF room /\ i <= Len(overflow) THEN Append(pairs[i], overflow[i]) ELSE pairs[i]
           ordered(i) == OrderMembersByDemand(members(i), slots)
<1>1. groups = [i \in 1 .. base |->
                  [members |-> ordered(i), rounds |-> ComputeRoundsNeeded(ordered(i), slots)]]
  BY DEF BuildGroupsForBooking
<1>2. PICK l \in Nat : l = Len(players) /\ DOMAIN players = 1 .. l
  BY ListHas
<1>3. PICK n \in Nat : n = l \div 2 /\ n = Len(players) \div 2 /\ 2 * n <= l
  BY <1>2
<1>4. pairs = [i \in 1 .. n |-> pairs[i]] /\ \A i \in 1 .. n : pairs[i] = <<players[2 * i - 1], players[2 * i]>>
  BY <1>3 DEF PairsOf
<1> HIDE DEF pairs
<1>5. Len(pairs) = n
  BY <1>4, ListFrom
<1>6. base \in Nat /\ base <= n
  <2>1. {target, n} \subseteq Nat /\ {target, n} # {}
    OBVIOUS
  <2> QED
    BY <1>5, <2>1, MinType
<1> HIDE DEF base
<1>7. /\ Len(overflow) \in Nat
      /\ \A k \in 1 .. Len(overflow) : overflow[k] = players[2 * base + k] /\ 2 * base + k \in DOMAIN players
  BY <1>3, <1>5, <1>6, OverflowIs DEF pairs
<1> HIDE DEF overflow, room
\* The places of the players of a group.
<1> DEFINE seats(i) == {2 * i - 1, 2 * i} \cup (IF i <= Len(overflow) THEN {2 * base + i} ELSE {})
<1>8. ASSUME NEW i \in 1 .. base
      PROVE  /\ IsList(members(i)) /\ Distinct(members(i))
             /\ \A x \in ToSet(members(i)) : \E k \in seats(i) : k \in 1 .. l /\ x = players[k]
  <2>1. PICK pair : pair = pairs[i]
    OBVIOUS
  <2>2. pair = <<players[2 * i - 1], players[2 * i]>> /\ i \in Nat /\ i >= 1
    BY <1>4, <1>6, <2>1
  <2>3. DOMAIN pair = 1 .. 2 /\ pair = [j \in 1 .. 2 |-> pair[j]]
        /\ pair[1] = players[2 * i - 1] /\ pair[2] = players[2 * i]
    BY <2>2
  <2>4. IsList(pair) /\ Len(pair) = 2
    BY <2>3, ListFrom
  <2>5. 2 * i - 1 \in 1 .. l /\ 2 * i \in 1 .. l /\ 2 * i - 1 # 2 * i
    BY <1>3, <1>6
  <2>6. pair[1] # pair[2]
    BY <1>2, <2>3, <2>5 DEF Distinct
  <2>7. \A j \in 1 .. 2 : j = 1 \/ j = 2
    OBVIOUS
  <2>8. Distinct(pair)
    BY <2>3, <2>6, <2>7 DEF Distinct
  <2>9. \A x \in ToSet(pair) : \E k \in seats(i) : k \in 1 .. l /\ x = players[k]
    BY <2>3, <2>5, <2>7 DEF ToSet
  <2>10. CASE room /\ i <= Len(overflow)
    <3>1. PICK more : more = Append(pair, overflow[i])
      OBVIOUS
    <3>2. Appended(pair, overflow[i], more)
      BY <2>4, <3>1, AppendHas
    <3>3. i \in 1 .. Len(overflow)
      BY <1>7, <2>2, <2>10
    <3>4. overflow[i] = players[2 * base + i] /\ 2 * base + i \in 1 .. l
      BY <1>2, <1>7, <3>3
    <3>5. 2 * base + i # 2 * i /\ 2 * base + i # 2 * i - 1
      BY <1>6
    <3>6. overflow[i] # pair[1] /\ overflow[i] # pair[2]
      BY <1>2, <2>3, <2>5, <3>4, <3>5 DEF Distinct
    <3>7. /\ IsList(more) /\ DOMAIN more = 1 .. 3 /\ more[1] = pair[1] /\ more[2] = pair[2]
          /\ more[3] = overflow[i]
      BY <2>3, <2>4, <3>2 DEF Appended
    <3>8. \A j \in 1 .. 3 : j = 1 \/ j = 2 \/ j = 3
      OBVIOUS
    <3>9. Distinct(more)
      BY <2>6, <3>6, <3>7, <3>8 DEF Distinct
    <3>10. \A x \in ToSet(more) : x = pair[1] \/ x = pair[2] \/ x = overflow[i]
      BY <3>7, <3>8 DEF ToSet
    <3>11. \A x \in ToSet(more) : \E k \in seats(i) : k \in 1 .. l /\ x = players[k]
      BY <2>3, <2>5, <2>10, <3>4, <3>10
    <3>12. members(i) = more
      BY <2>1, <2>10, <3>1
    <3> HIDE DEF members, seats
    <3> QED
      BY <3>7, <3>9, <3>11, <3>12
  <2>11. CASE ~(room /\ i <= Len(overflow))
    <3>1. members(i) = pair
      BY <2>1, <2>11
    <3> HIDE DEF members, seats
    <3> QED
      BY <2>4, <2>8, <2>9, <3>1
  <2> QED
    BY <2>10, <2>11
<1>9. ASSUME NEW i \in 1 .. base, NEW j \in 1 .. base, i # j, NEW k \in seats(i), k \in seats(j) PROVE FALSE
  BY <1>6, <1>9
<1> HIDE DEF members, seats
<1>10. ASSUME NEW i \in 1 .. base
       PROVE  /\ Distinct(ordered(i)) /\ ToSet(ordered(i)) \subseteq ToSet(members(i))
  <2>1. PICK m : m = members(i)
    OBVIOUS
  <2>2. IsList(m) /\ Distinct(m)
    BY <1>8, <2>1
  <2>3. Distinct(OrderMembersByDemand(m, slots)) /\ ToSet(OrderMembersByDemand(m, slots)) \subseteq ToSet(m)
    BY <2>2, OrderedIs, OrderedOnce
  <2> QED
    BY <2>1, <2>3
<1> HIDE DEF ordered
<1>11. /\ DOMAIN groups = 1 .. base
       /\ \A i \in 1 .. base : /\ groups[i].members = ordered(i)
                               /\ groups[i].rounds = ComputeRoundsNeeded(groups[i].members, slots)
  BY <1>1
<1>12. ASSUME NEW i \in 1 .. base, NEW j \in 1 .. base, i # j
       PROVE  ToSet(members(i)) \cap ToSet(members(j)) = {}
  <2>1. ASSUME NEW x \in ToSet(members(i)), x \in ToSet(members(j)) PROVE FALSE
    <3>1. PICK k \in seats(i) : k \in 1 .. l /\ x = players[k]
      BY <1>8
    <3>2. PICK m \in seats(j) : m \in 1 .. l /\ x = players[m]
      BY <1>8, <2>1
    <3>3. k = m
      BY <1>2, <3>1, <3>2 DEF Distinct
    <3> QED
      BY <1>9, <1>12, <3>2, <3>3
  <2> QED
    BY <2>1
<1>13. \A i \in 1 .. base : ToSet(members(i)) \subseteq ToSet(players)
  BY <1>2, <1>8 DEF ToSet
<1> QED
  BY <1>10, <1>11, <1>12, <1>13 DEF GroupsApart

-----------------------------------------------------------------------------
(* Who is seated: the players of an hour, the volunteers it may still ask,   *)
(* and the members of the sessions.                                         *)

Lendable == ToSet(inp.lenders) \ (mobilised \cup ToSet(Confirmed))
Reserve(queue) == Pool(queue) /\ ToSet(queue) \subseteq Lendable
Team(members) == IsList(members) /\ Distinct(members) /\ ToSet(members) \subseteq Voters

SeatFields == CountFields \cup {"needed", "common"}
\* The players in their order, and what follows from it: more pairs than courts queue, the others
\* form groups.
SeatsOk(w) ==
  /\ SeatFields \subseteq DOMAIN w
  /\ w.players = PrioritizePlayers(Confirmed, inp.priorityBookers)
  /\ w.needed \in Nat /\ w.needed <= inp.maxCourts
  /\ ~w.common => Len(w.players) \div 2 > w.needed
  /\ w.common => w.groups = BuildGroupsForBooking(w.players, inp.maxPlayers, w.needed, inp.minSlots)
\* The volunteers, the rotating player, and the courts that may be joined.
AsideOk(w) ==
  /\ Reserve(w.queue)
  /\ IsList(w.left) /\ Distinct(w.left) /\ ToSet(w.left) \subseteq ToSet(Confirmed)
  /\ \A k \in DOMAIN w.open : Team(w.open[k].members)

SeatInv ==
  /\ work # Idle => SeatsOk(work) /\ AsideOk(work)
  /\ \A k \in DOMAIN sessions : Team(sessions[k].members)
  /\ ext # NoExt => Team(ext.members) /\ Team(ext.session.members) /\ Reserve(ext.queue)
  /\ pc = "timeline" => work.common
  /\ pc \in {"round", "place", "rotate"} \/ (pc = "extend" /\ work # Idle) => ~work.common

\* Volunteers who play nowhere and have lent their name to nobody.
LEMMA EligibleReserve == ASSUME EveningOk(inp) PROVE Reserve(Eligible)
<1> DEFINE numbers == {i \in DOMAIN inp.lenders : inp.lenders[i] \notin mobilised \cup ToSet(Confirmed)}
<1>1. numbers \subseteq DOMAIN inp.lenders /\ IsList(inp.lenders) /\ Distinct(inp.lenders)
  BY DEF EveningOk
<1>2. Eligible = Picked(inp.lenders, numbers)
  BY DEF Eligible
<1>3. \A i \in numbers : inp.lenders[i] \in Lendable
  BY DEF Lendable, ToSet
<1> HIDE DEF numbers
<1>4. PICK q : q = Eligible
  OBVIOUS
<1>5. IsList(q) /\ Distinct(q) /\ ToSet(q) = {inp.lenders[i] : i \in numbers}
  BY <1>1, <1>2, <1>4, PickedIs, DistinctPicked
<1>6. Reserve(q)
  BY <1>3, <1>5 DEF Reserve, Pool
<1> QED
  BY <1>4, <1>6

\* The players of an hour are there once.
LEMMA ConfirmedIs ==
  ASSUME EveningOk(inp), Hour \in DOMAIN inp.hours
  PROVE  IsList(Confirmed) /\ Distinct(Confirmed) /\ ToSet(Confirmed) \subseteq Voters
                           /\ ToSet(Confirmed) \subseteq Names
<1>1. IsList(Confirmed) /\ Distinct(Confirmed)
  BY DEF EveningOk, Separate, Confirmed
<1>2. ToSet(Confirmed) \subseteq Voters
  BY DEF Voters, Confirmed
<1>3. ToSet(Confirmed) \subseteq Names
  BY DEF EveningOk, Confirmed, Names
<1> QED
  BY <1>1, <1>2, <1>3

\* The same while the hour is being planned.
LEMMA HourSame ==
  ASSUME UNCHANGED <<inp, plans>>
  PROVE  /\ Hour' = Hour /\ Start' = Start /\ Confirmed' = Confirmed /\ Voters' = Voters /\ Names' = Names
         /\ mobilised' = mobilised => Lendable' = Lendable
<1>1. Hour' = Hour
  BY DEF Hour
<1>2. Confirmed' = Confirmed /\ Start' = Start
  BY <1>1 DEF Confirmed, Start
<1> QED
  BY <1>1, <1>2 DEF Voters, Names, Lendable

\* An attempt seats the players in the order of priority.
LEMMA AttemptSeats ==
  ASSUME EveningOk(inp), NEW number, NEW preferMin, NEW former,
         NEW w, w = Attempt(number, preferMin, former)
  PROVE  SeatsOk(w) /\ AsideOk(w)
<1> DEFINE players == PrioritizePlayers(Confirmed, inp.priorityBookers)
           raw == CourtsNeededForPlayers(Len(players), preferMin)
           needed == Min({raw, SQUASH_COURT_COUNT, inp.maxCourts})
           common == UseCommonCase(Len(players) \div 2, needed, inp.maxPlayers)
<1>1. PICK e : e = << >>
  OBVIOUS
<1>2. /\ SeatFields \subseteq DOMAIN w /\ w.players = players /\ w.queue = Eligible
      /\ w.needed = needed /\ w.common = common /\ w.left = e /\ w.open = e
      /\ w.common => w.groups = BuildGroupsForBooking(players, inp.maxPlayers, needed, inp.minSlots)
  BY <1>1 DEF Attempt, SeatFields, CountFields
<1>3. IsList(e) /\ DOMAIN e = {} /\ Distinct(e) /\ ToSet(e) = {}
  BY <1>1, EmptyHas, DistinctEmpty, HoldsEmpty
<1>4. Reserve(Eligible)
  BY EligibleReserve
<1>5. AsideOk(w)
  BY <1>2, <1>3, <1>4 DEF AsideOk
<1>6. Len(players) \in Nat
  BY PlayersCounted
<1> HIDE DEF players
<1>7. raw \in Nat
  BY <1>6, CourtsCounted
<1> HIDE DEF raw
<1>8. needed \in Nat /\ needed <= inp.maxCourts
  <2>1. {raw, SQUASH_COURT_COUNT, inp.maxCourts} \subseteq Nat
    BY <1>7 DEF SQUASH_COURT_COUNT, EveningOk
  <2> QED
    BY <2>1, MinType
<1> HIDE DEF needed
<1>9. ~common => Len(players) \div 2 > needed
  <2>1. PICK n \in Nat : n = Len(players) \div 2
    BY <1>6, HalfIs
  <2> QED
    BY <1>8, <2>1 DEF UseCommonCase
<1> HIDE DEF common
<1>10. SeatsOk(w)
  BY <1>2, <1>8, <1>9 DEF SeatsOk, players
<1> QED
  BY <1>5, <1>10

\* A plan begins with everybody seated.
LEMMA BeginSeats ==
  ASSUME EveningOk(inp), SeatInv, NEW number, NEW preferMin, NEW former,
         Begin(Attempt(number, preferMin, former)), ext = NoExt,
         UNCHANGED <<inp, plans, sessions, mobilised, ext>>
  PROVE  SeatInv'
<1>1. SeatsOk(work') /\ AsideOk(work')
  BY AttemptSeats DEF Begin
<1>2. pc' \in {"accept", "timeline", "round"} /\ (pc' = "timeline" => work'.common)
      /\ (pc' = "round" => ~work'.common)
  BY DEF Begin
<1>3. /\ Hour' = Hour /\ Start' = Start /\ Confirmed' = Confirmed /\ Voters' = Voters /\ Lendable' = Lendable
  BY HourSame
<1>4. \A k \in DOMAIN sessions : Team(sessions[k].members)
  BY DEF SeatInv
<1> QED
  BY <1>1, <1>2, <1>3, <1>4 DEF SeatInv, SeatsOk, AsideOk, Reserve, Team

\* A step within the hour keeps the seats.
LEMMA SeatsKeep ==
  ASSUME SeatInv, HourInv, UNCHANGED <<inp, plans, sessions, mobilised, ext>>, ext = NoExt,
         work # Idle, DOMAIN work' = DOMAIN work, work'.players = work.players,
         work'.needed = work.needed, work'.common = work.common, work'.groups = work.groups,
         AsideOk(work'), pc' = "timeline" => work.common,
         pc' \in {"round", "place", "rotate", "extend"} => ~work.common
  PROVE  SeatInv'
<1>1. /\ Confirmed' = Confirmed /\ Voters' = Voters /\ Lendable' = Lendable
  BY HourSame
<1>2. SeatsOk(work') /\ AsideOk(work')
  BY DEF SeatInv, SeatsOk
<1>3. \A k \in DOMAIN sessions : Team(sessions[k].members)
  BY DEF SeatInv
<1> QED
  BY <1>1, <1>2, <1>3 DEF SeatInv, SeatsOk, AsideOk, Reserve, Team

\* Steps that leave the queue, the rotating player and the courts to be joined as they are.
LEMMA AsideKeeps ==
  ASSUME NEW w, AsideOk(w), NEW v, v.queue = w.queue, v.left = w.left, v.open = w.open
  PROVE  AsideOk(v)
BY DEF AsideOk

LEMMA SkipTimeSeats == ASSUME SeatInv, HourInv, SkipTime PROVE SeatInv'
<1>1. /\ pc = "timeline" /\ pc' = pc /\ UNCHANGED <<inp, plans, sessions, mobilised, ext>>
      /\ work' = [work EXCEPT !.t = @ + 1]
  BY DEF SkipTime
<1>2. work # Idle /\ ext = NoExt
  BY <1>1 DEF HourInv, StageOk
<1>3. SeatsOk(work) /\ AsideOk(work) /\ work.common
  BY <1>1, <1>2 DEF SeatInv
<1>4. /\ DOMAIN work' = DOMAIN work /\ work'.players = work.players /\ work'.needed = work.needed
      /\ work'.common = work.common /\ work'.groups = work.groups
      /\ work'.queue = work.queue /\ work'.left = work.left /\ work'.open = work.open
  BY <1>1
<1>5. AsideOk(work')
  BY <1>3, <1>4, AsideKeeps
<1> QED
  BY <1>1, <1>2, <1>3, <1>4, <1>5, SeatsKeep

LEMMA NextGroupSeats == ASSUME SeatInv, HourInv, NextGroup PROVE SeatInv'
<1>1. PICK group :
        /\ pc = "timeline" /\ pc' = pc /\ UNCHANGED <<inp, plans, sessions, mobilised, ext>>
        /\ work' = [work EXCEPT !.g = @ + 1, !.t = Start, !.court = 0, !.courtGroups = Append(@, group)]
  BY DEF NextGroup
<1>2. work # Idle /\ ext = NoExt
  BY <1>1 DEF HourInv, StageOk
<1>3. SeatsOk(work) /\ AsideOk(work) /\ work.common
  BY <1>1, <1>2 DEF SeatInv
<1>4. /\ DOMAIN work' = DOMAIN work /\ work'.players = work.players /\ work'.needed = work.needed
      /\ work'.common = work.common /\ work'.groups = work.groups
      /\ work'.queue = work.queue /\ work'.left = work.left /\ work'.open = work.open
  BY <1>1
<1>5. AsideOk(work')
  BY <1>3, <1>4, AsideKeeps
<1> QED
  BY <1>1, <1>2, <1>3, <1>4, <1>5, SeatsKeep

LEMMA FindRoundSeats == ASSUME SeatInv, HourInv, FindRound PROVE SeatInv'
<1>1. PICK batch, t :
        /\ pc = "round" /\ pc' = "place" /\ UNCHANGED <<inp, plans, sessions, mobilised, ext>>
        /\ work' = [work EXCEPT !.batch = batch, !.taken = @ \cup {t}, !.rounds = @ + 1]
  BY DEF FindRound
<1>2. work # Idle /\ ext = NoExt
  BY <1>1 DEF HourInv, StageOk
<1>3. SeatsOk(work) /\ AsideOk(work) /\ ~work.common
  BY <1>1, <1>2 DEF SeatInv
<1>4. /\ DOMAIN work' = DOMAIN work /\ work'.players = work.players /\ work'.needed = work.needed
      /\ work'.common = work.common /\ work'.groups = work.groups
      /\ work'.queue = work.queue /\ work'.left = work.left /\ work'.open = work.open
  BY <1>1
<1>5. AsideOk(work')
  BY <1>3, <1>4, AsideKeeps
<1> QED
  BY <1>1, <1>2, <1>3, <1>4, <1>5, SeatsKeep

LEMMA NextLayerSeats == ASSUME SeatInv, HourInv, NextLayer PROVE SeatInv'
<1>1. /\ pc = "round" /\ pc' = pc /\ UNCHANGED <<inp, plans, sessions, mobilised, ext>>
      /\ work' = [work EXCEPT !.layer = @ + 1, !.cursor = 1, !.rounds = 0, !.taken = {}]
  BY DEF NextLayer
<1>2. work # Idle /\ ext = NoExt
  BY <1>1 DEF HourInv, StageOk
<1>3. SeatsOk(work) /\ AsideOk(work) /\ ~work.common
  BY <1>1, <1>2 DEF SeatInv
<1>4. /\ DOMAIN work' = DOMAIN work /\ work'.players = work.players /\ work'.needed = work.needed
      /\ work'.common = work.common /\ work'.groups = work.groups
      /\ work'.queue = work.queue /\ work'.left = work.left /\ work'.open = work.open
  BY <1>1
<1>5. AsideOk(work')
  BY <1>3, <1>4, AsideKeeps
<1> QED
  BY <1>1, <1>2, <1>3, <1>4, <1>5, SeatsKeep

LEMMA RotationDoneSeats == ASSUME SeatInv, HourInv, RotationDone PROVE SeatInv'
<1>1. PICK grown :
        /\ pc = "rotate" /\ pc' = "accept" /\ UNCHANGED <<inp, plans, sessions, mobilised, ext>>
        /\ work' = [work EXCEPT !.courtGroups = grown]
  BY DEF RotationDone
<1>2. work # Idle /\ ext = NoExt
  BY <1>1 DEF HourInv, StageOk
<1>3. SeatsOk(work) /\ AsideOk(work) /\ ~work.common
  BY <1>1, <1>2 DEF SeatInv
<1>4. /\ DOMAIN work' = DOMAIN work /\ work'.players = work.players /\ work'.needed = work.needed
      /\ work'.common = work.common /\ work'.groups = work.groups
      /\ work'.queue = work.queue /\ work'.left = work.left /\ work'.open = work.open
  BY <1>1
<1>5. AsideOk(work')
  BY <1>3, <1>4, AsideKeeps
<1> QED
  BY <1>1, <1>2, <1>3, <1>4, <1>5, SeatsKeep

\* From one loop to the next.
LEMMA LoopsSeats == ASSUME SeatInv, HourInv, GroupsDone \/ RoundPlaced PROVE SeatInv'
<1>1. /\ UNCHANGED <<inp, plans, sessions, mobilised, work, ext>>
      /\ \/ pc = "timeline" /\ pc' = "accept"
         \/ pc = "place" /\ pc' = "round"
  BY DEF GroupsDone, RoundPlaced
<1>2. work # Idle /\ ext = NoExt
  BY <1>1 DEF HourInv, StageOk
<1>3. SeatsOk(work) /\ AsideOk(work) /\ (pc' = "round" => ~work.common) /\ pc' # "timeline"
  BY <1>1, <1>2 DEF SeatInv
<1> QED
  BY <1>1, <1>2, <1>3, SeatsKeep

\* The line of a round takes its stand-ins from the queue.
LEMMA BookGroupRoundSeats == ASSUME SeatInv, HourInv, BookGroupRound PROVE SeatInv'
<1> DEFINE found == Bookable(GroupRound, OwnLines)
<1>1. PICK court :
        /\ pc = "timeline" /\ pc' = pc /\ UNCHANGED <<inp, plans, sessions, mobilised, ext>>
        /\ work' = [work EXCEPT !.lines = Append(@, Line(<<court, work.t>>, found.pair, work.g)),
                                !.queue = found.queue, !.court = court, !.t = @ + 1]
  BY DEF BookGroupRound
<1>2. work # Idle /\ ext = NoExt
  BY <1>1 DEF HourInv, StageOk
<1>3. SeatsOk(work) /\ AsideOk(work) /\ work.common
  BY <1>1, <1>2 DEF SeatInv
<1>4. PICK pair, lines : pair = GroupRound /\ lines = OwnLines
  OBVIOUS
<1>5. DOMAIN pair = 1 .. 2
  BY <1>4 DEF GroupRound
<1>6. Pool(work.queue) /\ found = Bookable(pair, lines)
  BY <1>3, <1>4 DEF AsideOk, Reserve
<1> HIDE DEF found
<1>7. Pool(found.queue) /\ ToSet(found.queue) \subseteq ToSet(work.queue)
  BY <1>5, <1>6, BookableNames
<1>8. /\ DOMAIN work' = DOMAIN work /\ work'.players = work.players /\ work'.needed = work.needed
      /\ work'.common = work.common /\ work'.groups = work.groups
      /\ work'.queue = found.queue /\ work'.left = work.left /\ work'.open = work.open
  BY <1>1, <1>3 DEF SeatsOk, SeatFields, CountFields
<1>9. AsideOk(work')
  BY <1>3, <1>7, <1>8 DEF AsideOk, Reserve
<1> QED
  BY <1>1, <1>2, <1>3, <1>8, <1>9, SeatsKeep

\* The pairs of a list without repetition share nobody.
LEMMA PairsApart ==
  ASSUME NEW players, IsList(players), Distinct(players)
  PROVE  /\ DOMAIN PairsOf(players) = 1 .. (Len(players) \div 2)
         /\ \A i \in DOMAIN PairsOf(players) :
              /\ DOMAIN PairsOf(players)[i] = 1 .. 2
              /\ PairsOf(players)[i][1] # PairsOf(players)[i][2]
              /\ ToSet(PairsOf(players)[i]) = {PairsOf(players)[i][1], PairsOf(players)[i][2]}
              /\ ToSet(PairsOf(players)[i]) \subseteq ToSet(players)
         /\ \A i, j \in DOMAIN PairsOf(players) :
              i # j => ToSet(PairsOf(players)[i]) \cap ToSet(PairsOf(players)[j]) = {}
<1>1. PICK l \in Nat : l = Len(players) /\ DOMAIN players = 1 .. l
  BY ListHas
<1>2. PICK n \in Nat : n = l \div 2 /\ 2 * n <= l
  OBVIOUS
<1>3. PICK pairs : pairs = PairsOf(players)
  OBVIOUS
<1>4. DOMAIN pairs = 1 .. n /\ \A i \in 1 .. n : pairs[i] = <<players[2 * i - 1], players[2 * i]>>
  BY <1>1, <1>2, <1>3 DEF PairsOf
<1>5. ASSUME NEW i \in 1 .. n
      PROVE  /\ DOMAIN pairs[i] = 1 .. 2 /\ pairs[i][1] # pairs[i][2]
             /\ ToSet(pairs[i]) = {pairs[i][1], pairs[i][2]} /\ ToSet(pairs[i]) \subseteq ToSet(players)
             /\ \A x \in ToSet(pairs[i]) : \E k \in {2 * i - 1, 2 * i} : k \in 1 .. l /\ x = players[k]
  <2>1. PICK pair : pair = pairs[i]
    OBVIOUS
  <2>2. PICK a, b : a = 2 * i - 1 /\ b = 2 * i
    OBVIOUS
  <2>3. a \in 1 .. l /\ b \in 1 .. l /\ a # b
    BY <1>2, <2>2
  <2>4. pair = <<players[a], players[b]>>
    BY <1>4, <2>1, <2>2
  <2>5. DOMAIN pair = 1 .. 2 /\ pair[1] = players[a] /\ pair[2] = players[b]
    BY <2>4
  <2>6. ToSet(pair) = {pair[1], pair[2]}
    <3>1. \A k \in 1 .. 2 : k = 1 \/ k = 2
      OBVIOUS
    <3> QED
      BY <2>5, <3>1 DEF ToSet
  <2>7. pair[1] # pair[2] /\ ToSet(pair) \subseteq ToSet(players)
    BY <1>1, <2>3, <2>5, <2>6 DEF Distinct, ToSet
  <2>8. \A x \in ToSet(pair) : \E k \in {a, b} : k \in 1 .. l /\ x = players[k]
    BY <2>3, <2>5, <2>6
  <2> QED
    BY <2>1, <2>2, <2>5, <2>6, <2>7, <2>8
<1>6. ASSUME NEW i \in 1 .. n, NEW j \in 1 .. n, i # j PROVE ToSet(pairs[i]) \cap ToSet(pairs[j]) = {}
  <2>1. ASSUME NEW x \in ToSet(pairs[i]), x \in ToSet(pairs[j]) PROVE FALSE
    <3>1. PICK k \in {2 * i - 1, 2 * i} : k \in 1 .. l /\ x = players[k]
      BY <1>5
    <3>2. PICK m \in {2 * j - 1, 2 * j} : m \in 1 .. l /\ x = players[m]
      BY <1>5, <2>1
    <3>3. k = m
      BY <1>1, <3>1, <3>2 DEF Distinct
    <3>4. k # m
      BY <1>6
    <3> QED
      BY <3>3, <3>4
  <2> QED
    BY <2>1
<1> QED
  BY <1>1, <1>2, <1>3, <1>4, <1>5, <1>6

\* There is a pair for each slot of the round.
LEMMA CursorIs ==
  ASSUME CountInv, HourInv, pc = "place"
  PROVE  /\ work.cursor \in Nat \ {0} /\ IsList(work.batch)
         /\ \A k \in DOMAIN work.batch : k \in Nat \ {0} /\ work.cursor + k - 1 \in DOMAIN Pairs
         /\ work.batch # << >> => work.cursor \in DOMAIN Pairs
<1>1. work # Idle
  BY DEF HourInv, StageOk
<1>2. PairsNamed(work, Attending) /\ RoundFits(work) /\ IsList(work.batch)
  BY <1>1 DEF CountInv, StageCounted, HourInv, BatchOk
<1>3. PICK n \in Nat : n = Len(work.players) \div 2
  BY <1>2, HalfIs DEF PairsNamed
<1>4. DOMAIN Pairs = 1 .. n
  BY <1>2, <1>3, PairsAre DEF Pairs, PairsNamed
<1>5. PICK c \in Nat \ {0} : c = work.cursor
  BY <1>2 DEF PairsNamed
<1>6. PICK b \in Nat : b = Len(work.batch) /\ DOMAIN work.batch = 1 .. b
  BY <1>2, ListHas
<1>7. c + b <= n + 1
  BY <1>2, <1>3, <1>5, <1>6 DEF RoundFits
<1>8. \A k \in 1 .. b : k \in Nat \ {0} /\ c + k - 1 \in 1 .. n
  BY <1>7
<1>9. ASSUME work.batch # << >> PROVE c \in 1 .. n
  <2>1. b # 0
    <3>1. Len(work.batch) \in Nat \ {0}
      BY <1>2, <1>9, TailShorter
    <3> QED
      BY <1>6, <3>1
  <2>2. c + 1 - 1 = c /\ 1 \in 1 .. b
    BY <2>1
  <2> QED
    BY <1>8, <2>2
<1> QED
  BY <1>2, <1>4, <1>5, <1>6, <1>8, <1>9

\* So does that of a pair.
LEMMA PlacePairSeats == ASSUME SeatInv, CountInv, HourInv, PlacePair PROVE SeatInv'
<1>1. PICK pair, found, lines :
        /\ pc = "place" /\ pc' = pc /\ UNCHANGED <<inp, plans, sessions, mobilised, ext>>
        /\ pair = Pairs[work.cursor] /\ found = Bookable(pair, work.lines) /\ work.batch # << >>
        /\ work' = [work EXCEPT !.batch = Tail(@), !.cursor = @ + 1, !.queue = found.queue, !.lines = lines]
  BY DEF PlacePair
<1>2. work # Idle /\ ext = NoExt
  BY <1>1 DEF HourInv, StageOk
<1>3. SeatsOk(work) /\ AsideOk(work) /\ ~work.common
  BY <1>1, <1>2 DEF SeatInv
<1>4. DOMAIN pair = 1 .. 2
  BY <1>1, CursorIs, PairIs DEF Pairs, IsPair
<1>5. Pool(work.queue)
  BY <1>3 DEF AsideOk, Reserve
<1>6. Pool(found.queue) /\ ToSet(found.queue) \subseteq ToSet(work.queue)
  <2>1. PICK all : all = work.lines
    OBVIOUS
  <2>2. found = Bookable(pair, all)
    BY <1>1, <2>1
  <2> QED
    BY <1>4, <1>5, <2>2, BookableNames
<1>7. /\ DOMAIN work' = DOMAIN work /\ work'.players = work.players /\ work'.needed = work.needed
      /\ work'.common = work.common /\ work'.groups = work.groups
      /\ work'.queue = found.queue /\ work'.left = work.left /\ work'.open = work.open
  BY <1>1, <1>3 DEF SeatsOk, SeatFields, CountFields
<1>8. AsideOk(work')
  BY <1>3, <1>6, <1>7 DEF AsideOk, Reserve
<1> QED
  BY <1>1, <1>2, <1>3, <1>7, <1>8, SeatsKeep

\* The players of the plan are those of the hour, the last of an odd number rotates.
LEMMA SeatedPlayers ==
  ASSUME EveningOk(inp), Hour \in DOMAIN inp.hours, SeatsOk(work)
  PROVE  /\ IsList(work.players) /\ Distinct(work.players) /\ ToSet(work.players) = ToSet(Confirmed)
         /\ Len(work.players) = Len(Confirmed)
         /\ IsList(RotatorsOf(work.players)) /\ Distinct(RotatorsOf(work.players))
         /\ ToSet(RotatorsOf(work.players)) \subseteq ToSet(Confirmed)
         /\ \A i \in DOMAIN Pairs : ToSet(Pairs[i]) \cap ToSet(RotatorsOf(work.players)) = {}
<1>1. IsList(Confirmed) /\ Distinct(Confirmed)
  BY ConfirmedIs
<1>2. PICK players, confirmed, priority :
        /\ players = work.players /\ confirmed = Confirmed /\ priority = inp.priorityBookers
  OBVIOUS
<1>3. IsList(priority) /\ Distinct(priority) /\ players = PrioritizePlayers(confirmed, priority)
  BY <1>2 DEF EveningOk, SeatsOk
<1>4. IsList(players) /\ Distinct(players) /\ ToSet(players) = ToSet(confirmed)
  BY <1>1, <1>2, <1>3, PrioritizedIs
<1>5. Len(players) = Len(confirmed)
  <2>1. /\ Cardinality(ToSet(players)) = Len(players)
        /\ Cardinality(ToSet(confirmed)) = Len(confirmed)
    BY <1>1, <1>2, <1>4, DistinctLength
  <2> QED
    BY <1>4, <2>1
<1>6. PICK l \in Nat : l = Len(players) /\ DOMAIN players = 1 .. l
  BY <1>4, ListHas
<1>7. PICK r : r = RotatorsOf(players)
  OBVIOUS
<1>8. IsList(r) /\ Distinct(r) /\ \A x \in ToSet(r) : l % 2 = 1 /\ x = players[l]
  <2>1. CASE l % 2 = 1
    <3>1. r = <<players[l]>>
      BY <1>6, <1>7, <2>1 DEF RotatorsOf, Last
    <3>2. r = [i \in 1 .. 1 |-> r[i]] /\ DOMAIN r = 1 .. 1 /\ r[1] = players[l]
      BY <3>1
    <3>3. \A i \in 1 .. 1 : i = 1
      OBVIOUS
    <3>4. IsList(r)
      BY <3>2, ListFrom
    <3> QED
      BY <2>1, <3>2, <3>3, <3>4 DEF Distinct, ToSet
  <2>2. CASE l % 2 # 1
    <3>1. r = << >>
      BY <1>6, <1>7, <2>2 DEF RotatorsOf
    <3> QED
      BY <3>1, EmptyHas, HoldsEmpty, DistinctEmpty
  <2> QED
    BY <2>1, <2>2
<1>9. ToSet(r) \subseteq ToSet(players)
  <2>1. ASSUME NEW x \in ToSet(r) PROVE x \in ToSet(players)
    <3>1. l \in 1 .. l
      BY <1>8
    <3> QED
      BY <1>6, <1>8, <3>1 DEF ToSet
  <2> QED
    BY <2>1
<1>10. ASSUME NEW i \in DOMAIN Pairs PROVE ToSet(Pairs[i]) \cap ToSet(r) = {}
  <2>1. ASSUME NEW x \in ToSet(Pairs[i]), x \in ToSet(r) PROVE FALSE
    <3>1. PICK n \in Nat : n = l \div 2 /\ 2 * n <= l
      OBVIOUS
    <3>2. DOMAIN Pairs = 1 .. n /\ Pairs[i] = <<players[2 * i - 1], players[2 * i]>>
      BY <1>2, <1>6, <3>1 DEF Pairs, PairsOf
    <3>3. l % 2 = 1 /\ x = players[l]
      BY <1>8, <2>1
    <3>4. 2 * i - 1 \in 1 .. l /\ 2 * i \in 1 .. l /\ 2 * i - 1 # l /\ 2 * i # l /\ l \in 1 .. l
      BY <3>1, <3>2, <3>3
    <3>5. players[2 * i - 1] # players[l] /\ players[2 * i] # players[l]
      BY <1>4, <1>6, <3>4 DEF Distinct
    <3>6. x = players[2 * i - 1] \/ x = players[2 * i]
      <4>1. PICK pair, a, b : pair = Pairs[i] /\ a = players[2 * i - 1] /\ b = players[2 * i]
        OBVIOUS
      <4>2. pair = <<a, b>>
        BY <3>2, <4>1
      <4>3. ToSet(pair) = {a, b}
        BY <4>2 DEF ToSet
      <4> QED
        BY <2>1, <4>1, <4>3
    <3> QED
      BY <3>3, <3>5, <3>6
  <2> QED
    BY <2>1
<1> QED
  BY <1>2, <1>4, <1>5, <1>7, <1>8, <1>9, <1>10

\* The rotation begins: the courts held have players of the hour on them.
LEMMA LayersDoneSeats ==
  ASSUME SeatInv, HourInv, GivenOk(inp), EveningOk(inp), LayersDone PROVE SeatInv'
<1>1. PICK open, groups :
        /\ pc = "round" /\ pc' = "rotate" /\ UNCHANGED <<inp, plans, sessions, mobilised, ext>>
        /\ open = BuildOngoingSessions(work.lines, Start, ToSet(work.players), Hour)
        /\ work' = [work EXCEPT !.extra = used, !.courtGroups = groups, !.open = open,
                                !.left = RotatorsOf(work.players), !.queue = Eligible]
  BY DEF LayersDone
<1>2. work # Idle /\ ext = NoExt /\ Hour \in DOMAIN inp.hours
  BY <1>1 DEF HourInv, StageOk
<1>3. SeatsOk(work) /\ AsideOk(work) /\ ~work.common
  BY <1>1, <1>2 DEF SeatInv
<1>4. Fresh(work.lines, inp.free \ used)
  BY <1>2 DEF HourInv, WorkOk
<1>5. TeamsOf(work.lines, ToSet(work.players), open) /\ MembersNamed(work.lines, open)
  <2>1. PICK room, lines : room = inp.free \ used /\ lines = work.lines
    OBVIOUS
  <2>2. room \subseteq AllCourts \X Nat /\ Fresh(lines, room)
    BY <1>4, <2>1 DEF GivenOk
  <2> QED
    BY <1>1, <2>1, <2>2, SessionsOpened
<1>6. /\ ToSet(work.players) = ToSet(Confirmed)
      /\ IsList(RotatorsOf(work.players)) /\ Distinct(RotatorsOf(work.players))
      /\ ToSet(RotatorsOf(work.players)) \subseteq ToSet(Confirmed)
  BY <1>2, <1>3, SeatedPlayers
<1>7. \A k \in DOMAIN open : Team(open[k].members)
  BY <1>2, <1>5, <1>6, ConfirmedIs DEF TeamsOf, MembersNamed, Team
<1>8. /\ DOMAIN work' = DOMAIN work /\ work'.players = work.players /\ work'.needed = work.needed
      /\ work'.common = work.common /\ work'.groups = work.groups
      /\ work'.queue = Eligible /\ work'.left = RotatorsOf(work.players) /\ work'.open = open
  BY <1>1, <1>3 DEF SeatsOk, SeatFields, CountFields
<1>9. AsideOk(work')
  BY <1>6, <1>7, <1>8, EligibleReserve DEF AsideOk
<1> QED
  BY <1>1, <1>2, <1>3, <1>8, <1>9, SeatsKeep

\* Late players join a session: a team again.
LEMMA JoinSessionSeats == ASSUME SeatInv, HourInv, DayInv, EveningOk(inp), JoinSession PROVE SeatInv'
<1> DEFINE k == Min(Mergeable(Len(Confirmed)))
<1>1. /\ pc = "hour" /\ pc' = "extend" /\ UNCHANGED <<inp, plans, sessions, mobilised, work>>
      /\ Hour <= Len(inp.hours) /\ Mergeable(Len(Confirmed)) # {}
      /\ ext' = Joining(k, sessions[k], Confirmed, Eligible, used)
  BY DEF JoinSession
<1>2. work = Idle
  BY <1>1 DEF HourInv, StageOk
<1>3. Hour \in DOMAIN inp.hours
  BY <1>1, HourIs DEF DayInv
<1>4. k \in DOMAIN sessions
  <2>1. Mergeable(Len(Confirmed)) \subseteq DOMAIN sessions
    BY DEF Mergeable
  <2>2. DOMAIN sessions \subseteq Nat
    BY ListHas DEF DayInv, SessionsOk
  <2>3. Mergeable(Len(Confirmed)) \subseteq Nat
    BY <2>1, <2>2
  <2> QED
    BY <1>1, <2>1, <2>3, MinType
<1> HIDE DEF k
<1>5. PICK session, joiners, queue, e, taken :
        session = sessions[k] /\ joiners = Confirmed /\ queue = Eligible /\ e = ext' /\ taken = used
  OBVIOUS
<1>6. /\ Team(session.members) /\ IsList(joiners) /\ Distinct(joiners) /\ ToSet(joiners) \subseteq Voters
      /\ Reserve(queue)
  BY <1>3, <1>4, <1>5, ConfirmedIs, EligibleReserve DEF SeatInv
<1>7. /\ e.session = session /\ e.queue = queue /\ IsList(e.members) /\ Distinct(e.members)
      /\ ToSet(e.members) \subseteq ToSet(session.members) \cup ToSet(joiners)
  <2>1. e = Joining(k, session, joiners, queue, taken)
    BY <1>1, <1>5
  <2> QED
    BY <1>6, <2>1, TeamJoins DEF Team
<1>8. Team(ext'.members) /\ Team(ext'.session.members) /\ Reserve(ext'.queue)
  BY <1>5, <1>6, <1>7 DEF Team
<1>9. Voters' = Voters /\ Lendable' = Lendable
  BY <1>1, HourSame
<1> QED
  BY <1>1, <1>2, <1>8, <1>9 DEF SeatInv, Team, Reserve

\* So is the team of a court with the rotating player.
LEMMA JoinCourtSeats == ASSUME SeatInv, HourInv, EveningOk(inp), JoinCourt PROVE SeatInv'
<1>1. /\ pc = "rotate" /\ pc' = "extend" /\ UNCHANGED <<inp, plans, sessions, mobilised, work>>
      /\ work.k <= Len(work.open)
      /\ ext' = Joining(work.k, work.open[work.k], work.left, work.queue, work.extra)
  BY DEF JoinCourt
<1>2. work # Idle /\ WorkOk(work, inp.free \ used) /\ RotationOk(work, inp.free, used)
      /\ Hour \in DOMAIN inp.hours
  BY <1>1 DEF HourInv, StageOk
<1>3. SeatsOk(work) /\ AsideOk(work)
  BY <1>2 DEF SeatInv
<1>4. work.k \in DOMAIN work.open
  <2>1. IsList(work.open) /\ work.k \in Nat \ {0}
    BY <1>2 DEF RotationOk, WorkOk
  <2>2. Len(work.open) \in Nat /\ DOMAIN work.open = 1 .. Len(work.open)
    BY <2>1, ListHas
  <2> QED
    BY <1>1, <2>1, <2>2
<1>5. PICK k, session, joiners, queue, taken, e :
        /\ k = work.k /\ session = work.open[work.k] /\ joiners = work.left /\ queue = work.queue
        /\ taken = work.extra /\ e = ext'
  OBVIOUS
<1>6. /\ Team(session.members) /\ IsList(joiners) /\ Distinct(joiners) /\ ToSet(joiners) \subseteq Voters
      /\ Reserve(queue)
  BY <1>2, <1>3, <1>4, <1>5, ConfirmedIs DEF AsideOk
<1>7. /\ e.session = session /\ e.queue = queue /\ IsList(e.members) /\ Distinct(e.members)
      /\ ToSet(e.members) \subseteq ToSet(session.members) \cup ToSet(joiners)
  <2>1. e = Joining(k, session, joiners, queue, taken)
    BY <1>1, <1>5
  <2> QED
    BY <1>6, <2>1, TeamJoins DEF Team
<1>8. Team(ext'.members) /\ Team(ext'.session.members) /\ Reserve(ext'.queue)
  BY <1>5, <1>6, <1>7 DEF Team
<1>9. Voters' = Voters /\ Lendable' = Lendable /\ Confirmed' = Confirmed
  BY <1>1, HourSame
<1> QED
  BY <1>1, <1>3, <1>8, <1>9 DEF SeatInv, SeatsOk, AsideOk, Team, Reserve

\* The names of the next round of a session, and who is left in the queue.
LEMMA ExtensionSeats ==
  ASSUME SeatInv, HourInv, ext # NoExt, CanExtend, RegisteredPair.pair # Unbookable
  PROVE  /\ DOMAIN NextPair = 1 .. 2 /\ NextPair[1] # NextPair[2]
         /\ {NextPair[1], NextPair[2]} \subseteq ToSet(ext.members) /\ Pool(ext.queue)
         /\ Reserve(ExtensionPair.queue)
<1>1. Team(ext.members) /\ Reserve(ext.queue)
  BY DEF SeatInv
<1>2. IsList(ExtLines)
  BY ExtLinesAre DEF HourInv
<1>3. DOMAIN NextPair = 1 .. 2 /\ NextPair[1] # NextPair[2]
  BY <1>1, <1>2, NextPairDiffers DEF CanExtend, Team
<1>4. {NextPair[1], NextPair[2]} \subseteq ToSet(ext.members)
  BY <1>1, <1>2, NextPairIs DEF CanExtend, IsPair, Team
<1>5. PICK P, Q, f : P = {NextPair[1], NextPair[2]} /\ Q = ToSet(ext.queue) /\ f = ExtensionPair.pair
  OBVIOUS
<1>6. Pool(ExtensionPair.queue) /\ ToSet(ExtensionPair.queue) \subseteq Q
  BY <1>1, <1>3, <1>5, ExtensionNames DEF Reserve
<1> QED
  BY <1>1, <1>3, <1>4, <1>5, <1>6 DEF Reserve

LEMMA QueueLeftReserve == ASSUME SeatInv, HourInv, ext # NoExt, ExtensionEnds PROVE Reserve(QueueLeft)
<1>1. CASE CanExtend
  <2>1. RegisteredPair.pair # Unbookable
    BY <1>1 DEF ExtensionEnds
  <2> QED
    BY <1>1, <2>1, ExtensionSeats DEF QueueLeft
<1>2. CASE ~CanExtend
  BY <1>2 DEF QueueLeft, SeatInv
<1> QED
  BY <1>1, <1>2

LEMMA ExtendRoundSeats == ASSUME SeatInv, HourInv, ExtendRound PROVE SeatInv'
<1>1. PICK line :
        /\ pc = "extend" /\ pc' = pc /\ UNCHANGED <<inp, plans, sessions, mobilised, work>>
        /\ CanExtend /\ RegisteredPair.pair # Unbookable
        /\ ext' = [ext EXCEPT !.added = Append(@, line), !.queue = ExtensionPair.queue,
                              !.used = @ \cup {NextSlot}]
  BY DEF ExtendRound
<1>2. ext # NoExt /\ ExtOk(ext, inp.free, used)
  BY <1>1 DEF HourInv, StageOk
<1>3. Reserve(ExtensionPair.queue)
  BY <1>1, <1>2, ExtensionSeats
<1>4. ext'.members = ext.members /\ ext'.session = ext.session /\ ext'.queue = ExtensionPair.queue
  BY <1>1, <1>2 DEF ExtOk, ExtFields
<1>5. Voters' = Voters /\ Lendable' = Lendable /\ Confirmed' = Confirmed
  BY <1>1, HourSame
<1> QED
  BY <1>1, <1>2, <1>3, <1>4, <1>5 DEF SeatInv, SeatsOk, AsideOk, Team, Reserve

\* Back in the rotation.
LEMMA CourtJoinedSeats == ASSUME SeatInv, HourInv, CourtJoined PROVE SeatInv'
<1> DEFINE joined == {p \in ToSet(work.left) : p \in ToSet(ext.members)}
           numbers == {i \in DOMAIN work.left : work.left[i] \notin joined}
<1>1. PICK groups :
        /\ ExtensionEnds /\ work # Idle /\ pc' = "rotate" /\ ext' = NoExt
        /\ UNCHANGED <<inp, plans, sessions, mobilised>>
        /\ work' = [work EXCEPT !.lines = @ \o ext.added, !.k = @ + 1, !.left = Picked(@, numbers),
                                !.queue = QueueLeft, !.extra = ext.used, !.courtGroups = groups]
  BY DEF CourtJoined
<1>2. pc = "extend" /\ ext # NoExt
  BY <1>1 DEF ExtensionEnds, HourInv, StageOk
<1>3. SeatsOk(work) /\ AsideOk(work) /\ ~work.common
  BY <1>1, <1>2 DEF SeatInv
<1>4. Reserve(QueueLeft)
  BY <1>1, <1>2, QueueLeftReserve
<1>5. numbers \subseteq DOMAIN work.left
  OBVIOUS
<1> HIDE DEF numbers
<1>6. PICK left, s : left = Picked(work.left, numbers) /\ s = work.left
  OBVIOUS
<1>7. IsList(left) /\ Distinct(left) /\ ToSet(left) \subseteq ToSet(work.left)
  <2>1. IsList(s) /\ Distinct(s) /\ numbers \subseteq DOMAIN s /\ left = Picked(s, numbers)
    BY <1>3, <1>5, <1>6 DEF AsideOk
  <2>2. IsList(left) /\ Distinct(left) /\ ToSet(left) = {s[i] : i \in numbers}
    BY <2>1, PickedIs, DistinctPicked
  <2> QED
    BY <1>6, <2>1, <2>2 DEF ToSet
<1>8. /\ DOMAIN work' = DOMAIN work /\ work'.players = work.players /\ work'.needed = work.needed
      /\ work'.common = work.common /\ work'.groups = work.groups
      /\ work'.queue = QueueLeft /\ work'.left = left /\ work'.open = work.open
  BY <1>1, <1>3, <1>6 DEF SeatsOk, SeatFields, CountFields
<1>9. SeatsOk(work') /\ AsideOk(work')
  BY <1>3, <1>4, <1>7, <1>8 DEF SeatsOk, AsideOk
<1>10. Voters' = Voters /\ Lendable' = Lendable /\ Confirmed' = Confirmed
  BY <1>1, HourSame
<1> QED
  BY <1>1, <1>3, <1>8, <1>9, <1>10 DEF SeatInv, SeatsOk, AsideOk, Team, Reserve

-----------------------------------------------------------------------------
\* Between two hours only the sessions remain.
LEMMA BetweenSeats ==
  ASSUME inp' = inp, work' = Idle, ext' = NoExt, pc' \in {"hour", "done"},
         \A k \in DOMAIN sessions' : Team(sessions'[k].members)
  PROVE  SeatInv'
<1>1. Voters' = Voters
  BY DEF Voters
<1> QED
  BY <1>1 DEF SeatInv, Team

LEMMA QuietSeats == ASSUME SeatInv, HourInv, NotEnoughPlayers \/ Finish PROVE SeatInv'
<1>1. /\ pc = "hour" /\ pc' \in {"hour", "done"} /\ UNCHANGED <<inp, sessions, work, ext>>
  BY DEF NotEnoughPlayers, Finish
<1>2. work = Idle /\ ext = NoExt
  BY <1>1 DEF HourInv, StageOk
<1>3. \A k \in DOMAIN sessions : Team(sessions[k].members)
  BY DEF SeatInv
<1> QED
  BY <1>1, <1>2, <1>3, BetweenSeats

\* The courts of an accepted plan may be joined: their members are players of the hour.
LEMMA AcceptPlanSeats == ASSUME SeatInv, HourInv, DayInv, EveningOk(inp), AcceptPlan PROVE SeatInv'
<1>1. PICK lines, open :
        /\ lines \in {work.lines, work.former[1]} /\ (lines = work.lines \/ work.attempt = 2)
        /\ open = BuildOngoingSessions(lines, Start, ToSet(Confirmed), Hour)
        /\ sessions' = sessions \o open
        /\ pc = "accept" /\ pc' = "hour" /\ work' = Idle /\ UNCHANGED <<inp, ext>>
  BY DEF AcceptPlan, RecordSessions
<1>2. work # Idle /\ ext = NoExt /\ Hour \in DOMAIN inp.hours /\ WorkOk(work, inp.free \ used)
  BY <1>1 DEF HourInv, StageOk
<1>3. Fresh(lines, inp.free \ used)
  BY <1>1, <1>2 DEF WorkOk
<1>4. /\ TeamsOf(lines, ToSet(Confirmed), open) /\ MembersNamed(lines, open)
      /\ IsList(open)
  <2>1. PICK room, start, confirmed, hour :
          room = inp.free \ used /\ start = Start /\ confirmed = ToSet(Confirmed) /\ hour = Hour
    OBVIOUS
  <2>2. room \subseteq AllCourts \X Nat /\ Fresh(lines, room)
    BY <1>3, <2>1 DEF GivenOk, DayInv
  <2>3. open = BuildOngoingSessions(lines, start, confirmed, hour)
    BY <1>1, <2>1
  <2> QED
    BY <2>1, <2>2, <2>3, SessionsOpened DEF Opened
<1>5. \A k \in DOMAIN open : Team(open[k].members)
  BY <1>2, <1>4, ConfirmedIs DEF TeamsOf, MembersNamed, Team
<1>6. IsList(sessions) /\ \A k \in DOMAIN sessions : Team(sessions[k].members)
  BY DEF DayInv, SessionsOk, SeatInv
<1>7. Joined(sessions, open, sessions')
  BY <1>1, <1>4, <1>6, ConcatHas
<1>8. \A k \in DOMAIN sessions' : Team(sessions'[k].members)
  BY <1>5, <1>6, <1>7 DEF Joined
<1> QED
  BY <1>1, <1>2, <1>8, BetweenSeats

\* A session late players have joined has them among its members.
LEMMA LateJoinedSeats == ASSUME SeatInv, HourInv, DayInv, LateJoined PROVE SeatInv'
<1>1. /\ pc = "extend" /\ pc' = "hour" /\ work = Idle /\ UNCHANGED <<inp, work>> /\ ext' = NoExt
      /\ sessions' = [sessions EXCEPT ![ext.k].lines = ExtLines, ![ext.k].members = ext.members]
  BY DEF LateJoined, ExtensionEnds
<1>2. ext # NoExt
  BY <1>1 DEF HourInv, StageOk
<1>3. Team(ext.members) /\ \A k \in DOMAIN sessions : Team(sessions[k].members)
  BY <1>2 DEF SeatInv
<1>4. ASSUME NEW k \in DOMAIN sessions' PROVE Team(sessions'[k].members)
  <2>1. k \in DOMAIN sessions
    BY <1>1
  <2>2. CASE k = ext.k
    <3>1. PICK s, lines, m : s = sessions[k] /\ lines = ExtLines /\ m = ext.members
      OBVIOUS
    <3>2. {"lines", "members"} \subseteq DOMAIN s
      BY <2>1, <3>1 DEF DayInv, SessionsOk, IsSession
    <3>3. sessions'[k] = [s EXCEPT !.lines = lines, !.members = m]
      BY <1>1, <2>1, <2>2, <3>1
    <3>4. sessions'[k].members = m
      BY <3>2, <3>3
    <3> QED
      BY <1>3, <3>1, <3>4
  <2>3. CASE k # ext.k
    BY <1>1, <1>3, <2>1, <2>3
  <2> QED
    BY <2>2, <2>3
<1> QED
  BY <1>1, <1>4, BetweenSeats

\* Every step keeps the seats.
LEMMA SeatStep ==
  CourtsInv /\ CountInv /\ EveningOk(inp) /\ SeatInv /\ [Next]_vars => SeatInv'
<1> SUFFICES ASSUME CourtsInv, CountInv, EveningOk(inp), SeatInv, [Next]_vars PROVE SeatInv'
  OBVIOUS
<1>1. DayInv /\ HourInv /\ GivenOk(inp)
  BY DEF CourtsInv, DayInv
<1>2. CASE NotEnoughPlayers \/ Finish
  BY <1>1, <1>2, QuietSeats
<1>3. CASE AcceptPlan
  BY <1>1, <1>3, AcceptPlanSeats
<1>4. CASE LateJoined
  BY <1>1, <1>4, LateJoinedSeats
<1>5. CASE JoinSession
  BY <1>1, <1>5, JoinSessionSeats
<1>6. CASE PlanHour
  <2>1. ext = NoExt
    BY <1>1, <1>6 DEF PlanHour, HourInv, StageOk
  <2>2. Begin(Attempt(1, inp.preferMin, << >>)) /\ UNCHANGED <<inp, plans, sessions, mobilised, ext>>
    BY <1>6 DEF PlanHour
  <2> QED
    BY <2>1, <2>2, BeginSeats
<1>7. CASE Escalate
  <2>1. ext = NoExt
    BY <1>1, <1>7 DEF Escalate, HourInv, StageOk
  <2>2. /\ Begin(Attempt(2, FALSE, <<work.lines, work.courtGroups>>))
        /\ UNCHANGED <<inp, plans, sessions, mobilised, ext>>
    BY <1>7 DEF Escalate
  <2> QED
    BY <2>1, <2>2, BeginSeats
<1>8. CASE SkipTime
  BY <1>1, <1>8, SkipTimeSeats
<1>9. CASE BookGroupRound
  BY <1>1, <1>9, BookGroupRoundSeats
<1>10. CASE NextGroup
  BY <1>1, <1>10, NextGroupSeats
<1>11. CASE GroupsDone \/ RoundPlaced
  BY <1>1, <1>11, LoopsSeats
<1>12. CASE FindRound
  BY <1>1, <1>12, FindRoundSeats
<1>13. CASE PlacePair
  BY <1>1, <1>13, PlacePairSeats
<1>14. CASE NextLayer
  BY <1>1, <1>14, NextLayerSeats
<1>15. CASE LayersDone
  BY <1>1, <1>15, LayersDoneSeats
<1>16. CASE JoinCourt
  BY <1>1, <1>16, JoinCourtSeats
<1>17. CASE RotationDone
  BY <1>1, <1>17, RotationDoneSeats
<1>18. CASE ExtendRound
  BY <1>1, <1>18, ExtendRoundSeats
<1>19. CASE CourtJoined
  BY <1>1, <1>19, CourtJoinedSeats
<1>20. CASE RetryRound \/ UNCHANGED vars
  <2>1. UNCHANGED <<inp, pc, plans, sessions, mobilised, work, ext>>
    BY <1>20 DEF RetryRound, vars
  <2>2. Voters' = Voters /\ Lendable' = Lendable /\ Confirmed' = Confirmed
    BY <2>1, HourSame
  <2> QED
    BY <2>1, <2>2 DEF SeatInv, SeatsOk, AsideOk, Team, Reserve
<1> QED
  BY <1>2, <1>3, <1>4, <1>5, <1>6, <1>7, <1>8, <1>9, <1>10, <1>11, <1>12, <1>13, <1>14, <1>15,
     <1>16, <1>17, <1>18, <1>19, <1>20 DEF Next

LEMMA SeatInit == Init => SeatInv
<1> SUFFICES ASSUME Init PROVE SeatInv
  OBVIOUS
<1>1. pc = "hour" /\ work = Idle /\ ext = NoExt
  BY DEF Init
<1>2. DOMAIN sessions = {}
  <2>1. PICK e : e = << >>
    OBVIOUS
  <2> QED
    BY <2>1, EmptyHas DEF Init
<1> QED
  BY <1>1, <1>2 DEF SeatInv

\* Whom the plan seats, in every state.
PlayInv == CourtsInv /\ CapInv /\ CountInv /\ EveningOk(inp) /\ SeatInv
LEMMA PlayInvariant == Spec => []PlayInv
<1>1. Init => CountInv /\ SeatInv
  BY CountInit, SeatInit
<1>2. CourtsInv /\ CapInv /\ CountInv /\ [Next]_vars => CountInv'
  BY CountStep
<1>3. CourtsInv /\ CountInv /\ EveningOk(inp) /\ SeatInv /\ [Next]_vars => SeatInv'
  BY SeatStep
<1>4. Spec => [](CourtsInv /\ CapInv) /\ []EveningOk(inp)
  BY CourtsInvariant, EveningInvariant
<1>5. CourtsInv /\ CapInv /\ CountInv /\ EveningOk(inp) /\ SeatInv => PlayInv
  BY DEF PlayInv
<1> QED
  BY <1>1, <1>2, <1>3, <1>4, <1>5, PTL DEF Spec

\* Neighbours have no priority both, unless those who have are more than the others.
LEMMA PriorityFollows == ASSUME CourtsInv, EveningOk(inp), SeatInv PROVE PriorityApart
<1> SUFFICES ASSUME pc \in {"timeline", "round"}, NEW i \in DOMAIN Pairs,
                    ToSet(Pairs[i]) \subseteq ToSet(inp.priorityBookers)
             PROVE  2 * Cardinality(ToSet(Confirmed) \cap ToSet(inp.priorityBookers)) > Len(Confirmed)
  BY DEF PriorityApart
<1>1. work # Idle /\ Hour \in DOMAIN inp.hours
  BY DEF CourtsInv, HourInv, StageOk
<1>2. IsList(Confirmed) /\ Distinct(Confirmed)
  BY <1>1, ConfirmedIs
<1>3. PICK players, confirmed, priority :
        /\ players = work.players /\ confirmed = Confirmed /\ priority = inp.priorityBookers
  OBVIOUS
<1>4. IsList(priority) /\ Distinct(priority) /\ players = PrioritizePlayers(confirmed, priority)
  BY <1>1, <1>3 DEF EveningOk, SeatsOk, SeatInv
<1>5. /\ IsList(players) /\ Distinct(players)
      /\ \A j \in Nat : 2 * j - 1 \in DOMAIN players /\ 2 * j \in DOMAIN players
                         /\ players[2 * j - 1] \in ToSet(priority) /\ players[2 * j] \in ToSet(priority)
              => 2 * Cardinality(ToSet(confirmed) \cap ToSet(priority)) > Len(confirmed)
  BY <1>2, <1>3, <1>4, PrioritizedIs
<1>6. PICK l \in Nat : l = Len(players) /\ DOMAIN players = 1 .. l
  BY <1>5, ListHas
<1>7. PICK n \in Nat : n = l \div 2 /\ 2 * n <= l
  OBVIOUS
<1>8. i \in 1 .. n /\ Pairs[i] = <<players[2 * i - 1], players[2 * i]>>
  BY <1>3, <1>6, <1>7 DEF Pairs, PairsOf
<1>9. i \in Nat /\ 2 * i - 1 \in 1 .. l /\ 2 * i \in 1 .. l
  BY <1>7, <1>8
<1>10. PICK pair, a, b : pair = Pairs[i] /\ a = players[2 * i - 1] /\ b = players[2 * i]
  OBVIOUS
<1>11. a \in ToSet(pair) /\ b \in ToSet(pair)
  <2>1. pair = <<a, b>>
    BY <1>8, <1>10
  <2> QED
    BY <2>1 DEF ToSet
<1>12. a \in ToSet(priority) /\ b \in ToSet(priority)
  BY <1>3, <1>10, <1>11
<1> QED
  BY <1>3, <1>5, <1>6, <1>9, <1>10, <1>12

\* Two players with priority are in one pair only when those with priority are more than the
\* others (prioritizePlayers: one with priority, then one without).
THEOREM PriorityKeptApart == Spec => []PriorityApart
<1>1. PlayInv => PriorityApart
  BY PriorityFollows DEF PlayInv
<1> QED
  BY <1>1, PlayInvariant, PTL

-----------------------------------------------------------------------------
(* What the club accepts: every line proposed, in whichever list it is.      *)

Fine(line) ==
  /\ line.user # inp.joker /\ line.user # line.partner
  /\ NamesOf(line) \cap inp.unregistered \subseteq ToSet(inp.lenders) \cup {inp.joker}
AllFine(lines) == \A n \in DOMAIN lines : Fine(lines[n])

FineInv ==
  JokerApart =>
    /\ \A h \in DOMAIN plans : AllFine(plans[h].lines)
    /\ work # Idle => AllFine(work.lines) /\ (work.attempt # 1 => AllFine(work.former[1]))
    /\ ext # NoExt => AllFine(ext.added)

\* A line more, and lines added.
LEMMA FineGrows ==
  /\ AllFine(<< >>)
  /\ \A s, e, t : AllFine(s) /\ Fine(e) /\ Appended(s, e, t) => AllFine(t)
  /\ \A s, t, u : AllFine(s) /\ AllFine(t) /\ Joined(s, t, u) => AllFine(u)
<1>1. AllFine(<< >>)
  BY EmptyHas DEF AllFine
<1>2. ASSUME NEW s, NEW e, NEW t, AllFine(s), Fine(e), Appended(s, e, t) PROVE AllFine(t)
  BY <1>2 DEF AllFine, Appended
<1>3. ASSUME NEW s, NEW t, NEW u, AllFine(s), AllFine(t), Joined(s, t, u) PROVE AllFine(u)
  BY <1>3 DEF AllFine, Joined
<1> QED
  BY <1>1, <1>2, <1>3

\* The evening stays as it is.
LEMMA FineSame ==
  ASSUME inp' = inp
  PROVE  /\ JokerApart' = JokerApart /\ \A line : Fine(line) <=> Fine(line)'
         /\ \A lines : AllFine(lines) <=> AllFine(lines)'
<1>1. JokerApart' = JokerApart
  BY DEF JokerApart, Voters
<1>2. \A line : Fine(line) <=> Fine(line)'
  BY DEF Fine, NamesOf
<1> QED
  BY <1>1, <1>2 DEF AllFine

\* Two players, or those who stand in for them, make a line the club accepts.
LEMMA FineLine ==
  ASSUME NEW pair, DOMAIN pair = 1 .. 2, pair[1] # pair[2], NEW queue, NEW blocked,
         inp.unregistered \subseteq blocked, inp.joker \notin {pair[1], pair[2]} \cup ToSet(queue),
         NEW found, NEW left, Standing(pair, queue, blocked, inp.joker, found, left),
         NEW slot, NEW of
  PROVE  Fine(Line(slot, found, of))
<1>1. /\ \A i \in 1 .. 2 : found[i] = inp.joker \/ found[i] \notin blocked
      /\ found[1] # found[2] /\ found[1] # inp.joker
  BY DEF Standing
<1>2. /\ Line(slot, found, of).user = found[1] /\ Line(slot, found, of).partner = found[2]
      /\ NamesOf(Line(slot, found, of)) = {found[1], found[2]}
  BY DEF Line, NamesOf
<1>3. {found[1], found[2]} \cap inp.unregistered \subseteq {inp.joker}
  BY <1>1
<1> QED
  BY <1>1, <1>2, <1>3 DEF Fine

\* So it is of two players of the hour.
LEMMA FineFound ==
  ASSUME JokerApart, Reserve(work.queue), NEW pair, DOMAIN pair = 1 .. 2, pair[1] # pair[2],
         {pair[1], pair[2]} \subseteq Voters, NEW lines,
         NEW found, found = Bookable(pair, lines), found.pair # Unbookable, NEW slot, NEW of
  PROVE  Fine(Line(slot, found.pair, of))
<1>1. Pool(work.queue) /\ ToSet(work.queue) \subseteq ToSet(inp.lenders)
  BY DEF Reserve, Lendable
<1>2. Standing(pair, work.queue, Blocked(pair, lines), inp.joker, found.pair, found.queue)
  BY <1>1, BookableNames
<1>3. inp.joker \notin {pair[1], pair[2]} \cup ToSet(work.queue)
  BY <1>1 DEF JokerApart
<1>4. inp.unregistered \subseteq Blocked(pair, lines)
  BY DEF Blocked
<1>5. PICK queue, blocked, names, left :
        /\ queue = work.queue /\ blocked = Blocked(pair, lines)
        /\ names = found.pair /\ left = found.queue
  OBVIOUS
<1> QED
  BY <1>2, <1>3, <1>4, <1>5, FineLine

\* The round of a group names two different players.
LEMMA GroupRoundDiffers ==
  ASSUME IsList(work.lines), IsGroup(work.groups[work.g].members), Distinct(work.groups[work.g].members)
  PROVE  /\ DOMAIN GroupRound = 1 .. 2 /\ GroupRound[1] # GroupRound[2]
         /\ {GroupRound[1], GroupRound[2]} \subseteq ToSet(work.groups[work.g].members)
<1>1. PICK m : m = work.groups[work.g].members
  OBVIOUS
<1>2. PICK r \in Nat : r = Cardinality(DOMAIN OwnLines)
  BY LinesOfIs DEF OwnLines
<1>3. PICK n : n = TeamrNamesForRound(Len(m), r)
  OBVIOUS
<1>4. GroupRound = <<m[n[1]], m[n[2]]>>
  BY <1>1, <1>2, <1>3 DEF GroupRound
<1>5. Len(m) \in Nat /\ DOMAIN m = 1 .. Len(m) /\ DOMAIN m \in {1 .. 2, 1 .. 3}
  BY <1>1, ListHas DEF IsGroup
<1>6. n[1] \in DOMAIN m /\ n[2] \in DOMAIN m /\ n[1] # n[2]
  <2>1. CASE Len(m) # 3
    <3>1. n = <<1, 2>>
      BY <1>3, <2>1 DEF TeamrNamesForRound
    <3> QED
      BY <1>5, <3>1
  <2>2. CASE Len(m) = 3
    <3>1. n = << <<1, 2>>, <<1, 3>>, <<2, 3>> >>[(r % 3) + 1]
      BY <1>3, <2>2 DEF TeamrNamesForRound
    <3>2. r % 3 \in {0, 1, 2}
      OBVIOUS
    <3>3. n \in {<<1, 2>>, <<1, 3>>, <<2, 3>>}
      BY <3>1, <3>2
    <3> QED
      BY <1>5, <2>2, <3>3
  <2> QED
    BY <2>1, <2>2
<1>7. PICK i, j : i = n[1] /\ j = n[2]
  OBVIOUS
<1>8. m[i] \in ToSet(m) /\ m[j] \in ToSet(m) /\ m[i] # m[j]
  BY <1>1, <1>6, <1>7 DEF ToSet, Distinct
<1>9. GroupRound = <<m[i], m[j]>>
  BY <1>4, <1>7
<1> QED
  BY <1>1, <1>8, <1>9

\* The members of the groups are players of the hour, each in one group.
LEMMA GroupSeats ==
  ASSUME EveningOk(inp), Hour \in DOMAIN inp.hours, SeatsOk(work), work.common
  PROVE  /\ \A g \in DOMAIN work.groups :
              /\ IsGroup(work.groups[g].members) /\ Distinct(work.groups[g].members)
              /\ ToSet(work.groups[g].members) \subseteq ToSet(Confirmed)
              /\ work.groups[g].rounds = ComputeRoundsNeeded(work.groups[g].members, inp.minSlots)
         /\ \A g, h \in DOMAIN work.groups :
              g # h => ToSet(work.groups[g].members) \cap ToSet(work.groups[h].members) = {}
<1>1. PICK players, maxPlayers, target, slots, groups :
        /\ players = work.players /\ maxPlayers = inp.maxPlayers /\ target = work.needed
        /\ slots = inp.minSlots /\ groups = work.groups
  OBVIOUS
<1>2. IsList(players) /\ Distinct(players) /\ ToSet(players) = ToSet(Confirmed)
  BY <1>1, SeatedPlayers
<1>3. /\ target \in Nat /\ (\A p \in DOMAIN slots : slots[p] \in Nat)
      /\ groups = BuildGroupsForBooking(players, maxPlayers, target, slots)
  BY <1>1 DEF SeatsOk, EveningOk
<1>4. Len(players) \in Nat
  BY <1>2, ListHas
<1>5. \A g \in DOMAIN groups : IsGroup(groups[g].members)
  BY <1>3, <1>4, GroupsAre
<1>6. GroupsApart(groups, players, slots)
  BY <1>2, <1>3, GroupsSeats
<1> QED
  BY <1>1, <1>2, <1>5, <1>6 DEF GroupsApart

\* What a step has to show.
LEMMA FineMoves ==
  ASSUME inp' = inp,
         JokerApart =>
           /\ \A h \in DOMAIN plans' : AllFine(plans'[h].lines)
           /\ work' # Idle => AllFine(work'.lines) /\ (work'.attempt # 1 => AllFine(work'.former[1]))
           /\ ext' # NoExt => AllFine(ext'.added)
  PROVE  FineInv'
<1>1. JokerApart' = JokerApart
  BY FineSame
<1> QED
  BY <1>1 DEF FineInv, AllFine, Fine, NamesOf

\* Steps of an hour that add no line,
LEMMA LinesStayFine ==
  ASSUME FineInv, UNCHANGED <<inp, plans, ext>>, work # Idle,
         work'.lines = work.lines, work'.former = work.former, work'.attempt = work.attempt
  PROVE  FineInv'
BY FineMoves DEF FineInv

\* and steps that add one, or several.
LEMMA LinesGrowFine ==
  ASSUME FineInv, UNCHANGED <<inp, plans>>, work # Idle, ext' # NoExt => ext' = ext,
         work'.former = work.former, work'.attempt = work.attempt,
         JokerApart => AllFine(work'.lines)
  PROVE  FineInv'
BY FineMoves DEF FineInv

LEMMA PlanningFine ==
  ASSUME FineInv, HourInv,
         SkipTime \/ NextGroup \/ FindRound \/ NextLayer \/ LayersDone \/ RotationDone
  PROVE  FineInv'
<1>1. pc \in {"timeline", "round", "rotate"} /\ UNCHANGED <<inp, plans, ext>>
  BY DEF SkipTime, NextGroup, FindRound, NextLayer, LayersDone, RotationDone
<1>2. work # Idle
  BY <1>1 DEF HourInv, StageOk
<1>3. work'.lines = work.lines /\ work'.former = work.former /\ work'.attempt = work.attempt
  <2>1. CASE SkipTime
    BY <2>1 DEF SkipTime
  <2>2. CASE NextGroup
    BY <2>2 DEF NextGroup
  <2>3. CASE FindRound
    BY <2>3 DEF FindRound
  <2>4. CASE NextLayer
    BY <2>4 DEF NextLayer
  <2>5. CASE LayersDone
    BY <2>5 DEF LayersDone
  <2>6. CASE RotationDone
    BY <2>6 DEF RotationDone
  <2> QED
    BY <2>1, <2>2, <2>3, <2>4, <2>5, <2>6
<1> QED
  BY <1>1, <1>2, <1>3, LinesStayFine

\* Steps from one loop to another.
LEMMA LoopsFine ==
  ASSUME FineInv, GroupsDone \/ RoundPlaced \/ Finish \/ RetryRound \/ UNCHANGED vars PROVE FineInv'
<1>1. UNCHANGED <<inp, plans, work, ext>>
  BY DEF GroupsDone, RoundPlaced, Finish, RetryRound, vars
<1> QED
  BY <1>1, FineMoves DEF FineInv

LEMMA NotEnoughFine == ASSUME FineInv, DayInv, NotEnoughPlayers PROVE FineInv'
<1>1. plans' = Append(plans, NoPlan) /\ UNCHANGED <<inp, work, ext>>
  BY DEF NotEnoughPlayers
<1>2. Appended(plans, NoPlan, plans')
  BY <1>1, AppendHas DEF DayInv, PlansOk
<1>3. AllFine(NoPlan.lines)
  BY NoPlanIs, FineGrows
<1>4. JokerApart => \A h \in DOMAIN plans' : AllFine(plans'[h].lines)
  BY <1>2, <1>3 DEF FineInv, Appended
<1> QED
  BY <1>1, <1>4, FineMoves DEF FineInv

\* An extension begins without a line.
LEMMA JoinFine == ASSUME FineInv, JoinSession \/ JoinCourt PROVE FineInv'
<1>1. UNCHANGED <<inp, plans, work>>
  BY DEF JoinSession, JoinCourt
<1>2. ext'.added = << >>
  BY JoiningIs DEF JoinSession, JoinCourt
<1>3. AllFine(ext'.added)
  BY <1>2, FineGrows
<1> QED
  BY <1>1, <1>3, FineMoves DEF FineInv

\* So does a plan; the first attempt is kept.
LEMMA BeginFine ==
  ASSUME FineInv, NEW number, NEW preferMin, NEW former,
         JokerApart => (number # 1 => AllFine(former[1])),
         Begin(Attempt(number, preferMin, former)), UNCHANGED <<inp, plans, ext>>
  PROVE  FineInv'
<1>1. work'.lines = << >> /\ work'.former = former /\ work'.attempt = number
  BY DEF Begin, Attempt
<1>2. AllFine(work'.lines)
  BY <1>1, FineGrows
<1> QED
  BY <1>1, <1>2, FineMoves DEF FineInv

LEMMA PlanHourFine == ASSUME FineInv, PlanHour \/ Escalate, HourInv PROVE FineInv'
<1>1. CASE PlanHour
  BY <1>1, BeginFine DEF PlanHour
<1>2. CASE Escalate
  <2>1. PICK former : former = <<work.lines, work.courtGroups>>
    OBVIOUS
  <2>2. former[1] = work.lines
    BY <2>1
  <2>3. work # Idle /\ Begin(Attempt(2, FALSE, former)) /\ UNCHANGED <<inp, plans, ext>>
    BY <1>2, <2>1 DEF Escalate, HourInv, StageOk
  <2>4. JokerApart => AllFine(former[1])
    BY <2>2, <2>3 DEF FineInv
  <2> QED
    BY <2>3, <2>4, BeginFine
<1> QED
  BY <1>1, <1>2

\* The line of a round of a group,
LEMMA BookGroupRoundFine ==
  ASSUME FineInv, CountInv, CapInv, SeatInv, HourInv, EveningOk(inp), BookGroupRound PROVE FineInv'
<1> DEFINE found == Bookable(GroupRound, OwnLines)
<1>1. PICK court :
        /\ pc = "timeline" /\ pc' = pc /\ UNCHANGED <<inp, plans, ext>> /\ work.g <= Len(work.groups)
        /\ found.pair # Unbookable
        /\ work' = [work EXCEPT !.lines = Append(@, Line(<<court, work.t>>, found.pair, work.g)),
                                !.queue = found.queue, !.court = court, !.t = @ + 1]
  BY DEF BookGroupRound
<1>2. work # Idle /\ Hour \in DOMAIN inp.hours
  BY <1>1 DEF HourInv, StageOk
<1>3. /\ SeatsOk(work) /\ Reserve(work.queue) /\ work.common
      /\ Fresh(work.lines, inp.free \ used) /\ TimelineCounted(work, Attending)
  BY <1>1, <1>2 DEF SeatInv, AsideOk, HourInv, WorkOk, CountInv, StageCounted
<1>4. work.g \in DOMAIN work.groups
  <2>1. IsList(work.groups) /\ work.g \in Nat \ {0}
    BY <1>1, <1>2, <1>3 DEF TimelineCounted, CapInv, CapOk
  <2> QED
    BY <1>1, <2>1, ListHas
<1>5. PICK pair, lines : pair = GroupRound /\ lines = OwnLines
  OBVIOUS
<1>6. DOMAIN pair = 1 .. 2 /\ pair[1] # pair[2] /\ {pair[1], pair[2]} \subseteq Voters
  <2>1. /\ IsGroup(work.groups[work.g].members) /\ Distinct(work.groups[work.g].members)
        /\ ToSet(work.groups[work.g].members) \subseteq ToSet(Confirmed)
    BY <1>2, <1>3, <1>4, GroupSeats
  <2> QED
    BY <1>2, <1>3, <1>5, <2>1, GroupRoundDiffers, ConfirmedIs DEF Fresh
<1>7. PICK f, line : f = found /\ line = Line(<<court, work.t>>, f.pair, work.g)
  OBVIOUS
<1>8. JokerApart => Fine(line)
  <2>1. f = Bookable(pair, lines) /\ f.pair # Unbookable
    BY <1>1, <1>5, <1>7
  <2> QED
    BY <1>3, <1>6, <1>7, <2>1, FineFound
<1>9. /\ work'.lines = Append(work.lines, line) /\ work'.former = work.former
      /\ work'.attempt = work.attempt
  BY <1>1, <1>3, <1>7 DEF SeatsOk, SeatFields, CountFields
<1>10. Appended(work.lines, line, work'.lines)
  BY <1>3, <1>9, AppendHas DEF Fresh
<1>11. JokerApart => AllFine(work'.lines)
  BY <1>2, <1>8, <1>10, FineGrows DEF FineInv
<1> QED
  BY <1>1, <1>2, <1>9, <1>11, LinesGrowFine

\* and that of a pair.
LEMMA PlacePairFine ==
  ASSUME FineInv, CountInv, SeatInv, HourInv, EveningOk(inp), PlacePair PROVE FineInv'
<1>1. PICK pair, found :
        /\ pc = "place" /\ pc' = pc /\ UNCHANGED <<inp, plans, ext>>
        /\ pair = Pairs[work.cursor] /\ found = Bookable(pair, work.lines) /\ work.batch # << >>
        /\ work' = [work EXCEPT !.batch = Tail(@), !.cursor = @ + 1, !.queue = found.queue,
                      !.lines = IF found.pair = Unbookable THEN @
                                ELSE Append(@, Line(work.batch[1], found.pair, work.cursor))]
  BY DEF PlacePair
<1>2. work # Idle /\ Hour \in DOMAIN inp.hours
  BY <1>1 DEF HourInv, StageOk
<1>3. SeatsOk(work) /\ Reserve(work.queue) /\ Fresh(work.lines, inp.free \ used)
  BY <1>1, <1>2 DEF SeatInv, AsideOk, HourInv, WorkOk
<1>4. PICK line : line = Line(work.batch[1], found.pair, work.cursor)
  OBVIOUS
<1>5. /\ work'.lines = IF found.pair = Unbookable THEN work.lines ELSE Append(work.lines, line)
      /\ work'.former = work.former /\ work'.attempt = work.attempt
  BY <1>1, <1>3, <1>4 DEF SeatsOk, SeatFields, CountFields
<1>6. DOMAIN pair = 1 .. 2 /\ pair[1] # pair[2] /\ {pair[1], pair[2]} \subseteq Voters
  <2>1. PICK c : c = work.cursor /\ c \in DOMAIN Pairs
    BY <1>1, CursorIs
  <2>2. IsList(work.players) /\ Distinct(work.players) /\ ToSet(work.players) = ToSet(Confirmed)
    BY <1>2, <1>3, SeatedPlayers
  <2>3. /\ DOMAIN Pairs[c] = 1 .. 2 /\ Pairs[c][1] # Pairs[c][2]
        /\ {Pairs[c][1], Pairs[c][2]} \subseteq ToSet(work.players)
    BY <2>1, <2>2, PairsApart DEF Pairs
  <2> QED
    BY <1>1, <1>2, <2>1, <2>2, <2>3, ConfirmedIs
<1>7. CASE found.pair = Unbookable
  BY <1>1, <1>2, <1>5, <1>7, LinesStayFine
<1>8. CASE found.pair # Unbookable
  <2>1. PICK lines, slot : lines = work.lines /\ slot = work.batch[1]
    OBVIOUS
  <2>2. JokerApart => Fine(line)
    BY <1>1, <1>3, <1>4, <1>6, <1>8, <2>1, FineFound
  <2>3. Appended(work.lines, line, work'.lines)
    BY <1>3, <1>5, <1>8, AppendHas DEF Fresh
  <2>4. JokerApart => AllFine(work'.lines)
    BY <1>2, <2>2, <2>3, FineGrows DEF FineInv
  <2> QED
    BY <1>1, <1>2, <1>5, <2>4, LinesGrowFine
<1> QED
  BY <1>7, <1>8

\* The line of a round added to a session.
LEMMA ExtendRoundFine ==
  ASSUME FineInv, CountInv, SeatInv, HourInv, ExtendRound PROVE FineInv'
<1>1. /\ pc = "extend" /\ UNCHANGED <<inp, plans, work>>
      /\ CanExtend /\ RegisteredPair.pair # Unbookable /\ ExtensionPair.pair # Unbookable
      /\ ext' = [ext EXCEPT !.added = Append(@, Line(NextSlot, ExtensionPair.pair, Extension)),
                            !.queue = ExtensionPair.queue, !.used = @ \cup {NextSlot}]
  BY DEF ExtendRound
<1>2. ext # NoExt /\ ExtOk(ext, inp.free, used)
  BY <1>1 DEF HourInv, StageOk
<1>3. /\ DOMAIN NextPair = 1 .. 2 /\ NextPair[1] # NextPair[2]
      /\ {NextPair[1], NextPair[2]} \subseteq ToSet(ext.members)
  BY <1>1, <1>2, ExtensionSeats
<1>4. PICK P, Q, f, line :
        /\ P = {NextPair[1], NextPair[2]} /\ Q = ToSet(ext.queue) /\ f = ExtensionPair.pair
        /\ line = Line(NextSlot, ExtensionPair.pair, Extension)
  OBVIOUS
<1>5. P \subseteq Voters /\ Q \subseteq ToSet(inp.lenders) /\ P \cap Q = {} /\ Pool(ext.queue)
  <2>1. Team(ext.members) /\ Reserve(ext.queue)
    BY <1>2 DEF SeatInv
  <2>2. Voters \subseteq mobilised
    BY DEF CountInv, DoneCounted
  <2> QED
    BY <1>3, <1>4, <2>1, <2>2 DEF Team, Reserve, Lendable
<1>6. /\ \A i \in 1 .. 2 : f[i] = inp.joker \/ f[i] \notin inp.unregistered \/ f[i] \in Q
      /\ inp.joker \notin P \cup Q => f[1] # inp.joker /\ f[1] # f[2]
  BY <1>1, <1>3, <1>4, <1>5, ExtensionNames
<1>7. line.user = f[1] /\ line.partner = f[2] /\ NamesOf(line) = {f[1], f[2]}
  BY <1>4 DEF Line, NamesOf
<1>8. JokerApart => Fine(line)
  <2>1. JokerApart => inp.joker \notin P \cup Q
    BY <1>5 DEF JokerApart
  <2>2. {f[1], f[2]} \cap inp.unregistered \subseteq ToSet(inp.lenders) \cup {inp.joker}
    BY <1>5, <1>6
  <2> QED
    BY <1>6, <1>7, <2>1, <2>2 DEF Fine
<1>9. ext'.added = Append(ext.added, line)
  BY <1>1, <1>2, <1>4 DEF ExtOk, ExtFields
<1>10. Appended(ext.added, line, ext'.added)
  BY <1>2, <1>9, AppendHas DEF ExtOk, Fresh
<1>11. JokerApart => AllFine(ext'.added)
  BY <1>2, <1>8, <1>10, FineGrows DEF FineInv
<1> QED
  BY <1>1, <1>11, FineMoves DEF FineInv

\* They go to the plan of the hour,
LEMMA CourtJoinedFine == ASSUME FineInv, HourInv, CourtJoined PROVE FineInv'
<1>1. PICK left, queue, groups :
        /\ pc = "extend" /\ work # Idle /\ ext' = NoExt /\ UNCHANGED <<inp, plans>>
        /\ work' = [work EXCEPT !.lines = @ \o ext.added, !.k = @ + 1, !.left = left,
                                !.queue = queue, !.extra = ext.used, !.courtGroups = groups]
  BY DEF CourtJoined, ExtensionEnds
<1>2. ext # NoExt /\ ExtOk(ext, inp.free, used) /\ WorkOk(work, inp.free \ used)
  BY <1>1 DEF HourInv, StageOk
<1>3. /\ work'.lines = work.lines \o ext.added /\ work'.former = work.former
      /\ work'.attempt = work.attempt
  BY <1>1, <1>2 DEF WorkOk, WorkFields
<1>4. Joined(work.lines, ext.added, work'.lines)
  BY <1>2, <1>3, ConcatHas DEF WorkOk, ExtOk, Fresh
<1>5. JokerApart => AllFine(work'.lines)
  BY <1>1, <1>2, <1>4, FineGrows DEF FineInv
<1> QED
  BY <1>1, <1>3, <1>5, LinesGrowFine

\* which becomes one of the day,
LEMMA AcceptPlanFine == ASSUME FineInv, DayInv, HourInv, AcceptPlan PROVE FineInv'
<1>1. PICK lines, groups, outside :
        /\ lines \in {work.lines, work.former[1]} /\ (lines = work.lines \/ work.attempt = 2)
        /\ plans' = Append(plans, [lines |-> lines, groups |-> groups, outside |-> outside])
        /\ pc = "accept" /\ work' = Idle /\ UNCHANGED <<inp, ext>>
  BY DEF AcceptPlan
<1>2. work # Idle
  BY <1>1 DEF HourInv, StageOk
<1>3. PICK plan : plan = [lines |-> lines, groups |-> groups, outside |-> outside]
  OBVIOUS
<1>4. plan.lines = lines
  BY <1>3
<1>5. Appended(plans, plan, plans')
  BY <1>1, <1>3, AppendHas DEF DayInv, PlansOk
<1>6. JokerApart => AllFine(lines)
  BY <1>1, <1>2 DEF FineInv
<1>7. JokerApart => \A h \in DOMAIN plans' : AllFine(plans'[h].lines)
  BY <1>4, <1>5, <1>6 DEF FineInv, Appended
<1> QED
  BY <1>1, <1>7, FineMoves DEF FineInv

\* or to the plan of the hour that late players join.
LEMMA LateJoinedFine == ASSUME FineInv, DayInv, HourInv, LateJoined PROVE FineInv'
<1>1. PICK p, group, mid :
        /\ p = ext.session.plan /\ mid = [plans EXCEPT ![p] = WithGroup(WithBookings(@, ext.added), group)]
        /\ plans' = Append(mid, NoPlan)
        /\ pc = "extend" /\ work = Idle /\ ext' = NoExt /\ UNCHANGED <<inp, work>>
  BY DEF LateJoined, ExtensionEnds
<1>2. ext # NoExt /\ ExtOk(ext, inp.free, used) /\ p \in DOMAIN plans
  BY <1>1 DEF HourInv, StageOk, LateOk, DayInv, SessionsOk
<1>3. IsPlan(plans[p]) /\ IsList(plans)
  BY <1>2 DEF DayInv, PlansOk
<1>4. /\ mid = [h \in DOMAIN plans |-> mid[h]]
      /\ \A h \in DOMAIN plans : h # p => mid[h] = plans[h]
      /\ mid[p].lines = plans[p].lines \o ext.added
  <2> DEFINE old == plans[p]
             more == WithBookings(old, ext.added)
             new == WithGroup(more, group)
  <2>1. {"lines", "groups", "outside"} \subseteq DOMAIN old
    BY <1>3 DEF IsPlan
  <2>2. mid = [plans EXCEPT ![p] = new]
    BY <1>1
  <2>3. DOMAIN more = DOMAIN old /\ more.lines = old.lines \o ext.added
    BY <2>1 DEF WithBookings
  <2>4. new.lines = more.lines
    BY <2>1, <2>3 DEF WithGroup
  <2> HIDE DEF more, new
  <2>5. mid[p] = new /\ (\A h \in DOMAIN plans : h # p => mid[h] = plans[h])
        /\ mid = [h \in DOMAIN plans |-> mid[h]]
    BY <1>2, <2>2
  <2> QED
    BY <2>3, <2>4, <2>5
<1>5. IsList(mid) /\ DOMAIN mid = DOMAIN plans
  BY <1>3, <1>4, ListSame
<1>6. Appended(mid, NoPlan, plans')
  BY <1>1, <1>5, AppendHas
<1>7. Joined(plans[p].lines, ext.added, mid[p].lines)
  <2>1. IsList(plans[p].lines) /\ IsList(ext.added)
    BY <1>2, <1>3 DEF IsPlan, ExtOk, Fresh
  <2> QED
    BY <1>4, <2>1, ConcatHas
<1>8. ASSUME JokerApart, NEW h \in DOMAIN plans' PROVE AllFine(plans'[h].lines)
  <2>1. AllFine(NoPlan.lines) /\ AllFine(plans[p].lines) /\ AllFine(ext.added)
    BY <1>2, <1>8, NoPlanIs, FineGrows DEF FineInv
  <2>2. AllFine(mid[p].lines)
    BY <1>7, <2>1, FineGrows
  <2>3. \A j \in DOMAIN plans : j # p => AllFine(mid[j].lines)
    BY <1>4, <1>8 DEF FineInv
  <2> QED
    BY <1>5, <1>6, <2>1, <2>2, <2>3 DEF Appended
<1> QED
  BY <1>1, <1>8, FineMoves

LEMMA FineStep ==
  CourtsInv /\ CapInv /\ CountInv /\ EveningOk(inp) /\ SeatInv /\ FineInv /\ [Next]_vars => FineInv'
<1> SUFFICES ASSUME CourtsInv, CapInv, CountInv, EveningOk(inp), SeatInv, FineInv, [Next]_vars
             PROVE  FineInv'
  OBVIOUS
<1>1. DayInv /\ HourInv
  BY DEF CourtsInv
<1>2. CASE SkipTime \/ NextGroup \/ FindRound \/ NextLayer \/ LayersDone \/ RotationDone
  BY <1>1, <1>2, PlanningFine
<1>3. CASE GroupsDone \/ RoundPlaced \/ Finish \/ RetryRound \/ UNCHANGED vars
  BY <1>3, LoopsFine
<1>4. CASE NotEnoughPlayers
  BY <1>1, <1>4, NotEnoughFine
<1>5. CASE JoinSession \/ JoinCourt
  BY <1>5, JoinFine
<1>6. CASE PlanHour \/ Escalate
  BY <1>1, <1>6, PlanHourFine
<1>7. CASE BookGroupRound
  BY <1>1, <1>7, BookGroupRoundFine
<1>8. CASE PlacePair
  BY <1>1, <1>8, PlacePairFine
<1>9. CASE ExtendRound
  BY <1>1, <1>9, ExtendRoundFine
<1>10. CASE CourtJoined
  BY <1>1, <1>10, CourtJoinedFine
<1>11. CASE AcceptPlan
  BY <1>1, <1>11, AcceptPlanFine
<1>12. CASE LateJoined
  BY <1>1, <1>12, LateJoinedFine
<1> QED
  BY <1>2, <1>3, <1>4, <1>5, <1>6, <1>7, <1>8, <1>9, <1>10, <1>11, <1>12 DEF Next

LEMMA FineInit == Init => FineInv
<1> SUFFICES ASSUME Init PROVE FineInv
  OBVIOUS
<1>1. work = Idle /\ ext = NoExt /\ plans = << >>
  BY DEF Init
<1>2. DOMAIN plans = {}
  BY <1>1, EmptyHas
<1> QED
  BY <1>1, <1>2 DEF FineInv

\* The lines proposed are those lists.
LEMMA FineFollows == ASSUME DayInv, FineInv PROVE NamesAccepted
<1> SUFFICES ASSUME JokerApart, NEW x \in DOMAIN Proposed PROVE Fine(Proposed[x])
  BY DEF NamesAccepted, Fine
<1>1. /\ \A h \in DOMAIN plans : AllFine(plans[h].lines)
      /\ AllFine(Underway) /\ AllFine(Added)
  BY FineGrows DEF FineInv, Underway, Added
<1>2. ASSUME x \in DOMAIN Booked, Proposed[x] = Booked[x] PROVE Fine(Proposed[x])
  <2>1. x \in PlacesIn(plans) /\ Proposed[x] = LinesIn(plans)[x]
    BY <1>2, LedgerIs DEF KeptIn
  <2>2. Proposed[x] = plans[x[1]].lines[x[2]] /\ x[1] \in DOMAIN plans /\ x[2] \in DOMAIN plans[x[1]].lines
    BY <2>1, PlaceIs DEF LinesIn
  <2> QED
    BY <1>1, <2>2 DEF AllFine
<1>3. ASSUME NEW n \in DOMAIN Underway, Proposed[x] = Underway[n] PROVE Fine(Proposed[x])
  BY <1>1, <1>3 DEF AllFine
<1>4. ASSUME NEW n \in DOMAIN Added, Proposed[x] = Added[n] PROVE Fine(Proposed[x])
  BY <1>1, <1>4 DEF AllFine
<1> QED
  BY <1>2, <1>3, <1>4, ProposedIs

LEMMA FineInvariant == Spec => []FineInv
<1>1. Init => FineInv
  BY FineInit
<1>2. PlayInv /\ FineInv /\ [Next]_vars => FineInv'
  BY FineStep DEF PlayInv
<1> QED
  BY <1>1, <1>2, PlayInvariant, PTL DEF Spec

\* The club would accept every line proposed, on a booked, a planned or an added round: two
\* different names, the joker only as the partner, and nobody unregistered but the joker and the
\* volunteers an extension puts in because of the limit (NamesAccepted).  Nobody is named twice
\* because the players of a pair or group are distinct (EveningOk, SeatInv), those who stand in
\* are taken from a list that has none of them (Reserve), and the joker comes last.
THEOREM NamesAlwaysAccepted == Spec => []NamesAccepted
<1>1. PlayInv /\ FineInv => NamesAccepted
  BY FineFollows DEF PlayInv, CourtsInv
<1> QED
  BY <1>1, PlayInvariant, FineInvariant, PTL

-----------------------------------------------------------------------------
(* How often the rounds of a group name each member.                        *)

\* The rounds, of the first n, on which the i-th of a group of `size` is named.
NamedIn(size, i, n) == Cardinality({k \in 0 .. (n - 1) : i \in ToSet(TeamrNamesForRound(size, k))})
\* The lines on which somebody stands in.
Foreign(lines, members) == {n \in DOMAIN lines : ~(NamesOf(lines[n]) \subseteq ToSet(members))}

\* A member has been named on the rounds so far, or somebody stood in.
EnoughFor(lines, members) ==
  \A i \in DOMAIN members :
    NamedIn(Len(members), i, Cardinality(DOMAIN lines))
      <= Count(lines, members[i]) + Cardinality(Foreign(lines, members))

EnoughInv ==
  work # Idle /\ work.common /\ JokerApart =>
    \A g \in DOMAIN work.groups : EnoughFor(LinesOf(work.lines, g), work.groups[g].members)

\* A set that gets one element, or none.
LEMMA OneMore ==
  ASSUME NEW A, IsFiniteSet(A), NEW x, x \notin A, NEW B, B \in {A, A \cup {x}}
  PROVE  /\ Cardinality(A) \in Nat /\ Cardinality(B) \in Nat /\ Cardinality(B) >= Cardinality(A)
         /\ x \in B => Cardinality(B) = Cardinality(A) + 1
         /\ x \notin B => B = A
<1>1. Cardinality(A) \in Nat
  BY FS_CardinalityType
<1>2. Cardinality(A \cup {x}) = Cardinality(A) + 1
  BY FS_AddElement
<1> QED
  BY <1>1, <1>2

\* One round more.
LEMMA NamedMore ==
  ASSUME NEW size, NEW i, NEW n \in Nat
  PROVE  /\ NamedIn(size, i, n) \in Nat /\ NamedIn(size, i, n + 1) \in Nat
         /\ NamedIn(size, i, n + 1) >= NamedIn(size, i, n)
         /\ i \in ToSet(TeamrNamesForRound(size, n)) =>
              NamedIn(size, i, n + 1) = NamedIn(size, i, n) + 1
         /\ i \notin ToSet(TeamrNamesForRound(size, n)) =>
              NamedIn(size, i, n + 1) = NamedIn(size, i, n)
<1>1. PICK A, B : /\ A = {k \in 0 .. (n - 1) : i \in ToSet(TeamrNamesForRound(size, k))}
                  /\ B = {k \in 0 .. (n + 1 - 1) : i \in ToSet(TeamrNamesForRound(size, k))}
  OBVIOUS
<1>2. NamedIn(size, i, n) = Cardinality(A) /\ NamedIn(size, i, n + 1) = Cardinality(B)
  BY <1>1 DEF NamedIn
<1>3. A \subseteq 0 .. (n - 1) /\ n \notin A
  BY <1>1
<1>4. IsFiniteSet(A)
  <2>1. IsFiniteSet(0 .. (n - 1))
    BY FS_Interval
  <2> QED
    BY <1>3, <2>1, FS_Subset
<1>5. 0 .. (n + 1 - 1) = (0 .. (n - 1)) \cup {n}
  OBVIOUS
<1>6. n \in B <=> i \in ToSet(TeamrNamesForRound(size, n))
  BY <1>1, <1>5
<1>7. B \in {A, A \cup {n}}
  BY <1>1, <1>5
<1> QED
  BY <1>2, <1>3, <1>4, <1>6, <1>7, OneMore

LEMMA NamedNever ==
  ASSUME NEW size, NEW i PROVE NamedIn(size, i, 0) = 0
<1>1. {k \in 0 .. (0 - 1) : i \in ToSet(TeamrNamesForRound(size, k))} = {}
  OBVIOUS
<1> QED
  BY <1>1, FS_EmptySet DEF NamedIn

\* Of three, each is named on two rounds of three.
LEMMA TwoOfThree ==
  ASSUME NEW n \in {0, 3, 6, 9}, NEW i \in 1 .. 3
  PROVE  NamedIn(3, i, n) \in Nat /\ NamedIn(3, i, n + 3) >= NamedIn(3, i, n) + 2
<1>1. n \in Nat /\ n + 1 \in Nat /\ n + 2 \in Nat
  OBVIOUS
<1>2. n % 3 = 0 /\ (n + 1) % 3 = 1 /\ (n + 2) % 3 = 2
  OBVIOUS
<1>3. /\ TeamrNamesForRound(3, n) = <<1, 2>>
      /\ TeamrNamesForRound(3, n + 1) = <<1, 3>>
      /\ TeamrNamesForRound(3, n + 2) = <<2, 3>>
  BY <1>2 DEF TeamrNamesForRound
<1>4. ToSet(<<1, 2>>) = {1, 2} /\ ToSet(<<1, 3>>) = {1, 3} /\ ToSet(<<2, 3>>) = {2, 3}
  BY DEF ToSet
<1>5. PICK h : h = [k \in {n, n + 1, n + 2} |-> ToSet(TeamrNamesForRound(3, k))]
  OBVIOUS
<1>6. h[n] = {1, 2} /\ h[n + 1] = {1, 3} /\ h[n + 2] = {2, 3}
  BY <1>3, <1>4, <1>5
<1>7. PICK a, b, c, d : /\ a = NamedIn(3, i, n) /\ b = NamedIn(3, i, n + 1)
                        /\ c = NamedIn(3, i, n + 2) /\ d = NamedIn(3, i, n + 3)
  OBVIOUS
<1>8. a \in Nat /\ b \in Nat /\ (i \in h[n] => b = a + 1) /\ b >= a
  BY <1>1, <1>5, <1>7, NamedMore
<1>9. c \in Nat /\ (i \in h[n + 1] => c = b + 1) /\ c >= b
  <2>1. (n + 1) + 1 = n + 2
    OBVIOUS
  <2> QED
    BY <1>1, <1>5, <1>7, <2>1, NamedMore
<1>10. d \in Nat /\ (i \in h[n + 2] => d = c + 1) /\ d >= c
  <2>1. (n + 2) + 1 = n + 3
    OBVIOUS
  <2> QED
    BY <1>1, <1>5, <1>7, <2>1, NamedMore
<1> QED
  BY <1>6, <1>7, <1>8, <1>9, <1>10

LEMMA NamedTwelve ==
  ASSUME NEW i \in 1 .. 3 PROVE NamedIn(3, i, 12) \in Nat /\ NamedIn(3, i, 12) >= 8
<1>1. NamedIn(3, i, 0) = 0
  BY NamedNever
<1>2. NamedIn(3, i, 3) >= NamedIn(3, i, 0) + 2 /\ NamedIn(3, i, 3) \in Nat
  BY TwoOfThree
<1>3. NamedIn(3, i, 6) >= NamedIn(3, i, 3) + 2 /\ NamedIn(3, i, 6) \in Nat
  BY TwoOfThree
<1>4. NamedIn(3, i, 9) >= NamedIn(3, i, 6) + 2 /\ NamedIn(3, i, 9) \in Nat
  BY TwoOfThree
<1>5. NamedIn(3, i, 12) >= NamedIn(3, i, 9) + 2
  BY TwoOfThree
<1>6. NamedIn(3, i, 12) \in Nat
  BY NamedMore
<1> QED
  BY <1>1, <1>2, <1>3, <1>4, <1>5, <1>6

\* The rounds a group needs name each of its members as often as they ask.
LEMMA RoundsEnough ==
  ASSUME NEW members, IsGroup(members), NEW slots, \A p \in DOMAIN slots : slots[p] \in 1 .. 6,
         NEW i \in DOMAIN members
  PROVE  /\ Demand(members[i], slots) \in 1 .. 6
         /\ NamedIn(Len(members), i, ComputeRoundsNeeded(members, slots)) \in Nat
         /\ NamedIn(Len(members), i, ComputeRoundsNeeded(members, slots)) >= Demand(members[i], slots)
<1>1. \A p : Demand(p, slots) \in 1 .. 6
  BY DEF Demand, DEFAULT_MIN_PLAY_SLOTS
<1>2. Len(members) \in Nat /\ DOMAIN members = 1 .. Len(members) /\ DOMAIN members \in {1 .. 2, 1 .. 3}
  BY ListHas DEF IsGroup
<1>3. PICK rounds : rounds = ComputeRoundsNeeded(members, slots)
  OBVIOUS
<1>4. CASE Len(members) = 2
  <2>1. PICK S : S = {Demand(members[j], slots) : j \in DOMAIN members}
    OBVIOUS
  <2>2. rounds = Max(S)
    BY <1>3, <1>4, <2>1 DEF ComputeRoundsNeeded
  <2>3. S \subseteq 1 .. 6 /\ S # {} /\ Demand(members[i], slots) \in S
    BY <1>1, <2>1
  <2>4. rounds \in S /\ rounds >= Demand(members[i], slots)
    <3>1. PICK a \in Int, b \in Int : a = 1 /\ b = 6
      OBVIOUS
    <3>2. IsFiniteSet(a .. b) /\ S \subseteq a .. b
      BY <2>3, <3>1, FS_Interval
    <3>3. IsFiniteSet(S)
      <4>1. S \in SUBSET (a .. b)
        BY <3>2
      <4> QED
        BY <3>2, <4>1, FS_Subset
    <3>4. S \subseteq Int
      BY <2>3
    <3> QED
      BY <2>2, <2>3, <3>3, <3>4, MaxType
  <2>5. i \in {1, 2}
    BY <1>2, <1>4
  <2>6. {k \in 0 .. (rounds - 1) : i \in ToSet(TeamrNamesForRound(2, k))} = 0 .. (rounds - 1)
    <3>1. \A k : TeamrNamesForRound(2, k) = <<1, 2>>
      BY DEF TeamrNamesForRound
    <3>2. ToSet(<<1, 2>>) = {1, 2}
      BY DEF ToSet
    <3> QED
      BY <2>5, <3>1, <3>2
  <2>7. Cardinality(0 .. (rounds - 1)) = rounds
    BY <2>3, <2>4, FS_Interval
  <2>8. NamedIn(2, i, rounds) = rounds
    BY <2>6, <2>7 DEF NamedIn
  <2> QED
    BY <1>1, <1>3, <1>4, <2>3, <2>4, <2>8
<1>5. CASE Len(members) = 3
  <2>1. PICK S : S = {n \in 1 .. 12 : \A j \in 1 .. 3 :
                                         NamedIn(3, j, n) >= Demand(members[j], slots)}
    OBVIOUS
  <2>2. rounds = Min(S)
    BY <1>3, <1>5, <2>1 DEF ComputeRoundsNeeded, NamedIn
  <2>3. 12 \in S
    <3>1. ASSUME NEW j \in 1 .. 3 PROVE NamedIn(3, j, 12) >= Demand(members[j], slots)
      <4>1. Demand(members[j], slots) \in 1 .. 6
        BY <1>1
      <4> QED
        BY <4>1, NamedTwelve
    <3> QED
      BY <2>1, <3>1
  <2>4. S \subseteq Nat
    BY <2>1
  <2>5. rounds \in S
    BY <2>2, <2>3, <2>4, MinType
  <2>6. i \in 1 .. 3 /\ rounds \in Nat /\ NamedIn(3, i, rounds) >= Demand(members[i], slots)
    BY <1>2, <1>5, <2>1, <2>5
  <2>7. NamedIn(3, i, rounds) \in Nat
    BY <2>6, NamedMore
  <2> QED
    BY <1>1, <1>3, <1>5, <2>6, <2>7
<1>6. Len(members) = 2 \/ Len(members) = 3
  BY <1>2
<1> QED
  BY <1>4, <1>5, <1>6

\* The lines of a group when a line is added: one more if it is the group's.
LEMMA LinesOfOther ==
  ASSUME NEW lines, IsList(lines), NEW line, NEW more, Appended(lines, line, more), NEW of, line.of # of
  PROVE  LinesOf(more, of) = LinesOf(lines, of)
<1> DEFINE mine == {n \in DOMAIN lines : lines[n].of = of}
           new == {n \in DOMAIN more : more[n].of = of}
<1>1. LinesOf(lines, of) = [n \in mine |-> lines[n]] /\ LinesOf(more, of) = [n \in new |-> more[n]]
  BY DEF LinesOf, RestrictValues, Restrict
<1>2. new = mine
  BY DEF Appended
<1>3. \A n \in mine : lines[n] = more[n]
  BY DEF Appended
<1> HIDE DEF mine, new
<1>4. [n \in mine |-> lines[n]] = [n \in new |-> more[n]]
  BY <1>2, <1>3
<1> QED
  BY <1>1, <1>4

\* grown is own with the line added at last.
GrownBy(own, line, grown, last) ==
  /\ last \notin DOMAIN own /\ DOMAIN grown = DOMAIN own \cup {last}
  /\ grown[last] = line /\ \A n \in DOMAIN own : grown[n] = own[n]

LEMMA LinesOfOwner ==
  ASSUME NEW lines, IsList(lines), NEW line, NEW more, Appended(lines, line, more), NEW of, line.of = of
  PROVE  GrownBy(LinesOf(lines, of), line, LinesOf(more, of), Len(lines) + 1)
<1> PICK own, grown, last : own = LinesOf(lines, of) /\ grown = LinesOf(more, of) /\ last = Len(lines) + 1
  OBVIOUS
<1> DEFINE mine == {n \in DOMAIN lines : lines[n].of = of}
           new == {n \in DOMAIN more : more[n].of = of}
<1>1. LinesOf(lines, of) = [n \in mine |-> lines[n]] /\ LinesOf(more, of) = [n \in new |-> more[n]]
  BY DEF LinesOf, RestrictValues, Restrict
<1>2. last \notin DOMAIN lines
  BY ListHas
<1>3. /\ DOMAIN more = DOMAIN lines \cup {last} /\ more[last] = line
      /\ \A n \in DOMAIN lines : more[n] = lines[n]
  BY DEF Appended
<1>4. new = mine \cup {last} /\ last \notin mine
  BY <1>2, <1>3
<1>5. \A n \in mine : lines[n] = more[n]
  BY <1>3
<1> HIDE DEF mine, new
<1> QED
  BY <1>1, <1>3, <1>4, <1>5 DEF GrownBy

LEMMA LinesOfFinite ==
  ASSUME NEW lines, IsList(lines), NEW of PROVE IsFiniteSet(DOMAIN LinesOf(lines, of))
<1>1. PICK D : D = DOMAIN LinesOf(lines, of)
  OBVIOUS
<1>2. D = {i \in DOMAIN lines : lines[i].of = of}
  BY <1>1, LinesOfIs
<1>3. D \in SUBSET DOMAIN lines
  BY <1>2
<1>4. IsFiniteSet(DOMAIN lines)
  BY ListHas
<1> QED
  BY <1>1, <1>3, <1>4, FS_Subset

\* One line more for a group: it names the members whose round it is, or somebody stands in.
LEMMA EnoughGrows ==
  ASSUME NEW members, NEW lines, NEW more, NEW last, NEW line,
         IsFiniteSet(DOMAIN lines), last \notin DOMAIN lines,
         DOMAIN more = DOMAIN lines \cup {last}, more[last] = line,
         \A n \in DOMAIN lines : more[n] = lines[n],
         NEW names, names = TeamrNamesForRound(Len(members), Cardinality(DOMAIN lines)),
         \/ ~(NamesOf(line) \subseteq ToSet(members))
         \/ \A i \in ToSet(names) : members[i] \in NamesOf(line),
         EnoughFor(lines, members)
  PROVE  EnoughFor(more, members)
<1> SUFFICES ASSUME NEW i \in DOMAIN members
             PROVE  NamedIn(Len(members), i, Cardinality(DOMAIN more))
                      <= Count(more, members[i]) + Cardinality(Foreign(more, members))
  BY DEF EnoughFor
<1>1. PICK p, size, n : /\ p = members[i] /\ size = Len(members) /\ n = Cardinality(DOMAIN lines)
  OBVIOUS
<1>2. n \in Nat /\ Cardinality(DOMAIN more) = n + 1
  BY <1>1, FS_CardinalityType, FS_AddElement
<1>3. PICK A, B : /\ A = {k \in DOMAIN lines : p \in NamesOf(lines[k])}
                  /\ B = {k \in DOMAIN more : p \in NamesOf(more[k])}
  OBVIOUS
<1>4. Count(lines, p) = Cardinality(A) /\ Count(more, p) = Cardinality(B)
  BY <1>3 DEF Count
<1>5. /\ A \in SUBSET DOMAIN lines /\ last \notin A /\ B \in {A, A \cup {last}}
      /\ last \in B <=> p \in NamesOf(line)
  BY <1>3
<1>6. /\ Cardinality(A) \in Nat /\ Cardinality(B) \in Nat /\ Cardinality(B) >= Cardinality(A)
      /\ p \in NamesOf(line) => Cardinality(B) = Cardinality(A) + 1
  <2>1. IsFiniteSet(A)
    BY <1>5, FS_Subset
  <2> QED
    BY <1>5, <2>1, OneMore
<1>7. PICK C, D : C = Foreign(lines, members) /\ D = Foreign(more, members)
  OBVIOUS
<1>8. /\ C \in SUBSET DOMAIN lines /\ last \notin C /\ D \in {C, C \cup {last}}
      /\ last \in D <=> ~(NamesOf(line) \subseteq ToSet(members))
  BY <1>7 DEF Foreign
<1>9. /\ Cardinality(C) \in Nat /\ Cardinality(D) \in Nat /\ Cardinality(D) >= Cardinality(C)
      /\ ~(NamesOf(line) \subseteq ToSet(members)) => Cardinality(D) = Cardinality(C) + 1
  <2>1. IsFiniteSet(C)
    BY <1>8, FS_Subset
  <2> QED
    BY <1>8, <2>1, OneMore
<1>10. PICK x, y : x = NamedIn(size, i, n) /\ y = NamedIn(size, i, n + 1)
  OBVIOUS
<1>11. /\ x \in Nat /\ y \in Nat /\ (i \in ToSet(names) => y = x + 1)
       /\ i \notin ToSet(names) => y = x
  BY <1>1, <1>2, <1>10, NamedMore
<1>12. x <= Cardinality(A) + Cardinality(C)
  BY <1>1, <1>4, <1>7, <1>10 DEF EnoughFor
<1>13. y <= Cardinality(B) + Cardinality(D)
  <2>1. CASE i \notin ToSet(names)
    BY <1>6, <1>9, <1>11, <1>12, <2>1
  <2>2. CASE i \in ToSet(names) /\ p \in NamesOf(line)
    BY <1>6, <1>9, <1>11, <1>12, <2>2
  <2>3. CASE ~(NamesOf(line) \subseteq ToSet(members))
    BY <1>6, <1>9, <1>11, <1>12, <2>3
  <2> QED
    BY <1>1, <2>1, <2>2, <2>3
<1> QED
  BY <1>1, <1>2, <1>4, <1>7, <1>10, <1>13

\* No line, no round.
LEMMA EnoughNone == ASSUME NEW of, NEW members PROVE EnoughFor(LinesOf(<< >>, of), members)
<1>1. PICK own : own = LinesOf(<< >>, of)
  OBVIOUS
<1>2. DOMAIN own = {}
  BY <1>1, EmptyHas, LinesOfIs
<1>3. Cardinality(DOMAIN own) = 0
  BY <1>2, FS_EmptySet
<1>4. ASSUME NEW i \in DOMAIN members
      PROVE  NamedIn(Len(members), i, 0) <= Count(own, members[i]) + Cardinality(Foreign(own, members))
  <2>1. {k \in DOMAIN own : members[i] \in NamesOf(own[k])} = {} /\ Foreign(own, members) = {}
    BY <1>2 DEF Foreign
  <2>2. Count(own, members[i]) = 0 /\ Cardinality(Foreign(own, members)) = 0
    BY <2>1, FS_EmptySet DEF Count
  <2> QED
    BY <2>2, NamedNever
<1> QED
  BY <1>1, <1>3, <1>4 DEF EnoughFor

\* A step that leaves the lines of the hour, or that queues.
LEMMA EnoughStays ==
  ASSUME EnoughInv, inp' = inp,
         work' # Idle => /\ work # Idle /\ work'.groups = work.groups /\ work'.common = work.common
                         /\ work'.lines = work.lines \/ ~work.common
  PROVE  EnoughInv'
<1>1. JokerApart' = JokerApart
  BY FineSame
<1>2. ASSUME work' # Idle, work'.common, JokerApart, NEW g \in DOMAIN work'.groups
      PROVE  EnoughFor(LinesOf(work'.lines, g), work'.groups[g].members)
  BY <1>2 DEF EnoughInv
<1> QED
  BY <1>1, <1>2 DEF EnoughInv

\* Steps that book no round of a group.
LEMMA PlanningEnough ==
  ASSUME EnoughInv, SeatInv, HourInv,
         \/ SkipTime \/ NextGroup \/ FindRound \/ NextLayer \/ LayersDone \/ RotationDone
         \/ PlacePair \/ CourtJoined
  PROVE  EnoughInv'
<1>1. /\ pc \in {"timeline", "round", "place", "rotate", "extend"} /\ inp' = inp
      /\ pc = "extend" => work # Idle
  BY DEF SkipTime, NextGroup, FindRound, NextLayer, LayersDone, RotationDone, PlacePair,
         CourtJoined, ExtensionEnds
<1>2. work # Idle
  BY <1>1 DEF HourInv, StageOk
<1>3. pc \in {"round", "place", "rotate", "extend"} => ~work.common
  BY <1>1, <1>2 DEF SeatInv
<1>4. work'.groups = work.groups /\ work'.common = work.common /\ (work'.lines = work.lines \/ ~work.common)
  <2>1. CASE SkipTime
    BY <2>1 DEF SkipTime
  <2>2. CASE NextGroup
    BY <2>2 DEF NextGroup
  <2>3. CASE FindRound
    BY <2>3 DEF FindRound
  <2>4. CASE NextLayer
    BY <2>4 DEF NextLayer
  <2>5. CASE LayersDone
    BY <2>5 DEF LayersDone
  <2>6. CASE RotationDone
    BY <2>6 DEF RotationDone
  <2>7. CASE PlacePair
    <3>1. ~work.common
      BY <1>3, <2>7 DEF PlacePair
    <3>2. PICK batch, cursor, queue, lines :
            work' = [work EXCEPT !.batch = batch, !.cursor = cursor, !.queue = queue, !.lines = lines]
      BY <2>7 DEF PlacePair
    <3> QED
      BY <3>1, <3>2
  <2>8. CASE CourtJoined
    <3>1. ~work.common
      BY <1>3, <2>8 DEF CourtJoined, ExtensionEnds
    <3>2. PICK lines, k, left, queue, extra, groups :
            work' = [work EXCEPT !.lines = lines, !.k = k, !.left = left, !.queue = queue,
                                 !.extra = extra, !.courtGroups = groups]
      BY <2>8 DEF CourtJoined
    <3> QED
      BY <3>1, <3>2
  <2> QED
    BY <2>1, <2>2, <2>3, <2>4, <2>5, <2>6, <2>7, <2>8
<1> QED
  BY <1>1, <1>2, <1>4, EnoughStays

\* Steps between the hours, and those that leave the plan of the hour alone.
LEMMA LoopsEnough ==
  ASSUME EnoughInv,
         \/ GroupsDone \/ RoundPlaced \/ Finish \/ RetryRound \/ UNCHANGED vars
         \/ NotEnoughPlayers \/ JoinSession \/ JoinCourt \/ ExtendRound \/ AcceptPlan \/ LateJoined
  PROVE  EnoughInv'
<1>1. inp' = inp /\ (work' = work \/ work' = Idle)
  BY DEF GroupsDone, RoundPlaced, Finish, RetryRound, vars, NotEnoughPlayers, JoinSession, JoinCourt,
         ExtendRound, AcceptPlan, LateJoined
<1> QED
  BY <1>1, EnoughStays

\* A plan begins without a line.
LEMMA BeginEnough ==
  ASSUME PlanHour \/ Escalate PROVE EnoughInv'
<1>1. work'.lines = << >>
  BY DEF PlanHour, Escalate, Begin, Attempt
<1>2. \A g \in DOMAIN work'.groups : EnoughFor(LinesOf(work'.lines, g), work'.groups[g].members)
  BY <1>1, EnoughNone
<1> QED
  BY <1>2 DEF EnoughInv

\* A round of a group names the two members whose turn it is, or somebody who is not one of them.
LEMMA BookGroupRoundEnough ==
  ASSUME EnoughInv, CountInv, CapInv, SeatInv, HourInv, EveningOk(inp), BookGroupRound PROVE EnoughInv'
<1> DEFINE found == Bookable(GroupRound, OwnLines)
<1>1. PICK court :
        /\ pc = "timeline" /\ pc' = pc /\ UNCHANGED <<inp, plans, ext>> /\ work.g <= Len(work.groups)
        /\ found.pair # Unbookable
        /\ work' = [work EXCEPT !.lines = Append(@, Line(<<court, work.t>>, found.pair, work.g)),
                                !.queue = found.queue, !.court = court, !.t = @ + 1]
  BY DEF BookGroupRound
<1>2. work # Idle /\ Hour \in DOMAIN inp.hours
  BY <1>1 DEF HourInv, StageOk
<1>3. /\ SeatsOk(work) /\ Reserve(work.queue) /\ work.common
      /\ Fresh(work.lines, inp.free \ used) /\ TimelineCounted(work, Attending)
  BY <1>1, <1>2 DEF SeatInv, AsideOk, HourInv, WorkOk, CountInv, StageCounted
<1>4. work.g \in DOMAIN work.groups
  <2>1. IsList(work.groups) /\ work.g \in Nat \ {0}
    BY <1>1, <1>2, <1>3 DEF TimelineCounted, CapInv, CapOk
  <2> QED
    BY <1>1, <2>1, ListHas
<1>5. PICK members, own, pair : /\ members = work.groups[work.g].members
                                /\ own = OwnLines /\ pair = GroupRound
  OBVIOUS
<1>6. IsGroup(members) /\ Distinct(members) /\ ToSet(members) \subseteq ToSet(Confirmed)
  BY <1>2, <1>3, <1>4, <1>5, GroupSeats
<1>7. DOMAIN pair = 1 .. 2 /\ pair[1] # pair[2] /\ {pair[1], pair[2]} \subseteq ToSet(members)
  BY <1>3, <1>5, <1>6, GroupRoundDiffers DEF Fresh
<1>8. PICK names : names = TeamrNamesForRound(Len(members), Cardinality(DOMAIN own))
  OBVIOUS
<1>9. pair = <<members[names[1]], members[names[2]]>> /\ \A i \in ToSet(names) : i \in {names[1], names[2]}
  <2>1. pair = <<members[names[1]], members[names[2]]>>
    BY <1>5, <1>8 DEF GroupRound
  <2>2. PICK r : r = Cardinality(DOMAIN own)
    OBVIOUS
  <2>3. DOMAIN names = 1 .. 2
    <3>1. CASE Len(members) # 3
      BY <1>8, <2>2, <3>1 DEF TeamrNamesForRound
    <3>2. CASE Len(members) = 3
      <4>1. r \in Nat
        BY <1>3, <1>5, <2>2, LinesOfIs DEF OwnLines, Fresh
      <4>2. r % 3 \in {0, 1, 2}
        BY <4>1
      <4>3. names = << <<1, 2>>, <<1, 3>>, <<2, 3>> >>[(r % 3) + 1]
        BY <1>8, <2>2, <3>2 DEF TeamrNamesForRound
      <4>4. names \in {<<1, 2>>, <<1, 3>>, <<2, 3>>}
        BY <4>2, <4>3
      <4> QED
        BY <4>4
    <3> QED
      BY <3>1, <3>2
  <2>4. \A i \in 1 .. 2 : i = 1 \/ i = 2
    OBVIOUS
  <2> QED
    BY <2>1, <2>3, <2>4 DEF ToSet
<1>10. PICK f, queue, line : /\ f = found.pair /\ queue = work.queue
                             /\ line = Line(<<court, work.t>>, found.pair, work.g)
  OBVIOUS
<1>11. line.of = work.g /\ NamesOf(line) = {f[1], f[2]}
  BY <1>10 DEF Line, NamesOf
<1>12. ASSUME JokerApart
       PROVE  \/ ~(NamesOf(line) \subseteq ToSet(members))
              \/ \A i \in ToSet(names) : members[i] \in NamesOf(line)
  <2>1. PICK blocked, left : blocked = Blocked(pair, own) /\ left = found.queue
    OBVIOUS
  <2>2. Standing(pair, queue, blocked, inp.joker, f, left)
    <3>1. Pool(work.queue)
      BY <1>3 DEF Reserve
    <3>2. PICK b : b = found
      OBVIOUS
    <3>3. b = Bookable(pair, own) /\ b.pair # Unbookable /\ b.pair = f /\ b.queue = left
      BY <1>1, <1>5, <1>10, <2>1, <3>2
    <3> QED
      BY <1>7, <1>10, <2>1, <3>1, <3>3, BookableNames
  <2>3. inp.joker \notin ToSet(members) /\ ToSet(queue) \cap ToSet(members) = {}
    <3>1. ToSet(Confirmed) \subseteq Voters
      BY <1>2, ConfirmedIs
    <3>2. ToSet(queue) \cap ToSet(Confirmed) = {}
      BY <1>3, <1>10 DEF Reserve, Lendable
    <3> QED
      BY <1>6, <1>12, <3>1, <3>2 DEF JokerApart
  <2>4. inp.joker \notin {pair[1], pair[2]} \cup ToSet(queue)
    <3>1. inp.joker \notin ToSet(queue)
      BY <1>3, <1>10, <1>12 DEF Reserve, Lendable, JokerApart
    <3> QED
      BY <1>7, <2>3, <3>1
  <2>5. CASE {f[1], f[2]} \subseteq {pair[1], pair[2]}
    <3>1. f[1] = pair[1] /\ f[2] = pair[2]
      BY <2>2, <2>4, <2>5 DEF Standing
    <3>2. pair[1] = members[names[1]] /\ pair[2] = members[names[2]]
      BY <1>9
    <3> QED
      BY <1>9, <1>11, <3>1, <3>2
  <2>6. CASE ~({f[1], f[2]} \subseteq {pair[1], pair[2]})
    <3>1. PICK i \in 1 .. 2 : f[i] \notin {pair[1], pair[2]}
      <4>1. 1 \in 1 .. 2 /\ 2 \in 1 .. 2
        OBVIOUS
      <4> QED
        BY <2>6, <4>1
    <3>2. f[i] = inp.joker \/ f[i] \in ToSet(queue)
      BY <2>2, <3>1 DEF Standing
    <3>3. f[i] \in {f[1], f[2]}
      OBVIOUS
    <3> QED
      BY <1>11, <2>3, <3>2, <3>3
  <2> QED
    BY <2>5, <2>6
<1>13. /\ work'.lines = Append(work.lines, line) /\ work'.groups = work.groups
       /\ work'.common = work.common
  BY <1>1, <1>3, <1>10 DEF SeatsOk, SeatFields, CountFields
<1>14. Appended(work.lines, line, work'.lines)
  BY <1>3, <1>13, AppendHas DEF Fresh
<1>15. ASSUME JokerApart, NEW g \in DOMAIN work.groups
       PROVE  EnoughFor(LinesOf(work'.lines, g), work.groups[g].members)
  <2>1. EnoughFor(LinesOf(work.lines, g), work.groups[g].members)
    BY <1>2, <1>3, <1>15 DEF EnoughInv
  <2>2. PICK lines, next : lines = work.lines /\ next = work'.lines
    OBVIOUS
  <2>3. IsList(lines) /\ Appended(lines, line, next)
    BY <1>3, <1>14, <2>2 DEF Fresh
  <2>4. CASE g # work.g
    <3>1. LinesOf(next, g) = LinesOf(lines, g)
      <4>1. line.of # g
        BY <1>11, <2>4
      <4> QED
        BY <2>3, <4>1, LinesOfOther
    <3> QED
      BY <2>1, <2>2, <3>1
  <2>5. CASE g = work.g
    <3>1. PICK more, last : more = LinesOf(next, g) /\ last = Len(lines) + 1
      OBVIOUS
    <3>2. own = LinesOf(lines, g)
      BY <1>5, <2>2, <2>5 DEF OwnLines
    <3>3. /\ last \notin DOMAIN own /\ DOMAIN more = DOMAIN own \cup {last}
          /\ more[last] = line /\ \A n \in DOMAIN own : more[n] = own[n]
      <4>1. line.of = g
        BY <1>11, <2>5
      <4>2. GrownBy(LinesOf(lines, g), line, LinesOf(next, g), Len(lines) + 1)
        BY <2>3, <4>1, LinesOfOwner
      <4> QED
        BY <3>1, <3>2, <4>2 DEF GrownBy
    <3>4. IsFiniteSet(DOMAIN own)
      BY <2>3, <3>2, LinesOfFinite
    <3>5. EnoughFor(own, members)
      BY <1>5, <2>1, <2>2, <2>5, <3>2
    <3>6. EnoughFor(more, members)
      BY <1>8, <1>12, <1>15, <3>3, <3>4, <3>5, EnoughGrows
    <3> QED
      BY <1>5, <2>2, <2>5, <3>1, <3>6
  <2> QED
    BY <2>4, <2>5
<1>16. JokerApart' = JokerApart
  BY <1>1, FineSame
<1> QED
  BY <1>13, <1>15, <1>16 DEF EnoughInv

LEMMA EnoughStep ==
  CourtsInv /\ CapInv /\ CountInv /\ EveningOk(inp) /\ SeatInv /\ EnoughInv /\ [Next]_vars => EnoughInv'
<1> SUFFICES ASSUME CourtsInv, CapInv, CountInv, EveningOk(inp), SeatInv, EnoughInv, [Next]_vars
             PROVE  EnoughInv'
  OBVIOUS
<1>1. HourInv
  BY DEF CourtsInv
<1>2. CASE BookGroupRound
  BY <1>1, <1>2, BookGroupRoundEnough
<1>3. CASE PlanHour \/ Escalate
  BY <1>3, BeginEnough
<1>4. CASE \/ SkipTime \/ NextGroup \/ FindRound \/ NextLayer \/ LayersDone \/ RotationDone
           \/ PlacePair \/ CourtJoined
  BY <1>1, <1>4, PlanningEnough
<1>5. CASE \/ GroupsDone \/ RoundPlaced \/ Finish \/ RetryRound \/ UNCHANGED vars
           \/ NotEnoughPlayers \/ JoinSession \/ JoinCourt \/ ExtendRound \/ AcceptPlan \/ LateJoined
  BY <1>5, LoopsEnough
<1> QED
  BY <1>2, <1>3, <1>4, <1>5 DEF Next

\* Once a group has all its rounds, they are as many as its members asked to be named on.
LEMMA EnoughFollows ==
  ASSUME CourtsInv, EveningOk(inp), SeatInv, EnoughInv PROVE EveryoneNamedEnough
<1> SUFFICES ASSUME pc = "accept", work.common, JokerApart, NEW g \in DOMAIN work.groups,
                    Cardinality(DOMAIN LinesOf(work.lines, g)) = work.groups[g].rounds,
                    NEW p \in ToSet(work.groups[g].members)
             PROVE  Count(LinesOf(work.lines, g), p)
                      + Cardinality(Foreign(LinesOf(work.lines, g), work.groups[g].members))
                        >= Demand(p, inp.minSlots)
  BY DEF EveryoneNamedEnough, Foreign
<1>1. work # Idle /\ Hour \in DOMAIN inp.hours
  BY DEF CourtsInv, HourInv, StageOk
<1>2. SeatsOk(work) /\ IsList(work.lines)
  BY <1>1 DEF SeatInv, CourtsInv, HourInv, WorkOk, Fresh
<1>3. PICK members, own, slots : /\ members = work.groups[g].members
                                 /\ own = LinesOf(work.lines, g) /\ slots = inp.minSlots
  OBVIOUS
<1>4. IsGroup(members) /\ work.groups[g].rounds = ComputeRoundsNeeded(members, slots)
  BY <1>1, <1>2, <1>3, GroupSeats
<1>5. PICK i \in DOMAIN members : p = members[i]
  BY <1>3 DEF ToSet
<1>6. /\ NamedIn(Len(members), i, ComputeRoundsNeeded(members, slots)) \in Nat
      /\ NamedIn(Len(members), i, ComputeRoundsNeeded(members, slots)) >= Demand(members[i], slots)
      /\ Demand(members[i], slots) \in 1 .. 6
  <2>1. \A q \in DOMAIN slots : slots[q] \in 1 .. 6
    BY <1>3 DEF EveningOk
  <2> QED
    BY <1>4, <2>1, RoundsEnough
<1>7. EnoughFor(own, members)
  BY <1>1, <1>3 DEF EnoughInv
<1>8. NamedIn(Len(members), i, Cardinality(DOMAIN own)) <= Count(own, p) + Cardinality(Foreign(own, members))
  BY <1>5, <1>7 DEF EnoughFor
<1>9. Count(own, p) \in Nat /\ Cardinality(Foreign(own, members)) \in Nat
  <2>1. IsFiniteSet(DOMAIN own)
    BY <1>2, <1>3, LinesOfFinite
  <2>2. PICK A, B : A = {n \in DOMAIN own : p \in NamesOf(own[n])} /\ B = Foreign(own, members)
    OBVIOUS
  <2>3. A \in SUBSET DOMAIN own /\ B \in SUBSET DOMAIN own
    BY <2>2 DEF Foreign
  <2>4. Cardinality(A) \in Nat /\ Cardinality(B) \in Nat
    BY <2>1, <2>3, FS_Subset, FS_CardinalityType
  <2> QED
    BY <2>2, <2>4 DEF Count
<1>10. Cardinality(DOMAIN own) = ComputeRoundsNeeded(members, slots)
  BY <1>3, <1>4
<1>11. Count(own, p) + Cardinality(Foreign(own, members)) >= Demand(p, slots)
  BY <1>5, <1>6, <1>8, <1>9, <1>10
<1> QED
  BY <1>3, <1>11

LEMMA EnoughInvariant == Spec => []EnoughInv
<1>1. Init => EnoughInv
  BY DEF Init, EnoughInv
<1>2. PlayInv /\ EnoughInv /\ [Next]_vars => EnoughInv'
  BY EnoughStep DEF PlayInv
<1> QED
  BY <1>1, <1>2, PlayInvariant, PTL DEF Spec

\* A group of the common case that got all its rounds named each of its members as often as they
\* asked, but for the lines on which somebody stands in (EveryoneNamedEnough).  The pairs of three
\* take turns (TeamrNamesForRound), so twelve rounds would name each eight times and nobody asks for
\* more than six; a line either names the two whose turn it is or somebody who is not of the group.
THEOREM EverybodyNamedEnough == Spec => []EveryoneNamedEnough
<1>1. PlayInv /\ EnoughInv => EveryoneNamedEnough
  BY EnoughFollows DEF PlayInv
<1> QED
  BY <1>1, PlayInvariant, EnoughInvariant, PTL
=============================================================================
