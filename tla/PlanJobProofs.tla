---------------------------- MODULE PlanJobProofs ----------------------------
(***************************************************************************)
(* Theorems about the booking plan (PlanJob): no court is asked for twice   *)
(* at a time, the ledger handed from hour to hour is true, no hour          *)
(* plans on more courts than the rule allows, and everybody who plays is    *)
(* counted.  They hold for any rule, votes, volunteers and free slots.      *)
(***************************************************************************)
EXTENDS PlanJob, FiniteSetTheorems, SequenceTheorems, TLAPS

-----------------------------------------------------------------------------
(* Lists, whatever they hold.                                               *)

IsList(s) == s \in Seq(ToSet(s))

\* A sequence over any set is a list, and a list has its numbers.
LEMMA ListOf == ASSUME NEW S, NEW s \in Seq(S) PROVE IsList(s)
<1>1. PICK n \in Nat : n = Len(s) /\ DOMAIN s = 1 .. n /\ s = [i \in 1 .. n |-> s[i]]
  BY LenProperties, SeqDef
<1>2. \A i \in 1 .. n : s[i] \in ToSet(s)
  BY <1>1 DEF ToSet
<1>3. s \in [1 .. n -> ToSet(s)]
  <2>1. PICK T : T = ToSet(s)
    OBVIOUS
  <2> QED
    BY <1>1, <1>2, <2>1
<1> QED
  BY <1>3, SeqDef DEF IsList

\* A function on the first n numbers is a list.
LEMMA ListFrom == ASSUME NEW n \in Nat, NEW s, s = [i \in 1 .. n |-> s[i]] PROVE IsList(s) /\ Len(s) = n
<1>1. \A i \in 1 .. n : s[i] \in ToSet(s)
  BY DEF ToSet
<1>2. s \in [1 .. n -> ToSet(s)]
  <2>1. PICK T : T = ToSet(s)
    OBVIOUS
  <2> QED
    BY <1>1, <2>1
<1>3. IsList(s)
  BY <1>2, SeqDef DEF IsList
<1>4. DOMAIN s = 1 .. n
  OBVIOUS
<1> QED
  BY <1>3, <1>4, LenProperties DEF IsList

\* A list has finitely many numbers, and is what it holds at them.
LEMMA ListHas ==
  ASSUME NEW s, IsList(s)
  PROVE  /\ Len(s) \in Nat /\ DOMAIN s = 1 .. Len(s) /\ IsFiniteSet(DOMAIN s)
         /\ s = [i \in 1 .. Len(s) |-> s[i]]
<1>1. Len(s) \in Nat /\ DOMAIN s = 1 .. Len(s) /\ s = [i \in 1 .. Len(s) |-> s[i]]
  BY LenProperties, SeqDef DEF IsList
<1>2. IsFiniteSet(1 .. Len(s))
  BY <1>1, FS_Interval
<1> QED
  BY <1>1, <1>2

\* The empty list.
LEMMA EmptyHas == IsList(<< >>) /\ Len(<< >>) = 0 /\ DOMAIN << >> = {}
<1>1. PICK e : e = << >>
  OBVIOUS
<1>2. e \in Seq({}) /\ Len(e) = 0
  BY <1>1, EmptySeq
<1>3. DOMAIN e = {}
  BY <1>2, LenProperties
<1> QED
  BY <1>1, <1>2, <1>3, ListOf

\* t is s and then e.
Appended(s, e, t) ==
  /\ IsList(t) /\ Len(t) = Len(s) + 1 /\ DOMAIN t = DOMAIN s \cup {Len(s) + 1}
  /\ \A i \in DOMAIN s : t[i] = s[i]
  /\ t[Len(s) + 1] = e

\* Append adds one element after the others.
LEMMA AppendHas ==
  ASSUME NEW s, IsList(s), NEW e
  PROVE  Appended(s, e, Append(s, e))
<1> DEFINE t == Append(s, e)
<1>1. PICK S : S = ToSet(s) \cup {e}
  OBVIOUS
<1>2. s \in Seq(ToSet(s)) /\ ToSet(s) \subseteq S
  BY <1>1 DEF IsList
<1>3. s \in Seq(S)
  <2>1. PICK T : T = ToSet(s)
    OBVIOUS
  <2> QED
    BY <1>2, <2>1, LenProperties, ElementOfSeq, SeqDef
<1>4. PICK n \in Nat : n = Len(s)
  BY <1>3, LenProperties
<1>5. e \in S
  BY <1>1
<1>6. t \in Seq(S) /\ Len(t) = n + 1 /\ (\A i \in 1 .. n : t[i] = s[i]) /\ t[n + 1] = e
  BY <1>3, <1>4, <1>5, AppendProperties
<1>7. DOMAIN s = 1 .. n /\ DOMAIN t = 1 .. (n + 1)
  BY <1>3, <1>4, <1>6, LenProperties
<1>8. 1 .. (n + 1) = (1 .. n) \cup {n + 1}
  BY <1>4
<1>9. IsList(t)
  BY <1>6, ListOf
<1> QED
  BY <1>4, <1>6, <1>7, <1>8, <1>9 DEF Appended

\* u is s and then t.
Joined(s, t, u) ==
  /\ IsList(u) /\ Len(u) = Len(s) + Len(t)
  /\ DOMAIN u = DOMAIN s \cup {Len(s) + i : i \in DOMAIN t}
  /\ \A i \in DOMAIN s : u[i] = s[i]
  /\ \A i \in DOMAIN t : u[Len(s) + i] = t[i]

\* \o adds the elements of a list after those of another.
LEMMA ConcatHas ==
  ASSUME NEW s, IsList(s), NEW t, IsList(t)
  PROVE  Joined(s, t, s \o t)
<1> DEFINE u == s \o t
<1>1. PICK S : S = ToSet(s) \cup ToSet(t)
  OBVIOUS
<1>3. s \in Seq(S)
  <2>1. PICK T : T = ToSet(s)
    OBVIOUS
  <2>2. s \in Seq(T) /\ T \subseteq S
    BY <1>1, <2>1 DEF IsList
  <2> QED
    BY <2>2, LenProperties, ElementOfSeq, SeqDef
<1>4. t \in Seq(S)
  <2>1. PICK T : T = ToSet(t)
    OBVIOUS
  <2>2. t \in Seq(T) /\ T \subseteq S
    BY <1>1, <2>1 DEF IsList
  <2> QED
    BY <2>2, LenProperties, ElementOfSeq, SeqDef
<1>5. PICK n \in Nat : n = Len(s)
  BY <1>3, LenProperties
<1>6. PICK m \in Nat : m = Len(t)
  BY <1>4, LenProperties
<1>7. u \in Seq(S) /\ Len(u) = n + m
      /\ \A i \in 1 .. n + m : u[i] = IF i <= n THEN s[i] ELSE t[i - n]
  BY <1>3, <1>4, <1>5, <1>6, ConcatProperties
<1>8. DOMAIN s = 1 .. n /\ DOMAIN t = 1 .. m /\ DOMAIN u = 1 .. n + m
  BY <1>3, <1>4, <1>5, <1>6, <1>7, LenProperties
<1>9. 1 .. n + m = (1 .. n) \cup {n + i : i \in 1 .. m}
  <2>1. ASSUME NEW k \in 1 .. n + m, k \notin 1 .. n PROVE k \in {n + i : i \in 1 .. m}
    <3>1. k - n \in 1 .. m /\ k = n + (k - n)
      BY <2>1
    <3> QED
      BY <3>1
  <2>2. 1 .. n \subseteq 1 .. n + m
    OBVIOUS
  <2>3. \A i \in 1 .. m : n + i \in 1 .. n + m
    OBVIOUS
  <2> QED
    BY <2>1, <2>2, <2>3
<1>10. \A i \in 1 .. m : u[n + i] = t[i]
  <2>1. ASSUME NEW i \in 1 .. m PROVE u[n + i] = t[i]
    <3>1. n + i \in 1 .. n + m /\ ~(n + i <= n) /\ (n + i) - n = i
      OBVIOUS
    <3> QED
      BY <1>7, <3>1
  <2> QED
    BY <2>1
<1>11. IsList(u)
  BY <1>7, ListOf
<1>12. DOMAIN u = DOMAIN s \cup {n + i : i \in DOMAIN t}
  BY <1>8, <1>9
<1>13. \A i \in DOMAIN s : u[i] = s[i]
  BY <1>7, <1>8
<1> QED
  BY <1>5, <1>6, <1>7, <1>8, <1>10, <1>11, <1>12, <1>13 DEF Joined

\* t is s without its first element.
Shortened(s, t) ==
  /\ 1 \in DOMAIN s /\ IsList(t) /\ DOMAIN t \subseteq Nat
  /\ \A i \in DOMAIN t : i + 1 \in DOMAIN s /\ i + 1 # 1 /\ t[i] = s[i + 1]

\* Tail moves each element but the first one place down.
LEMMA TailHas ==
  ASSUME NEW s, IsList(s), s # << >>
  PROVE  Shortened(s, Tail(s))
<1> DEFINE t == Tail(s)
<1>1. PICK S : S = ToSet(s)
  OBVIOUS
<1>2. s \in Seq(S)
  BY <1>1 DEF IsList
<1>3. PICK n \in Nat : n = Len(s) /\ DOMAIN s = 1 .. n
  BY <1>2, LenProperties
<1>4. n >= 1
  BY <1>2, <1>3, EmptySeq
<1>5. t \in Seq(S) /\ Len(t) = n - 1 /\ \A i \in 1 .. n - 1 : t[i] = s[i + 1]
  BY <1>2, <1>3, HeadTailProperties
<1>6. DOMAIN t = 1 .. n - 1
  BY <1>5, LenProperties
<1>7. IsList(t)
  BY <1>5, ListOf
<1> QED
  BY <1>3, <1>4, <1>5, <1>6, <1>7 DEF Shortened

(* Lines on different slots.                                                *)

\* No two of the lines ask for the same slot.
Once(lines) == \A i, j \in DOMAIN lines : lines[i].slot = lines[j].slot => i = j
Fresh(lines, room) == IsList(lines) /\ Once(lines) /\ Slots(lines) \subseteq room

\* No line takes no slot.
LEMMA FreshEmpty == ASSUME NEW room PROVE Fresh(<< >>, room) /\ Slots(<< >>) = {}
<1>1. PICK e : e = << >>
  OBVIOUS
<1>2. IsList(e) /\ DOMAIN e = {}
  BY <1>1, EmptyHas
<1>3. Slots(e) = {} /\ Once(e)
  BY <1>2 DEF Slots, Once
<1> QED
  BY <1>1, <1>2, <1>3 DEF Fresh

\* A line more, on a slot no other line has.
LEMMA FreshAppend ==
  ASSUME NEW lines, NEW room, Fresh(lines, room), NEW line, line.slot \in room \ Slots(lines),
         NEW more, more = Append(lines, line)
  PROVE  Fresh(more, room) /\ Slots(more) = Slots(lines) \cup {line.slot}
<1>1. IsList(lines) /\ Once(lines) /\ Slots(lines) \subseteq room
  BY DEF Fresh
<1>2. PICK n \in Nat : n = Len(lines) /\ DOMAIN lines = 1 .. n
  BY <1>1, ListHas
<1>3. /\ IsList(more) /\ DOMAIN more = DOMAIN lines \cup {n + 1}
      /\ \A i \in DOMAIN lines : more[i] = lines[i]
      /\ more[n + 1] = line
  <2>1. Appended(lines, line, more)
    BY <1>1, AppendHas
  <2> QED
    BY <1>2, <2>1 DEF Appended
<1>4. Slots(more) = Slots(lines) \cup {line.slot}
  BY <1>3 DEF Slots
<1>5. ASSUME NEW i \in DOMAIN more, NEW j \in DOMAIN more, more[i].slot = more[j].slot PROVE i = j
  <2>1. \A k \in DOMAIN lines : lines[k].slot # line.slot
    BY DEF Slots
  <2>2. CASE i \in DOMAIN lines /\ j \in DOMAIN lines
    BY <1>1, <1>3, <1>5, <2>2 DEF Once
  <2>3. CASE i = n + 1 /\ j \in DOMAIN lines
    BY <1>3, <1>5, <2>1, <2>3
  <2>4. CASE i \in DOMAIN lines /\ j = n + 1
    BY <1>3, <1>5, <2>1, <2>4
  <2> QED
    BY <1>3, <2>2, <2>3, <2>4
<1>6. Once(more)
  BY <1>5 DEF Once
<1>7. Slots(more) \subseteq room
  BY <1>1, <1>4
<1> QED
  BY <1>3, <1>4, <1>6, <1>7 DEF Fresh

\* The lines of two lists that share no slot.
LEMMA FreshConcat ==
  ASSUME NEW lines, NEW room, Fresh(lines, room), NEW added, Fresh(added, room),
         Slots(lines) \cap Slots(added) = {}, NEW more, more = lines \o added
  PROVE  Fresh(more, room) /\ Slots(more) = Slots(lines) \cup Slots(added)
<1>1. IsList(lines) /\ Once(lines) /\ Slots(lines) \subseteq room
      /\ IsList(added) /\ Once(added) /\ Slots(added) \subseteq room
  BY DEF Fresh
<1>2. PICK n \in Nat : n = Len(lines)
  BY <1>1, ListHas
<1>3. /\ IsList(more) /\ DOMAIN more = DOMAIN lines \cup {n + i : i \in DOMAIN added}
      /\ \A i \in DOMAIN lines : more[i] = lines[i]
      /\ \A i \in DOMAIN added : more[n + i] = added[i]
  <2>1. Joined(lines, added, more)
    BY <1>1, ConcatHas
  <2> QED
    BY <1>2, <2>1 DEF Joined
<1>4. Slots(more) = Slots(lines) \cup Slots(added)
  <2>1. ASSUME NEW s \in Slots(more) PROVE s \in Slots(lines) \cup Slots(added)
    <3>1. PICK k \in DOMAIN more : s = more[k].slot
      BY DEF Slots
    <3>2. k \in DOMAIN lines \/ \E i \in DOMAIN added : k = n + i
      BY <1>3
    <3> QED
      BY <1>3, <3>1, <3>2 DEF Slots
  <2>2. Slots(lines) \subseteq Slots(more)
    BY <1>3 DEF Slots
  <2>3. ASSUME NEW s \in Slots(added) PROVE s \in Slots(more)
    <3>1. PICK i \in DOMAIN added : s = added[i].slot
      BY DEF Slots
    <3>2. n + i \in DOMAIN more /\ more[n + i].slot = s
      BY <1>3, <3>1
    <3> QED
      BY <3>2 DEF Slots
  <2> QED
    BY <2>1, <2>2, <2>3
<1>5. ASSUME NEW i \in DOMAIN more, NEW j \in DOMAIN more, more[i].slot = more[j].slot PROVE i = j
  <2>1. \A k \in DOMAIN lines, l \in DOMAIN added : lines[k].slot # added[l].slot
    BY DEF Slots
  <2>2. CASE i \in DOMAIN lines /\ j \in DOMAIN lines
    BY <1>1, <1>3, <1>5, <2>2 DEF Once
  <2>3. CASE i \in DOMAIN lines /\ j \notin DOMAIN lines
    <3>1. PICK l \in DOMAIN added : j = n + l
      BY <1>3, <2>3
    <3> QED
      BY <1>3, <1>5, <2>1, <2>3, <3>1
  <2>4. CASE i \notin DOMAIN lines /\ j \in DOMAIN lines
    <3>1. PICK l \in DOMAIN added : i = n + l
      BY <1>3, <2>4
    <3> QED
      BY <1>3, <1>5, <2>1, <2>4, <3>1
  <2>5. CASE i \notin DOMAIN lines /\ j \notin DOMAIN lines
    <3>1. PICK k \in DOMAIN added : i = n + k
      BY <1>3, <2>5
    <3>2. PICK l \in DOMAIN added : j = n + l
      BY <1>3, <2>5
    <3> QED
      BY <1>1, <1>3, <1>5, <3>1, <3>2 DEF Once
  <2> QED
    BY <2>2, <2>3, <2>4, <2>5
<1>6. Once(more)
  BY <1>5 DEF Once
<1>7. Slots(more) \subseteq room
  BY <1>1, <1>4
<1> QED
  BY <1>3, <1>4, <1>6, <1>7 DEF Fresh

-----------------------------------------------------------------------------
(* Lines entered in a ledger: each keeps its place, the new ones get places  *)
(* of their own.                                                             *)

\* new is old with the lines `add`, each at its place.
Enters(old, add, at, new) ==
  /\ IsFiniteSet(DOMAIN old) /\ IsFiniteSet(DOMAIN add)
  /\ \A i, j \in DOMAIN add : at[i] = at[j] => i = j
  /\ \A i \in DOMAIN add : at[i] \notin DOMAIN old /\ new[at[i]] = add[i]
  /\ \A x \in DOMAIN old : new[x] = old[x]
  /\ DOMAIN new = DOMAIN old \cup {at[i] : i \in DOMAIN add}

\* The lines of a player in the ledger are the former ones and those entered.
LEMMA EntersCount ==
  ASSUME NEW old, NEW add, NEW at, NEW new, Enters(old, add, at, new), NEW p
  PROVE  /\ Count(old, p) \in Nat /\ Count(add, p) \in Nat
         /\ Count(new, p) = Count(old, p) + Count(add, p)
<1> DEFINE A == {x \in DOMAIN old : p \in NamesOf(old[x])}
           B == {i \in DOMAIN add : p \in NamesOf(add[i])}
           C == {at[i] : i \in B}
           N == {x \in DOMAIN new : p \in NamesOf(new[x])}
           f == [i \in B |-> at[i]]
<1>1. Count(old, p) = Cardinality(A) /\ Count(add, p) = Cardinality(B) /\ Count(new, p) = Cardinality(N)
  BY DEF Count
<1>2. A \in SUBSET DOMAIN old /\ B \in SUBSET DOMAIN add
  OBVIOUS
<1>3. IsFiniteSet(A) /\ IsFiniteSet(B)
  <2> HIDE DEF A, B
  <2> QED
    BY <1>2, FS_Subset DEF Enters
<1>4. f \in Bijection(B, C)
  <2>1. f \in [B -> C]
    OBVIOUS
  <2>2. \A i, j \in B : f[i] = f[j] => i = j
    BY DEF Enters
  <2>3. \A c \in C : \E i \in B : f[i] = c
    OBVIOUS
  <2>4. DOMAIN f = B
    OBVIOUS
  <2>5. f \in Injection(B, C)
    <3> HIDE DEF f, B, C
    <3> QED
      BY <2>1, <2>2, <2>4 DEF Injection, IsInjective
  <2>6. f \in Surjection(B, C)
    <3> HIDE DEF f, B, C
    <3> QED
      BY <2>1, <2>3 DEF Surjection
  <2> HIDE DEF f, B, C
  <2> QED
    BY <2>5, <2>6 DEF Bijection
<1>5. IsFiniteSet(C) /\ Cardinality(C) = Cardinality(B)
  <2> HIDE DEF f, B, C
  <2>1. ExistsBijection(B, C)
    BY <1>4 DEF ExistsBijection
  <2> QED
    BY <1>3, <2>1, FS_Bijection
<1>6. A \cap C = {}
  BY DEF Enters
<1>7. N = A \cup C
  <2>1. ASSUME NEW x \in N PROVE x \in A \cup C
    <3>1. x \in DOMAIN old \/ \E i \in DOMAIN add : x = at[i]
      BY DEF Enters
    <3> QED
      BY <3>1 DEF Enters
  <2>2. A \subseteq N
    BY DEF Enters
  <2>3. C \subseteq N
    BY DEF Enters
  <2> QED
    BY <2>1, <2>2, <2>3
<1> HIDE DEF A, B, C, N
<1>8. Cardinality(N) = Cardinality(A) + Cardinality(C) - Cardinality({})
  BY <1>3, <1>5, <1>6, <1>7, FS_Union
<1>9. Cardinality(A) \in Nat /\ Cardinality(C) \in Nat /\ Cardinality({}) = 0
  BY <1>3, <1>5, FS_CardinalityType, FS_EmptySet
<1> QED
  BY <1>1, <1>5, <1>8, <1>9

\* So are the slots.
LEMMA EntersSlots ==
  ASSUME NEW old, NEW add, NEW at, NEW new, Enters(old, add, at, new)
  PROVE  Slots(new) = Slots(old) \cup Slots(add)
<1>1. ASSUME NEW s \in Slots(new) PROVE s \in Slots(old) \cup Slots(add)
  <2>1. PICK x \in DOMAIN new : s = new[x].slot
    BY DEF Slots
  <2>2. x \in DOMAIN old \/ \E i \in DOMAIN add : x = at[i]
    BY DEF Enters
  <2> QED
    BY <2>1, <2>2 DEF Enters, Slots
<1>2. Slots(old) \subseteq Slots(new)
  BY DEF Enters, Slots
<1>3. Slots(add) \subseteq Slots(new)
  BY DEF Enters, Slots
<1> QED
  BY <1>1, <1>2, <1>3

\* Lines on other slots than those of the ledger leave each slot to one line.
LEMMA EntersOnce ==
  ASSUME NEW old, NEW add, NEW at, NEW new, Enters(old, add, at, new),
         Once(old), Once(add), Slots(old) \cap Slots(add) = {}
  PROVE  Once(new)
<1>1. ASSUME NEW x \in DOMAIN new, NEW y \in DOMAIN new, new[x].slot = new[y].slot PROVE x = y
  <2>1. \A k \in DOMAIN old, l \in DOMAIN add : old[k].slot # add[l].slot
    BY DEF Slots
  <2>2. x \in DOMAIN old \/ \E i \in DOMAIN add : x = at[i]
    BY DEF Enters
  <2>3. y \in DOMAIN old \/ \E i \in DOMAIN add : y = at[i]
    BY DEF Enters
  <2>4. CASE x \in DOMAIN old /\ y \in DOMAIN old
    BY <1>1, <2>4 DEF Enters, Once
  <2>5. ASSUME NEW i \in DOMAIN add, x = at[i], y \in DOMAIN old PROVE FALSE
    BY <1>1, <2>1, <2>5 DEF Enters
  <2>6. ASSUME NEW i \in DOMAIN add, y = at[i], x \in DOMAIN old PROVE FALSE
    BY <1>1, <2>1, <2>6 DEF Enters
  <2>7. ASSUME NEW i \in DOMAIN add, NEW j \in DOMAIN add, x = at[i], y = at[j] PROVE x = y
    <3>1. add[i].slot = add[j].slot
      BY <1>1, <2>7 DEF Enters
    <3> QED
      BY <2>7, <3>1 DEF Once
  <2> QED
    BY <2>2, <2>3, <2>4, <2>5, <2>6, <2>7
<1> QED
  BY <1>1 DEF Once

\* The ledger stays finite.
LEMMA EntersFinite ==
  ASSUME NEW old, NEW add, NEW at, NEW new, Enters(old, add, at, new)
  PROVE  IsFiniteSet(DOMAIN new)
<1> DEFINE B == DOMAIN add
           C == {at[i] : i \in B}
           f == [i \in B |-> at[i]]
<1>1. f \in [B -> C] /\ \A c \in C : \E i \in B : f[i] = c
  OBVIOUS
<1>2. f \in Surjection(B, C)
  <2> HIDE DEF f, B, C
  <2> QED
    BY <1>1 DEF Surjection
<1>3. IsFiniteSet(C)
  <2>1. IsFiniteSet(B)
    BY DEF Enters
  <2> HIDE DEF f, B, C
  <2> QED
    BY <1>2, <2>1, FS_Surjection
<1>4. DOMAIN new = DOMAIN old \cup C /\ IsFiniteSet(DOMAIN old)
  BY DEF Enters
<1> HIDE DEF C
<1> QED
  BY <1>3, <1>4, FS_Union

\* A finite set of integers that is not empty has a largest element.
LEMMA MaxType ==
  ASSUME NEW S, S \subseteq Int, IsFiniteSet(S), S # {}
  PROVE  Max(S) \in S /\ \A y \in S : Max(S) >= y
<1> DEFINE Above(x) == {y \in S : y > x}
           Counts == {n \in Nat : \E x \in S : n = Cardinality(Above(x))}
<1>1. ASSUME NEW x \in S
      PROVE  IsFiniteSet(Above(x)) /\ Cardinality(Above(x)) \in Nat
  <2>1. Above(x) \in SUBSET S
    OBVIOUS
  <2>2. QED
    BY <2>1, FS_Subset, FS_CardinalityType
<1>2. Counts # {}
  BY <1>1
<1>3. PICK n \in Counts : \A m \in Counts : ~(<<m, n>> \in OpToRel(<, Nat))
  <2>1. Counts \subseteq Nat
    OBVIOUS
  <2> HIDE DEF Counts
  <2>2. QED
    BY <1>2, <2>1, NatLessThanWellFounded, WFMin
<1>4. \A m \in Counts : ~(m < n)
  BY <1>3 DEF OpToRel
<1>5. PICK x \in S : n = Cardinality(Above(x))
  OBVIOUS
<1>6. ASSUME NEW y \in S, y > x
      PROVE  FALSE
  <2>0. x \in Int /\ y \in Int /\ y > x /\ \A z \in S : z \in Int
    BY <1>6
  <2>1. Above(y) \in SUBSET Above(x) /\ y \in Above(x) /\ y \notin Above(y)
    <3>1. ASSUME NEW z \in Above(y)
          PROVE  z \in Above(x)
      BY <2>0
    <3>2. Above(y) \subseteq Above(x)
      BY <3>1
    <3>3. y \in Above(x) /\ y \notin Above(y)
      BY <2>0
    <3> HIDE DEF Above
    <3>4. QED
      BY <3>2, <3>3
  <2>2. /\ Cardinality(Above(y)) <= Cardinality(Above(x))
        /\ Cardinality(Above(x)) = Cardinality(Above(y)) => Above(x) = Above(y)
    BY <1>1, <2>1, FS_Subset
  <2>3. Cardinality(Above(y)) < n
    <3> HIDE DEF Above
    <3>1. QED
      BY <1>1, <1>5, <2>1, <2>2
  <2>4. Cardinality(Above(y)) \in Counts
    BY <1>1
  <2>5. QED
    BY <1>4, <2>3, <2>4
<1>7. \A y \in S : x >= y
  BY <1>6
<1>8. QED
  BY <1>7 DEF Max

\* A set of times that is not empty has a first one.
LEMMA MinType ==
  ASSUME NEW S, S \subseteq Nat, S # {}
  PROVE  Min(S) \in S /\ \A t \in S : Min(S) <= t
<1>1. PICK n \in S : \A m \in S : ~(<<m, n>> \in OpToRel(<, Nat))
  BY NatLessThanWellFounded, WFMin
<1>2. \A m \in S : n <= m
  <2>1. ASSUME NEW m \in S PROVE n <= m
    <3>1. n \in Nat /\ m \in Nat /\ ~(m < n)
      BY <1>1 DEF OpToRel
    <3>2. QED
      BY <3>1
  <2>2. QED
    BY <2>1
<1>3. QED
  BY <1>2 DEF Min

-----------------------------------------------------------------------------
(* Arguments in the order of their ranks.                                   *)

\* Ranks are numbers, finitely many and all different.
Ranking(rank) ==
  /\ IsFiniteSet(DOMAIN rank)
  /\ \A x \in DOMAIN rank : rank[x] \in Nat
  /\ \A x, y \in DOMAIN rank : rank[x] = rank[y] => x = y

\* s lists each element of S once.
Listing(S, s) ==
  /\ IsList(s) /\ Len(s) = Cardinality(S)
  /\ \A i, j \in DOMAIN s : s[i] = s[j] => i = j
  /\ ToSet(s) = S

Lower(rank, x) == {y \in DOMAIN rank : rank[y] < rank[x]}

\* Each has a place of its own, from the first to the last.
LEMMA PlacesOfRanks ==
  ASSUME NEW rank, Ranking(rank)
  PROVE  /\ Cardinality(DOMAIN rank) \in Nat
         /\ \A x, y \in DOMAIN rank :
              Cardinality(Lower(rank, x)) = Cardinality(Lower(rank, y)) => x = y
         /\ \A k \in 0 .. Cardinality(DOMAIN rank) - 1 :
              \E x \in DOMAIN rank : Cardinality(Lower(rank, x)) = k
<1> DEFINE S == DOMAIN rank
           C(x) == Cardinality(Lower(rank, x))
<1>1. PICK n \in Nat : n = Cardinality(S) /\ IsFiniteSet(S)
  BY FS_CardinalityType DEF Ranking
<1>2. \A x \in S : rank[x] \in Nat
  BY DEF Ranking
<1>3. ASSUME NEW x \in S
      PROVE  IsFiniteSet(Lower(rank, x)) /\ C(x) \in 0 .. n - 1
  <2>1. x \notin Lower(rank, x)
    BY <1>2 DEF Lower
  <2>2. Lower(rank, x) \in SUBSET (S \ {x})
    BY <2>1 DEF Lower
  <2>3. IsFiniteSet(S \ {x}) /\ Cardinality(S \ {x}) = n - 1
    BY <1>1, FS_RemoveElement
  <2>4. IsFiniteSet(Lower(rank, x)) /\ C(x) <= n - 1
    BY <2>2, <2>3, FS_Subset
  <2>5. C(x) \in Nat
    BY <2>4, FS_CardinalityType
  <2> QED
    BY <1>1, <2>4, <2>5
<1>4. ASSUME NEW x \in S, NEW y \in S, rank[x] < rank[y]
      PROVE  C(x) < C(y)
  <2>1. x \in Lower(rank, y) /\ x \notin Lower(rank, x)
    BY <1>2, <1>4 DEF Lower
  <2>2. Lower(rank, x) \in SUBSET Lower(rank, y)
    BY <1>2, <1>4 DEF Lower
  <2>3. C(x) <= C(y) /\ C(x) # C(y)
    BY <1>3, <2>1, <2>2, FS_Subset
  <2>4. C(x) \in Int /\ C(y) \in Int
    BY <1>3
  <2> HIDE DEF C
  <2> QED
    BY <2>3, <2>4
<1>5. ASSUME NEW x \in S, NEW y \in S, C(x) = C(y) PROVE x = y
  <2>1. C(x) \in Int /\ C(y) \in Int
    BY <1>3
  <2>2. rank[x] = rank[y] \/ rank[x] < rank[y] \/ rank[y] < rank[x]
    BY <1>2
  <2>3. ~(C(x) < C(y)) /\ ~(C(y) < C(x))
    <3> HIDE DEF C
    <3> QED
      BY <1>5, <2>1
  <2>4. rank[x] = rank[y]
    <3> HIDE DEF C
    <3> QED
      BY <1>4, <2>2, <2>3
  <2> QED
    BY <2>4 DEF Ranking
<1>6. ASSUME NEW k \in 0 .. n - 1 PROVE \E x \in S : C(x) = k
  <2> DEFINE T == 0 .. n - 1
             f == [x \in S |-> C(x)]
  <2>1. \A x \in S : f[x] = C(x)
    OBVIOUS
  <2>2. f \in [S -> T]
    BY <1>3
  <2>3. DOMAIN f = S
    OBVIOUS
  <2> HIDE DEF f, C
  <2>4. f \in Injection(S, T)
    <3>1. IsInjective(f)
      BY <1>5, <2>1, <2>3 DEF IsInjective
    <3> QED
      BY <2>2, <3>1 DEF Injection
  <2>5. IsFiniteSet(T) /\ Cardinality(T) = n
    <3>1. 0 \in Int /\ n - 1 \in Int
      OBVIOUS
    <3>2. IsFiniteSet(T) /\ Cardinality(T) = IF 0 > n - 1 THEN 0 ELSE n - 1 - 0 + 1
      BY <3>1, FS_Interval
    <3> QED
      BY <3>2
  <2> HIDE DEF T
  <2>6. f \in Surjection(S, T)
    <3> HIDE DEF S
    <3> QED
      BY <1>1, <2>4, <2>5, FS_Injection
  <2>7. k \in T
    BY DEF T
  <2>8. PICK x \in S : f[x] = k
    <3> HIDE DEF S
    <3> QED
      BY <2>6, <2>7 DEF Surjection
  <2> QED
    BY <2>1, <2>8
<1> QED
  BY <1>1, <1>5, <1>6

\* Sorted lists each of them once.
LEMMA SortedIs == ASSUME NEW rank, Ranking(rank) PROVE Listing(DOMAIN rank, Sorted(rank))
<1> DEFINE S == DOMAIN rank
<1>1. PICK s : s = Sorted(rank)
  OBVIOUS
<1>2. PICK n \in Nat : n = Cardinality(S)
  BY PlacesOfRanks
<1>3. s = [k \in 1 .. n |-> CHOOSE x \in S : Cardinality(Lower(rank, x)) = k - 1]
  BY <1>1, <1>2 DEF Sorted, Lower
<1>4. ASSUME NEW k \in 1 .. n PROVE s[k] \in S /\ Cardinality(Lower(rank, s[k])) = k - 1
  <2>1. k - 1 \in 0 .. n - 1
    OBVIOUS
  <2>2. \E x \in S : Cardinality(Lower(rank, x)) = k - 1
    BY <1>2, <2>1, PlacesOfRanks
  <2> QED
    BY <1>3, <2>2
<1>5. DOMAIN s = 1 .. n /\ s = [k \in 1 .. n |-> s[k]]
  BY <1>3
<1>6. IsList(s) /\ Len(s) = n
  BY <1>5, ListFrom
<1>7. ASSUME NEW i \in DOMAIN s, NEW j \in DOMAIN s, s[i] = s[j] PROVE i = j
  <2>1. i \in 1 .. n /\ j \in 1 .. n
    BY <1>5
  <2>2. i - 1 = j - 1
    BY <1>4, <1>7, <2>1
  <2> QED
    BY <2>1, <2>2
<1>8. ToSet(s) = S
  <2>1. ASSUME NEW x \in S PROVE x \in ToSet(s)
    <3>1. PICK k \in 1 .. n : Cardinality(Lower(rank, x)) = k - 1
      <4>1. \E k \in 0 .. n - 1 : Cardinality(Lower(rank, x)) = k
        <5>1. PICK k : k = Cardinality(Lower(rank, x))
          OBVIOUS
        <5>2. Lower(rank, x) \in SUBSET (S \ {x})
          BY DEF Lower, Ranking
        <5>3. IsFiniteSet(S) /\ IsFiniteSet(S \ {x}) /\ Cardinality(S \ {x}) = n - 1
          BY <1>2, FS_RemoveElement DEF Ranking
        <5>4. IsFiniteSet(Lower(rank, x)) /\ Cardinality(Lower(rank, x)) <= n - 1
          BY <5>2, <5>3, FS_Subset
        <5>5. Cardinality(Lower(rank, x)) \in Nat
          BY <5>4, FS_CardinalityType
        <5> QED
          BY <5>4, <5>5
      <4>2. PICK k \in 0 .. n - 1 : Cardinality(Lower(rank, x)) = k
        BY <4>1
      <4>3. k + 1 \in 1 .. n /\ (k + 1) - 1 = k
        OBVIOUS
      <4> QED
        BY <4>2, <4>3
    <3>2. s[k] \in S /\ Cardinality(Lower(rank, s[k])) = k - 1
      BY <1>4
    <3>3. s[k] = x
      BY <3>1, <3>2, PlacesOfRanks
    <3> QED
      BY <1>5, <3>3 DEF ToSet
  <2>2. ASSUME NEW x \in ToSet(s) PROVE x \in S
    <3>1. PICK k \in 1 .. n : x = s[k]
      BY <1>5 DEF ToSet
    <3> QED
      BY <1>4, <3>1
  <2> QED
    BY <2>1, <2>2
<1> QED
  BY <1>1, <1>2, <1>6, <1>7, <1>8 DEF Listing

-----------------------------------------------------------------------------
(* Courts.                                                                  *)

AllCourts == 1 .. SQUASH_COURT_COUNT

\* There are finitely many courts.
LEMMA CourtsFinite ==
  ASSUME NEW courts, courts \subseteq AllCourts
  PROVE  IsFiniteSet(courts) /\ Cardinality(courts) \in Nat
<1>1. IsFiniteSet(AllCourts)
  <2>1. 1 \in Int /\ SQUASH_COURT_COUNT \in Int
    BY DEF SQUASH_COURT_COUNT
  <2> QED
    BY <2>1, FS_Interval DEF AllCourts
<1>2. courts \in SUBSET AllCourts
  OBVIOUS
<1> QED
  BY <1>1, <1>2, FS_Subset, FS_CardinalityType

\* Two courts never have the same rank.
RankIs(c, priority, rank) ==
  /\ rank \in Nat
  /\ \/ rank = Len(priority) + c
     \/ rank \in 0 .. Len(priority) - 1 /\ priority[rank + 1] = c

\* The rank of a court is its place in the list of priorities, or comes after the list
\* (courtAssignment.ts: orderByCourtPriority).
LEMMA RankOfCourt ==
  ASSUME NEW priority \in Seq(Nat), NEW c \in AllCourts
  PROVE  RankIs(c, priority, Rank(c, priority))
<1> DEFINE at == {i \in DOMAIN priority : priority[i] = c}
<1>1. PICK n \in Nat : n = Len(priority) /\ DOMAIN priority = 1 .. n
  BY LenProperties
<1>2. c \in Nat
  BY DEF AllCourts, SQUASH_COURT_COUNT
<1>3. CASE at = {}
  <2>1. Rank(c, priority) = n + c
    BY <1>1, <1>3 DEF Rank
  <2> QED
    BY <1>1, <1>2, <2>1 DEF RankIs
<1>4. CASE at # {}
  <2>1. at \in SUBSET (1 .. n) /\ IsFiniteSet(1 .. n)
    BY <1>1, FS_Interval
  <2>2. at \subseteq Int /\ IsFiniteSet(at)
    <3>1. IsFiniteSet(at)
      <4> HIDE DEF at
      <4> QED
        BY <2>1, FS_Subset
    <3> QED
      BY <2>1, <3>1
  <2>3. Max(at) \in at
    <3> HIDE DEF at
    <3> QED
      BY <1>4, <2>2, MaxType
  <2>4. Rank(c, priority) = Max(at) - 1
    BY <1>4 DEF Rank
  <2>5. PICK m \in 1 .. n : m = Max(at) /\ priority[m] = c
    BY <2>1, <2>3
  <2>6. Rank(c, priority) = m - 1 /\ (m - 1) + 1 = m /\ m - 1 \in 0 .. n - 1
    BY <2>4, <2>5
  <2> QED
    BY <1>1, <2>5, <2>6 DEF RankIs
<1> QED
  BY <1>3, <1>4

\* The order of priority lists each court once.
LEMMA CourtsInOrder ==
  ASSUME NEW courts, courts \subseteq AllCourts, NEW priority \in Seq(Nat)
  PROVE  Listing(courts, OrderByCourtPriority(courts, priority))
<1> DEFINE rank == [c \in courts |-> Rank(c, priority)]
<1>1. DOMAIN rank = courts
  OBVIOUS
<1>2. PICK n \in Nat : n = Len(priority)
  BY LenProperties
<1>3. ASSUME NEW c \in courts, NEW d \in courts, Rank(c, priority) = Rank(d, priority) PROVE c = d
  <2>1. c \in AllCourts /\ d \in AllCourts /\ c \in 1 .. 4 /\ d \in 1 .. 4
    BY DEF AllCourts, SQUASH_COURT_COUNT
  <2>2. PICK a : a = Rank(c, priority)
    OBVIOUS
  <2>3. RankIs(c, priority, a)
    BY <2>1, <2>2, RankOfCourt
  <2>4. RankIs(d, priority, a)
    BY <1>3, <2>1, <2>2, RankOfCourt
  <2> QED
    BY <1>2, <2>1, <2>3, <2>4 DEF RankIs
<1>4. \A c \in courts : Rank(c, priority) \in Nat
  BY RankOfCourt DEF RankIs
<1>5. Ranking(rank)
  BY <1>3, <1>4, CourtsFinite DEF Ranking
<1>6. Listing(courts, Sorted(rank))
  <2> HIDE DEF rank
  <2> QED
    BY <1>1, <1>5, SortedIs
<1> QED
  BY <1>6 DEF OrderByCourtPriority

\* A court of its own for each pair of a round, among those available.
Assigned(avail, size, courts) ==
  /\ DOMAIN courts = 1 .. size /\ courts = [i \in 1 .. size |-> courts[i]]
  /\ \A i \in 1 .. size : courts[i] \in avail
  /\ \A i, j \in 1 .. size : courts[i] = courts[j] => i = j

\* Every pair gets a court: those that keep theirs leave enough for the others.
LEMMA CourtsAssigned ==
  ASSUME NEW avail, avail \subseteq AllCourts, NEW size \in Nat, size <= Cardinality(avail),
         NEW former, DOMAIN former = 1 .. size, NEW priority \in Seq(Nat), NEW nextCourts
  PROVE  Assigned(avail, size, ResolveCourtAssignments(avail, former, priority, nextCourts))
<1> DEFINE keeps == {i \in DOMAIN former :
                       former[i] \in avail /\ \A j \in 1 .. (i - 1) : former[j] # former[i]}
           kept == {former[i] : i \in keeps}
           others == avail \ kept
           near == OrderByCourtPriority(others \cap nextCourts, priority)
           far == OrderByCourtPriority(others \ nextCourts, priority)
           order == near \o far
           turn(i) == Cardinality(1 .. i \ keeps)
           courts == [i \in DOMAIN former |-> IF i \in keeps THEN former[i] ELSE order[turn(i)]]
<1>1. courts = ResolveCourtAssignments(avail, former, priority, nextCourts)
  BY DEF ResolveCourtAssignments
<1>2. keeps \in SUBSET (1 .. size) /\ IsFiniteSet(1 .. size) /\ Cardinality(1 .. size) = size
  BY FS_Interval
<1>3. \A i, j \in keeps : former[i] = former[j] => i = j
  <2>1. ASSUME NEW i \in keeps, NEW j \in keeps, former[i] = former[j] PROVE i = j
    <3>1. i \in 1 .. size /\ j \in 1 .. size
      BY <1>2
    <3>2. ~(i \in 1 .. (j - 1)) /\ ~(j \in 1 .. (i - 1))
      BY <2>1
    <3> HIDE DEF keeps
    <3> QED
      BY <3>1, <3>2
  <2> QED
    BY <2>1
<1>4. IsFiniteSet(keeps) /\ IsFiniteSet(kept) /\ Cardinality(kept) = Cardinality(keeps)
  <2> DEFINE f == [i \in keeps |-> former[i]]
  <2>1. f \in [keeps -> kept] /\ (\A c \in kept : \E i \in keeps : f[i] = c) /\ DOMAIN f = keeps
        /\ \A i \in keeps : f[i] = former[i]
    OBVIOUS
  <2> HIDE DEF f, keeps, kept
  <2>2. \A i, j \in keeps : f[i] = f[j] => i = j
    BY <1>3, <2>1
  <2>3. f \in Bijection(keeps, kept)
    BY <2>1, <2>2 DEF Bijection, Injection, Surjection, IsInjective
  <2>4. IsFiniteSet(keeps)
    BY <1>2, FS_Subset
  <2>5. ExistsBijection(keeps, kept)
    BY <2>3 DEF ExistsBijection
  <2> QED
    BY <2>4, <2>5, FS_Bijection
<1>5. kept \subseteq avail
  OBVIOUS
<1>6. /\ IsFiniteSet(others) /\ Cardinality(others) = Cardinality(avail) - Cardinality(keeps)
      /\ Cardinality(avail) \in Nat /\ Cardinality(keeps) \in Nat
  <2> HIDE DEF keeps, kept
  <2>1. IsFiniteSet(avail) /\ Cardinality(avail) \in Nat
    BY CourtsFinite
  <2>2. /\ IsFiniteSet(avail \ kept)
        /\ Cardinality(avail \ kept) = Cardinality(avail) - Cardinality(avail \cap kept)
    BY <2>1, FS_Difference
  <2>3. avail \cap kept = kept
    BY <1>5
  <2>4. Cardinality(keeps) \in Nat
    BY <1>4, FS_CardinalityType
  <2> QED
    BY <1>4, <2>1, <2>2, <2>3, <2>4
<1>7. Listing(others, order)
  <2> DEFINE soon == others \cap nextCourts
             late == others \ nextCourts
  <2>1. soon \subseteq AllCourts /\ late \subseteq AllCourts
    OBVIOUS
  <2>2. Listing(soon, near) /\ Listing(late, far)
    <3> HIDE DEF soon, late, others
    <3>1. Listing(soon, OrderByCourtPriority(soon, priority))
      BY <2>1, CourtsInOrder
    <3>2. Listing(late, OrderByCourtPriority(late, priority))
      BY <2>1, CourtsInOrder
    <3> QED
      BY <3>1, <3>2 DEF soon, late
  <2>3. soon \cap late = {} /\ soon \cup late = others
    OBVIOUS
  <2> HIDE DEF soon, late, near, far, others
  <2>4. Joined(near, far, near \o far)
    BY <2>2, ConcatHas DEF Listing
  <2>5. PICK n \in Nat : n = Len(near)
    BY <2>2, ListHas DEF Listing
  <2>6. PICK m \in Nat : m = Len(far)
    BY <2>2, ListHas DEF Listing
  <2>7. Len(order) = n + m
    BY <2>4, <2>5, <2>6 DEF Joined
  <2>8. Cardinality(others) = n + m
    <3>1. IsFiniteSet(soon) /\ IsFiniteSet(late)
      BY <2>1, CourtsFinite
    <3>2. Cardinality(others) = Cardinality(soon) + Cardinality(late) - Cardinality({})
      <4>1. Cardinality(soon \cup late)
              = Cardinality(soon) + Cardinality(late) - Cardinality(soon \cap late)
        BY <3>1, FS_Union
      <4> QED
        BY <2>3, <4>1
    <3>3. Cardinality(soon) = n /\ Cardinality(late) = m /\ Cardinality({}) = 0
      <4>1. Cardinality({}) = 0
        BY FS_EmptySet
      <4> QED
        BY <2>2, <2>5, <2>6, <4>1 DEF Listing
    <3> QED
      BY <3>2, <3>3
  <2>9. PICK o : o = order
    OBVIOUS
  <2>10. /\ DOMAIN o = DOMAIN near \cup {n + i : i \in DOMAIN far}
         /\ \A i \in DOMAIN near : o[i] = near[i]
         /\ \A i \in DOMAIN far : o[n + i] = far[i]
         /\ IsList(o)
    BY <2>4, <2>5, <2>9 DEF Joined
  <2>11. ToSet(near) = soon /\ ToSet(far) = late
    BY <2>2 DEF Listing
  <2>12. ToSet(o) = soon \cup late
    <3>1. ASSUME NEW c \in ToSet(o) PROVE c \in soon \cup late
      <4>1. PICK k \in DOMAIN o : c = o[k]
        BY DEF ToSet
      <4>2. k \in DOMAIN near \/ \E i \in DOMAIN far : k = n + i
        BY <2>10
      <4> QED
        BY <2>10, <2>11, <4>1, <4>2 DEF ToSet
    <3>2. soon \subseteq ToSet(o)
      BY <2>10, <2>11 DEF ToSet
    <3>3. ASSUME NEW c \in late PROVE c \in ToSet(o)
      <4>1. PICK i \in DOMAIN far : c = far[i]
        BY <2>11 DEF ToSet
      <4>2. n + i \in DOMAIN o /\ o[n + i] = c
        BY <2>10, <4>1
      <4> QED
        BY <4>2 DEF ToSet
    <3> QED
      BY <3>1, <3>2, <3>3
  <2>13. ASSUME NEW i \in DOMAIN o, NEW j \in DOMAIN o, o[i] = o[j] PROVE i = j
    <3>1. \A k \in DOMAIN near, l \in DOMAIN far : near[k] # far[l]
      BY <2>3, <2>11 DEF ToSet
    <3>2. i \in DOMAIN near \/ \E k \in DOMAIN far : i = n + k
      BY <2>10
    <3>3. j \in DOMAIN near \/ \E k \in DOMAIN far : j = n + k
      BY <2>10
    <3>4. (\A k, l \in DOMAIN near : near[k] = near[l] => k = l)
          /\ (\A k, l \in DOMAIN far : far[k] = far[l] => k = l)
      BY <2>2 DEF Listing
    <3>5. CASE i \in DOMAIN near /\ j \in DOMAIN near
      BY <2>10, <2>13, <3>4, <3>5
    <3>6. ASSUME NEW k \in DOMAIN far, j = n + k, i \in DOMAIN near PROVE FALSE
      BY <2>10, <2>13, <3>1, <3>6
    <3>7. ASSUME NEW k \in DOMAIN far, i = n + k, j \in DOMAIN near PROVE FALSE
      BY <2>10, <2>13, <3>1, <3>7
    <3>8. ASSUME NEW k \in DOMAIN far, NEW l \in DOMAIN far, i = n + k, j = n + l PROVE i = j
      BY <2>10, <2>13, <3>4, <3>8
    <3> QED
      BY <3>2, <3>3, <3>5, <3>6, <3>7, <3>8
  <2> QED
    BY <2>3, <2>7, <2>8, <2>9, <2>10, <2>12, <2>13 DEF Listing
<1>8. ASSUME NEW i \in 1 .. size, i \notin keeps PROVE turn(i) \in 1 .. (size - Cardinality(keeps))
  <2> DEFINE T == 1 .. i \ keeps
             A == 1 .. size \ keeps
  <2>1. T \in SUBSET A /\ i \in T
    BY <1>8
  <2>2. IsFiniteSet(A) /\ Cardinality(A) = size - Cardinality(keeps)
    <3> HIDE DEF keeps
    <3>1. Cardinality(A) = size - Cardinality((1 .. size) \cap keeps) /\ IsFiniteSet(A)
      BY <1>2, FS_Difference
    <3>2. (1 .. size) \cap keeps = keeps
      BY <1>2
    <3> QED
      BY <3>1, <3>2
  <2> HIDE DEF A, T
  <2>3. IsFiniteSet(T) /\ Cardinality(T) <= Cardinality(A) /\ Cardinality(T) \in Nat
    BY <2>1, <2>2, FS_Subset, FS_CardinalityType
  <2>4. Cardinality(T) # 0
    BY <2>1, <2>3, FS_EmptySet
  <2>5. turn(i) = Cardinality(T)
    BY DEF T
  <2> HIDE DEF turn, keeps
  <2> QED
    BY <1>6, <2>2, <2>3, <2>4, <2>5
<1>9. ASSUME NEW i \in 1 .. size, NEW j \in 1 .. size, j \notin keeps, i < j PROVE turn(i) < turn(j)
  <2> DEFINE T == 1 .. i \ keeps
             U == 1 .. j \ keeps
  <2>1. T \in SUBSET U /\ j \in U /\ j \notin T
    BY <1>9
  <2>2. IsFiniteSet(U)
    <3>1. U \in SUBSET (1 .. j) /\ IsFiniteSet(1 .. j)
      BY FS_Interval
    <3> HIDE DEF U
    <3> QED
      BY <3>1, FS_Subset
  <2>3. turn(i) = Cardinality(T) /\ turn(j) = Cardinality(U)
    OBVIOUS
  <2> HIDE DEF T, U
  <2>4. IsFiniteSet(T) /\ Cardinality(T) <= Cardinality(U) /\ Cardinality(T) # Cardinality(U)
    BY <2>1, <2>2, FS_Subset
  <2>5. Cardinality(T) \in Nat /\ Cardinality(U) \in Nat
    BY <2>2, <2>4, FS_CardinalityType
  <2> HIDE DEF turn
  <2> QED
    BY <2>3, <2>4, <2>5
<1>10. ASSUME NEW i \in 1 .. size, i \notin keeps
       PROVE  turn(i) \in DOMAIN order /\ order[turn(i)] \in others
  <2>1. Len(order) = Cardinality(others) /\ DOMAIN order = 1 .. Len(order) /\ ToSet(order) = others
    <3> HIDE DEF order, others
    <3> QED
      BY <1>7, ListHas DEF Listing
  <2>2. turn(i) \in DOMAIN order
    <3>1. turn(i) \in 1 .. (size - Cardinality(keeps))
      BY <1>8, <1>10
    <3> HIDE DEF turn, keeps, order, others
    <3> QED
      BY <1>6, <2>1, <3>1
  <2> HIDE DEF turn, order, others
  <2> QED
    BY <2>1, <2>2 DEF ToSet
<1>11. \A i, j \in DOMAIN order : order[i] = order[j] => i = j
  <2> HIDE DEF order, others
  <2> QED
    BY <1>7 DEF Listing
<1>12. DOMAIN courts = 1 .. size /\ courts = [i \in 1 .. size |-> courts[i]]
       /\ \A i \in 1 .. size : courts[i] = IF i \in keeps THEN former[i] ELSE order[turn(i)]
  OBVIOUS
<1>13. \A i \in keeps : i \in 1 .. size /\ former[i] \in kept
  OBVIOUS
<1>14. others \cap kept = {} /\ others \subseteq avail
  OBVIOUS
<1> HIDE DEF courts, keeps, kept, others, order, turn
<1>15. ASSUME NEW i \in 1 .. size PROVE courts[i] \in avail
  <2>1. CASE i \in keeps
    BY <1>5, <1>12, <1>13, <2>1
  <2>2. CASE i \notin keeps
    BY <1>10, <1>12, <1>14, <2>2
  <2> QED
    BY <2>1, <2>2
<1>16. ASSUME NEW i \in 1 .. size, NEW j \in 1 .. size, courts[i] = courts[j] PROVE i = j
  <2>1. CASE i \in keeps /\ j \in keeps
    BY <1>3, <1>12, <1>16, <2>1
  <2>2. CASE i \in keeps /\ j \notin keeps
    BY <1>10, <1>12, <1>13, <1>14, <1>16, <2>2
  <2>3. CASE i \notin keeps /\ j \in keeps
    BY <1>10, <1>12, <1>13, <1>14, <1>16, <2>3
  <2>4. CASE i \notin keeps /\ j \notin keeps
    <3>1. turn(i) = turn(j)
      BY <1>10, <1>11, <1>12, <1>16, <2>4
    <3>2. turn(i) \in Int /\ turn(j) \in Int
      BY <1>8, <2>4
    <3>3. ~(i < j) /\ ~(j < i)
      BY <1>9, <2>4, <3>1, <3>2
    <3> QED
      BY <3>3
  <2> QED
    BY <2>1, <2>2, <2>3, <2>4
<1>17. Assigned(avail, size, courts)
  BY <1>12, <1>15, <1>16 DEF Assigned
<1> QED
  BY <1>1, <1>17

-----------------------------------------------------------------------------
(* Sessions.                                                                *)

\* A session whose lines are on slots of `room`.
IsSession(x, room) ==
  /\ {"court", "anchor", "lines", "plan", "members"} \subseteq DOMAIN x
  /\ IsList(x.lines) /\ Slots(x.lines) \subseteq room

\* One session per court, which holds all the lines on that court.
Opened(lines, anchor, plan, room, open) ==
  /\ IsList(open)
  /\ \A k \in DOMAIN open :
       IsSession(open[k], room) /\ open[k].anchor = anchor /\ open[k].plan = plan
  /\ \A k, l \in DOMAIN open : open[k].court = open[l].court => k = l
  /\ \A k \in DOMAIN open : \A s \in Slots(lines) :
       s[1] = open[k].court => s \in Slots(open[k].lines)

\* The players named on lines; the members of a session, which has lines, are some of them.
NamedOn(lines) == UNION {NamesOf(lines[i]) : i \in DOMAIN lines}
MembersNamed(lines, open) ==
  \A k \in DOMAIN open :
    /\ IsList(open[k].members) /\ ToSet(open[k].members) \subseteq NamedOn(lines)
    /\ Slots(open[k].lines) # {} /\ Slots(open[k].lines) \subseteq Slots(lines)

\* Nobody is twice in a list.
Distinct(s) == \A i, j \in DOMAIN s : s[i] = s[j] => i = j

\* A session holds the lines of its court, and its members, each once, are those confirmed
\* who are named on them.
TeamsOf(lines, confirmed, open) ==
  \A k \in DOMAIN open :
    /\ Distinct(open[k].members) /\ ToSet(open[k].members) \subseteq confirmed
    /\ ToSet(open[k].lines) = {l \in ToSet(lines) : l.slot[1] = open[k].court}
    /\ \A p \in ToSet(open[k].members) : \E l \in ToSet(open[k].lines) : p \in NamesOf(l)

\* What a list holds is finite.
LEMMA FiniteValues == ASSUME NEW s, IsList(s) PROVE IsFiniteSet(ToSet(s))
<1>1. s = [i \in DOMAIN s |-> s[i]] /\ IsFiniteSet(DOMAIN s)
  BY ListHas
<1>2. s \in Surjection(DOMAIN s, ToSet(s))
  <2>1. \A i \in DOMAIN s : s[i] \in ToSet(s)
    BY DEF ToSet
  <2>2. PICK T : T = ToSet(s)
    OBVIOUS
  <2>3. s \in [DOMAIN s -> T]
    BY <1>1, <2>1, <2>2
  <2>4. \A t \in T : \E i \in DOMAIN s : s[i] = t
    BY <2>2 DEF ToSet
  <2> QED
    BY <2>2, <2>3, <2>4 DEF Surjection
<1> QED
  BY <1>1, <1>2, FS_Surjection

\* The values of a list that are in a set, in the order in which they first appear.
LEMMA FirstPlaces ==
  ASSUME NEW named, IsList(named), NEW confirmed,
         NEW S, S = {p \in ToSet(named) : p \in confirmed}
  PROVE  Listing(S, Sorted([p \in S |-> Min({i \in DOMAIN named : named[i] = p})]))
<1> DEFINE places(p) == {i \in DOMAIN named : named[i] = p}
           rank == [p \in S |-> Min({i \in DOMAIN named : named[i] = p})]
<1>1. DOMAIN named \subseteq Nat /\ IsFiniteSet(ToSet(named))
  BY ListHas, FiniteValues
<1>2. S \subseteq ToSet(named)
  OBVIOUS
<1>3. IsFiniteSet(S)
  BY <1>1, <1>2, FS_Subset
<1>4. ASSUME NEW p \in S PROVE rank[p] \in Nat /\ named[rank[p]] = p
  <2>1. places(p) # {} /\ places(p) \subseteq Nat
    BY <1>1, <1>2 DEF ToSet
  <2>2. rank[p] = Min(places(p))
    OBVIOUS
  <2> HIDE DEF rank, places
  <2>3. rank[p] \in places(p)
    BY <2>1, <2>2, MinType
  <2> QED
    BY <1>1, <2>3 DEF places
<1>5. DOMAIN rank = S
  OBVIOUS
<1> HIDE DEF rank
<1>6. \A p, q \in S : rank[p] = rank[q] => p = q
  BY <1>4
<1>7. Ranking(rank)
  BY <1>3, <1>4, <1>5, <1>6 DEF Ranking
<1>8. Listing(S, Sorted(rank))
  BY <1>5, <1>7, SortedIs
<1> QED
  BY <1>8 DEF rank

\* The courts of a plan become sessions: one each, with all the lines of its court
\* and with players named on them as its members (buildOngoingSessionsFromBookings).
LEMMA SessionsOpened ==
  ASSUME NEW room, room \subseteq AllCourts \X Nat, NEW lines, Fresh(lines, room),
         NEW anchor, NEW confirmed, NEW plan
  PROVE  /\ Opened(lines, anchor, plan, room, BuildOngoingSessions(lines, anchor, confirmed, plan))
         /\ MembersNamed(lines, BuildOngoingSessions(lines, anchor, confirmed, plan))
         /\ TeamsOf(lines, confirmed, BuildOngoingSessions(lines, anchor, confirmed, plan))
<1> DEFINE held == {s[1] : s \in Slots(lines)}
           at1(c) == {i \in DOMAIN lines : lines[i].slot[1] = c}
           firstOn(c) == Min({i \in DOMAIN lines : lines[i].slot[1] = c})
           rank == [c \in held |-> firstOn(c)]
           courts == Sorted(rank)
           linesOn(c) == {m \in ToSet(lines) : m.slot[1] = c}
           on(c) == Sorted([l \in {m \in ToSet(lines) : m.slot[1] = c} |-> l.slot[2]])
           named(c) == [i \in 1..(2 * Len(on(c))) |-> IF i % 2 = 1 THEN on(c)[(i + 1) \div 2].user
                                                      ELSE on(c)[i \div 2].partner]
           members(c) == {p \in ToSet(named(c)) : p \in confirmed}
           at(c, p) == Min({i \in DOMAIN named(c) : named(c)[i] = p})
           membersOf(c) == Sorted([p \in members(c) |-> at(c, p)])
           open == [k \in DOMAIN courts |->
                      [court |-> courts[k], anchor |-> anchor, lines |-> on(courts[k]),
                       plan |-> plan, members |-> membersOf(courts[k])]]
<1>1. open = BuildOngoingSessions(lines, anchor, confirmed, plan)
  BY DEF BuildOngoingSessions
<1>2. /\ IsList(lines) /\ Slots(lines) \subseteq room
      /\ \A i, j \in DOMAIN lines : lines[i].slot = lines[j].slot => i = j
      /\ \A i \in DOMAIN lines : lines[i].slot \in Slots(lines)
      /\ DOMAIN lines \subseteq Nat /\ IsFiniteSet(DOMAIN lines)
  BY ListHas DEF Fresh, Once, Slots
<1>3. \A s \in Slots(lines) : s[1] \in AllCourts /\ s[2] \in Nat /\ s = <<s[1], s[2]>>
  BY <1>2
<1>4. Listing(held, courts)
  <2>1. ASSUME NEW c \in held PROVE firstOn(c) \in DOMAIN lines /\ lines[firstOn(c)].slot[1] = c
    <3>1. at1(c) # {} /\ at1(c) \subseteq Nat
      <4>1. \E i \in DOMAIN lines : lines[i].slot[1] = c
        BY DEF Slots
      <4> QED
        BY <1>2, <4>1
    <3>2. Min(at1(c)) \in at1(c)
      <4> HIDE DEF at1
      <4> QED
        BY <3>1, MinType
    <3> QED
      BY <3>2
  <2>2. \A c \in held : rank[c] = firstOn(c)
    OBVIOUS
  <2>3. DOMAIN rank = held
    OBVIOUS
  <2>4. IsFiniteSet(held)
    <3>1. held \subseteq AllCourts
      BY <1>3
    <3> HIDE DEF held
    <3> QED
      BY <3>1, CourtsFinite
  <2> HIDE DEF firstOn, rank
  <2>5. \A c \in held : rank[c] \in Nat
    <3> HIDE DEF held
    <3> QED
      BY <1>2, <2>1, <2>2
  <2>6. \A c, d \in held : rank[c] = rank[d] => c = d
    <3> HIDE DEF held
    <3> QED
      BY <2>1, <2>2
  <2>7. Ranking(rank)
    <3> HIDE DEF held
    <3> QED
      BY <2>3, <2>4, <2>5, <2>6 DEF Ranking
  <2> HIDE DEF held
  <2> QED
    BY <2>3, <2>7, SortedIs
<1>5. ASSUME NEW c PROVE Listing(linesOn(c), on(c))
  <2> DEFINE r == [l \in linesOn(c) |-> l.slot[2]]
  <2>1. IsFiniteSet(linesOn(c))
    <3>1. linesOn(c) \in SUBSET ToSet(lines) /\ IsFiniteSet(ToSet(lines))
      BY <1>2, FiniteValues
    <3> HIDE DEF linesOn
    <3> QED
      BY <3>1, FS_Subset
  <2>2. ASSUME NEW l \in linesOn(c), NEW m \in linesOn(c), l.slot[2] = m.slot[2] PROVE l = m
    <3>1. PICK i \in DOMAIN lines : l = lines[i]
      BY DEF ToSet
    <3>2. PICK j \in DOMAIN lines : m = lines[j]
      BY DEF ToSet
    <3>3. l.slot = <<l.slot[1], l.slot[2]>> /\ m.slot = <<m.slot[1], m.slot[2]>>
      BY <1>2, <1>3, <3>1, <3>2
    <3>4. l.slot[1] = c /\ m.slot[1] = c
      OBVIOUS
    <3>5. l.slot = m.slot
      BY <2>2, <3>3, <3>4
    <3> QED
      BY <1>2, <3>1, <3>2, <3>5
  <2>3. \A l \in linesOn(c) : l.slot[2] \in Nat
    BY <1>2, <1>3 DEF ToSet
  <2>4. DOMAIN r = linesOn(c) /\ \A l \in linesOn(c) : r[l] = l.slot[2]
    OBVIOUS
  <2>5. on(c) = Sorted(r)
    OBVIOUS
  <2> HIDE DEF r, linesOn, on
  <2>6. Ranking(r)
    BY <2>1, <2>2, <2>3, <2>4 DEF Ranking
  <2> QED
    BY <2>4, <2>5, <2>6, SortedIs
<1>6. ASSUME NEW c
      PROVE  /\ IsList(on(c)) /\ Slots(on(c)) \subseteq Slots(lines)
             /\ \A s \in Slots(lines) : s[1] = c => s \in Slots(on(c))
  <2>1. PICK o : o = on(c)
    OBVIOUS
  <2>2. IsList(o) /\ ToSet(o) = linesOn(c)
    <3> HIDE DEF on, linesOn
    <3> QED
      BY <1>5, <2>1 DEF Listing
  <2>3. \A s : s \in Slots(o) <=> \E l \in ToSet(o) : s = l.slot
    BY DEF Slots, ToSet
  <2>4. \A s : s \in Slots(lines) <=> \E l \in ToSet(lines) : s = l.slot
    BY DEF Slots, ToSet
  <2>5. Slots(o) \subseteq Slots(lines) /\ \A s \in Slots(lines) : s[1] = c => s \in Slots(o)
    BY <2>2, <2>3, <2>4
  <2> QED
    BY <2>1, <2>2, <2>5
<1>7. ASSUME NEW c \in held PROVE Slots(on(c)) # {}
  <2>1. PICK s \in Slots(lines) : s[1] = c
    OBVIOUS
  <2> HIDE DEF held, on
  <2> QED
    BY <1>6, <2>1
<1>8. ASSUME NEW c
      PROVE  /\ IsList(membersOf(c)) /\ ToSet(membersOf(c)) \subseteq NamedOn(lines)
             /\ Distinct(membersOf(c)) /\ ToSet(membersOf(c)) \subseteq confirmed
             /\ \A p \in ToSet(membersOf(c)) : \E l \in ToSet(on(c)) : p \in NamesOf(l)
  <2>1. PICK o : o = on(c)
    OBVIOUS
  <2>2. IsList(o) /\ ToSet(o) = linesOn(c)
    <3> HIDE DEF on, linesOn
    <3> QED
      BY <1>5, <2>1 DEF Listing
  <2>3. Len(o) \in Nat /\ DOMAIN o = 1 .. Len(o)
    BY <2>2, ListHas
  <2>4. PICK nm : nm = [i \in 1..(2 * Len(o)) |-> IF i % 2 = 1 THEN o[(i + 1) \div 2].user
                                                   ELSE o[i \div 2].partner]
    OBVIOUS
  <2>5. named(c) = nm
    BY <2>1, <2>4
  <2>6. IsList(nm) /\ DOMAIN nm = 1 .. 2 * Len(o)
    <3>1. nm = [i \in 1 .. 2 * Len(o) |-> nm[i]] /\ 2 * Len(o) \in Nat
      BY <2>3, <2>4
    <3> QED
      BY <3>1, ListFrom
  <2>7. ASSUME NEW i \in 1 .. 2 * Len(o)
        PROVE  nm[i] \in NamedOn(lines) /\ \E l \in ToSet(o) : nm[i] \in NamesOf(l)
    <3>1. PICK j \in DOMAIN o : nm[i] = o[j].user \/ nm[i] = o[j].partner
      <4>1. CASE i % 2 = 1
        <5>1. (i + 1) \div 2 \in DOMAIN o
          BY <2>3, <4>1
        <5> QED
          BY <2>4, <4>1, <5>1
      <4>2. CASE i % 2 # 1
        <5>1. i \div 2 \in DOMAIN o
          BY <2>3, <4>2
        <5> QED
          BY <2>4, <4>2, <5>1
      <4> QED
        BY <4>1, <4>2
    <3>2. o[j] \in linesOn(c)
      <4>1. o[j] \in ToSet(o)
        BY DEF ToSet
      <4> HIDE DEF linesOn
      <4> QED
        BY <2>2, <4>1
    <3>3. PICK m \in DOMAIN lines : o[j] = lines[m]
      BY <3>2 DEF ToSet
    <3>4. nm[i] \in NamesOf(o[j]) /\ o[j] \in ToSet(o)
      BY <3>1 DEF NamesOf, ToSet
    <3> QED
      BY <3>3, <3>4 DEF NamedOn
  <2>8. ToSet(nm) \subseteq NamedOn(lines) /\ \A p \in ToSet(nm) : \E l \in ToSet(o) : p \in NamesOf(l)
    BY <2>6, <2>7 DEF ToSet
  <2> DEFINE S == {p \in ToSet(nm) : p \in confirmed}
  <2>9. membersOf(c) = Sorted([p \in S |-> Min({i \in DOMAIN nm : nm[i] = p})])
    <3> HIDE DEF named
    <3> QED
      BY <2>5
  <2>10. S \subseteq ToSet(nm)
    OBVIOUS
  <2>11. PICK T, m : T = S /\ m = membersOf(c)
    OBVIOUS
  <2>12. m = Sorted([p \in T |-> Min({i \in DOMAIN nm : nm[i] = p})])
    <3> HIDE DEF membersOf, S
    <3> QED
      BY <2>9, <2>11
  <2>13. T = {p \in ToSet(nm) : p \in confirmed}
    BY <2>11
  <2>14. Listing(T, m)
    BY <2>6, <2>12, <2>13, FirstPlaces
  <2>15. IsList(m) /\ ToSet(m) = T /\ Distinct(m)
    BY <2>14 DEF Listing, Distinct
  <2> HIDE DEF membersOf, on
  <2> QED
    BY <2>1, <2>8, <2>11, <2>13, <2>15
<1>9. PICK n \in Nat : DOMAIN courts = 1 .. n
  <2> HIDE DEF courts, held
  <2> QED
    BY <1>4, ListHas DEF Listing
<1>10. \A k \in 1 .. n : courts[k] \in held
  <2> HIDE DEF courts, held
  <2> QED
    BY <1>4, <1>9 DEF Listing, ToSet
<1>11. DOMAIN open = 1 .. n /\ open = [k \in 1 .. n |-> open[k]]
  BY <1>9
<1>12. ASSUME NEW k \in 1 .. n
      PROVE  /\ open[k].court = courts[k] /\ open[k].anchor = anchor /\ open[k].plan = plan
             /\ open[k].lines = on(courts[k]) /\ open[k].members = membersOf(courts[k])
             /\ {"court", "anchor", "lines", "plan", "members"} \subseteq DOMAIN open[k]
  <2> HIDE DEF courts, on, membersOf
  <2> QED
    BY <1>9
<1>13. \A k, l \in 1 .. n : courts[k] = courts[l] => k = l
  <2> HIDE DEF courts, held
  <2> QED
    BY <1>4, <1>9 DEF Listing
<1> HIDE DEF courts, on, membersOf, open
<1>14. IsList(open)
  BY <1>11, ListFrom
<1>15. ASSUME NEW k \in DOMAIN open
       PROVE  /\ IsSession(open[k], room) /\ open[k].anchor = anchor /\ open[k].plan = plan
              /\ \A s \in Slots(lines) : s[1] = open[k].court => s \in Slots(open[k].lines)
  <2>1. k \in 1 .. n
    BY <1>11
  <2>2. IsSession(open[k], room)
    <3>1. PICK o : o = on(courts[k])
      OBVIOUS
    <3>2. IsList(o) /\ Slots(o) \subseteq room
      BY <1>2, <1>6, <3>1
    <3>3. open[k].lines = o
      BY <1>12, <2>1, <3>1
    <3> QED
      BY <1>12, <2>1, <3>2, <3>3 DEF IsSession
  <2> QED
    BY <1>6, <1>12, <2>1, <2>2
<1>16. ASSUME NEW k \in DOMAIN open, NEW l \in DOMAIN open, open[k].court = open[l].court
       PROVE  k = l
  BY <1>11, <1>12, <1>13, <1>16
<1>17. Opened(lines, anchor, plan, room, open)
  BY <1>14, <1>15, <1>16 DEF Opened
<1>18. MembersNamed(lines, open)
  <2>1. ASSUME NEW k \in DOMAIN open
        PROVE  /\ IsList(open[k].members) /\ ToSet(open[k].members) \subseteq NamedOn(lines)
               /\ Slots(open[k].lines) # {} /\ Slots(open[k].lines) \subseteq Slots(lines)
    <3>1. k \in 1 .. n
      BY <1>11
    <3>2. PICK c, o, m : c = courts[k] /\ o = on(c) /\ m = membersOf(c)
      OBVIOUS
    <3>3. c \in held
      BY <1>10, <3>1, <3>2
    <3>4. open[k].lines = o /\ open[k].members = m
      BY <1>12, <3>1, <3>2
    <3> HIDE DEF held
    <3>5. IsList(m) /\ ToSet(m) \subseteq NamedOn(lines) /\ Slots(o) # {} /\ Slots(o) \subseteq Slots(lines)
      BY <1>6, <1>7, <1>8, <3>2, <3>3
    <3> QED
      BY <3>4, <3>5
  <2> QED
    BY <2>1 DEF MembersNamed
<1>19. TeamsOf(lines, confirmed, open)
  <2>1. ASSUME NEW k \in DOMAIN open
        PROVE  /\ Distinct(open[k].members) /\ ToSet(open[k].members) \subseteq confirmed
               /\ ToSet(open[k].lines) = {l \in ToSet(lines) : l.slot[1] = open[k].court}
               /\ \A p \in ToSet(open[k].members) : \E l \in ToSet(open[k].lines) : p \in NamesOf(l)
    <3>1. k \in 1 .. n
      BY <1>11
    <3>2. PICK c, o, m : c = courts[k] /\ o = on(c) /\ m = membersOf(c)
      OBVIOUS
    <3>3. open[k].court = c /\ open[k].lines = o /\ open[k].members = m
      BY <1>12, <3>1, <3>2
    <3>4. ToSet(o) = linesOn(c)
      <4> HIDE DEF linesOn
      <4> QED
        BY <1>5, <3>2 DEF Listing
    <3>5. /\ Distinct(m) /\ ToSet(m) \subseteq confirmed
          /\ \A p \in ToSet(m) : \E l \in ToSet(o) : p \in NamesOf(l)
      BY <1>8, <3>2
    <3> QED
      BY <3>3, <3>4, <3>5
  <2> QED
    BY <2>1 DEF TeamsOf
<1> QED
  BY <1>1, <1>17, <1>18, <1>19

-----------------------------------------------------------------------------
(* The ledger of the day.                                                   *)

\* The lines of a list of plans by their place, and those of them inside the window.
PlacesIn(ps) == UNION {{h} \X DOMAIN ps[h].lines : h \in DOMAIN ps}
LinesIn(ps) == [x \in PlacesIn(ps) |-> ps[x[1]].lines[x[2]]]
KeptIn(ps) ==
  [x \in {y \in PlacesIn(ps) : LinesIn(ps)[y].slot \notin ps[y[1]].outside} |-> LinesIn(ps)[x]]

IsPlan(plan) == {"lines", "groups", "outside"} \subseteq DOMAIN plan /\ IsList(plan.lines)

\* The ledger is that of the plans: bookings by player, slots kept, none of them twice.
LedgerOk(ps, taken, counts, names, free) ==
  /\ IsFiniteSet(PlacesIn(ps))
  /\ counts \in [names -> Nat]
  /\ \A p \in names : counts[p] = Count(LinesIn(ps), p)
  /\ taken = Slots(KeptIn(ps)) /\ taken \subseteq free
  /\ Once(KeptIn(ps))

\* A place is an hour and the number of a line of its plan.
LEMMA PlaceIs ==
  ASSUME NEW ps
  PROVE  /\ \A x \in PlacesIn(ps) : x[1] \in DOMAIN ps /\ x[2] \in DOMAIN ps[x[1]].lines
                                    /\ x = <<x[1], x[2]>>
         /\ \A h \in DOMAIN ps : \A i \in DOMAIN ps[h].lines : <<h, i>> \in PlacesIn(ps)
<1>1. ASSUME NEW x \in PlacesIn(ps)
      PROVE  x[1] \in DOMAIN ps /\ x[2] \in DOMAIN ps[x[1]].lines /\ x = <<x[1], x[2]>>
  <2>1. PICK h \in DOMAIN ps : x \in {h} \X DOMAIN ps[h].lines
    BY DEF PlacesIn
  <2> QED
    BY <2>1
<1>2. ASSUME NEW h \in DOMAIN ps, NEW i \in DOMAIN ps[h].lines PROVE <<h, i>> \in PlacesIn(ps)
  <2>1. <<h, i>> \in {h} \X DOMAIN ps[h].lines
    OBVIOUS
  <2> QED
    BY <2>1 DEF PlacesIn
<1> QED
  BY <1>1, <1>2

\* The plans qs are ps with the lines `add`, which come after `skip` others, at hour g.
MorePlans(ps, qs, g, add, skip) ==
  /\ \A x \in PlacesIn(ps) : /\ x \in PlacesIn(qs)
                             /\ qs[x[1]].lines[x[2]] = ps[x[1]].lines[x[2]]
                             /\ qs[x[1]].outside = ps[x[1]].outside
  /\ \A i \in DOMAIN add : /\ <<g, skip + i>> \in PlacesIn(qs) \ PlacesIn(ps)
                           /\ qs[g].lines[skip + i] = add[i]
  /\ \A x \in PlacesIn(qs) \ PlacesIn(ps) : \E i \in DOMAIN add : x = <<g, skip + i>>

\* The lines kept of those added.
KeptOf(add, outside) == [i \in {j \in DOMAIN add : add[j].slot \notin outside} |-> add[i]]

\* Lines entered in the plans, on slots nobody took, keep the ledger true when their bookings
\* are counted and the slots kept are denied.
LEMMA LedgerGrows ==
  ASSUME NEW ps, NEW qs, NEW g, NEW add, NEW skip \in Nat, MorePlans(ps, qs, g, add, skip),
         NEW taken, NEW counts, NEW names, NEW free, LedgerOk(ps, taken, counts, names, free),
         Fresh(add, free \ taken),
         NEW taken2, taken2 = taken \cup (Slots(add) \ qs[g].outside),
         NEW counts2, counts2 = [p \in names |-> counts[p] + Count(add, p)]
  PROVE  LedgerOk(qs, taken2, counts2, names, free)
<1> DEFINE at == [i \in DOMAIN add |-> <<g, skip + i>>]
           kept == KeptOf(add, qs[g].outside)
<1>1. /\ IsFiniteSet(DOMAIN add) /\ DOMAIN add \subseteq Nat /\ Once(add)
      /\ Slots(add) \subseteq free \ taken
  BY ListHas DEF Fresh
<1>2. /\ DOMAIN LinesIn(ps) = PlacesIn(ps) /\ DOMAIN LinesIn(qs) = PlacesIn(qs)
      /\ \A x \in PlacesIn(ps) : LinesIn(ps)[x] = ps[x[1]].lines[x[2]]
      /\ \A x \in PlacesIn(qs) : LinesIn(qs)[x] = qs[x[1]].lines[x[2]]
  BY DEF LinesIn
<1>3. \A i \in DOMAIN add : at[i] = <<g, skip + i>> /\ at[i][1] = g /\ at[i][2] = skip + i
  OBVIOUS
<1>4. \A i, j \in DOMAIN add : at[i] = at[j] => i = j
  <2>1. ASSUME NEW i \in DOMAIN add, NEW j \in DOMAIN add, at[i] = at[j] PROVE i = j
    <3>1. skip + i = skip + j /\ i \in Nat /\ j \in Nat
      BY <1>1, <1>3, <2>1
    <3> QED
      BY <3>1
  <2> QED
    BY <2>1
<1>5. ASSUME NEW i \in DOMAIN add
      PROVE  at[i] \in PlacesIn(qs) \ PlacesIn(ps) /\ LinesIn(qs)[at[i]] = add[i]
  BY <1>2, <1>3 DEF MorePlans
<1>6. \A x \in PlacesIn(qs) : x \in PlacesIn(ps) \/ \E i \in DOMAIN add : x = at[i]
  BY <1>3 DEF MorePlans
<1>7. \A x \in PlacesIn(ps) : x \in PlacesIn(qs) /\ LinesIn(qs)[x] = LinesIn(ps)[x]
  BY <1>2 DEF MorePlans
<1> HIDE DEF at
<1>8. Enters(LinesIn(ps), add, at, LinesIn(qs))
  <2>1. PlacesIn(qs) = PlacesIn(ps) \cup {at[i] : i \in DOMAIN add}
    BY <1>5, <1>6, <1>7
  <2>2. IsFiniteSet(DOMAIN LinesIn(ps))
    BY <1>2 DEF LedgerOk
  <2> QED
    BY <1>1, <1>2, <1>4, <1>5, <1>7, <2>1, <2>2 DEF Enters
<1>9. /\ DOMAIN KeptIn(ps) = {y \in PlacesIn(ps) : LinesIn(ps)[y].slot \notin ps[y[1]].outside}
      /\ DOMAIN KeptIn(qs) = {y \in PlacesIn(qs) : LinesIn(qs)[y].slot \notin qs[y[1]].outside}
      /\ \A x \in DOMAIN KeptIn(ps) : KeptIn(ps)[x] = LinesIn(ps)[x]
      /\ \A x \in DOMAIN KeptIn(qs) : KeptIn(qs)[x] = LinesIn(qs)[x]
  BY DEF KeptIn
<1>10. /\ DOMAIN kept = {j \in DOMAIN add : add[j].slot \notin qs[g].outside}
       /\ \A i \in DOMAIN kept : kept[i] = add[i]
  BY DEF KeptOf
<1>11. Slots(kept) = Slots(add) \ qs[g].outside
  <2> HIDE DEF kept
  <2>1. ASSUME NEW s \in Slots(kept) PROVE s \in Slots(add) \ qs[g].outside
    BY <1>10 DEF Slots
  <2>2. ASSUME NEW s \in Slots(add) \ qs[g].outside PROVE s \in Slots(kept)
    <3>1. PICK i \in DOMAIN add : s = add[i].slot
      BY DEF Slots
    <3>2. i \in DOMAIN kept /\ kept[i].slot = s
      BY <1>10, <2>2, <3>1
    <3> QED
      BY <3>2 DEF Slots
  <2> QED
    BY <2>1, <2>2
<1>12. Once(kept)
  <2> HIDE DEF kept
  <2> QED
    BY <1>1, <1>10 DEF Once
<1> HIDE DEF kept
<1>13. Enters(KeptIn(ps), kept, at, KeptIn(qs))
  <2>1. ASSUME NEW x \in DOMAIN KeptIn(ps) PROVE x \in DOMAIN KeptIn(qs) /\ KeptIn(qs)[x] = KeptIn(ps)[x]
    <3>1. x \in PlacesIn(ps) /\ LinesIn(ps)[x].slot \notin ps[x[1]].outside
      BY <1>9
    <3>2. qs[x[1]].outside = ps[x[1]].outside
      BY <3>1 DEF MorePlans
    <3>3. x \in PlacesIn(qs) /\ LinesIn(qs)[x] = LinesIn(ps)[x]
      BY <1>7, <3>1
    <3>4. x \in DOMAIN KeptIn(qs)
      BY <1>9, <3>1, <3>2, <3>3
    <3> QED
      BY <1>9, <3>3, <3>4
  <2>2. ASSUME NEW i \in DOMAIN kept
        PROVE  /\ at[i] \in DOMAIN KeptIn(qs) /\ at[i] \notin DOMAIN KeptIn(ps)
               /\ KeptIn(qs)[at[i]] = kept[i]
    <3>1. i \in DOMAIN add /\ add[i].slot \notin qs[g].outside /\ kept[i] = add[i]
      BY <1>10
    <3>2. at[i] \in PlacesIn(qs) \ PlacesIn(ps) /\ LinesIn(qs)[at[i]] = add[i] /\ at[i][1] = g
      BY <1>3, <1>5, <3>1
    <3>3. at[i] \in DOMAIN KeptIn(qs)
      BY <1>9, <3>1, <3>2
    <3> QED
      BY <1>9, <3>1, <3>2, <3>3
  <2>3. ASSUME NEW x \in DOMAIN KeptIn(qs), x \notin DOMAIN KeptIn(ps)
        PROVE  \E i \in DOMAIN kept : x = at[i]
    <3>1. x \in PlacesIn(qs) /\ LinesIn(qs)[x].slot \notin qs[x[1]].outside
      BY <1>9
    <3>2. CASE x \in PlacesIn(ps)
      <4>1. qs[x[1]].outside = ps[x[1]].outside
        BY <3>2 DEF MorePlans
      <4> QED
        BY <1>7, <1>9, <2>3, <3>1, <3>2, <4>1
    <3>3. CASE x \notin PlacesIn(ps)
      <4>1. PICK i \in DOMAIN add : x = at[i]
        BY <1>6, <3>1, <3>3
      <4>2. LinesIn(qs)[x] = add[i] /\ x[1] = g
        BY <1>3, <1>5, <4>1
      <4> QED
        BY <1>10, <3>1, <4>1, <4>2
    <3> QED
      BY <3>2, <3>3
  <2>4. DOMAIN KeptIn(qs) = DOMAIN KeptIn(ps) \cup {at[i] : i \in DOMAIN kept}
    BY <2>1, <2>2, <2>3
  <2>5. IsFiniteSet(DOMAIN KeptIn(ps))
    <3>1. DOMAIN KeptIn(ps) \in SUBSET PlacesIn(ps)
      BY <1>9
    <3> QED
      BY <3>1, FS_Subset DEF LedgerOk
  <2>6. IsFiniteSet(DOMAIN kept)
    <3>1. DOMAIN kept \in SUBSET DOMAIN add
      BY <1>10
    <3> QED
      BY <1>1, <3>1, FS_Subset
  <2>7. \A i, j \in DOMAIN kept : at[i] = at[j] => i = j
    BY <1>4, <1>10
  <2> QED
    BY <2>1, <2>2, <2>4, <2>5, <2>6, <2>7 DEF Enters
<1>14. IsFiniteSet(PlacesIn(qs))
  BY <1>2, <1>8, EntersFinite
<1>15. counts2 \in [names -> Nat] /\ \A p \in names : counts2[p] = Count(LinesIn(qs), p)
  <2>1. ASSUME NEW p \in names PROVE counts2[p] \in Nat /\ counts2[p] = Count(LinesIn(qs), p)
    <3>1. counts[p] = Count(LinesIn(ps), p)
      BY DEF LedgerOk
    <3>2. /\ Count(LinesIn(ps), p) \in Nat /\ Count(add, p) \in Nat
          /\ Count(LinesIn(qs), p) = Count(LinesIn(ps), p) + Count(add, p)
      BY <1>8, EntersCount
    <3>3. counts2[p] = counts[p] + Count(add, p)
      OBVIOUS
    <3> QED
      BY <3>1, <3>2, <3>3
  <2>2. DOMAIN counts2 = names /\ counts2 = [p \in names |-> counts2[p]]
    OBVIOUS
  <2> QED
    BY <2>1, <2>2
<1>16. taken2 = Slots(KeptIn(qs)) /\ taken2 \subseteq free
  <2>1. Slots(KeptIn(qs)) = Slots(KeptIn(ps)) \cup Slots(kept)
    BY <1>13, EntersSlots
  <2>2. taken = Slots(KeptIn(ps)) /\ taken \subseteq free
    BY DEF LedgerOk
  <2> QED
    BY <1>1, <1>11, <2>1, <2>2
<1>17. Once(KeptIn(qs))
  <2>1. Once(KeptIn(ps)) /\ Slots(KeptIn(ps)) = taken
    BY DEF LedgerOk
  <2>2. Slots(KeptIn(ps)) \cap Slots(kept) = {}
    BY <1>1, <1>11, <2>1
  <2> QED
    BY <1>12, <1>13, <2>1, <2>2, EntersOnce
<1> QED
  BY <1>14, <1>15, <1>16, <1>17 DEF LedgerOk

\* A plan more: its lines have places of their own.
LEMMA PlanAdded ==
  ASSUME NEW ps, IsList(ps), NEW plan, IsPlan(plan), NEW qs, Appended(ps, plan, qs)
  PROVE  MorePlans(ps, qs, Len(ps) + 1, plan.lines, 0)
<1>1. PICK n \in Nat : n = Len(ps) /\ DOMAIN ps = 1 .. n
  BY ListHas
<1>2. DOMAIN qs = DOMAIN ps \cup {n + 1} /\ (\A h \in DOMAIN ps : qs[h] = ps[h]) /\ qs[n + 1] = plan
  BY <1>1 DEF Appended
<1>3. n + 1 \notin DOMAIN ps
  BY <1>1
<1>4. DOMAIN plan.lines \subseteq Nat
  BY ListHas DEF IsPlan
<1>5. ASSUME NEW x \in PlacesIn(ps)
      PROVE  /\ x \in PlacesIn(qs) /\ qs[x[1]].lines[x[2]] = ps[x[1]].lines[x[2]]
             /\ qs[x[1]].outside = ps[x[1]].outside
  <2>1. x[1] \in DOMAIN ps /\ x[2] \in DOMAIN ps[x[1]].lines /\ x = <<x[1], x[2]>>
    BY PlaceIs
  <2>2. x[1] \in DOMAIN qs /\ qs[x[1]] = ps[x[1]]
    BY <1>2, <2>1
  <2>3. <<x[1], x[2]>> \in PlacesIn(qs)
    BY <2>1, <2>2, PlaceIs
  <2> QED
    BY <2>1, <2>2, <2>3
<1>6. ASSUME NEW i \in DOMAIN plan.lines
      PROVE  /\ <<n + 1, 0 + i>> \in PlacesIn(qs) \ PlacesIn(ps)
             /\ qs[n + 1].lines[0 + i] = plan.lines[i]
  <2>1. 0 + i = i
    BY <1>4
  <2>2. <<n + 1, i>> \in PlacesIn(qs)
    BY <1>2, PlaceIs
  <2>3. <<n + 1, i>> \notin PlacesIn(ps)
    <3>1. SUFFICES ASSUME NEW x, x = <<n + 1, i>>, x \in PlacesIn(ps) PROVE FALSE
      OBVIOUS
    <3>2. x[1] \in DOMAIN ps
      BY <3>1, PlaceIs
    <3> QED
      BY <1>3, <3>1, <3>2
  <2> QED
    BY <1>2, <2>1, <2>2, <2>3
<1>7. ASSUME NEW x \in PlacesIn(qs) \ PlacesIn(ps)
      PROVE  \E i \in DOMAIN plan.lines : x = <<n + 1, 0 + i>>
  <2>1. x[1] \in DOMAIN qs /\ x[2] \in DOMAIN qs[x[1]].lines /\ x = <<x[1], x[2]>>
    BY PlaceIs
  <2>2. x[1] = n + 1
    <3>1. ASSUME x[1] \in DOMAIN ps PROVE FALSE
      <4>1. x[2] \in DOMAIN ps[x[1]].lines
        BY <1>2, <2>1, <3>1
      <4>2. <<x[1], x[2]>> \in PlacesIn(ps)
        BY <3>1, <4>1, PlaceIs
      <4> QED
        BY <2>1, <4>2
    <3> QED
      BY <1>2, <2>1, <3>1
  <2>3. x[2] \in DOMAIN plan.lines /\ 0 + x[2] = x[2]
    BY <1>2, <1>4, <2>1, <2>2
  <2> QED
    BY <2>1, <2>2, <2>3
<1> QED
  BY <1>1, <1>5, <1>6, <1>7 DEF MorePlans

\* A plan extended: its lines keep their places, and those added come after them.
LEMMA PlanExtended ==
  ASSUME NEW ps, NEW qs, DOMAIN qs = DOMAIN ps, NEW p \in DOMAIN ps,
         \A h \in DOMAIN ps : h # p => qs[h] = ps[h],
         qs[p].outside = ps[p].outside, IsList(ps[p].lines), NEW added, IsList(added),
         Joined(ps[p].lines, added, qs[p].lines)
  PROVE  MorePlans(ps, qs, p, added, Len(ps[p].lines))
<1>1. PICK n \in Nat : n = Len(ps[p].lines) /\ DOMAIN ps[p].lines = 1 .. n
  BY ListHas
<1>2. /\ DOMAIN qs[p].lines = DOMAIN ps[p].lines \cup {n + i : i \in DOMAIN added}
      /\ \A i \in DOMAIN ps[p].lines : qs[p].lines[i] = ps[p].lines[i]
      /\ \A i \in DOMAIN added : qs[p].lines[n + i] = added[i]
  BY <1>1 DEF Joined
<1>3. ASSUME NEW i \in DOMAIN added PROVE n + i \notin DOMAIN ps[p].lines
  <2>1. i \in 1 .. Len(added) /\ Len(added) \in Nat
    BY ListHas
  <2> QED
    BY <1>1, <2>1
<1>4. ASSUME NEW x \in PlacesIn(ps)
      PROVE  /\ x \in PlacesIn(qs) /\ qs[x[1]].lines[x[2]] = ps[x[1]].lines[x[2]]
             /\ qs[x[1]].outside = ps[x[1]].outside
  <2>1. x[1] \in DOMAIN ps /\ x[2] \in DOMAIN ps[x[1]].lines /\ x = <<x[1], x[2]>>
    BY PlaceIs
  <2>2. x[1] \in DOMAIN qs /\ x[2] \in DOMAIN qs[x[1]].lines
        /\ qs[x[1]].lines[x[2]] = ps[x[1]].lines[x[2]] /\ qs[x[1]].outside = ps[x[1]].outside
    <3>1. CASE x[1] = p
      BY <1>2, <2>1, <3>1
    <3>2. CASE x[1] # p
      BY <2>1, <3>2
    <3> QED
      BY <3>1, <3>2
  <2>3. <<x[1], x[2]>> \in PlacesIn(qs)
    BY <2>2, PlaceIs
  <2> QED
    BY <2>1, <2>2, <2>3
<1>5. ASSUME NEW i \in DOMAIN added
      PROVE  <<p, n + i>> \in PlacesIn(qs) \ PlacesIn(ps) /\ qs[p].lines[n + i] = added[i]
  <2>1. <<p, n + i>> \in PlacesIn(qs)
    BY <1>2, PlaceIs
  <2>2. <<p, n + i>> \notin PlacesIn(ps)
    <3>1. SUFFICES ASSUME NEW x, x = <<p, n + i>>, x \in PlacesIn(ps) PROVE FALSE
      OBVIOUS
    <3>2. x[2] \in DOMAIN ps[x[1]].lines /\ x[1] = p /\ x[2] = n + i
      BY <3>1, PlaceIs
    <3> QED
      BY <1>3, <3>2
  <2> QED
    BY <1>2, <2>1, <2>2
<1>6. ASSUME NEW x \in PlacesIn(qs) \ PlacesIn(ps) PROVE \E i \in DOMAIN added : x = <<p, n + i>>
  <2>1. x[1] \in DOMAIN ps /\ x[2] \in DOMAIN qs[x[1]].lines /\ x = <<x[1], x[2]>>
    BY PlaceIs
  <2>2. x[2] \notin DOMAIN ps[x[1]].lines
    <3>1. ASSUME x[2] \in DOMAIN ps[x[1]].lines PROVE FALSE
      <4>1. <<x[1], x[2]>> \in PlacesIn(ps)
        BY <2>1, <3>1, PlaceIs
      <4> QED
        BY <2>1, <4>1
    <3> QED
      BY <3>1
  <2>3. x[1] = p
    BY <2>1, <2>2
  <2>4. PICK i \in DOMAIN added : x[2] = n + i
    BY <1>2, <2>1, <2>2, <2>3
  <2> QED
    BY <2>1, <2>3, <2>4
<1> QED
  BY <1>1, <1>4, <1>5, <1>6 DEF MorePlans

-----------------------------------------------------------------------------
(* The invariant.                                                           *)

\* The input being planned is one of those given.
GivenOk(i) ==
  /\ i.free \subseteq AllCourts \X Nat /\ i.window \in Nat
  /\ i.hours \in Seq(Nat) /\ i.courtPriority \in Seq(Nat)

\* What a plan sets apart starts too late for its hour.
PlansOk(ps, hours, window) ==
  /\ IsList(ps)
  /\ \A h \in DOMAIN ps : IsPlan(ps[h]) /\ \A s \in ps[h].outside : ~(s[2] <= hours[h] + window)

\* A session belongs to a plan, and its window is that of the hour.
SessionsOk(ss, ps, hours, free) ==
  /\ IsList(ss)
  /\ \A k \in DOMAIN ss : /\ IsSession(ss[k], free)
                          /\ ss[k].plan \in DOMAIN ps /\ ss[k].anchor = hours[ss[k].plan]

\* What the hours done so far have left to those that follow.
DayInv ==
  /\ GivenOk(inp)
  /\ PlansOk(plans, inp.hours, inp.window)
  /\ LedgerOk(plans, used, daily, Names, inp.free)
  /\ SessionsOk(sessions, plans, inp.hours, inp.free)

WorkFields == {"lines", "former", "attempt", "batch", "open", "k", "extra"}

\* Neither the plan under construction nor the first attempt takes a slot twice, or one
\* an earlier hour took.
WorkOk(w, room) ==
  /\ WorkFields \subseteq DOMAIN w /\ w.k \in Nat \ {0}
  /\ Fresh(w.lines, room)
  /\ w.attempt # 1 => Fresh(w.former[1], room)

\* The slots chosen for the pairs of a round are free and different.
BatchOk(w, room) ==
  /\ IsList(w.batch)
  /\ \A i, j \in DOMAIN w.batch : w.batch[i] = w.batch[j] => i = j
  /\ \A i \in DOMAIN w.batch : w.batch[i] \in room \ Slots(w.lines)

\* The courts the rotating player has not asked yet are held on the lines of their sessions
\* only: so the end of a session is the end of its court.
RotationOk(w, free, taken) ==
  /\ taken \subseteq w.extra
  /\ IsList(w.open)
  /\ \A k \in DOMAIN w.open : IsSession(w.open[k], free)
  /\ \A k, l \in DOMAIN w.open : w.open[k].court = w.open[l].court => k = l
  /\ \A k \in DOMAIN w.open : k >= w.k =>
       \A s \in Slots(w.lines) : s[1] = w.open[k].court => s \in Slots(w.open[k].lines)


ExtFields == {"k", "session", "added", "used", "queue", "members"}
\* The rounds added to a session are on slots nobody took.
ExtOk(e, free, taken) ==
  /\ ExtFields \subseteq DOMAIN e
  /\ IsSession(e.session, free)
  /\ Fresh(e.added, free \ taken)
  /\ taken \cup Slots(e.added) \subseteq e.used

\* For late players: they are inside the window of the hour they join.
LateOk(e, taken, ss, window) ==
  /\ e.k \in DOMAIN ss /\ e.session = ss[e.k]
  /\ e.used = taken \cup Slots(e.added)
  /\ \A s \in Slots(e.added) : s[2] <= e.session.anchor + window

\* For the rotating player: they are on the court asked, at times it is not held yet.
TurnOk(e, w) ==
  /\ w.k \in DOMAIN w.open /\ e.session = w.open[w.k]
  /\ \A s \in Slots(e.added) : s[1] = e.session.court /\ s \notin Slots(w.lines)

\* What is under construction at each stage.
StageOk(p, w, e) ==
  /\ p \in PCs
  /\ p \in {"hour", "done"} => w = Idle
  /\ p \in {"timeline", "round", "place", "rotate", "accept"} => w # Idle
  /\ p = "extend" <=> e # NoExt

\* What the plan of the hour and the extension of a session have taken, by stage.
HourInv ==
  /\ StageOk(pc, work, ext)
  /\ work # Idle \/ ext # NoExt => Hour \in DOMAIN inp.hours
  /\ work # Idle => WorkOk(work, inp.free \ used)
  /\ pc = "place" => BatchOk(work, inp.free \ used)
  /\ work # Idle /\ pc \in {"rotate", "extend"} => RotationOk(work, inp.free, used)
  /\ ext # NoExt => ExtOk(ext, inp.free, used)
  /\ ext # NoExt /\ work = Idle => LateOk(ext, used, sessions, inp.window)
  /\ ext # NoExt /\ work # Idle => TurnOk(ext, work)

CourtsInv == DayInv /\ HourInv

\* A plan under construction is not an idle one, nor a session being extended none.
LEMMA NotIdle ==
  /\ \A w : WorkFields \subseteq DOMAIN w => w # Idle
  /\ \A e : ExtFields \subseteq DOMAIN e => e # NoExt
<1>1. "lines" \in WorkFields /\ "lines" \notin DOMAIN Idle
  BY DEF WorkFields, Idle
<1>2. "added" \in ExtFields /\ "added" \notin DOMAIN NoExt
  BY DEF ExtFields, NoExt
<1> QED
  BY <1>1, <1>2

\* What the day keeps when an hour goes on.
LEMMA DaySame ==
  ASSUME DayInv, UNCHANGED <<inp, plans, sessions, used, daily>>
  PROVE  DayInv'
BY DEF DayInv, Names

\* The fields of a plan that is not touched keep what holds of them.
LEMMA WorkKeeps ==
  ASSUME NEW w, NEW room, WorkOk(w, room), NEW v, DOMAIN v = DOMAIN w,
         v.lines = w.lines, v.former = w.former, v.attempt = w.attempt, v.k = w.k
  PROVE  WorkOk(v, room) /\ v # Idle
<1>1. WorkOk(v, room)
  BY DEF WorkOk
<1> QED
  BY <1>1, NotIdle DEF WorkOk

-----------------------------------------------------------------------------
(* The invariant holds initially, and each step keeps it.                   *)

\* The ledger of no plan.
LEMMA LedgerEmpty ==
  ASSUME NEW names, NEW free PROVE LedgerOk(<< >>, {}, [p \in names |-> 0], names, free)
<1>1. DOMAIN << >> = {}
  OBVIOUS
<1>2. PlacesIn(<< >>) = {}
  BY <1>1 DEF PlacesIn
<1>3. DOMAIN LinesIn(<< >>) = {} /\ DOMAIN KeptIn(<< >>) = {}
  BY <1>2 DEF LinesIn, KeptIn
<1>4. IsFiniteSet({}) /\ Cardinality({}) = 0
  BY FS_EmptySet
<1>5. ASSUME NEW p PROVE Count(LinesIn(<< >>), p) = 0
  <2>1. {i \in DOMAIN LinesIn(<< >>) : p \in NamesOf(LinesIn(<< >>)[i])} = {}
    BY <1>3
  <2> QED
    BY <1>4, <2>1 DEF Count
<1>6. Slots(KeptIn(<< >>)) = {}
  BY <1>3 DEF Slots
<1>7. Once(KeptIn(<< >>))
  BY <1>3 DEF Once
<1>8. IsFiniteSet(PlacesIn(<< >>))
  BY <1>2, <1>4
<1>9. [p \in names |-> 0] \in [names -> Nat]
  OBVIOUS
<1> QED
  BY <1>5, <1>6, <1>7, <1>8, <1>9 DEF LedgerOk

\* The input being planned is one of those given, with its votes moved.
LEMMA GivenInit == ASSUME Init PROVE GivenOk(inp)
<1>1. PICK i \in Inputs : inp = [i EXCEPT !.confirmed = WithMargin(i)]
  BY DEF Init
<1>2. /\ {"free", "hours", "window", "courtPriority", "minSlots", "confirmed"} \subseteq DOMAIN i
      /\ i.free \subseteq (1..SQUASH_COURT_COUNT) \X Nat
      /\ i.hours \in Seq(Nat) /\ i.window \in Nat
      /\ i.courtPriority \in Seq(Nat)
  BY <1>1, InputsAssumption
<1>3. /\ inp.free = i.free /\ inp.hours = i.hours /\ inp.window = i.window
      /\ inp.courtPriority = i.courtPriority
  BY <1>1, <1>2
<1> QED
  BY <1>2, <1>3 DEF GivenOk, AllCourts

\* The invariant holds when the day begins.
LEMMA CourtsInit == Init => CourtsInv
<1> SUFFICES ASSUME Init PROVE CourtsInv
  OBVIOUS
<1>1. /\ pc = "hour" /\ plans = << >> /\ sessions = << >> /\ used = {}
      /\ daily = [p \in Names |-> 0] /\ work = Idle /\ ext = NoExt
  BY DEF Init
<1>2. GivenOk(inp)
  BY GivenInit
<1>3. IsList(<< >>) /\ DOMAIN << >> = {}
  BY EmptyHas
<1>4. PlansOk(plans, inp.hours, inp.window) /\ SessionsOk(sessions, plans, inp.hours, inp.free)
  BY <1>1, <1>3 DEF PlansOk, SessionsOk
<1>5. LedgerOk(plans, used, daily, Names, inp.free)
  BY <1>1, LedgerEmpty
<1>6. DayInv
  BY <1>2, <1>4, <1>5 DEF DayInv
<1>7. HourInv
  BY <1>1 DEF HourInv, StageOk, PCs
<1> QED
  BY <1>6, <1>7 DEF CourtsInv

\* The plan of an hour, at its beginning.
LEMMA AttemptIs ==
  ASSUME NEW number, NEW preferMin, NEW former, NEW room, number # 1 => Fresh(former[1], room)
  PROVE  WorkOk(Attempt(number, preferMin, former), room)
         /\ Attempt(number, preferMin, former) # Idle
<1> DEFINE w == Attempt(number, preferMin, former)
<1>1. WorkFields \subseteq DOMAIN w
  BY DEF Attempt, WorkFields
<1>2. w.lines = << >> /\ w.former = former /\ w.attempt = number /\ w.k = 1
  BY DEF Attempt
<1> HIDE DEF w
<1>3. WorkOk(w, room)
  BY <1>1, <1>2, FreshEmpty DEF WorkOk
<1>4. w # Idle
  BY <1>1, NotIdle
<1> QED
  BY <1>3, <1>4 DEF w

\* An attempt at the plan of an hour begins without a line.
LEMMA BeginKeeps ==
  ASSUME HourInv, NEW number, NEW preferMin, NEW former,
         number # 1 => Fresh(former[1], inp.free \ used),
         Begin(Attempt(number, preferMin, former)),
         Hour \in DOMAIN inp.hours, ext = NoExt,
         UNCHANGED <<inp, plans, sessions, used, daily, ext>>
  PROVE  HourInv'
<1>1. WorkOk(work', inp.free \ used) /\ work' # Idle
  BY AttemptIs DEF Begin
<1>2. pc' \in {"accept", "timeline", "round"}
  BY DEF Begin
<1>3. Hour' = Hour
  BY DEF Hour
<1> QED
  BY <1>1, <1>2, <1>3 DEF HourInv, StageOk, PCs

\* PlanHour keeps the invariant of the hour.
LEMMA PlanHourKeeps ==
  ASSUME HourInv, PlanHour, GivenOk(inp), PlansOk(plans, inp.hours, inp.window)
  PROVE  HourInv'
<1>1. Hour \in DOMAIN inp.hours
  <2>1. IsList(plans)
    BY DEF PlansOk
  <2>2. Len(plans) \in Nat
    BY <2>1, ListHas
  <2>3. Hour \in Nat \ {0} /\ Hour <= Len(inp.hours)
    BY <2>2 DEF Hour, PlanHour
  <2>4. DOMAIN inp.hours = 1 .. Len(inp.hours) /\ Len(inp.hours) \in Nat
    BY DEF GivenOk
  <2> QED
    BY <2>3, <2>4
<1>2. ext = NoExt
  BY DEF HourInv, StageOk, PlanHour
<1>3. Begin(Attempt(1, inp.preferMin, << >>)) /\ UNCHANGED <<inp, plans, sessions, used, daily, ext>>
  BY DEF PlanHour
<1> QED
  BY <1>1, <1>2, <1>3, BeginKeeps

\* Escalate keeps it: the lines of the first attempt are set aside.
LEMMA EscalateKeeps == ASSUME HourInv, Escalate PROVE HourInv'
<1>1. pc = "accept" /\ Begin(Attempt(2, FALSE, <<work.lines, work.courtGroups>>))
      /\ UNCHANGED <<inp, plans, sessions, used, daily, ext>>
  BY DEF Escalate
<1>2. work # Idle /\ ext = NoExt /\ Hour \in DOMAIN inp.hours /\ WorkOk(work, inp.free \ used)
  BY <1>1 DEF HourInv, StageOk
<1>3. Fresh(<<work.lines, work.courtGroups>>[1], inp.free \ used)
  BY <1>2 DEF WorkOk
<1> QED
  BY <1>1, <1>2, <1>3, BeginKeeps

\* Finish keeps it.
LEMMA FinishKeeps == ASSUME HourInv, Finish PROVE HourInv'
<1>1. work = Idle /\ ext = NoExt /\ pc' = "done"
      /\ UNCHANGED <<inp, plans, sessions, used, daily, work, ext>>
  BY DEF HourInv, StageOk, Finish
<1> QED
  BY <1>1 DEF HourInv, StageOk, PCs

\* Steps within an hour, and outside of a round, of the rotation and of an extension.
LEMMA BuildingKeeps ==
  ASSUME HourInv, pc \in {"timeline", "round", "place", "rotate", "accept"},
         pc' \in {"timeline", "round", "accept"},
         WorkOk(work', inp.free \ used), work' # Idle,
         UNCHANGED <<inp, plans, sessions, used, daily, ext>>
  PROVE  HourInv'
<1>1. Hour' = Hour
  BY DEF Hour
<1> QED
  BY <1>1 DEF HourInv, StageOk, PCs

\* The same for the steps that do not touch the lines.
LEMMA FieldsKeep ==
  ASSUME HourInv, pc \in {"timeline", "round", "place", "rotate", "accept"},
         pc' \in {"timeline", "round", "accept"},
         DOMAIN work' = DOMAIN work, work'.lines = work.lines,
         work'.former = work.former, work'.attempt = work.attempt, work'.k = work.k,
         UNCHANGED <<inp, plans, sessions, used, daily, ext>>
  PROVE  HourInv'
<1>1. WorkOk(work, inp.free \ used)
  BY DEF HourInv, StageOk
<1>2. WorkOk(work', inp.free \ used) /\ work' # Idle
  BY <1>1, WorkKeeps
<1> QED
  BY <1>2, BuildingKeeps

\* SkipTime touches no line.
LEMMA SkipTimeKeeps == ASSUME HourInv, SkipTime PROVE HourInv'
<1>1. /\ pc = "timeline" /\ pc' = pc /\ UNCHANGED <<inp, plans, sessions, used, daily, ext>>
      /\ work' = [work EXCEPT !.t = @ + 1]
  BY DEF SkipTime
<1> QED
  BY <1>1, FieldsKeep

\* Nor does NextGroup,
LEMMA NextGroupKeeps == ASSUME HourInv, NextGroup PROVE HourInv'
<1>1. /\ pc = "timeline" /\ pc' = pc /\ UNCHANGED <<inp, plans, sessions, used, daily, ext>>
  BY DEF NextGroup
<1>2. PICK groups : work' = [work EXCEPT !.g = @ + 1, !.t = Start, !.court = 0, !.courtGroups = groups]
  BY DEF NextGroup
<1>3. DOMAIN work' = DOMAIN work /\ work'.lines = work.lines
      /\ work'.former = work.former /\ work'.attempt = work.attempt /\ work'.k = work.k
  BY <1>2
<1> QED
  BY <1>1, <1>3, FieldsKeep

\* GroupsDone,
LEMMA GroupsDoneKeeps == ASSUME HourInv, GroupsDone PROVE HourInv'
<1>1. /\ pc = "timeline" /\ pc' = "accept" /\ work' = work
      /\ UNCHANGED <<inp, plans, sessions, used, daily, ext>>
  BY DEF GroupsDone
<1> QED
  BY <1>1, FieldsKeep

\* RoundPlaced,
LEMMA RoundPlacedKeeps == ASSUME HourInv, RoundPlaced PROVE HourInv'
<1>1. /\ pc = "place" /\ pc' = "round" /\ work' = work
      /\ UNCHANGED <<inp, plans, sessions, used, daily, ext>>
  BY DEF RoundPlaced
<1> QED
  BY <1>1, FieldsKeep

\* NextLayer,
LEMMA NextLayerKeeps == ASSUME HourInv, NextLayer PROVE HourInv'
<1>1. /\ pc = "round" /\ pc' = "round" /\ UNCHANGED <<inp, plans, sessions, used, daily, ext>>
      /\ work' = [work EXCEPT !.layer = @ + 1, !.cursor = 1, !.rounds = 0, !.taken = {}]
  BY DEF NextLayer
<1> QED
  BY <1>1, FieldsKeep

\* or RotationDone.
LEMMA RotationDoneKeeps == ASSUME HourInv, RotationDone PROVE HourInv'
<1>1. /\ pc = "rotate" /\ pc' = "accept" /\ UNCHANGED <<inp, plans, sessions, used, daily, ext>>
  BY DEF RotationDone
<1>2. PICK groups : work' = [work EXCEPT !.courtGroups = groups]
  BY DEF RotationDone
<1> QED
  BY <1>1, <1>2, FieldsKeep

\* The courts offered at a time are those whose slot nobody took.
LEMMA OfferedIs ==
  ASSUME NEW t, NEW lines
  PROVE  /\ Offered(t, lines) \subseteq AllCourts
         /\ \A c \in Offered(t, lines) : <<c, t>> \in (inp.free \ used) \ Slots(lines)
BY DEF Offered, AllCourts

\* The court a group keeps or takes is one of those offered.
LEMMA BookGroupRoundKeeps == ASSUME HourInv, GivenOk(inp), BookGroupRound PROVE HourInv'
<1> DEFINE offered == Offered(work.t, work.lines)
           ordered == OrderByCourtPriority(offered, inp.courtPriority)
           court == IF work.court \in offered THEN work.court ELSE ordered[1]
           found == Bookable(GroupRound, OwnLines)
           line == Line(<<court, work.t>>, found.pair, work.g)
<1>1. /\ pc = "timeline" /\ pc' = pc /\ UNCHANGED <<inp, plans, sessions, used, daily, ext>>
      /\ offered # {}
      /\ work' = [work EXCEPT !.lines = Append(@, line),
                              !.queue = found.queue, !.court = court, !.t = @ + 1]
  BY DEF BookGroupRound
<1>2. /\ offered \subseteq AllCourts
      /\ \A c \in offered : <<c, work.t>> \in (inp.free \ used) \ Slots(work.lines)
  BY OfferedIs
<1>3. court \in offered
  <2> HIDE DEF offered
  <2>1. Listing(offered, ordered)
    BY <1>2, CourtsInOrder DEF GivenOk
  <2> HIDE DEF ordered
  <2>2. ordered # << >>
    <3>1. ToSet(<< >>) = {}
      BY DEF ToSet
    <3> QED
      BY <1>1, <2>1, <3>1 DEF Listing
  <2>3. 1 \in DOMAIN ordered
    <3>1. IsList(ordered)
      BY <2>1 DEF Listing
    <3>2. /\ Len(ordered) \in Nat /\ DOMAIN ordered = 1 .. Len(ordered)
          /\ ordered = [i \in 1 .. Len(ordered) |-> ordered[i]]
      BY <3>1, ListHas
    <3>3. ordered \in Seq(ToSet(ordered))
      BY <3>1 DEF IsList
    <3> QED
      BY <2>2, <3>2, <3>3
  <2>4. ordered[1] \in offered
    BY <2>1, <2>3 DEF Listing, ToSet
  <2> QED
    BY <2>4
<1>4. line.slot = <<court, work.t>>
  BY DEF Line
<1> HIDE DEF offered, court, found, line
<1>5. line.slot \in (inp.free \ used) \ Slots(work.lines)
  BY <1>2, <1>3, <1>4
<1>6. WorkOk(work, inp.free \ used)
  BY <1>1 DEF HourInv, StageOk
<1>7. "lines" \in DOMAIN work
  BY <1>6 DEF WorkOk, WorkFields
<1>8. DOMAIN work' = DOMAIN work /\ work'.lines = Append(work.lines, line)
      /\ work'.former = work.former /\ work'.attempt = work.attempt /\ work'.k = work.k
  BY <1>1, <1>7
<1>9. Fresh(work.lines, inp.free \ used)
  BY <1>6 DEF WorkOk
<1>10. Fresh(work'.lines, inp.free \ used)
  BY <1>5, <1>8, <1>9, FreshAppend
<1>11. WorkOk(work', inp.free \ used)
  BY <1>6, <1>8, <1>10 DEF WorkOk
<1>12. work' # Idle
  BY <1>11, NotIdle DEF WorkOk
<1> QED
  BY <1>1, <1>11, <1>12, BuildingKeeps

\* The round chosen: its courts are free, and there are enough of them.
LEMMA RoundChosen ==
  ASSUME GivenOk(inp), Rounds # {},
         NEW size, size = Max({r[1] : r \in Rounds}),
         NEW t, t = Min({r[2] : r \in {x \in Rounds : x[1] = size}})
  PROVE  /\ size \in Nat /\ t \in Nat /\ size <= Cardinality(Offered(t, work.lines)) /\ Fits(size, t)
         /\ size \in Sizes
<1>1. Sizes \subseteq 1 .. SQUASH_COURT_COUNT
  BY DEF Sizes
<1>2. Times \subseteq Nat
  BY DEF Times, GivenOk
<1>3. \A r \in Rounds : r[1] \in Sizes /\ r[2] \in Times /\ Fits(r[1], r[2])
  BY DEF Rounds
<1>4. size \in {r[1] : r \in Rounds}
  <2>1. {r[1] : r \in Rounds} \in SUBSET (1 .. SQUASH_COURT_COUNT)
    <3>1. ASSUME NEW r \in Rounds PROVE r[1] \in 1 .. SQUASH_COURT_COUNT
      BY <1>1, <1>3
    <3> QED
      BY <3>1
  <2>2. IsFiniteSet(1 .. SQUASH_COURT_COUNT)
    BY CourtsFinite DEF AllCourts
  <2>3. IsFiniteSet({r[1] : r \in Rounds})
    BY <2>1, <2>2, FS_Subset
  <2>4. {r[1] : r \in Rounds} \subseteq Int
    <3>1. 1 .. SQUASH_COURT_COUNT \subseteq Int
      BY DEF SQUASH_COURT_COUNT
    <3> QED
      BY <2>1, <3>1
  <2>5. {r[1] : r \in Rounds} # {}
    OBVIOUS
  <2> QED
    BY <2>3, <2>4, <2>5, MaxType
<1>5. t \in {r[2] : r \in {x \in Rounds : x[1] = size}}
  <2>1. {r[2] : r \in {x \in Rounds : x[1] = size}} \subseteq Nat
    BY <1>2, <1>3
  <2>2. {r[2] : r \in {x \in Rounds : x[1] = size}} # {}
    BY <1>4
  <2> QED
    BY <2>1, <2>2, MinType
<1>6. PICK r \in Rounds : r[1] = size /\ r[2] = t
  BY <1>5
<1>7. size \in Sizes /\ t \in Times /\ Fits(size, t)
  BY <1>3, <1>6
<1>8. Offered(t, work.lines) \subseteq AllCourts
  BY OfferedIs
<1>9. Cardinality(Offered(t, work.lines)) \in Nat
  BY <1>8, CourtsFinite
<1>10. Cardinality(Offered(t, work.lines)) >= size
  BY <1>7 DEF Fits
<1>11. size \in Nat
  BY <1>1, <1>7 DEF SQUASH_COURT_COUNT
<1> QED
  BY <1>2, <1>7, <1>9, <1>10, <1>11

\* A round is placed on as many free courts as it has pairs, all different
\* (resolveCourtAssignments).
LEMMA FindRoundKeeps == ASSUME HourInv, GivenOk(inp), FindRound PROVE HourInv'
<1> DEFINE size == Max({r[1] : r \in Rounds})
           t == Min({r[2] : r \in {x \in Rounds : x[1] = size}})
           after == IF work.layer < inp.layers THEN Offered(t + 1, work.lines) ELSE {}
           before == [i \in 1..size |-> FormerCourt(work.cursor + i - 1)]
           courts == ResolveCourtAssignments(Offered(t, work.lines), before, inp.courtPriority, after)
           batch == [i \in 1..size |-> <<courts[i], t>>]
<1>1. /\ pc = "round" /\ pc' = "place" /\ Rounds # {}
      /\ UNCHANGED <<inp, plans, sessions, used, daily, ext>>
      /\ work' = [work EXCEPT !.batch = batch, !.taken = @ \cup {t}, !.rounds = @ + 1]
  BY DEF FindRound
<1>2. size \in Nat /\ t \in Nat /\ size <= Cardinality(Offered(t, work.lines))
  BY <1>1, RoundChosen
<1> HIDE DEF size, t, after
<1>3. Offered(t, work.lines) \subseteq AllCourts
      /\ \A c \in Offered(t, work.lines) : <<c, t>> \in (inp.free \ used) \ Slots(work.lines)
  BY OfferedIs
<1>4. DOMAIN before = 1 .. size
  OBVIOUS
<1>5. inp.courtPriority \in Seq(Nat)
  BY DEF GivenOk
<1> HIDE DEF before
<1>6. Assigned(Offered(t, work.lines), size, courts)
  BY <1>2, <1>3, <1>4, <1>5, CourtsAssigned
<1> HIDE DEF courts
<1>7. DOMAIN batch = 1 .. size /\ \A i \in 1 .. size : batch[i] = <<courts[i], t>>
  OBVIOUS
<1>8. IsList(batch)
  <2>1. batch = [i \in 1 .. size |-> batch[i]]
    OBVIOUS
  <2> QED
    BY <1>2, <2>1, ListFrom
<1> HIDE DEF batch
<1>9. \A i \in 1 .. size : batch[i] \in (inp.free \ used) \ Slots(work.lines)
  BY <1>3, <1>6, <1>7 DEF Assigned
<1>10. \A i, j \in 1 .. size : batch[i] = batch[j] => i = j
  BY <1>6, <1>7 DEF Assigned
<1>11. WorkOk(work, inp.free \ used)
  BY <1>1 DEF HourInv, StageOk
<1>12. "batch" \in DOMAIN work
  BY <1>11 DEF WorkOk, WorkFields
<1>13. DOMAIN work' = DOMAIN work /\ work'.lines = work.lines /\ work'.batch = batch
       /\ work'.former = work.former /\ work'.attempt = work.attempt /\ work'.k = work.k
  BY <1>1, <1>12
<1>14. WorkOk(work', inp.free \ used) /\ work' # Idle
  BY <1>11, <1>13, WorkKeeps
<1>15. BatchOk(work', inp.free \ used)
  BY <1>7, <1>8, <1>9, <1>10, <1>13 DEF BatchOk
<1>16. Hour' = Hour
  BY <1>1 DEF Hour
<1> QED
  BY <1>1, <1>14, <1>15, <1>16 DEF HourInv, StageOk, PCs

\* Each pair takes the first slot left of its round.
LEMMA PlacePairKeeps == ASSUME HourInv, PlacePair PROVE HourInv'
<1> DEFINE room == inp.free \ used
<1>1. pc = "place" /\ pc' = pc /\ UNCHANGED <<inp, plans, sessions, used, daily, ext>>
      /\ work.batch # << >>
  BY DEF PlacePair
<1>2. PICK found : work' = [work EXCEPT !.batch = Tail(@), !.cursor = @ + 1, !.queue = found.queue,
                  !.lines = IF found.pair = Unbookable THEN @
                            ELSE Append(@, Line(work.batch[1], found.pair, work.cursor))]
  BY DEF PlacePair
<1>3. WorkOk(work, room) /\ BatchOk(work, room)
  BY <1>1 DEF HourInv, StageOk
<1>4. {"batch", "lines"} \subseteq DOMAIN work
  BY <1>3 DEF WorkOk, WorkFields
<1>5. PICK line : line.slot = work.batch[1] /\ line = Line(work.batch[1], found.pair, work.cursor)
  BY DEF Line
<1>6. /\ DOMAIN work' = DOMAIN work /\ work'.batch = Tail(work.batch)
      /\ work'.former = work.former /\ work'.attempt = work.attempt /\ work'.k = work.k
      /\ work'.lines = work.lines \/ work'.lines = Append(work.lines, line)
  BY <1>2, <1>4, <1>5
<1>7. Shortened(work.batch, work'.batch)
  <2>1. IsList(work.batch)
    BY <1>3 DEF BatchOk
  <2> QED
    BY <1>1, <1>6, <2>1, TailHas
<1>8. line.slot \in room \ Slots(work.lines)
  BY <1>3, <1>5, <1>7 DEF BatchOk, Shortened
<1>9. Fresh(work.lines, room)
  BY <1>3 DEF WorkOk
<1>10. /\ Fresh(work'.lines, room)
       /\ Slots(work'.lines) \subseteq Slots(work.lines) \cup {line.slot}
  <2>1. CASE work'.lines = work.lines
    BY <1>9, <2>1
  <2>2. CASE work'.lines = Append(work.lines, line)
    <3> HIDE DEF room
    <3>1. Fresh(work'.lines, room) /\ Slots(work'.lines) = Slots(work.lines) \cup {line.slot}
      BY <1>8, <1>9, <2>2, FreshAppend
    <3> QED
      BY <3>1
  <2> QED
    BY <1>6, <2>1, <2>2
<1>11. WorkOk(work', room)
  BY <1>3, <1>6, <1>10 DEF WorkOk
<1>12. work' # Idle
  BY <1>11, NotIdle DEF WorkOk
<1>13. BatchOk(work', room)
  <2>1. ASSUME NEW i \in DOMAIN work'.batch, NEW j \in DOMAIN work'.batch,
               work'.batch[i] = work'.batch[j]
        PROVE  i = j
    <3>1. i \in Nat /\ j \in Nat
      BY <1>7 DEF Shortened
    <3>2. i + 1 \in DOMAIN work.batch /\ j + 1 \in DOMAIN work.batch
          /\ work.batch[i + 1] = work.batch[j + 1]
      BY <1>7, <2>1 DEF Shortened
    <3>3. i + 1 = j + 1
      BY <1>3, <3>2 DEF BatchOk
    <3> QED
      BY <3>1, <3>3
  <2>2. ASSUME NEW i \in DOMAIN work'.batch PROVE work'.batch[i] \in room \ Slots(work'.lines)
    <3>1. i + 1 \in DOMAIN work.batch /\ i + 1 # 1 /\ 1 \in DOMAIN work.batch
          /\ work'.batch[i] = work.batch[i + 1]
      BY <1>7 DEF Shortened
    <3>2. work.batch[i + 1] # work.batch[1] /\ work.batch[i + 1] \in room \ Slots(work.lines)
      BY <1>3, <3>1 DEF BatchOk
    <3> QED
      BY <1>5, <1>10, <3>1, <3>2
  <2>3. IsList(work'.batch)
    BY <1>7 DEF Shortened
  <2> HIDE DEF room
  <2> QED
    BY <2>1, <2>2, <2>3 DEF BatchOk
<1>14. Hour' = Hour
  BY <1>1 DEF Hour
<1> QED
  BY <1>1, <1>11, <1>12, <1>13, <1>14 DEF HourInv, StageOk, PCs

\* The courts of the layers are opened to the rotating player.
LEMMA LayersDoneKeeps == ASSUME HourInv, GivenOk(inp), LayersDone PROVE HourInv'
<1> DEFINE room == inp.free \ used
           open == BuildOngoingSessions(work.lines, Start, ToSet(work.players), Hour)
<1>1. pc = "round" /\ pc' = "rotate" /\ UNCHANGED <<inp, plans, sessions, used, daily, ext>>
  BY DEF LayersDone
<1>2. PICK groups : work' = [work EXCEPT !.extra = used, !.courtGroups = groups, !.open = open,
          !.left = RotatorsOf(work.players), !.queue = Eligible]
  BY DEF LayersDone
<1>3. WorkOk(work, room)
  BY <1>1 DEF HourInv, StageOk
<1>4. {"extra", "open"} \subseteq DOMAIN work
  BY <1>3 DEF WorkOk, WorkFields
<1> HIDE DEF open
<1>5. /\ DOMAIN work' = DOMAIN work /\ work'.lines = work.lines
      /\ work'.former = work.former /\ work'.attempt = work.attempt /\ work'.k = work.k
      /\ work'.extra = used /\ work'.open = open
  BY <1>2, <1>4
<1>6. WorkOk(work', room) /\ work' # Idle
  BY <1>3, <1>5, WorkKeeps
<1>7. Opened(work.lines, Start, Hour, room, open)
  <2>1. room \subseteq AllCourts \X Nat
    BY DEF GivenOk
  <2>2. Fresh(work.lines, room)
    BY <1>3 DEF WorkOk
  <2> HIDE DEF room
  <2> QED
    BY <2>1, <2>2, SessionsOpened DEF open
<1>8. \A k \in DOMAIN open : IsSession(open[k], inp.free)
  BY <1>7 DEF Opened, IsSession
<1>9. RotationOk(work', inp.free, used)
  BY <1>5, <1>7, <1>8 DEF RotationOk, Opened
<1>10. Hour' = Hour
  BY <1>1 DEF Hour
<1> QED
  BY <1>1, <1>6, <1>9, <1>10 DEF HourInv, StageOk, PCs

\* A session, as it is when somebody starts to join it.
LEMMA JoiningIs ==
  ASSUME NEW k, NEW session, NEW joiners, NEW queue, NEW taken,
         NEW e, e = Joining(k, session, joiners, queue, taken)
  PROVE  /\ ExtFields \subseteq DOMAIN e
         /\ e.k = k /\ e.session = session /\ e.added = << >> /\ e.used = taken
BY DEF Joining, ExtFields

\* An extension begins without a line.
LEMMA ExtStarts ==
  ASSUME NEW e, NEW free, NEW taken, ExtFields \subseteq DOMAIN e,
         IsSession(e.session, free), e.added = << >>, taken \subseteq e.used
  PROVE  ExtOk(e, free, taken) /\ e # NoExt /\ Slots(e.added) = {}
<1>1. Fresh(<< >>, free \ taken) /\ Slots(<< >>) = {}
  BY FreshEmpty
<1>2. ExtOk(e, free, taken)
  BY <1>1 DEF ExtOk
<1> QED
  BY <1>1, <1>2, NotIdle

\* The hour being planned is one of those of the rule.
LEMMA HourIs ==
  ASSUME GivenOk(inp), PlansOk(plans, inp.hours, inp.window), Hour <= Len(inp.hours)
  PROVE  Hour \in DOMAIN inp.hours
<1>1. Len(plans) \in Nat
  BY ListHas DEF PlansOk
<1>2. Hour \in Nat \ {0}
  BY <1>1 DEF Hour
<1>3. DOMAIN inp.hours = 1 .. Len(inp.hours) /\ Len(inp.hours) \in Nat
  BY DEF GivenOk
<1> QED
  BY <1>2, <1>3

\* Late players join a session of an earlier hour.
LEMMA JoinSessionKeeps == ASSUME HourInv, DayInv, JoinSession PROVE HourInv'
<1> DEFINE k == Min(Mergeable(Len(Confirmed)))
<1>1. /\ pc = "hour" /\ pc' = "extend" /\ UNCHANGED <<inp, plans, sessions, used, daily, work>>
      /\ Hour <= Len(inp.hours) /\ Mergeable(Len(Confirmed)) # {}
      /\ ext' = Joining(k, sessions[k], Confirmed, Eligible, used)
  BY DEF JoinSession
<1>2. work = Idle /\ ext = NoExt
  BY <1>1 DEF HourInv, StageOk
<1>3. Hour \in DOMAIN inp.hours
  BY <1>1, HourIs DEF DayInv
<1>4. k \in DOMAIN sessions
  <2>1. Mergeable(Len(Confirmed)) \subseteq DOMAIN sessions
    BY DEF Mergeable
  <2>2. IsList(sessions)
    BY DEF DayInv, SessionsOk
  <2>3. DOMAIN sessions \subseteq Nat
    BY <2>2, ListHas
  <2>4. Mergeable(Len(Confirmed)) \subseteq Nat
    BY <2>1, <2>3
  <2> QED
    BY <1>1, <2>1, <2>4, MinType
<1> HIDE DEF k
<1>5. /\ ExtFields \subseteq DOMAIN ext' /\ ext'.k = k /\ ext'.session = sessions[k]
      /\ ext'.added = << >> /\ ext'.used = used
  BY <1>1, JoiningIs
<1>6. IsSession(ext'.session, inp.free)
  BY <1>4, <1>5 DEF DayInv, SessionsOk
<1>7. ExtOk(ext', inp.free, used) /\ ext' # NoExt /\ Slots(ext'.added) = {}
  BY <1>5, <1>6, ExtStarts
<1>8. LateOk(ext', used, sessions, inp.window)
  BY <1>4, <1>5, <1>7 DEF LateOk
<1>9. Hour' = Hour
  BY <1>1 DEF Hour
<1> QED
  BY <1>1, <1>2, <1>3, <1>7, <1>8, <1>9 DEF HourInv, StageOk, PCs

\* The rotating player joins a court of the hour.
LEMMA JoinCourtKeeps == ASSUME HourInv, JoinCourt PROVE HourInv'
<1>1. /\ pc = "rotate" /\ pc' = "extend" /\ UNCHANGED <<inp, plans, sessions, used, daily, work>>
      /\ work.k <= Len(work.open)
      /\ ext' = Joining(work.k, work.open[work.k], work.left, work.queue, work.extra)
  BY DEF JoinCourt
<1>2. work # Idle /\ WorkOk(work, inp.free \ used) /\ RotationOk(work, inp.free, used)
  BY <1>1 DEF HourInv, StageOk
<1>3. work.k \in DOMAIN work.open
  <2>1. IsList(work.open) /\ work.k \in Nat \ {0}
    BY <1>2 DEF RotationOk, WorkOk
  <2>2. Len(work.open) \in Nat /\ DOMAIN work.open = 1 .. Len(work.open)
    BY <2>1, ListHas
  <2> QED
    BY <1>1, <2>1, <2>2
<1>4. /\ ExtFields \subseteq DOMAIN ext' /\ ext'.k = work.k /\ ext'.session = work.open[work.k]
      /\ ext'.added = << >> /\ ext'.used = work.extra
  BY <1>1, JoiningIs
<1>5. IsSession(ext'.session, inp.free) /\ used \subseteq ext'.used
  BY <1>2, <1>3, <1>4 DEF RotationOk
<1>6. ExtOk(ext', inp.free, used) /\ ext' # NoExt /\ Slots(ext'.added) = {}
  BY <1>4, <1>5, ExtStarts
<1>7. TurnOk(ext', work)
  BY <1>3, <1>4, <1>6 DEF TurnOk
<1>8. Hour' = Hour
  BY <1>1 DEF Hour
<1> QED
  BY <1>1, <1>2, <1>6, <1>7, <1>8 DEF HourInv, StageOk, PCs

-----------------------------------------------------------------------------
(* One round more on a session.                                             *)

\* The slots of two lists of lines, one after the other.
LEMMA SlotsConcat ==
  ASSUME NEW s, IsList(s), NEW t, IsList(t), NEW u, u = s \o t
  PROVE  IsList(u) /\ Slots(u) = Slots(s) \cup Slots(t)
<1>1. Joined(s, t, u)
  BY ConcatHas
<1>2. ASSUME NEW x \in Slots(u) PROVE x \in Slots(s) \cup Slots(t)
  BY <1>1, <1>2 DEF Slots, Joined
<1>3. ASSUME NEW x \in Slots(s) PROVE x \in Slots(u)
  BY <1>1, <1>3 DEF Slots, Joined
<1>4. ASSUME NEW x \in Slots(t) PROVE x \in Slots(u)
  <2>1. PICK i \in DOMAIN t : x = t[i].slot
    BY <1>4 DEF Slots
  <2>2. Len(s) + i \in DOMAIN u /\ u[Len(s) + i] = t[i]
    BY <1>1, <2>1 DEF Joined
  <2> QED
    BY <2>1, <2>2 DEF Slots
<1>5. IsList(u)
  BY <1>1 DEF Joined
<1> QED
  BY <1>2, <1>3, <1>4, <1>5

\* The lines of a session end before the round that follows them.
LEMMA LastEndIs ==
  ASSUME NEW lines, IsList(lines), Slots(lines) \subseteq AllCourts \X Nat, NEW s \in Slots(lines)
  PROVE  s[2] # LastEnd(lines)
<1> DEFINE times == {x[2] : x \in Slots(lines)}
<1>1. IsFiniteSet(times)
  <2> DEFINE ends == [i \in 1 .. Len(lines) |-> lines[i].slot[2]]
  <2>1. Len(lines) \in Nat /\ DOMAIN lines = 1 .. Len(lines)
    BY ListHas
  <2>2. IsList(ends)
    <3>1. ends = [i \in 1 .. Len(lines) |-> ends[i]]
      OBVIOUS
    <3> HIDE DEF ends
    <3> QED
      BY <2>1, <3>1, ListFrom
  <2>3. ToSet(ends) = times
    BY <2>1 DEF ToSet, Slots
  <2> HIDE DEF ends, times
  <2> QED
    BY <2>2, <2>3, FiniteValues
<1>2. times \subseteq Int /\ s[2] \in times
  OBVIOUS
<1>3. LastEnd(lines) = Max(times) + 1
  BY DEF LastEnd
<1> HIDE DEF times
<1>4. PICK m \in Int : m = Max(times) /\ \A y \in times : m >= y
  <2>1. Max(times) \in times /\ \A y \in times : Max(times) >= y
    BY <1>1, <1>2, MaxType
  <2> QED
    BY <1>2, <2>1
<1>5. PICK n \in Int : n = s[2]
  BY <1>2
<1>6. m >= n
  BY <1>2, <1>4, <1>5
<1> QED
  BY <1>3, <1>4, <1>5, <1>6

\* The next round of a session is on a slot nobody took, and the court is not held then.
LEMMA NextRound ==
  ASSUME GivenOk(inp), ext # NoExt, ExtOk(ext, inp.free, used), NextSlot \in inp.free \ ext.used
  PROVE  /\ NextSlot \in (inp.free \ used) \ Slots(ext.added)
         /\ \A s \in Slots(ext.session.lines) : s # NextSlot
<1>1. IsSession(ext.session, inp.free) /\ Fresh(ext.added, inp.free \ used)
      /\ used \cup Slots(ext.added) \subseteq ext.used
  BY DEF ExtOk
<1>2. IsList(ExtLines) /\ Slots(ExtLines) = Slots(ext.session.lines) \cup Slots(ext.added)
  <2>1. IsList(ext.session.lines) /\ IsList(ext.added)
    BY <1>1 DEF IsSession, Fresh
  <2> QED
    BY <2>1, SlotsConcat DEF ExtLines
<1>3. Slots(ExtLines) \subseteq AllCourts \X Nat
  <2>1. Slots(ExtLines) \subseteq inp.free
    BY <1>1, <1>2 DEF IsSession, Fresh
  <2> QED
    BY <2>1 DEF GivenOk
<1>4. ASSUME NEW s \in Slots(ext.session.lines) PROVE s # NextSlot
  <2>1. s[2] # LastEnd(ExtLines)
    BY <1>2, <1>3, LastEndIs
  <2>2. NextSlot[2] = LastEnd(ExtLines)
    BY DEF NextSlot, NextBegin
  <2> QED
    BY <2>1, <2>2
<1> QED
  BY <1>1, <1>4

\* A round more: for late players inside the window of the session, for the rotating player
\* at a time its court is not held yet.
LEMMA ExtendRoundKeeps == ASSUME HourInv, GivenOk(inp), ExtendRound PROVE HourInv'
<1>1. /\ pc = "extend" /\ pc' = pc /\ UNCHANGED <<inp, plans, sessions, used, daily, work>>
      /\ NextSlot \in inp.free \ ext.used /\ CanExtend
  BY DEF ExtendRound
<1>2. PICK pair : ext' = [ext EXCEPT !.added = Append(@, Line(NextSlot, pair.pair, Extension)),
                        !.queue = pair.queue, !.used = @ \cup {NextSlot}]
  BY DEF ExtendRound
<1>3. ext # NoExt /\ ExtOk(ext, inp.free, used)
  BY <1>1 DEF HourInv, StageOk
<1>4. {"added", "used"} \subseteq DOMAIN ext
  BY <1>3 DEF ExtOk, ExtFields
<1>5. PICK line : line.slot = NextSlot /\ line = Line(NextSlot, pair.pair, Extension)
  BY DEF Line
<1>6. /\ DOMAIN ext' = DOMAIN ext /\ ext'.k = ext.k /\ ext'.session = ext.session
      /\ ext'.added = Append(ext.added, line) /\ ext'.used = ext.used \cup {NextSlot}
  BY <1>2, <1>4, <1>5
<1>7. /\ NextSlot \in (inp.free \ used) \ Slots(ext.added)
      /\ \A s \in Slots(ext.session.lines) : s # NextSlot
  BY <1>1, <1>3, NextRound
<1>8. Fresh(ext'.added, inp.free \ used) /\ Slots(ext'.added) = Slots(ext.added) \cup {NextSlot}
  <2> DEFINE room == inp.free \ used
             more == Append(ext.added, line)
  <2>1. line.slot \in room \ Slots(ext.added)
    BY <1>5, <1>7
  <2>2. Fresh(ext.added, room)
    BY <1>3 DEF ExtOk
  <2>3. Fresh(more, room) /\ Slots(more) = Slots(ext.added) \cup {line.slot}
    <3> HIDE DEF room
    <3> QED
      BY <2>1, <2>2, FreshAppend
  <2> HIDE DEF more
  <2>4. ext'.added = more
    BY <1>6 DEF more
  <2> QED
    BY <1>5, <2>3, <2>4
<1>9. ExtOk(ext', inp.free, used)
  BY <1>3, <1>6, <1>8 DEF ExtOk
<1>10. ext' # NoExt
  BY <1>9, NotIdle DEF ExtOk
<1>11. Hour' = Hour
  BY <1>1 DEF Hour
<1>12. CASE work = Idle
  <2>1. LateOk(ext, used, sessions, inp.window)
    BY <1>3, <1>12 DEF HourInv
  <2>2. NextSlot[2] <= ext.session.anchor + inp.window
    BY <1>1 DEF NextSlot, CanExtend, InWindow
  <2>3. LateOk(ext', used, sessions, inp.window)
    BY <1>6, <1>8, <2>1, <2>2 DEF LateOk
  <2> QED
    BY <1>1, <1>3, <1>9, <1>10, <1>11, <1>12, <2>3 DEF HourInv, StageOk
<1>13. CASE work # Idle
  <2>1. TurnOk(ext, work) /\ RotationOk(work, inp.free, used)
    BY <1>1, <1>3, <1>13 DEF HourInv
  <2>2. NextSlot[1] = ext.session.court
    BY DEF NextSlot
  <2>3. NextSlot \notin Slots(work.lines)
    <3>1. work.k \in DOMAIN work.open /\ work.k >= work.k /\ ext.session = work.open[work.k]
      <4>1. work.k \in Nat
        BY <1>13 DEF HourInv, WorkOk
      <4> QED
        BY <2>1, <4>1 DEF TurnOk
    <3>2. \A s \in Slots(work.lines) : s[1] = ext.session.court => s \in Slots(ext.session.lines)
      BY <2>1, <3>1 DEF RotationOk
    <3> QED
      BY <1>7, <2>2, <3>2
  <2>4. TurnOk(ext', work)
    BY <1>6, <1>8, <2>1, <2>2, <2>3 DEF TurnOk
  <2> QED
    BY <1>1, <1>3, <1>9, <1>10, <1>11, <1>13, <2>4 DEF HourInv, StageOk
<1> QED
  BY <1>12, <1>13

\* The rounds added for the rotating player become lines of the hour; the courts not asked
\* yet are others.
LEMMA CourtJoinedKeeps == ASSUME HourInv, CourtJoined PROVE HourInv'
<1> DEFINE room == inp.free \ used
<1>1. /\ pc = "extend" /\ pc' = "rotate" /\ work # Idle /\ ext' = NoExt
      /\ UNCHANGED <<inp, plans, sessions, used, daily>>
  BY DEF CourtJoined, ExtensionEnds
<1>2. PICK left, groups : work' = [work EXCEPT !.lines = @ \o ext.added, !.k = @ + 1,
          !.left = left, !.queue = QueueLeft, !.extra = ext.used, !.courtGroups = groups]
  BY DEF CourtJoined
<1>3. ext # NoExt /\ WorkOk(work, room) /\ RotationOk(work, inp.free, used)
      /\ ExtOk(ext, inp.free, used) /\ TurnOk(ext, work) /\ Hour \in DOMAIN inp.hours
  BY <1>1 DEF HourInv, StageOk
<1>4. {"lines", "k", "extra"} \subseteq DOMAIN work
  BY <1>3 DEF WorkOk, WorkFields
<1>5. /\ DOMAIN work' = DOMAIN work /\ work'.lines = work.lines \o ext.added
      /\ work'.former = work.former /\ work'.attempt = work.attempt /\ work'.k = work.k + 1
      /\ work'.open = work.open /\ work'.extra = ext.used
  BY <1>2, <1>4
<1>6. Fresh(work.lines, room) /\ Fresh(ext.added, room) /\ Slots(work.lines) \cap Slots(ext.added) = {}
  BY <1>3 DEF WorkOk, ExtOk, TurnOk
<1> HIDE DEF room
<1>7. Fresh(work'.lines, room) /\ Slots(work'.lines) = Slots(work.lines) \cup Slots(ext.added)
  <2> DEFINE more == work.lines \o ext.added
  <2>1. Fresh(more, room) /\ Slots(more) = Slots(work.lines) \cup Slots(ext.added)
    BY <1>6, FreshConcat
  <2>2. work'.lines = more
    BY <1>5
  <2> HIDE DEF more
  <2> QED
    BY <2>1, <2>2
<1>8. work.k \in Nat \ {0}
  BY <1>3 DEF WorkOk
<1>9. WorkOk(work', room)
  BY <1>3, <1>5, <1>7, <1>8 DEF WorkOk
<1>10. work' # Idle
  BY <1>9, NotIdle DEF WorkOk
<1>11. ASSUME NEW k \in DOMAIN work.open, k >= work.k + 1,
              NEW s \in Slots(work'.lines), s[1] = work.open[k].court
       PROVE  s \in Slots(work.open[k].lines)
  <2>1. k \in Nat
    <3>1. IsList(work.open)
      BY <1>3 DEF RotationOk
    <3> QED
      BY <3>1, ListHas
  <2>2. k >= work.k /\ k # work.k
    BY <1>8, <1>11, <2>1
  <2>3. CASE s \in Slots(work.lines)
    BY <1>3, <1>11, <2>2, <2>3 DEF RotationOk
  <2>4. CASE s \in Slots(ext.added)
    <3>1. work.k \in DOMAIN work.open /\ s[1] = work.open[work.k].court
      BY <1>3, <2>4 DEF TurnOk
    <3> QED
      BY <1>3, <1>11, <2>2, <3>1 DEF RotationOk
  <2> QED
    BY <1>7, <1>11, <2>3, <2>4
<1>12. used \subseteq ext.used
  BY <1>3 DEF ExtOk
<1>13. RotationOk(work', inp.free, used)
  BY <1>3, <1>5, <1>11, <1>12 DEF RotationOk
<1>14. Hour' = Hour
  BY <1>1 DEF Hour
<1> QED
  BY <1>1, <1>3, <1>9, <1>10, <1>13, <1>14 DEF HourInv, StageOk, PCs, room

-----------------------------------------------------------------------------
(* The steps that hand something to the hours that follow.                  *)

\* A list some of whose elements are replaced is a list.
LEMMA ListSame ==
  ASSUME NEW s, IsList(s), NEW t, t = [i \in DOMAIN s |-> t[i]]
  PROVE  IsList(t) /\ DOMAIN t = DOMAIN s
<1>1. Len(s) \in Nat /\ DOMAIN s = 1 .. Len(s)
  BY ListHas
<1>2. t = [i \in 1 .. Len(s) |-> t[i]]
  BY <1>1
<1>3. IsList(t)
  BY <1>1, <1>2, ListFrom
<1> QED
  BY <1>3

\* An hour without a plan of its own, at the end of the plans.
LEMMA PlansGrow ==
  ASSUME NEW ps, NEW hours, NEW window, PlansOk(ps, hours, window),
         NEW plan, IsPlan(plan), NEW n, n = Len(ps) + 1,
         \A s \in plan.outside : ~(s[2] <= hours[n] + window),
         NEW qs, Appended(ps, plan, qs)
  PROVE  PlansOk(qs, hours, window)
<1>1. /\ IsList(qs) /\ DOMAIN qs = DOMAIN ps \cup {n}
      /\ (\A i \in DOMAIN ps : qs[i] = ps[i]) /\ qs[n] = plan
  BY DEF Appended
<1> QED
  BY <1>1 DEF PlansOk

\* The sessions stay what they are when there are more plans.
LEMMA SessionsStay ==
  ASSUME NEW ss, NEW ps, NEW hours, NEW free, SessionsOk(ss, ps, hours, free),
         NEW qs, DOMAIN ps \subseteq DOMAIN qs
  PROVE  SessionsOk(ss, qs, hours, free)
BY DEF SessionsOk

\* A plan without lines.
LEMMA NoPlanIs == IsPlan(NoPlan) /\ NoPlan.lines = << >> /\ NoPlan.outside = {}
<1>1. /\ {"lines", "groups", "outside"} \subseteq DOMAIN NoPlan
      /\ NoPlan.lines = << >> /\ NoPlan.outside = {}
  BY DEF NoPlan
<1> QED
  BY <1>1, EmptyHas DEF IsPlan

\* It adds nothing to the ledger.
LEMMA LedgerStays ==
  ASSUME NEW ps, IsList(ps), NEW taken, NEW counts, NEW names, NEW free,
         LedgerOk(ps, taken, counts, names, free),
         NEW qs, Appended(ps, NoPlan, qs)
  PROVE  LedgerOk(qs, taken, counts, names, free)
<1>1. MorePlans(ps, qs, Len(ps) + 1, << >>, 0)
  BY NoPlanIs, PlanAdded
<1>2. Fresh(<< >>, free \ taken) /\ Slots(<< >>) = {}
  BY FreshEmpty
<1>3. taken = taken \cup (Slots(<< >>) \ qs[Len(ps) + 1].outside)
  BY <1>2
<1>4. \A p : Count(<< >>, p) = 0
  <2>1. \A p : {i \in DOMAIN << >> : p \in NamesOf(<< >>[i])} = {}
    OBVIOUS
  <2>2. Cardinality({}) = 0
    BY FS_EmptySet
  <2> QED
    BY <2>1, <2>2 DEF Count
<1>5. counts \in [names -> Nat]
  BY DEF LedgerOk
<1>6. counts = [p \in names |-> counts[p] + Count(<< >>, p)]
  BY <1>4, <1>5
<1> QED
  BY <1>1, <1>2, <1>3, <1>6, LedgerGrows

\* Between two hours nothing is under construction.
LEMMA HourBegins == ASSUME pc = "hour", work = Idle, ext = NoExt PROVE HourInv
BY DEF HourInv, StageOk, PCs

\* An hour without enough players keeps what the day says.
LEMMA NotEnoughPlayersKeeps == ASSUME DayInv, HourInv, NotEnoughPlayers PROVE DayInv' /\ HourInv'
<1>1. /\ pc = "hour" /\ plans' = Append(plans, NoPlan)
      /\ UNCHANGED <<inp, pc, sessions, used, daily, work, ext>>
  BY DEF NotEnoughPlayers
<1>2. work = Idle /\ ext = NoExt
  BY <1>1 DEF HourInv, StageOk
<1>3. IsList(plans)
  BY DEF DayInv, PlansOk
<1>4. Appended(plans, NoPlan, plans')
  BY <1>1, <1>3, AppendHas
<1>5. PlansOk(plans', inp.hours, inp.window)
  BY <1>4, NoPlanIs, PlansGrow DEF DayInv
<1>6. LedgerOk(plans', used, daily, Names, inp.free)
  BY <1>3, <1>4, LedgerStays DEF DayInv
<1>7. SessionsOk(sessions, plans', inp.hours, inp.free)
  BY <1>4, SessionsStay DEF DayInv, Appended
<1>8. DayInv'
  BY <1>1, <1>5, <1>6, <1>7 DEF DayInv, Names
<1>9. HourInv'
  BY <1>1, <1>2 DEF HourInv, StageOk, PCs
<1> QED
  BY <1>8, <1>9

\* The courts of the hour are sessions which those that follow may join.
LEMMA SessionsGrow ==
  ASSUME NEW ss, NEW ps, NEW hours, NEW free, SessionsOk(ss, ps, hours, free),
         NEW qs, DOMAIN ps \subseteq DOMAIN qs, NEW lines, NEW n \in DOMAIN qs, NEW room,
         room \subseteq free, NEW open, Opened(lines, hours[n], n, room, open),
         NEW tt, Joined(ss, open, tt)
  PROVE  SessionsOk(tt, qs, hours, free)
<1>1. IsList(tt)
  BY DEF Joined
<1>2. ASSUME NEW k \in DOMAIN tt
      PROVE  IsSession(tt[k], free) /\ tt[k].plan \in DOMAIN qs /\ tt[k].anchor = hours[tt[k].plan]
  <2>1. CASE k \in DOMAIN ss
    <3>1. tt[k] = ss[k]
      BY <2>1 DEF Joined
    <3> QED
      BY <2>1, <3>1 DEF SessionsOk
  <2>2. ASSUME NEW i \in DOMAIN open, k = Len(ss) + i
        PROVE  IsSession(tt[k], free) /\ tt[k].plan \in DOMAIN qs /\ tt[k].anchor = hours[tt[k].plan]
    <3>1. tt[k] = open[i]
      BY <2>2 DEF Joined
    <3>2. IsSession(open[i], room) /\ open[i].anchor = hours[n] /\ open[i].plan = n
      BY DEF Opened
    <3> QED
      BY <3>1, <3>2 DEF IsSession
  <2>3. k \in DOMAIN ss \/ \E i \in DOMAIN open : k = Len(ss) + i
    BY DEF Joined
  <2> QED
    BY <2>1, <2>2, <2>3
<1> QED
  BY <1>1, <1>2 DEF SessionsOk

\* The plan accepted, the first or the second, is entered in the ledger; its courts are opened.
LEMMA AcceptPlanKeeps == ASSUME DayInv, HourInv, AcceptPlan PROVE DayInv' /\ HourInv'
<1> DEFINE worse == work.attempt = 2 /\ Len(work.lines) <= Len(work.former[1])
           room == inp.free \ used
           open(lines) == BuildOngoingSessions(lines, Start, ToSet(Confirmed), Hour)
<1>1. pc = "accept" /\ pc' = "hour" /\ work' = Idle /\ UNCHANGED <<inp, ext>>
  BY DEF AcceptPlan
<1>2. PICK lines, groups :
        /\ lines = IF worse THEN work.former[1] ELSE work.lines
        /\ plans' = Append(plans, [lines |-> lines, groups |-> groups, outside |-> Outside(lines)])
        /\ RecordSessions(lines)
        /\ used' = used \cup (Slots(lines) \ Outside(lines))
        /\ Track(lines)
  BY DEF AcceptPlan
<1>3. work # Idle /\ ext = NoExt /\ WorkOk(work, room) /\ Hour \in DOMAIN inp.hours
  BY <1>1 DEF HourInv, StageOk
<1> HIDE DEF room
<1>4. Fresh(lines, room)
  BY <1>2, <1>3 DEF WorkOk
<1> HIDE DEF worse
<1>5. PICK plan : plan = [lines |-> lines, groups |-> groups, outside |-> Outside(lines)]
  OBVIOUS
<1>6. IsPlan(plan) /\ plan.lines = lines /\ plan.outside = Outside(lines)
  <2>1. /\ {"lines", "groups", "outside"} \subseteq DOMAIN plan
        /\ plan.lines = lines /\ plan.outside = Outside(lines)
    BY <1>5
  <2> QED
    BY <1>4, <2>1 DEF IsPlan, Fresh
<1>7. IsList(plans)
  BY DEF DayInv, PlansOk
<1>8. Appended(plans, plan, plans')
  BY <1>2, <1>5, <1>7, AppendHas
<1>9. Hour = Len(plans) + 1
  BY DEF Hour
<1>10. PlansOk(plans', inp.hours, inp.window)
  <2>1. \A s \in plan.outside : ~(s[2] <= inp.hours[Hour] + inp.window)
    BY <1>6 DEF Outside, InWindow, Start
  <2> QED
    BY <1>6, <1>8, <1>9, <2>1, PlansGrow DEF DayInv
<1>11. LedgerOk(plans', used', daily', Names, inp.free)
  <2>1. MorePlans(plans, plans', Hour, lines, 0)
    BY <1>6, <1>7, <1>8, <1>9, PlanAdded
  <2>2. plans'[Hour].outside = Outside(lines)
    BY <1>6, <1>8, <1>9 DEF Appended
  <2>3. used' = used \cup (Slots(lines) \ plans'[Hour].outside)
    BY <1>2, <2>2
  <2>4. daily' = [p \in Names |-> daily[p] + Count(lines, p)]
    BY <1>2 DEF Track
  <2>5. LedgerOk(plans, used, daily, Names, inp.free)
    BY DEF DayInv
  <2> QED
    BY <1>4, <2>1, <2>3, <2>4, <2>5, LedgerGrows DEF room
<1>12. SessionsOk(sessions', plans', inp.hours, inp.free)
  <2>1. room \subseteq AllCourts \X Nat /\ room \subseteq inp.free
    BY DEF DayInv, GivenOk, room
  <2>2. Opened(lines, inp.hours[Hour], Hour, room, open(lines))
    BY <1>4, <2>1, SessionsOpened DEF Start
  <2>3. sessions' = sessions \o open(lines)
    BY <1>2 DEF RecordSessions
  <2> HIDE DEF open
  <2>4. IsList(open(lines)) /\ IsList(sessions)
    BY <2>2 DEF Opened, DayInv, SessionsOk
  <2>5. Joined(sessions, open(lines), sessions')
    BY <2>3, <2>4, ConcatHas
  <2>6. DOMAIN plans \subseteq DOMAIN plans' /\ Hour \in DOMAIN plans'
    BY <1>8, <1>9 DEF Appended
  <2>7. SessionsOk(sessions, plans, inp.hours, inp.free)
    BY DEF DayInv
  <2> QED
    BY <2>1, <2>2, <2>5, <2>6, <2>7, SessionsGrow
<1>13. DayInv'
  BY <1>1, <1>10, <1>11, <1>12 DEF DayInv, Names
<1>14. HourInv'
  BY <1>1, <1>3 DEF HourInv, StageOk, PCs
<1> QED
  BY <1>13, <1>14

\* The rounds of late players are entered in the plan of the hour they join, whose slots set
\* apart, out of the window, are not among them.
LEMMA LateJoinedKeeps == ASSUME DayInv, HourInv, LateJoined PROVE DayInv' /\ HourInv'
<1> DEFINE p == ext.session.plan
           room == inp.free \ used
<1>1. /\ pc = "extend" /\ work = Idle /\ used' = ext.used /\ Track(ext.added)
      /\ pc' = "hour" /\ ext' = NoExt /\ UNCHANGED <<inp, work>>
      /\ sessions' = [sessions EXCEPT ![ext.k].lines = ExtLines, ![ext.k].members = ext.members]
  BY DEF LateJoined, ExtensionEnds
<1>2. PICK group : plans' = Append([plans EXCEPT ![p] =
                                      WithGroup(WithBookings(@, ext.added), group)], NoPlan)
  BY DEF LateJoined
<1>3. ext # NoExt /\ ExtOk(ext, inp.free, used) /\ LateOk(ext, used, sessions, inp.window)
  BY <1>1 DEF HourInv, StageOk
<1>4. ext.k \in DOMAIN sessions /\ ext.session = sessions[ext.k]
      /\ p \in DOMAIN plans /\ ext.session.anchor = inp.hours[p]
  BY <1>3 DEF LateOk, DayInv, SessionsOk
<1>5. PICK mid : mid = [plans EXCEPT ![p] = WithGroup(WithBookings(@, ext.added), group)]
  OBVIOUS
<1> HIDE DEF p
<1>6. IsPlan(plans[p])
  BY <1>4 DEF DayInv, PlansOk
<1>7. /\ mid = [h \in DOMAIN plans |-> mid[h]]
      /\ \A h \in DOMAIN plans : h # p => mid[h] = plans[h]
      /\ DOMAIN mid[p] = DOMAIN plans[p]
      /\ mid[p].lines = plans[p].lines \o ext.added /\ mid[p].outside = plans[p].outside
  <2> DEFINE old == plans[p]
             more == WithBookings(old, ext.added)
             new == WithGroup(more, group)
  <2>1. {"lines", "groups", "outside"} \subseteq DOMAIN old
    BY <1>6 DEF IsPlan
  <2>2. mid = [plans EXCEPT ![p] = new]
    BY <1>5
  <2>3. DOMAIN more = DOMAIN old /\ more.lines = old.lines \o ext.added /\ more.outside = old.outside
    BY <2>1 DEF WithBookings
  <2>4. DOMAIN new = DOMAIN more /\ new.lines = more.lines /\ new.outside = more.outside
    BY <2>1, <2>3 DEF WithGroup
  <2> HIDE DEF more, new
  <2>5. mid[p] = new /\ (\A h \in DOMAIN plans : h # p => mid[h] = plans[h])
        /\ mid = [h \in DOMAIN plans |-> mid[h]]
    BY <1>4, <2>2
  <2> QED
    BY <2>3, <2>4, <2>5
<1>8. IsList(mid) /\ DOMAIN mid = DOMAIN plans
  BY <1>7, ListSame DEF DayInv, PlansOk
<1>9. Appended(mid, NoPlan, plans')
  BY <1>2, <1>5, <1>8, AppendHas
<1>10. IsList(plans[p].lines) /\ IsList(ext.added)
  BY <1>3, <1>6 DEF IsPlan, ExtOk, Fresh
<1>11. Joined(plans[p].lines, ext.added, mid[p].lines)
  BY <1>7, <1>10, ConcatHas
<1>12. PlansOk(mid, inp.hours, inp.window)
  <2>1. IsPlan(mid[p])
    BY <1>6, <1>7, <1>11 DEF IsPlan, Joined
  <2> QED
    BY <1>4, <1>7, <1>8, <2>1 DEF DayInv, PlansOk
<1>13. PlansOk(plans', inp.hours, inp.window)
  BY <1>9, <1>12, NoPlanIs, PlansGrow
<1>14. LedgerOk(mid, ext.used, daily', Names, inp.free)
  <2>1. MorePlans(plans, mid, p, ext.added, Len(plans[p].lines))
    BY <1>4, <1>7, <1>8, <1>10, <1>11, PlanExtended
  <2>2. ext.used = used \cup (Slots(ext.added) \ mid[p].outside)
    <3>1. \A s \in plans[p].outside : ~(s[2] <= inp.hours[p] + inp.window)
      BY <1>4 DEF DayInv, PlansOk
    <3>2. \A s \in Slots(ext.added) : s[2] <= inp.hours[p] + inp.window
      BY <1>3, <1>4 DEF LateOk
    <3>3. ext.used = used \cup Slots(ext.added)
      BY <1>3 DEF LateOk
    <3> QED
      BY <1>7, <3>1, <3>2, <3>3
  <2>3. daily' = [q \in Names |-> daily[q] + Count(ext.added, q)]
    BY <1>1 DEF Track
  <2>4. LedgerOk(plans, used, daily, Names, inp.free) /\ Fresh(ext.added, inp.free \ used)
    BY <1>3 DEF DayInv, ExtOk
  <2>5. Len(plans[p].lines) \in Nat
    BY <1>10, ListHas
  <2> QED
    BY <2>1, <2>2, <2>3, <2>4, <2>5, LedgerGrows
<1>15. LedgerOk(plans', used', daily', Names, inp.free)
  BY <1>1, <1>8, <1>9, <1>14, LedgerStays
<1>16. SessionsOk(sessions', plans', inp.hours, inp.free)
  <2>1. SessionsOk(sessions, plans, inp.hours, inp.free)
    BY DEF DayInv
  <2>2. {"lines", "plan", "anchor", "court", "members"} \subseteq DOMAIN sessions[ext.k]
    BY <1>4, <2>1 DEF SessionsOk, IsSession
  <2>3. /\ sessions' = [k \in DOMAIN sessions |-> sessions'[k]]
        /\ \A k \in DOMAIN sessions : k # ext.k => sessions'[k] = sessions[k]
        /\ DOMAIN sessions'[ext.k] = DOMAIN sessions[ext.k]
        /\ sessions'[ext.k].lines = ExtLines
        /\ sessions'[ext.k].plan = sessions[ext.k].plan
        /\ sessions'[ext.k].anchor = sessions[ext.k].anchor
    BY <1>1, <1>4, <2>2
  <2>4. IsList(sessions') /\ DOMAIN sessions' = DOMAIN sessions
    BY <2>1, <2>3, ListSame DEF SessionsOk
  <2>5. IsSession(sessions'[ext.k], inp.free)
    <3>1. IsSession(ext.session, inp.free) /\ Fresh(ext.added, inp.free \ used)
      BY <1>3 DEF ExtOk
    <3>2. IsList(ExtLines) /\ Slots(ExtLines) = Slots(ext.session.lines) \cup Slots(ext.added)
      <4>1. IsList(ext.session.lines) /\ IsList(ext.added)
        BY <3>1 DEF IsSession, Fresh
      <4> QED
        BY <4>1, SlotsConcat DEF ExtLines
    <3> QED
      BY <2>2, <2>3, <3>1, <3>2 DEF IsSession, Fresh
  <2>6. DOMAIN plans \subseteq DOMAIN plans'
    BY <1>8, <1>9 DEF Appended
  <2> QED
    BY <2>1, <2>3, <2>4, <2>5, <2>6 DEF SessionsOk
<1>17. DayInv'
  BY <1>1, <1>13, <1>15, <1>16 DEF DayInv, Names
<1>18. HourInv'
  BY <1>1 DEF HourInv, StageOk, PCs
<1> QED
  BY <1>17, <1>18

\* Each step keeps the invariant.
LEMMA CourtsStep == CourtsInv /\ [Next]_vars => CourtsInv'
<1> SUFFICES ASSUME CourtsInv, [Next]_vars PROVE DayInv' /\ HourInv'
  BY DEF CourtsInv
<1>1. DayInv /\ HourInv /\ GivenOk(inp) /\ PlansOk(plans, inp.hours, inp.window)
  BY DEF CourtsInv, DayInv
<1>2. CASE NotEnoughPlayers
  BY <1>1, <1>2, NotEnoughPlayersKeeps
<1>3. CASE AcceptPlan
  BY <1>1, <1>3, AcceptPlanKeeps
<1>4. CASE LateJoined
  BY <1>1, <1>4, LateJoinedKeeps
<1>5. CASE JoinSession
  BY <1>1, <1>5, DaySame, JoinSessionKeeps DEF JoinSession
<1>6. CASE PlanHour
  BY <1>1, <1>6, DaySame, PlanHourKeeps DEF PlanHour
<1>7. CASE Finish
  BY <1>1, <1>7, DaySame, FinishKeeps DEF Finish
<1>8. CASE SkipTime
  BY <1>1, <1>8, DaySame, SkipTimeKeeps DEF SkipTime
<1>9. CASE BookGroupRound
  BY <1>1, <1>9, DaySame, BookGroupRoundKeeps DEF BookGroupRound
<1>10. CASE NextGroup
  BY <1>1, <1>10, DaySame, NextGroupKeeps DEF NextGroup
<1>11. CASE GroupsDone
  BY <1>1, <1>11, DaySame, GroupsDoneKeeps DEF GroupsDone
<1>12. CASE FindRound
  BY <1>1, <1>12, DaySame, FindRoundKeeps DEF FindRound
<1>13. CASE PlacePair
  BY <1>1, <1>13, DaySame, PlacePairKeeps DEF PlacePair
<1>14. CASE RoundPlaced
  BY <1>1, <1>14, DaySame, RoundPlacedKeeps DEF RoundPlaced
<1>15. CASE NextLayer
  BY <1>1, <1>15, DaySame, NextLayerKeeps DEF NextLayer
<1>16. CASE LayersDone
  BY <1>1, <1>16, DaySame, LayersDoneKeeps DEF LayersDone
<1>17. CASE JoinCourt
  BY <1>1, <1>17, DaySame, JoinCourtKeeps DEF JoinCourt
<1>18. CASE RotationDone
  BY <1>1, <1>18, DaySame, RotationDoneKeeps DEF RotationDone
<1>19. CASE ExtendRound
  BY <1>1, <1>19, DaySame, ExtendRoundKeeps DEF ExtendRound
<1>20. CASE CourtJoined
  BY <1>1, <1>20, DaySame, CourtJoinedKeeps DEF CourtJoined
<1>21. CASE Escalate
  BY <1>1, <1>21, DaySame, EscalateKeeps DEF Escalate
<1>22. CASE RetryRound \/ UNCHANGED vars
  <2>1. UNCHANGED <<inp, pc, plans, sessions, used, daily, work, ext>>
    BY <1>22 DEF RetryRound, vars
  <2>2. Hour' = Hour
    BY <2>1 DEF Hour
  <2>3. HourInv'
    BY <1>1, <2>1, <2>2 DEF HourInv
  <2> QED
    BY <1>1, <2>1, <2>3, DaySame
<1> QED
  BY <1>2, <1>3, <1>4, <1>5, <1>6, <1>7, <1>8, <1>9, <1>10, <1>11, <1>12, <1>13, <1>14, <1>15,
     <1>16, <1>17, <1>18, <1>19, <1>20, <1>21, <1>22 DEF Next

\* The ledger of the property is that of the invariant.
LEMMA LedgerIs ==
  /\ Places = PlacesIn(plans) /\ AllLines = LinesIn(plans) /\ Booked = KeptIn(plans)
<1>1. Places = PlacesIn(plans)
  BY DEF Places, PlacesIn
<1>2. AllLines = LinesIn(plans)
  BY <1>1 DEF AllLines, LinesIn
<1>3. BookedPlaces = {y \in PlacesIn(plans) : LinesIn(plans)[y].slot \notin plans[y[1]].outside}
  BY <1>1, <1>2 DEF BookedPlaces
<1>4. Booked = KeptIn(plans)
  BY <1>2, <1>3 DEF Booked, KeptIn
<1> QED
  BY <1>1, <1>2, <1>4

\* A line proposed is one booked, one of the plan under construction, or one added.
LEMMA ProposedIs ==
  ASSUME DayInv, NEW x \in DOMAIN Proposed
  PROVE  \/ x \in DOMAIN Booked /\ Proposed[x] = Booked[x] /\ x[1] \in DOMAIN plans
         \/ \E n \in DOMAIN Underway : x = <<Hour, n>> /\ Proposed[x] = Underway[n]
         \/ \E n \in DOMAIN Added : x = <<0, n>> /\ Proposed[x] = Added[n]
<1>1. Len(plans) \in Nat /\ DOMAIN plans = 1 .. Len(plans)
  BY ListHas DEF DayInv, PlansOk
<1>2. Hour \notin DOMAIN plans /\ 0 \notin DOMAIN plans /\ Hour # 0
  BY <1>1 DEF Hour
<1>3. /\ x \in BookedPlaces \cup ({Hour} \X DOMAIN Underway) \cup ({0} \X DOMAIN Added)
      /\ Proposed[x] = IF x[1] = 0 THEN Added[x[2]]
                       ELSE IF x[1] = Hour THEN Underway[x[2]] ELSE Booked[x]
  BY DEF Proposed
<1>4. CASE x \in BookedPlaces
  <2>1. x \in DOMAIN Booked
    BY <1>4 DEF Booked
  <2>2. x \in PlacesIn(plans)
    BY <1>4, LedgerIs DEF BookedPlaces
  <2>3. x[1] \in DOMAIN plans
    BY <2>2, PlaceIs
  <2> QED
    BY <1>2, <1>3, <2>1, <2>3
<1>5. CASE x \in {Hour} \X DOMAIN Underway
  <2>1. x[1] = Hour /\ x[2] \in DOMAIN Underway /\ x = <<Hour, x[2]>>
    BY <1>5
  <2> QED
    BY <1>2, <1>3, <2>1
<1>6. CASE x \in {0} \X DOMAIN Added
  <2>1. x[1] = 0 /\ x[2] \in DOMAIN Added /\ x = <<0, x[2]>>
    BY <1>6
  <2> QED
    BY <1>3, <2>1
<1> QED
  BY <1>3, <1>4, <1>5, <1>6

\* The lines under construction and those added share no slot, with each other or with the day.
LEMMA UnderwayIs ==
  ASSUME HourInv
  PROVE  /\ Fresh(Underway, inp.free \ used) /\ Fresh(Added, inp.free \ used)
         /\ Slots(Underway) \cap Slots(Added) = {}
<1> DEFINE room == inp.free \ used
<1>1. Fresh(<< >>, room) /\ Slots(<< >>) = {}
  BY FreshEmpty
<1>2. work # Idle => Fresh(work.lines, room)
  BY DEF HourInv, WorkOk
<1>3. ext # NoExt => Fresh(ext.added, room)
  BY DEF HourInv, ExtOk
<1>4. work # Idle /\ ext # NoExt => \A s \in Slots(ext.added) : s \notin Slots(work.lines)
  BY DEF HourInv, TurnOk
<1> HIDE DEF room
<1>5. Fresh(Underway, room) /\ Fresh(Added, room)
  BY <1>1, <1>2, <1>3 DEF Underway, Added
<1>6. Slots(Underway) \cap Slots(Added) = {}
  BY <1>1, <1>4 DEF Underway, Added
<1> QED
  BY <1>5, <1>6 DEF room

\* Two lines proposed on one slot are the same line.
LEMMA SlotOnceHolds == CourtsInv => SlotOnce
<1> SUFFICES ASSUME CourtsInv PROVE SlotOnce
  OBVIOUS
<1>1. DayInv /\ HourInv
  BY DEF CourtsInv
<1>2. used = Slots(Booked) /\ Once(Booked)
  BY <1>1, LedgerIs DEF DayInv, LedgerOk
<1>3. /\ Once(Underway) /\ Slots(Underway) \cap used = {}
      /\ Once(Added) /\ Slots(Added) \cap used = {}
      /\ Slots(Underway) \cap Slots(Added) = {}
  BY <1>1, UnderwayIs DEF Fresh
<1>4. SUFFICES ASSUME NEW i \in DOMAIN Proposed, NEW j \in DOMAIN Proposed,
                      Proposed[i].slot = Proposed[j].slot
               PROVE  i = j
  BY DEF SlotOnce
<1> DEFINE Kept(x) == x \in DOMAIN Booked /\ Proposed[x] = Booked[x]
           Building(x) == \E n \in DOMAIN Underway : x = <<Hour, n>> /\ Proposed[x] = Underway[n]
           Adding(x) == \E n \in DOMAIN Added : x = <<0, n>> /\ Proposed[x] = Added[n]
<1>5. \A x \in DOMAIN Proposed : Kept(x) \/ Building(x) \/ Adding(x)
  BY <1>1, ProposedIs
<1>6. ASSUME NEW x, Kept(x) PROVE Proposed[x].slot \in used
  BY <1>2, <1>6 DEF Slots
<1>7. ASSUME NEW x, Building(x) PROVE Proposed[x].slot \in Slots(Underway)
  BY <1>7 DEF Slots
<1>8. ASSUME NEW x, Adding(x) PROVE Proposed[x].slot \in Slots(Added)
  BY <1>8 DEF Slots
<1>9. CASE Kept(i) /\ Kept(j)
  BY <1>2, <1>4, <1>9 DEF Once
<1>10. CASE Building(i) /\ Building(j)
  BY <1>3, <1>4, <1>10 DEF Once
<1>11. CASE Adding(i) /\ Adding(j)
  BY <1>3, <1>4, <1>11 DEF Once
<1> HIDE DEF Kept, Building, Adding
<1> QED
  BY <1>3, <1>4, <1>5, <1>6, <1>7, <1>8, <1>9, <1>10, <1>11

-----------------------------------------------------------------------------
(* The courts an hour plans on at a time.                                   *)

\* At no time do the groups and pairs hold more than n courts.
Within(lines, n) ==
  \A t : IsFiniteSet(CourtsHeld(lines, t)) /\ Cardinality(CourtsHeld(lines, t)) <= n

CapFields == {"lines", "former", "attempt", "needed", "groups", "g", "t", "batch"}
\* The plan under construction, and the first attempt, hold no more courts than allowed.
CapOk(w, most) ==
  /\ CapFields \subseteq DOMAIN w
  /\ w.needed \in Nat /\ w.needed <= most
  /\ Len(w.groups) \in Nat /\ Len(w.groups) <= most
  /\ w.g \in Nat \ {0} /\ w.t \in Nat
  /\ Within(w.lines, most)
  /\ w.attempt # 1 => Within(w.former[1], most)

\* Of the first g groups each holds one court at a time, and the last has not got to t yet.
TimelineOk(w) ==
  /\ w.g <= Len(w.groups) + 1
  /\ \A t : /\ Cardinality(CourtsHeld(w.lines, t)) <= w.g
            /\ t \in Nat /\ t >= w.t => Cardinality(CourtsHeld(w.lines, t)) <= w.g - 1

\* The pairs of a round play at one time, when there is still room for them.
PlaceOk(w) ==
  \E t : /\ \A i \in DOMAIN w.batch : w.batch[i][2] = t
         /\ Cardinality(CourtsHeld(w.lines, t)) + Len(w.batch) <= w.needed

CapInv ==
  /\ inp.maxCourts \in Nat
  /\ \A h \in DOMAIN plans : Within(plans[h].lines, inp.maxCourts)
  /\ work # Idle => CapOk(work, inp.maxCourts)
  /\ pc = "timeline" => TimelineOk(work)
  /\ pc = "place" => PlaceOk(work)
  /\ ext # NoExt => OwnSlots(ext.added) = {}

\* No line holds no court.
LEMMA NoneHeld ==
  /\ OwnSlots(<< >>) = {}
  /\ \A t : IsFiniteSet(CourtsHeld(<< >>, t)) /\ Cardinality(CourtsHeld(<< >>, t)) = 0
<1>1. PICK e : e = << >>
  OBVIOUS
<1>2. DOMAIN e = {}
  BY <1>1, EmptyHas
<1>3. OwnSlots(e) = {}
  BY <1>2 DEF OwnSlots
<1>4. \A t : CourtsHeld(e, t) = {}
  BY <1>3 DEF CourtsHeld
<1> QED
  BY <1>1, <1>3, <1>4, FS_EmptySet

\* A line more holds its own court at its own time, if it is one of a group or a pair.
LEMMA OwnAppend ==
  ASSUME NEW lines, IsList(lines), NEW line, NEW more, more = Append(lines, line)
  PROVE  /\ OwnSlots(more) \subseteq OwnSlots(lines) \cup {line.slot}
         /\ ~(line.of > 0) => OwnSlots(more) \subseteq OwnSlots(lines)
<1>1. Appended(lines, line, more)
  BY AppendHas
<1>2. ASSUME NEW s \in OwnSlots(more) PROVE s \in OwnSlots(lines) \/ (s = line.slot /\ line.of > 0)
  <2>1. PICK i \in DOMAIN more : s = more[i].slot /\ more[i].of > 0
    BY <1>2 DEF OwnSlots
  <2>2. CASE i \in DOMAIN lines
    BY <1>1, <2>1, <2>2 DEF Appended, OwnSlots
  <2>3. CASE i \notin DOMAIN lines
    BY <1>1, <2>1, <2>3 DEF Appended
  <2> QED
    BY <2>2, <2>3
<1> QED
  BY <1>2

\* The slots of two lists are those of their concatenation.
LEMMA OwnConcat ==
  ASSUME NEW s, IsList(s), NEW t, IsList(t), NEW u, u = s \o t, OwnSlots(t) = {}
  PROVE  OwnSlots(u) \subseteq OwnSlots(s)
<1>1. Joined(s, t, u)
  BY ConcatHas
<1>2. SUFFICES ASSUME NEW x \in OwnSlots(u) PROVE x \in OwnSlots(s)
  OBVIOUS
<1>3. PICK i \in DOMAIN u : x = u[i].slot /\ u[i].of > 0
  BY DEF OwnSlots
<1>4. CASE i \in DOMAIN s
  BY <1>1, <1>3, <1>4 DEF Joined, OwnSlots
<1>5. ASSUME i \notin DOMAIN s PROVE FALSE
  <2>1. PICK j \in DOMAIN t : i = Len(s) + j
    BY <1>1, <1>5 DEF Joined
  <2>2. u[i] = t[j]
    BY <1>1, <2>1 DEF Joined
  <2> QED
    BY <1>3, <2>2 DEF OwnSlots
<1> QED
  BY <1>4, <1>5

\* With no slot more, no court more.
LEMMA HeldLess ==
  ASSUME NEW lines, NEW more, OwnSlots(more) \subseteq OwnSlots(lines), NEW t,
         IsFiniteSet(CourtsHeld(lines, t))
  PROVE  /\ IsFiniteSet(CourtsHeld(more, t))
         /\ Cardinality(CourtsHeld(more, t)) \in Nat /\ Cardinality(CourtsHeld(lines, t)) \in Nat
         /\ Cardinality(CourtsHeld(more, t)) <= Cardinality(CourtsHeld(lines, t))
<1>1. CourtsHeld(more, t) \in SUBSET CourtsHeld(lines, t)
  BY DEF CourtsHeld
<1> QED
  BY <1>1, FS_Subset, FS_CardinalityType

\* Nor a time at which they are more than allowed.
LEMMA WithinLess ==
  ASSUME NEW lines, NEW n \in Nat, Within(lines, n), NEW more, OwnSlots(more) \subseteq OwnSlots(lines)
  PROVE  Within(more, n)
<1> SUFFICES ASSUME NEW t
             PROVE  IsFiniteSet(CourtsHeld(more, t)) /\ Cardinality(CourtsHeld(more, t)) <= n
  BY DEF Within
<1>1. IsFiniteSet(CourtsHeld(lines, t)) /\ Cardinality(CourtsHeld(lines, t)) <= n
  BY DEF Within
<1> QED
  BY <1>1, HeldLess

\* With a slot more, one court more at its time, and none at the others.
LEMMA HeldMore ==
  ASSUME NEW lines, NEW more, NEW slot, OwnSlots(more) \subseteq OwnSlots(lines) \cup {slot}, NEW t,
         IsFiniteSet(CourtsHeld(lines, t))
  PROVE  /\ IsFiniteSet(CourtsHeld(more, t))
         /\ Cardinality(CourtsHeld(more, t)) \in Nat /\ Cardinality(CourtsHeld(lines, t)) \in Nat
         /\ Cardinality(CourtsHeld(more, t)) <= Cardinality(CourtsHeld(lines, t)) + 1
         /\ t # slot[2] => Cardinality(CourtsHeld(more, t)) <= Cardinality(CourtsHeld(lines, t))
<1> DEFINE held == CourtsHeld(lines, t)
           wide == held \cup {slot[1]}
<1>1. CourtsHeld(more, t) \in SUBSET wide
  BY DEF CourtsHeld
<1>2. t # slot[2] => CourtsHeld(more, t) \in SUBSET held
  BY DEF CourtsHeld
<1> HIDE DEF held
<1>3. IsFiniteSet(held) /\ Cardinality(held) \in Nat
  BY FS_CardinalityType DEF held
<1>4. IsFiniteSet(wide) /\ Cardinality(wide) \in Nat /\ Cardinality(wide) <= Cardinality(held) + 1
  <2>1. /\ IsFiniteSet(wide)
        /\ Cardinality(wide) = IF slot[1] \in held THEN Cardinality(held) ELSE Cardinality(held) + 1
    BY <1>3, FS_AddElement
  <2> HIDE DEF wide
  <2> QED
    BY <1>3, <2>1
<1> HIDE DEF wide
<1>5. /\ IsFiniteSet(CourtsHeld(more, t))
      /\ Cardinality(CourtsHeld(more, t)) \in Nat
      /\ Cardinality(CourtsHeld(more, t)) <= Cardinality(wide)
  BY <1>1, <1>4, FS_Subset, FS_CardinalityType
<1>6. t # slot[2] => Cardinality(CourtsHeld(more, t)) <= Cardinality(held)
  BY <1>2, <1>3, FS_Subset
<1> QED
  BY <1>3, <1>4, <1>5, <1>6 DEF held

\* The players, in whatever order, are a number of players (the prover holds every Len to be
\* a natural number).
LEMMA PlayersCounted ==
  ASSUME NEW confirmed, NEW priority PROVE Len(PrioritizePlayers(confirmed, priority)) \in Nat
OBVIOUS

\* So are the courts they need.
LEMMA CourtsCounted ==
  ASSUME NEW n \in Nat, NEW preferMin PROVE CourtsNeededForPlayers(n, preferMin) \in Nat
BY DEF CourtsNeededForPlayers, MIN_PLAYERS_PER_COURT_GROUP, MAX_PLAYERS_PER_COURT_GROUP

\* There is a group per pair, up to the number of courts.
LEMMA GroupsBounded ==
  ASSUME NEW players, Len(players) \in Nat, NEW maxPlayers, NEW target \in Nat, NEW minSlots,
         NEW groups, groups = BuildGroupsForBooking(players, maxPlayers, target, minSlots)
  PROVE  Len(groups) \in Nat /\ Len(groups) <= target
<1> DEFINE base == Min({target, Len(PairsOf(players))})
<1>1. PICK n \in Nat : n = Len(players) \div 2
  OBVIOUS
<1>2. PICK pairs : pairs = PairsOf(players)
  OBVIOUS
<1>3. pairs = [i \in 1 .. n |-> pairs[i]]
  BY <1>1, <1>2 DEF PairsOf
<1>4. Len(pairs) \in Nat
  BY <1>3, ListFrom
<1>5. base \in Nat /\ base <= target
  <2>1. {target, Len(pairs)} \subseteq Nat /\ {target, Len(pairs)} # {}
    BY <1>4
  <2> QED
    BY <1>2, <1>4, <2>1, MinType
<1>6. groups = [i \in 1 .. base |-> groups[i]]
  BY DEF BuildGroupsForBooking
<1> HIDE DEF base
<1>7. Len(groups) = base
  BY <1>5, <1>6, ListFrom
<1> QED
  BY <1>5, <1>7

\* An attempt wants no more courts than the rule allows, and has a group on each at most
\* (computeGroupBookingPlan: hardCap).
LEMMA AttemptCap ==
  ASSUME NEW number, NEW preferMin, NEW former, inp.maxCourts \in Nat, Start \in Nat,
         number # 1 => Within(former[1], inp.maxCourts),
         NEW w, w = Attempt(number, preferMin, former)
  PROVE  CapOk(w, inp.maxCourts) /\ TimelineOk(w)
<1> DEFINE players == PrioritizePlayers(Confirmed, inp.priorityBookers)
           raw == CourtsNeededForPlayers(Len(players), preferMin)
           needed == Min({raw, SQUASH_COURT_COUNT, inp.maxCourts})
           groups == BuildGroupsForBooking(players, inp.maxPlayers, needed, inp.minSlots)
<1>1. /\ CapFields \subseteq DOMAIN w
      /\ w.needed = needed /\ w.groups \in {<< >>, groups}
      /\ w.g = 1 /\ w.t = Start /\ w.lines = << >> /\ w.former = former /\ w.attempt = number
  BY DEF Attempt, CapFields
<1>2. Len(players) \in Nat
  BY PlayersCounted
<1> HIDE DEF players
<1>3. raw \in Nat
  BY <1>2, CourtsCounted
<1> HIDE DEF raw
<1>4. needed \in Nat /\ needed <= inp.maxCourts
  <2>1. {raw, SQUASH_COURT_COUNT, inp.maxCourts} \subseteq Nat
    BY <1>3 DEF SQUASH_COURT_COUNT
  <2> QED
    BY <2>1, MinType
<1> HIDE DEF needed
<1>5. Len(groups) \in Nat /\ Len(groups) <= needed
  BY <1>2, <1>4, GroupsBounded
<1> HIDE DEF groups
<1>6. Len(<< >>) = 0
  BY EmptyHas
<1>7. Len(w.groups) \in Nat /\ Len(w.groups) <= inp.maxCourts
  BY <1>1, <1>4, <1>5, <1>6
<1>8. \A t : IsFiniteSet(CourtsHeld(w.lines, t)) /\ Cardinality(CourtsHeld(w.lines, t)) = 0
  BY <1>1, NoneHeld
<1>9. Within(w.lines, inp.maxCourts)
  BY <1>8 DEF Within
<1>10. CapOk(w, inp.maxCourts)
  BY <1>1, <1>4, <1>7, <1>9 DEF CapOk
<1>11. TimelineOk(w)
  BY <1>1, <1>7, <1>8 DEF TimelineOk
<1> QED
  BY <1>10, <1>11

\* The hours of the rule are times.
LEMMA StartIs == ASSUME GivenOk(inp), HourInv, work # Idle \/ ext # NoExt PROVE Start \in Nat
BY DEF HourInv, GivenOk, Start

\* An attempt begins with no court held.
LEMMA BeginCap ==
  ASSUME CapInv, Start \in Nat, NEW number, NEW preferMin, NEW former,
         number # 1 => Within(former[1], inp.maxCourts),
         Begin(Attempt(number, preferMin, former)), UNCHANGED <<inp, plans, ext>>
  PROVE  CapInv'
<1>1. CapOk(work', inp.maxCourts) /\ TimelineOk(work')
  BY AttemptCap DEF Begin, CapInv
<1>2. pc' # "place"
  BY DEF Begin
<1> QED
  BY <1>1, <1>2 DEF CapInv

\* Steps that touch neither the lines nor the groups of the plan under construction.
LEMMA CapKeeps ==
  ASSUME CapInv, work # Idle, UNCHANGED <<inp, plans>>,
         pc' \notin {"timeline", "place"}, DOMAIN work' = DOMAIN work,
         \A f \in CapFields \ {"batch"} : work'[f] = work[f],
         ext' # NoExt => OwnSlots(ext'.added) = {}
  PROVE  CapInv'
<1>1. CapOk(work, inp.maxCourts)
  BY DEF CapInv
<1>2. /\ work'.needed = work.needed /\ work'.groups = work.groups /\ work'.g = work.g /\ work'.t = work.t
      /\ work'.lines = work.lines /\ work'.former = work.former /\ work'.attempt = work.attempt
  BY DEF CapFields
<1>3. CapOk(work', inp.maxCourts)
  BY <1>1, <1>2 DEF CapOk
<1> QED
  BY <1>3 DEF CapInv

\* A group takes a court at the time it has got to.
LEMMA BookGroupRoundCap == ASSUME CapInv, HourInv, BookGroupRound PROVE CapInv'
<1>1. /\ pc = "timeline" /\ pc' = pc /\ UNCHANGED <<inp, plans, ext>> /\ work.g <= Len(work.groups)
  BY DEF BookGroupRound
<1>2. PICK court, found :
        work' = [work EXCEPT !.lines = Append(@, Line(<<court, work.t>>, found.pair, work.g)),
                             !.queue = found.queue, !.court = court, !.t = @ + 1]
  BY DEF BookGroupRound
<1> DEFINE slot == <<court, work.t>>
           line == Line(slot, found.pair, work.g)
<1>3. line.slot = slot /\ slot[2] = work.t
  BY DEF Line
<1>4. work # Idle /\ CapOk(work, inp.maxCourts) /\ TimelineOk(work) /\ IsList(work.lines)
  BY <1>1 DEF CapInv, HourInv, StageOk, WorkOk, Fresh
<1>5. /\ DOMAIN work' = DOMAIN work /\ work'.lines = Append(work.lines, line) /\ work'.t = work.t + 1
      /\ work'.needed = work.needed /\ work'.groups = work.groups /\ work'.g = work.g
      /\ work'.former = work.former /\ work'.attempt = work.attempt
  BY <1>2, <1>4 DEF CapOk, CapFields
<1> HIDE DEF line, slot
<1>6. OwnSlots(work'.lines) \subseteq OwnSlots(work.lines) \cup {slot}
  BY <1>3, <1>4, <1>5, OwnAppend
<1>7. /\ work.g \in Nat \ {0} /\ work.t \in Nat /\ Len(work.groups) \in Nat
      /\ Len(work.groups) <= inp.maxCourts /\ inp.maxCourts \in Nat
  BY <1>4 DEF CapOk, CapInv
<1>8. ASSUME NEW t
      PROVE  /\ IsFiniteSet(CourtsHeld(work'.lines, t))
             /\ Cardinality(CourtsHeld(work'.lines, t)) \in Nat
             /\ Cardinality(CourtsHeld(work'.lines, t)) <= work.g
             /\ t \in Nat /\ t >= work.t + 1 => Cardinality(CourtsHeld(work'.lines, t)) <= work.g - 1
  <2>1. IsFiniteSet(CourtsHeld(work.lines, t))
    BY <1>4 DEF CapOk, Within
  <2>2. /\ Cardinality(CourtsHeld(work.lines, t)) <= work.g
        /\ t \in Nat /\ t >= work.t => Cardinality(CourtsHeld(work.lines, t)) <= work.g - 1
    BY <1>4 DEF TimelineOk
  <2>3. /\ IsFiniteSet(CourtsHeld(work'.lines, t))
        /\ Cardinality(CourtsHeld(work'.lines, t)) \in Nat /\ Cardinality(CourtsHeld(work.lines, t)) \in Nat
        /\ Cardinality(CourtsHeld(work'.lines, t)) <= Cardinality(CourtsHeld(work.lines, t)) + 1
        /\ t # work.t => Cardinality(CourtsHeld(work'.lines, t)) <= Cardinality(CourtsHeld(work.lines, t))
    BY <1>3, <1>6, <2>1, HeldMore
  <2>4. CASE t = work.t
    BY <1>7, <2>2, <2>3, <2>4
  <2>5. CASE t # work.t
    BY <1>7, <2>2, <2>3, <2>5
  <2> QED
    BY <2>3, <2>4, <2>5
<1>9. Within(work'.lines, inp.maxCourts)
  <2> SUFFICES ASSUME NEW t
               PROVE  /\ IsFiniteSet(CourtsHeld(work'.lines, t))
                      /\ Cardinality(CourtsHeld(work'.lines, t)) <= inp.maxCourts
    BY DEF Within
  <2> QED
    BY <1>1, <1>7, <1>8
<1>10. CapOk(work', inp.maxCourts)
  BY <1>4, <1>5, <1>7, <1>9 DEF CapOk
<1>11. TimelineOk(work')
  BY <1>4, <1>5, <1>8 DEF TimelineOk
<1> QED
  BY <1>1, <1>10, <1>11 DEF CapInv

\* It looks at a later time, which it holds no court at either.
LEMMA SkipTimeCap == ASSUME CapInv, HourInv, SkipTime PROVE CapInv'
<1>1. /\ pc = "timeline" /\ pc' = pc /\ UNCHANGED <<inp, plans, ext>>
      /\ work' = [work EXCEPT !.t = @ + 1]
  BY DEF SkipTime
<1>2. work # Idle /\ CapOk(work, inp.maxCourts) /\ TimelineOk(work)
  BY <1>1 DEF CapInv, HourInv, StageOk
<1>3. /\ DOMAIN work' = DOMAIN work /\ work'.lines = work.lines /\ work'.t = work.t + 1
      /\ work'.needed = work.needed /\ work'.groups = work.groups /\ work'.g = work.g
      /\ work'.former = work.former /\ work'.attempt = work.attempt
  BY <1>1, <1>2 DEF CapOk, CapFields
<1>4. CapOk(work', inp.maxCourts)
  BY <1>2, <1>3 DEF CapOk
<1>5. TimelineOk(work')
  <2>1. \A t : t \in Nat /\ t >= work.t + 1 => t >= work.t
    BY <1>2 DEF CapOk
  <2> QED
    BY <1>2, <1>3, <2>1 DEF TimelineOk
<1> QED
  BY <1>1, <1>4, <1>5 DEF CapInv

\* The next group finds at most one court held for each group before it.
LEMMA NextGroupCap == ASSUME CapInv, HourInv, GivenOk(inp), NextGroup PROVE CapInv'
<1>1. /\ pc = "timeline" /\ pc' = pc /\ UNCHANGED <<inp, plans, ext>> /\ work.g <= Len(work.groups)
  BY DEF NextGroup
<1>2. PICK groups : work' = [work EXCEPT !.g = @ + 1, !.t = Start, !.court = 0, !.courtGroups = groups]
  BY DEF NextGroup
<1>3. work # Idle /\ CapOk(work, inp.maxCourts) /\ TimelineOk(work)
  BY <1>1 DEF CapInv, HourInv, StageOk
<1>4. Start \in Nat
  BY <1>3, StartIs
<1>5. /\ DOMAIN work' = DOMAIN work /\ work'.lines = work.lines /\ work'.t = Start
      /\ work'.needed = work.needed /\ work'.groups = work.groups /\ work'.g = work.g + 1
      /\ work'.former = work.former /\ work'.attempt = work.attempt
  BY <1>2, <1>3 DEF CapOk, CapFields
<1>6. work.g \in Nat \ {0} /\ Len(work.groups) \in Nat
  BY <1>3 DEF CapOk
<1>7. CapOk(work', inp.maxCourts)
  BY <1>3, <1>4, <1>5, <1>6 DEF CapOk
<1>8. ASSUME NEW t
      PROVE  /\ Cardinality(CourtsHeld(work.lines, t)) <= work.g + 1
             /\ Cardinality(CourtsHeld(work.lines, t)) <= (work.g + 1) - 1
  <2>1. Cardinality(CourtsHeld(work.lines, t)) <= work.g
    BY <1>3 DEF TimelineOk
  <2>2. Cardinality(CourtsHeld(work.lines, t)) \in Nat
    BY <1>3, FS_CardinalityType DEF CapOk, Within
  <2> QED
    BY <1>6, <2>1, <2>2
<1>9. TimelineOk(work')
  BY <1>1, <1>5, <1>6, <1>8 DEF TimelineOk
<1> QED
  BY <1>1, <1>7, <1>9 DEF CapInv

\* A round fits beside what the layers before it hold at its time (courtsUsedAtTime).
LEMMA FindRoundCap == ASSUME CapInv, HourInv, GivenOk(inp), FindRound PROVE CapInv'
<1> DEFINE size == Max({r[1] : r \in Rounds})
           t == Min({r[2] : r \in {x \in Rounds : x[1] = size}})
<1>1. /\ pc = "round" /\ pc' = "place" /\ Rounds # {} /\ UNCHANGED <<inp, plans, ext>>
  BY DEF FindRound
<1>2. PICK courts : work' = [work EXCEPT !.batch = [i \in 1..size |-> <<courts[i], t>>],
                                         !.taken = @ \cup {t}, !.rounds = @ + 1]
  BY DEF FindRound
<1>3. size \in Nat /\ t \in Nat /\ Fits(size, t)
  BY <1>1, RoundChosen
<1> HIDE DEF size, t
<1>4. work # Idle /\ CapOk(work, inp.maxCourts) /\ WorkOk(work, inp.free \ used)
  BY <1>1 DEF CapInv, HourInv, StageOk
<1>5. PICK batch : batch = [i \in 1..size |-> <<courts[i], t>>]
  OBVIOUS
<1>6. /\ DOMAIN work' = DOMAIN work /\ work'.lines = work.lines /\ work'.t = work.t
      /\ work'.needed = work.needed /\ work'.groups = work.groups /\ work'.g = work.g
      /\ work'.former = work.former /\ work'.attempt = work.attempt
      /\ work'.batch = batch
  BY <1>2, <1>4, <1>5 DEF CapOk, CapFields
<1>7. CapOk(work', inp.maxCourts)
  BY <1>4, <1>6 DEF CapOk
<1>8. DOMAIN batch = 1 .. size /\ (\A i \in 1 .. size : batch[i][2] = t) /\ Len(batch) = size
  <2>1. batch = [i \in 1 .. size |-> batch[i]] /\ \A i \in 1 .. size : batch[i][2] = t
    BY <1>5
  <2> QED
    BY <1>3, <2>1, ListFrom
<1>9. Cardinality(CourtsHeld(work.lines, t)) + size <= work.needed
  <2>1. OwnSlots(work.lines) \subseteq Slots(work.lines)
    BY DEF OwnSlots, Slots
  <2>2. Slots(work.lines) \subseteq AllCourts \X Nat
    BY <1>4 DEF WorkOk, Fresh, GivenOk
  <2>3. CourtsAt(t) \subseteq AllCourts
    BY <2>2 DEF CourtsAt
  <2>4. IsFiniteSet(CourtsAt(t)) /\ Cardinality(CourtsAt(t)) \in Nat
    BY <2>3, CourtsFinite
  <2>5. CourtsHeld(work.lines, t) \in SUBSET CourtsAt(t)
    BY <2>1 DEF CourtsHeld, CourtsAt
  <2>6. /\ Cardinality(CourtsHeld(work.lines, t)) <= Cardinality(CourtsAt(t))
        /\ Cardinality(CourtsHeld(work.lines, t)) \in Nat
    BY <2>4, <2>5, FS_Subset, FS_CardinalityType
  <2>7. Cardinality(CourtsAt(t)) + size <= work.needed
    BY <1>3 DEF Fits
  <2>8. work.needed \in Nat
    BY <1>4 DEF CapOk
  <2> QED
    BY <1>3, <2>4, <2>6, <2>7, <2>8
<1>10. PlaceOk(work')
  BY <1>6, <1>8, <1>9 DEF PlaceOk
<1> QED
  BY <1>1, <1>7, <1>10 DEF CapInv

\* Tail leaves one element less.
LEMMA TailShorter ==
  ASSUME NEW s, IsList(s), s # << >> PROVE Len(s) \in Nat \ {0} /\ Len(Tail(s)) = Len(s) - 1
<1>1. PICK S : S = ToSet(s)
  OBVIOUS
<1>2. s \in Seq(S)
  BY <1>1 DEF IsList
<1> QED
  BY <1>2, LenProperties, EmptySeq, HeadTailProperties

\* A pair that is placed takes the room kept for it.
LEMMA PlacePairCap == ASSUME CapInv, HourInv, PlacePair PROVE CapInv'
<1>1. /\ pc = "place" /\ pc' = pc /\ UNCHANGED <<inp, plans, ext>> /\ work.batch # << >>
  BY DEF PlacePair
<1>2. PICK found : work' = [work EXCEPT !.batch = Tail(@), !.cursor = @ + 1, !.queue = found.queue,
                  !.lines = IF found.pair = Unbookable THEN @
                            ELSE Append(@, Line(work.batch[1], found.pair, work.cursor))]
  BY DEF PlacePair
<1>3. /\ work # Idle /\ CapOk(work, inp.maxCourts) /\ PlaceOk(work)
      /\ WorkOk(work, inp.free \ used) /\ BatchOk(work, inp.free \ used)
  BY <1>1 DEF CapInv, HourInv, StageOk
<1> DEFINE line == Line(work.batch[1], found.pair, work.cursor)
<1>4. line.slot = work.batch[1]
  BY DEF Line
<1>5. /\ DOMAIN work' = DOMAIN work /\ work'.t = work.t
      /\ work'.needed = work.needed /\ work'.groups = work.groups /\ work'.g = work.g
      /\ work'.former = work.former /\ work'.attempt = work.attempt
      /\ work'.batch = Tail(work.batch)
      /\ work'.lines = work.lines \/ work'.lines = Append(work.lines, line)
  BY <1>2, <1>3 DEF CapOk, CapFields
<1> HIDE DEF line
<1>6. OwnSlots(work'.lines) \subseteq OwnSlots(work.lines) \cup {work.batch[1]}
  <2>1. IsList(work.lines)
    BY <1>3 DEF WorkOk, Fresh
  <2> QED
    BY <1>4, <1>5, <2>1, OwnAppend
<1>7. IsList(work.batch)
  BY <1>3 DEF BatchOk
<1>8. Shortened(work.batch, work'.batch)
  BY <1>1, <1>5, <1>7, TailHas
<1>9. Len(work.batch) \in Nat \ {0} /\ Len(work'.batch) = Len(work.batch) - 1
  BY <1>1, <1>5, <1>7, TailShorter
<1>10. PICK t : /\ \A i \in DOMAIN work.batch : work.batch[i][2] = t
                /\ Cardinality(CourtsHeld(work.lines, t)) + Len(work.batch) <= work.needed
  BY <1>3 DEF PlaceOk
<1>11. work.batch[1][2] = t /\ \A i \in DOMAIN work'.batch : work'.batch[i][2] = t
  BY <1>8, <1>10 DEF Shortened
<1>12. work.needed \in Nat /\ work.needed <= inp.maxCourts /\ inp.maxCourts \in Nat
  BY <1>3 DEF CapOk, CapInv
<1>13. ASSUME NEW u
       PROVE  /\ IsFiniteSet(CourtsHeld(work'.lines, u))
              /\ Cardinality(CourtsHeld(work'.lines, u)) \in Nat
              /\ Cardinality(CourtsHeld(work.lines, u)) \in Nat
              /\ Cardinality(CourtsHeld(work'.lines, u)) <= Cardinality(CourtsHeld(work.lines, u)) + 1
              /\ u # t => Cardinality(CourtsHeld(work'.lines, u)) <= Cardinality(CourtsHeld(work.lines, u))
  <2>1. IsFiniteSet(CourtsHeld(work.lines, u))
    BY <1>3 DEF CapOk, Within
  <2> QED
    BY <1>6, <1>11, <2>1, HeldMore
<1>14. Cardinality(CourtsHeld(work'.lines, t)) + Len(work'.batch) <= work.needed
  BY <1>9, <1>10, <1>12, <1>13
<1>15. Within(work'.lines, inp.maxCourts)
  <2> SUFFICES ASSUME NEW u
               PROVE  /\ IsFiniteSet(CourtsHeld(work'.lines, u))
                      /\ Cardinality(CourtsHeld(work'.lines, u)) <= inp.maxCourts
    BY DEF Within
  <2>1. CASE u = t
    BY <1>9, <1>12, <1>13, <1>14, <2>1
  <2>2. CASE u # t
    <3>1. Cardinality(CourtsHeld(work.lines, u)) <= inp.maxCourts
      BY <1>3 DEF CapOk, Within
    <3> QED
      BY <1>12, <1>13, <2>2, <3>1
  <2> QED
    BY <2>1, <2>2
<1>16. CapOk(work', inp.maxCourts)
  BY <1>3, <1>5, <1>15 DEF CapOk
<1>17. PlaceOk(work')
  BY <1>5, <1>11, <1>14 DEF PlaceOk
<1> QED
  BY <1>1, <1>16, <1>17 DEF CapInv

\* Plans that hold no more than others do, and one more that does not either.
LEMMA PlansWithin ==
  ASSUME NEW ps, NEW n, \A h \in DOMAIN ps : Within(ps[h].lines, n),
         NEW plan, Within(plan.lines, n), NEW qs, Appended(ps, plan, qs)
  PROVE  \A h \in DOMAIN qs : Within(qs[h].lines, n)
BY DEF Appended

\* A step back in the loop over the hours.
LEMMA CapBetween ==
  ASSUME inp'.maxCourts \in Nat, \A h \in DOMAIN plans' : Within(plans'[h].lines, inp'.maxCourts),
         work' = Idle, ext' = NoExt, pc' = "hour"
  PROVE  CapInv'
BY DEF CapInv

\* An hour without a plan of its own holds nothing.
LEMMA NotEnoughPlayersCap == ASSUME CapInv, HourInv, DayInv, NotEnoughPlayers PROVE CapInv'
<1>1. /\ pc = "hour" /\ plans' = Append(plans, NoPlan) /\ UNCHANGED <<inp, pc, work, ext>>
  BY DEF NotEnoughPlayers
<1>2. work = Idle /\ ext = NoExt
  BY <1>1 DEF HourInv, StageOk
<1>3. IsList(plans)
  BY DEF DayInv, PlansOk
<1>4. Appended(plans, NoPlan, plans')
  BY <1>1, <1>3, AppendHas
<1>5. Within(NoPlan.lines, inp.maxCourts)
  BY NoPlanIs, NoneHeld DEF CapInv, Within
<1>6. \A h \in DOMAIN plans' : Within(plans'[h].lines, inp.maxCourts)
  BY <1>4, <1>5, PlansWithin DEF CapInv
<1> QED
  BY <1>1, <1>2, <1>6, CapBetween DEF CapInv

\* The plan accepted is the one under construction, or the first attempt.
LEMMA AcceptPlanCap == ASSUME CapInv, HourInv, DayInv, AcceptPlan PROVE CapInv'
<1> DEFINE worse == work.attempt = 2 /\ Len(work.lines) <= Len(work.former[1])
<1>1. pc = "accept" /\ pc' = "hour" /\ work' = Idle /\ UNCHANGED <<inp, ext>>
  BY DEF AcceptPlan
<1>2. PICK lines, groups :
        /\ lines = IF worse THEN work.former[1] ELSE work.lines
        /\ plans' = Append(plans, [lines |-> lines, groups |-> groups, outside |-> Outside(lines)])
  BY DEF AcceptPlan
<1>3. work # Idle /\ ext = NoExt /\ CapOk(work, inp.maxCourts)
  BY <1>1 DEF CapInv, HourInv, StageOk
<1>4. Within(lines, inp.maxCourts)
  <2>1. CASE worse
    BY <1>2, <1>3, <2>1 DEF CapOk
  <2>2. CASE ~worse
    BY <1>2, <1>3, <2>2 DEF CapOk
  <2> QED
    BY <2>1, <2>2
<1> HIDE DEF worse
<1>5. PICK plan : plan = [lines |-> lines, groups |-> groups, outside |-> Outside(lines)]
  OBVIOUS
<1>6. plan.lines = lines
  BY <1>5
<1>7. IsList(plans)
  BY DEF DayInv, PlansOk
<1>8. Appended(plans, plan, plans')
  BY <1>2, <1>5, <1>7, AppendHas
<1>9. \A h \in DOMAIN plans' : Within(plans'[h].lines, inp.maxCourts)
  BY <1>4, <1>6, <1>8, PlansWithin DEF CapInv
<1> QED
  BY <1>1, <1>3, <1>9, CapBetween DEF CapInv

\* The rounds of late players are not those of a group or a pair.
LEMMA LateJoinedCap == ASSUME CapInv, HourInv, DayInv, LateJoined PROVE CapInv'
<1> DEFINE p == ext.session.plan
<1>1. /\ pc = "extend" /\ work = Idle /\ pc' = "hour" /\ ext' = NoExt /\ UNCHANGED <<inp, work>>
  BY DEF LateJoined, ExtensionEnds
<1>2. PICK group : plans' = Append([plans EXCEPT ![p] =
                                      WithGroup(WithBookings(@, ext.added), group)], NoPlan)
  BY DEF LateJoined
<1>3. ext # NoExt /\ ExtOk(ext, inp.free, used) /\ LateOk(ext, used, sessions, inp.window)
      /\ OwnSlots(ext.added) = {} /\ inp.maxCourts \in Nat
  BY <1>1 DEF HourInv, StageOk, CapInv
<1>4. p \in DOMAIN plans
  BY <1>3 DEF LateOk, DayInv, SessionsOk
<1> HIDE DEF p
<1>5. IsPlan(plans[p]) /\ IsList(plans)
  BY <1>4 DEF DayInv, PlansOk
<1> DEFINE old == plans[p]
           more == WithBookings(old, ext.added)
           new == WithGroup(more, group)
           mid == [plans EXCEPT ![p] = new]
<1>6. new.lines = old.lines \o ext.added
  <2>1. {"lines", "groups", "outside"} \subseteq DOMAIN old
    BY <1>5 DEF IsPlan
  <2>2. DOMAIN more = DOMAIN old /\ more.lines = old.lines \o ext.added
    BY <2>1 DEF WithBookings
  <2> HIDE DEF old, more
  <2> QED
    BY <2>1, <2>2 DEF WithGroup
<1>7. OwnSlots(new.lines) \subseteq OwnSlots(old.lines)
  <2>1. IsList(old.lines) /\ IsList(ext.added)
    BY <1>3, <1>5 DEF IsPlan, ExtOk, Fresh
  <2> HIDE DEF old, more, new
  <2> QED
    BY <1>3, <1>6, <2>1, OwnConcat
<1>8. Within(old.lines, inp.maxCourts)
  BY <1>4 DEF CapInv
<1>9. plans' = Append(mid, NoPlan)
  BY <1>2
<1> HIDE DEF old, more, new
<1>10. Within(new.lines, inp.maxCourts)
  BY <1>3, <1>7, <1>8, WithinLess
<1>11. mid = [h \in DOMAIN plans |-> mid[h]] /\ \A h \in DOMAIN plans : mid[h] = IF h = p THEN new ELSE plans[h]
  BY <1>4
<1> HIDE DEF mid
<1>12. IsList(mid)
  BY <1>5, <1>11, ListSame
<1>13. \A h \in DOMAIN mid : Within(mid[h].lines, inp.maxCourts)
  BY <1>10, <1>11 DEF CapInv
<1>14. Appended(mid, NoPlan, plans')
  BY <1>9, <1>12, AppendHas
<1>15. Within(NoPlan.lines, inp.maxCourts)
  BY NoPlanIs, NoneHeld DEF CapInv, Within
<1>16. \A h \in DOMAIN plans' : Within(plans'[h].lines, inp.maxCourts)
  BY <1>13, <1>14, <1>15, PlansWithin
<1> QED
  BY <1>1, <1>3, <1>16, CapBetween

\* Nor are those of an extension, on whatever court.
LEMMA ExtendRoundCap == ASSUME CapInv, HourInv, ExtendRound PROVE CapInv'
<1>1. /\ pc = "extend" /\ pc' = pc /\ UNCHANGED <<inp, plans, work>>
  BY DEF ExtendRound
<1>2. PICK pair : ext' = [ext EXCEPT !.added = Append(@, Line(NextSlot, pair.pair, Extension)),
                        !.queue = pair.queue, !.used = @ \cup {NextSlot}]
  BY DEF ExtendRound
<1> DEFINE line == Line(NextSlot, pair.pair, Extension)
<1>3. ~(line.of > 0)
  BY DEF Line, Extension
<1>4. ext # NoExt /\ IsList(ext.added) /\ "added" \in DOMAIN ext /\ OwnSlots(ext.added) = {}
  BY <1>1 DEF HourInv, StageOk, ExtOk, ExtFields, Fresh, CapInv
<1>5. ext'.added = Append(ext.added, line)
  BY <1>2, <1>4
<1> HIDE DEF line
<1>6. OwnSlots(ext'.added) = {}
  BY <1>3, <1>4, <1>5, OwnAppend
<1> QED
  BY <1>1, <1>6 DEF CapInv

\* Back in the rotation.
LEMMA CourtJoinedCap == ASSUME CapInv, HourInv, CourtJoined PROVE CapInv'
<1>1. /\ pc = "extend" /\ pc' = "rotate" /\ ext' = NoExt /\ work # Idle /\ UNCHANGED <<inp, plans>>
  BY DEF CourtJoined, ExtensionEnds
<1>2. PICK left, groups :
        work' = [work EXCEPT !.lines = @ \o ext.added, !.k = @ + 1, !.left = left,
                             !.queue = QueueLeft, !.extra = ext.used, !.courtGroups = groups]
  BY DEF CourtJoined
<1>3. /\ ext # NoExt /\ OwnSlots(ext.added) = {} /\ IsList(ext.added) /\ IsList(work.lines)
      /\ CapOk(work, inp.maxCourts) /\ inp.maxCourts \in Nat
  BY <1>1 DEF HourInv, StageOk, ExtOk, WorkOk, Fresh, CapInv
<1>4. /\ DOMAIN work' = DOMAIN work /\ work'.lines = work.lines \o ext.added /\ work'.t = work.t
      /\ work'.needed = work.needed /\ work'.groups = work.groups /\ work'.g = work.g
      /\ work'.former = work.former /\ work'.attempt = work.attempt
  BY <1>2, <1>3 DEF CapOk, CapFields
<1>5. OwnSlots(work'.lines) \subseteq OwnSlots(work.lines)
  BY <1>3, <1>4, OwnConcat
<1>6. Within(work'.lines, inp.maxCourts)
  BY <1>3, <1>5, WithinLess DEF CapOk
<1>7. CapOk(work', inp.maxCourts)
  BY <1>3, <1>4, <1>6 DEF CapOk
<1> QED
  BY <1>1, <1>7 DEF CapInv

\* The other steps leave the lines and the groups alone.
LEMMA RestCap ==
  ASSUME CapInv, HourInv,
         GroupsDone \/ RoundPlaced \/ NextLayer \/ LayersDone \/ JoinCourt \/ RotationDone
  PROVE  CapInv'
<1>1. work # Idle /\ CapFields \subseteq DOMAIN work
  BY DEF HourInv, StageOk, CapInv, CapOk, GroupsDone, RoundPlaced, NextLayer, LayersDone, JoinCourt,
         RotationDone
<1>2. UNCHANGED <<inp, plans>> /\ pc' \notin {"timeline", "place"}
  BY DEF GroupsDone, RoundPlaced, NextLayer, LayersDone, JoinCourt, RotationDone
<1>3. DOMAIN work' = DOMAIN work /\ \A f \in CapFields \ {"batch"} : work'[f] = work[f]
  <2>1. CASE GroupsDone \/ RoundPlaced \/ JoinCourt
    BY <2>1 DEF GroupsDone, RoundPlaced, JoinCourt
  <2>2. CASE NextLayer
    BY <1>1, <2>2 DEF NextLayer, CapFields
  <2>3. CASE LayersDone
    <3>1. PICK groups, open, left, queue :
            work' = [work EXCEPT !.extra = used, !.courtGroups = groups, !.open = open,
                                 !.left = left, !.queue = queue]
      BY <2>3 DEF LayersDone
    <3> QED
      BY <1>1, <3>1 DEF CapFields
  <2>4. CASE RotationDone
    <3>1. PICK groups : work' = [work EXCEPT !.courtGroups = groups]
      BY <2>4 DEF RotationDone
    <3> QED
      BY <1>1, <3>1 DEF CapFields
  <2> QED
    BY <2>1, <2>2, <2>3, <2>4
<1>4. ext' # NoExt => OwnSlots(ext'.added) = {}
  <2>1. CASE JoinCourt
    <3>1. ext'.added = << >>
      BY <2>1, JoiningIs DEF JoinCourt
    <3> QED
      BY <3>1, NoneHeld
  <2>2. CASE ~JoinCourt
    <3>1. ext' = ext
      BY <2>2 DEF GroupsDone, RoundPlaced, NextLayer, LayersDone, RotationDone
    <3> QED
      BY <3>1 DEF CapInv
  <2> QED
    BY <2>1, <2>2
<1> QED
  BY <1>1, <1>2, <1>3, <1>4, CapKeeps

\* The invariant holds when the day begins, and each step keeps it.
LEMMA CapInit == Init => CapInv
<1> SUFFICES ASSUME Init PROVE CapInv
  OBVIOUS
<1>1. PICK i \in Inputs : inp = [i EXCEPT !.confirmed = WithMargin(i)]
  BY DEF Init
<1>2. "maxCourts" \in DOMAIN i /\ i.maxCourts \in Nat
  BY InputsAssumption
<1>3. inp.maxCourts \in Nat
  BY <1>1, <1>2
<1>4. DOMAIN << >> = {}
  BY EmptyHas
<1>5. pc = "hour" /\ plans = << >> /\ work = Idle /\ ext = NoExt
  BY DEF Init
<1> QED
  BY <1>3, <1>4, <1>5 DEF CapInv

\* The same, with the invariant of the courts, which says what the lines are.
LEMMA CapStep == CourtsInv /\ CapInv /\ [Next]_vars => CapInv'
<1> SUFFICES ASSUME CourtsInv, CapInv, [Next]_vars PROVE CapInv'
  OBVIOUS
<1>1. DayInv /\ HourInv /\ GivenOk(inp) /\ PlansOk(plans, inp.hours, inp.window)
  BY DEF CourtsInv, DayInv
<1>2. CASE NotEnoughPlayers
  BY <1>1, <1>2, NotEnoughPlayersCap
<1>3. CASE AcceptPlan
  BY <1>1, <1>3, AcceptPlanCap
<1>4. CASE LateJoined
  BY <1>1, <1>4, LateJoinedCap
<1>5. CASE JoinSession
  <2>1. pc = "hour" /\ pc' = "extend" /\ UNCHANGED <<inp, plans, work>> /\ ext'.added = << >>
    BY <1>5, JoiningIs DEF JoinSession
  <2> QED
    BY <1>1, <2>1, NoneHeld DEF CapInv
<1>6. CASE PlanHour
  <2>1. Hour \in DOMAIN inp.hours
    BY <1>1, <1>6, HourIs DEF PlanHour
  <2>2. Start \in Nat
    BY <1>1, <2>1 DEF Start, GivenOk
  <2> QED
    BY <1>6, <2>2, BeginCap DEF PlanHour
<1>7. CASE Finish
  BY <1>7 DEF Finish, CapInv
<1>8. CASE SkipTime
  BY <1>1, <1>8, SkipTimeCap
<1>9. CASE BookGroupRound
  BY <1>1, <1>9, BookGroupRoundCap
<1>10. CASE NextGroup
  BY <1>1, <1>10, NextGroupCap
<1>11. CASE FindRound
  BY <1>1, <1>11, FindRoundCap
<1>12. CASE PlacePair
  BY <1>1, <1>12, PlacePairCap
<1>13. CASE GroupsDone \/ RoundPlaced \/ NextLayer \/ LayersDone \/ JoinCourt \/ RotationDone
  BY <1>1, <1>13, RestCap
<1>14. CASE ExtendRound
  BY <1>1, <1>14, ExtendRoundCap
<1>15. CASE CourtJoined
  BY <1>1, <1>15, CourtJoinedCap
<1>16. CASE Escalate
  <2>1. /\ pc = "accept" /\ Begin(Attempt(2, FALSE, <<work.lines, work.courtGroups>>))
        /\ UNCHANGED <<inp, plans, ext>>
    BY <1>16 DEF Escalate
  <2>2. work # Idle /\ CapOk(work, inp.maxCourts)
    BY <1>1, <2>1 DEF CapInv, HourInv, StageOk
  <2>3. Within(<<work.lines, work.courtGroups>>[1], inp.maxCourts)
    BY <2>2 DEF CapOk
  <2>4. Start \in Nat
    BY <1>1, <2>2, StartIs
  <2> QED
    BY <2>1, <2>3, <2>4, BeginCap
<1>17. CASE RetryRound \/ UNCHANGED vars
  BY <1>17 DEF RetryRound, vars, CapInv
<1> QED
  BY <1>2, <1>3, <1>4, <1>5, <1>6, <1>7, <1>8, <1>9, <1>10, <1>11, <1>12, <1>13, <1>14, <1>15,
     <1>16, <1>17 DEF Next

\* What the run checks follows from the two invariants.
LEMMA CourtsFollow == CourtsInv /\ CapInv => CourtsSound
<1> SUFFICES ASSUME CourtsInv, CapInv PROVE CourtsSound
  OBVIOUS
<1>1. DayInv /\ HourInv
  BY DEF CourtsInv
<1>2. pc \in PCs
  BY <1>1 DEF HourInv, StageOk
<1>3. (\A p \in Names : daily[p] = Count(AllLines, p)) /\ used = Slots(Booked)
  BY <1>1, LedgerIs DEF DayInv, LedgerOk
<1>4. SlotOnce
  BY SlotOnceHolds
<1>5. CourtsOfAnHour
  BY DEF CourtsOfAnHour, CapInv, Within
<1> QED
  BY <1>2, <1>3, <1>4, <1>5 DEF CourtsSound, LedgerOfTheDay

\* They hold in every state.
LEMMA CourtsInvariant == Spec => [](CourtsInv /\ CapInv)
<1>1. Init => CourtsInv /\ CapInv
  BY CourtsInit, CapInit
<1>2. CourtsInv /\ CapInv /\ [Next]_vars => CourtsInv' /\ CapInv'
  BY CourtsStep, CapStep
<1> QED
  BY <1>1, <1>2, PTL DEF Spec

\* CourtsSound of the run, for any rule, votes, volunteers and free slots: over the hours of an
\* evening, their layers, rotations and late players, a court is asked for once at a time,
\* the bookings and slots handed from one hour to the next are those of the lines planned
\* (planJobBookings: usedSessionIds, playerDailyCounts), and at no time do the groups and
\* pairs of an hour hold more courts than the rule allows (computeGroupBookingPlan: hardCap,
\* courtsUsedAtTime).
THEOREM CourtsNeverTwice == Spec => []CourtsSound
<1>1. CourtsInv /\ CapInv => CourtsSound
  BY CourtsFollow
<1> QED
  BY <1>1, CourtsInvariant, PTL

-----------------------------------------------------------------------------
(* Lists, and what they hold.                                               *)

\* A list holds what it is put together from.
LEMMA HoldsEmpty == ToSet(<< >>) = {}
<1>1. PICK e : e = << >>
  OBVIOUS
<1>2. DOMAIN e = {}
  BY <1>1, EmptyHas
<1>3. ToSet(e) = {}
  BY <1>2 DEF ToSet
<1> QED
  BY <1>1, <1>3

\* What a list holds once one more is appended.
LEMMA HoldsAppend ==
  ASSUME NEW s, IsList(s), NEW e PROVE ToSet(Append(s, e)) = ToSet(s) \cup {e}
<1>1. PICK t : t = Append(s, e)
  OBVIOUS
<1>2. Appended(s, e, t)
  BY <1>1, AppendHas
<1>3. ToSet(t) = ToSet(s) \cup {e}
  BY <1>2 DEF Appended, ToSet
<1> QED
  BY <1>1, <1>3

\* What a list holds once another follows it.
LEMMA HoldsConcat ==
  ASSUME NEW s, IsList(s), NEW t, IsList(t) PROVE ToSet(s \o t) = ToSet(s) \cup ToSet(t)
<1>1. PICK u : u = s \o t
  OBVIOUS
<1>2. Joined(s, t, u)
  BY <1>1, ConcatHas
<1>3. ASSUME NEW x \in ToSet(u) PROVE x \in ToSet(s) \cup ToSet(t)
  <2>1. PICK k \in DOMAIN u : x = u[k]
    BY DEF ToSet
  <2>2. k \in DOMAIN s \/ \E i \in DOMAIN t : k = Len(s) + i
    BY <1>2 DEF Joined
  <2> QED
    BY <1>2, <2>1, <2>2 DEF Joined, ToSet
<1>4. ToSet(s) \subseteq ToSet(u) /\ ToSet(t) \subseteq ToSet(u)
  <2>1. \A i \in DOMAIN s : i \in DOMAIN u /\ u[i] = s[i]
    BY <1>2 DEF Joined
  <2>2. \A i \in DOMAIN t : Len(s) + i \in DOMAIN u /\ u[Len(s) + i] = t[i]
    BY <1>2 DEF Joined
  <2>3. \A x \in ToSet(s) : \E i \in DOMAIN s : x = s[i]
    BY DEF ToSet
  <2>4. \A x \in ToSet(t) : \E i \in DOMAIN t : x = t[i]
    BY DEF ToSet
  <2>5. \A k \in DOMAIN u : u[k] \in ToSet(u)
    BY DEF ToSet
  <2> QED
    BY <2>1, <2>2, <2>3, <2>4, <2>5
<1> QED
  BY <1>1, <1>3, <1>4

\* A part of a list.
LEMMA PartOf ==
  ASSUME NEW s, IsList(s), NEW m \in Nat \ {0}, NEW n \in Int, n <= Len(s)
  PROVE  IsList(SubSeq(s, m, n)) /\ ToSet(SubSeq(s, m, n)) \subseteq ToSet(s)
<1>1. PICK S : S = ToSet(s)
  OBVIOUS
<1>2. \A i \in m .. n : s[i] \in S
  <2>1. DOMAIN s = 1 .. Len(s) /\ Len(s) \in Nat
    BY ListHas
  <2>2. \A i \in DOMAIN s : s[i] \in S
    BY <1>1 DEF ToSet
  <2> QED
    BY <2>1, <2>2
<1>3. PICK t : t = SubSeq(s, m, n)
  OBVIOUS
<1>4. t \in Seq(S)
  BY <1>2, <1>3, SubSeqProperties
<1>5. \A i \in DOMAIN t : t[i] \in S
  BY <1>4, LenProperties, ElementOfSeq
<1>6. ToSet(t) \subseteq S
  BY <1>5 DEF ToSet
<1> QED
  BY <1>1, <1>3, <1>4, <1>6, ListOf

\* A list without one of its elements.
LEMMA WithoutOne ==
  ASSUME NEW s, IsList(s), NEW k \in DOMAIN s
  PROVE  IsList(RemoveAt(s, k)) /\ ToSet(RemoveAt(s, k)) \subseteq ToSet(s)
<1>1. Len(s) \in Nat /\ k \in 1 .. Len(s)
  BY ListHas
<1>2. PICK a : a = SubSeq(s, 1, k - 1)
  OBVIOUS
<1>3. PICK b : b = SubSeq(s, k + 1, Len(s))
  OBVIOUS
<1>4. IsList(a) /\ ToSet(a) \subseteq ToSet(s)
  BY <1>1, <1>2, PartOf
<1>5. IsList(b) /\ ToSet(b) \subseteq ToSet(s)
  BY <1>1, <1>3, PartOf
<1>6. RemoveAt(s, k) = a \o b
  BY <1>2, <1>3 DEF RemoveAt
<1>7. Joined(a, b, a \o b)
  BY <1>4, <1>5, ConcatHas
<1>8. IsList(a \o b)
  BY <1>7 DEF Joined
<1>9. ToSet(a \o b) = ToSet(a) \cup ToSet(b)
  BY <1>4, <1>5, HoldsConcat
<1> QED
  BY <1>4, <1>5, <1>6, <1>8, <1>9

\* The elements picked of a list are those at the numbers given.
LEMMA PickedIs ==
  ASSUME NEW s, IsList(s), NEW numbers, numbers \subseteq DOMAIN s
  PROVE  IsList(Picked(s, numbers)) /\ ToSet(Picked(s, numbers)) = {s[i] : i \in numbers}
<1> DEFINE rank == [i \in numbers |-> i]
<1>1. DOMAIN s \subseteq Nat /\ IsFiniteSet(DOMAIN s)
  BY ListHas
<1>2. IsFiniteSet(numbers)
  BY <1>1, FS_Subset
<1>3. DOMAIN rank = numbers /\ \A i \in numbers : rank[i] = i
  OBVIOUS
<1> HIDE DEF rank
<1>4. Ranking(rank)
  BY <1>1, <1>2, <1>3 DEF Ranking
<1>5. PICK order : order = Sorted(rank)
  OBVIOUS
<1>6. Listing(numbers, order)
  BY <1>3, <1>4, <1>5, SortedIs
<1>7. PICK t : t = [k \in DOMAIN order |-> s[order[k]]]
  OBVIOUS
<1>8. Picked(s, numbers) = t
  BY <1>5, <1>7 DEF Picked, rank
<1>9. Len(order) \in Nat /\ DOMAIN order = 1 .. Len(order)
  BY <1>6, ListHas DEF Listing
<1>10. IsList(t)
  <2>1. t = [k \in 1 .. Len(order) |-> t[k]]
    BY <1>7, <1>9
  <2> QED
    BY <1>9, <2>1, ListFrom
<1>11. ToSet(order) = numbers
  BY <1>6 DEF Listing
<1>12. ToSet(t) = {s[i] : i \in numbers}
  <2>1. DOMAIN t = DOMAIN order /\ \A k \in DOMAIN order : t[k] = s[order[k]]
    BY <1>7
  <2> QED
    BY <1>11, <2>1 DEF ToSet
<1> QED
  BY <1>8, <1>10, <1>12

\* The numbers of a list of integers, put in order, are all there.
LEMMA InOrderIs ==
  ASSUME NEW n \in Nat, NEW value, DOMAIN value = 1 .. n, \A i \in 1 .. n : value[i] \in Int
  PROVE  Listing(1 .. n, InOrder(value))
<1> DEFINE before(i) == {j \in DOMAIN value : value[j] < value[i] \/ (value[j] = value[i] /\ j < i)}
           rank == [i \in DOMAIN value |-> Cardinality(before(i))]
<1>1. IsFiniteSet(1 .. n)
  BY FS_Interval
<1>2. ASSUME NEW i \in 1 .. n
      PROVE  IsFiniteSet(before(i)) /\ Cardinality(before(i)) \in Nat /\ i \notin before(i)
  <2>1. before(i) \subseteq 1 .. n /\ i \notin before(i)
    OBVIOUS
  <2> HIDE DEF before
  <2> QED
    BY <1>1, <2>1, FS_Subset, FS_CardinalityType
<1>3. ASSUME NEW i \in 1 .. n, NEW j \in 1 .. n,
             value[i] < value[j] \/ (value[i] = value[j] /\ i < j)
      PROVE  Cardinality(before(i)) # Cardinality(before(j))
  <2>1. \A k \in 1 .. n : k \in before(i) => k \in before(j)
    BY <1>3
  <2>2. i \in before(j) /\ before(i) \subseteq 1 .. n
    BY <1>3
  <2> HIDE DEF before
  <2>3. before(i) \cup {i} \subseteq before(j)
    BY <2>1, <2>2
  <2>4. Cardinality(before(i) \cup {i}) = Cardinality(before(i)) + 1
    BY <1>2, FS_AddElement
  <2>5. Cardinality(before(i) \cup {i}) <= Cardinality(before(j))
    BY <1>2, <2>3, FS_Subset
  <2> QED
    BY <1>2, <2>4, <2>5
<1>4. DOMAIN rank = 1 .. n /\ \A i \in 1 .. n : rank[i] = Cardinality(before(i))
  OBVIOUS
<1>5. InOrder(value) = Sorted(rank)
  BY DEF InOrder
<1> HIDE DEF rank, before
<1>6. ASSUME NEW i \in 1 .. n, NEW j \in 1 .. n, rank[i] = rank[j] PROVE i = j
  <2>1. ~(value[i] < value[j] \/ (value[i] = value[j] /\ i < j))
    BY <1>3, <1>4, <1>6
  <2>2. ~(value[j] < value[i] \/ (value[j] = value[i] /\ j < i))
    BY <1>3, <1>4, <1>6
  <2>3. value[i] \in Int /\ value[j] \in Int
    OBVIOUS
  <2> QED
    BY <2>1, <2>2, <2>3
<1>7. Ranking(rank)
  BY <1>1, <1>2, <1>4, <1>6 DEF Ranking
<1> QED
  BY <1>4, <1>5, <1>7, SortedIs

\* Members in the order of their demands are the same members.
LEMMA OrderedIs ==
  ASSUME NEW members, IsList(members), NEW slots, \A p \in DOMAIN slots : slots[p] \in Nat
  PROVE  /\ IsList(OrderMembersByDemand(members, slots))
         /\ DOMAIN OrderMembersByDemand(members, slots) = DOMAIN members
         /\ ToSet(OrderMembersByDemand(members, slots)) \subseteq ToSet(members)
<1>1. CASE Len(members) <= 2
  BY <1>1 DEF OrderMembersByDemand
<1>2. CASE ~(Len(members) <= 2)
  <2> DEFINE value == [i \in DOMAIN members |-> -Demand(members[i], slots)]
  <2>1. PICK n \in Nat : n = Len(members) /\ DOMAIN members = 1 .. n
    BY ListHas
  <2>2. \A p : Demand(p, slots) \in Nat
    BY DEF Demand, DEFAULT_MIN_PLAY_SLOTS
  <2>3. DOMAIN value = 1 .. n /\ \A i \in 1 .. n : value[i] \in Int
    <3>1. \A i \in 1 .. n : value[i] = -Demand(members[i], slots)
      BY <2>1
    <3> QED
      BY <2>1, <2>2, <3>1
  <2>4. PICK order : order = InOrder(value)
    OBVIOUS
  <2>5. PICK t : t = [i \in DOMAIN members |-> members[order[i]]]
    OBVIOUS
  <2>6. OrderMembersByDemand(members, slots) = t
    BY <1>2, <2>4, <2>5 DEF OrderMembersByDemand
  <2> HIDE DEF value
  <2>7. Listing(1 .. n, order)
    BY <2>3, <2>4, InOrderIs
  <2>8. DOMAIN order = 1 .. n
    <3>1. Cardinality(1 .. n) = n
      BY FS_Interval
    <3> QED
      BY <2>7, <3>1, ListHas DEF Listing
  <2>9. \A i \in 1 .. n : order[i] \in 1 .. n
    BY <2>7, <2>8 DEF Listing, ToSet
  <2>10. \A i \in 1 .. n : t[i] = members[order[i]]
    BY <2>1, <2>5
  <2>11. IsList(t) /\ DOMAIN t = 1 .. n
    <3>1. t = [i \in 1 .. n |-> t[i]]
      BY <2>1, <2>5
    <3> QED
      BY <3>1, ListFrom
  <2>12. ToSet(t) \subseteq ToSet(members)
    BY <2>1, <2>9, <2>10, <2>11 DEF ToSet
  <2> QED
    BY <2>1, <2>6, <2>11, <2>12
<1> QED
  BY <1>1, <1>2

-----------------------------------------------------------------------------
(* Stand-ins.                                                               *)

\* Two names, each one of a set.
IsPair(pair, S) == DOMAIN pair = 1 .. 2 /\ pair[1] \in S /\ pair[2] \in S

\* Those who may be on a line after a substitution: the pair, volunteers, the joker.
LEMMA LentIs ==
  ASSUME NEW S, NEW s, {"pair", "queue"} \subseteq DOMAIN s, IsPair(s.pair, S),
         IsList(s.queue), ToSet(s.queue) \subseteq S, NEW i \in {1, 2}, NEW blocked, NEW joker,
         NEW t, t = LendName(s, i, blocked, joker)
  PROVE  /\ {"pair", "queue"} \subseteq DOMAIN t /\ IsPair(t.pair, S)
         /\ IsList(t.queue) /\ ToSet(t.queue) \subseteq ToSet(s.queue)
<1> DEFINE free == {k \in DOMAIN s.queue :
                      ~IsBlocked(s.queue[k], blocked, joker) /\ s.queue[k] \notin ToSet(s.pair)}
<1>1. CASE ~IsBlocked(s.pair[i], blocked, joker) \/ free = {}
  <2>1. t = s
    BY <1>1 DEF LendName
  <2> QED
    BY <2>1
<1>2. CASE ~(~IsBlocked(s.pair[i], blocked, joker) \/ free = {})
  <2>1. PICK k : k = Min(free)
    OBVIOUS
  <2>2. t = [pair |-> [s.pair EXCEPT ![i] = s.queue[k]], queue |-> RemoveAt(s.queue, k)]
    BY <1>2, <2>1 DEF LendName
  <2>3. free \subseteq Nat /\ free # {} /\ free \subseteq DOMAIN s.queue
    BY <1>2, ListHas
  <2> HIDE DEF free
  <2>4. k \in DOMAIN s.queue
    BY <2>1, <2>3, MinType
  <2>5. s.queue[k] \in S
    BY <2>4 DEF ToSet
  <2>6. IsPair([s.pair EXCEPT ![i] = s.queue[k]], S)
    BY <2>5 DEF IsPair
  <2>7. PICK q : q = RemoveAt(s.queue, k)
    OBVIOUS
  <2>8. IsList(q) /\ ToSet(q) \subseteq ToSet(s.queue)
    BY <2>4, <2>7, WithoutOne
  <2> QED
    BY <2>2, <2>6, <2>7, <2>8
<1> QED
  BY <1>1, <1>2

\* ResolveBookablePair names nobody else, and leaves volunteers of the queue.
LEMMA ResolvedIs ==
  ASSUME NEW S, NEW pair, IsPair(pair, S), NEW queue, IsList(queue), ToSet(queue) \subseteq S,
         NEW blocked, NEW joker, NEW r, r = ResolveBookablePair(pair, blocked, queue, joker)
  PROVE  /\ {"pair", "queue"} \subseteq DOMAIN r
         /\ r.pair = Unbookable \/ IsPair(r.pair, S \cup {joker})
         /\ IsList(r.queue) /\ ToSet(r.queue) \subseteq ToSet(queue)
<1>1. PICK s : s = [pair |-> pair, queue |-> queue]
  OBVIOUS
<1>2. PICK a : a = LendName(s, 1, blocked, joker)
  OBVIOUS
<1>3. PICK b : b = LendName(a, 2, blocked, joker)
  OBVIOUS
<1>4. {"pair", "queue"} \subseteq DOMAIN s /\ s.pair = pair /\ s.queue = queue
  BY <1>1
<1>5. /\ {"pair", "queue"} \subseteq DOMAIN a /\ IsPair(a.pair, S)
      /\ IsList(a.queue) /\ ToSet(a.queue) \subseteq ToSet(queue)
  BY <1>2, <1>4, LentIs
<1>6. /\ {"pair", "queue"} \subseteq DOMAIN b /\ IsPair(b.pair, S)
      /\ IsList(b.queue) /\ ToSet(b.queue) \subseteq ToSet(queue)
  <2>1. ToSet(a.queue) \subseteq S
    BY <1>5
  <2>2. ToSet(b.queue) \subseteq ToSet(a.queue)
    BY <1>3, <1>5, <2>1, LentIs
  <2> QED
    BY <1>3, <1>5, <2>1, <2>2, LentIs
<1> DEFINE still == {i \in {1, 2} : IsBlocked(b.pair[i], blocked, joker)}
<1>7. r = IF still = {} THEN b
          ELSE IF joker = NoOne \/ joker \in ToSet(b.pair) \/ still = {1, 2}
               THEN [pair |-> Unbookable, queue |-> queue]
               ELSE [pair |-> WithJoker(b, still, joker), queue |-> b.queue]
  BY <1>1, <1>2, <1>3 DEF ResolveBookablePair
<1> HIDE DEF still
<1>8. IsPair(b.pair, S \cup {joker})
  BY <1>6 DEF IsPair
<1>9. IsPair(WithJoker(b, still, joker), S \cup {joker})
  <2>1. IsPair(<<b.pair[1], joker>>, S \cup {joker}) /\ IsPair(<<b.pair[2], joker>>, S \cup {joker})
    BY <1>8 DEF IsPair
  <2> QED
    BY <2>1 DEF WithJoker
<1>10. CASE r = b
  BY <1>6, <1>8, <1>10
<1>11. CASE r = [pair |-> Unbookable, queue |-> queue]
  BY <1>11
<1>12. CASE r = [pair |-> WithJoker(b, still, joker), queue |-> b.queue]
  BY <1>6, <1>9, <1>12
<1> QED
  BY <1>7, <1>10, <1>11, <1>12

LimitFields == {"pair", "queue", "lent", "over"}

\* A player at the limit gives way to somebody of the queue.
LEMMA LimitedIs ==
  ASSUME NEW S, NEW s, LimitFields \subseteq DOMAIN s, IsPair(s.pair, S), s.over \subseteq {1, 2},
         IsList(s.queue), ToSet(s.queue) \subseteq S, NEW i \in {1, 2},
         NEW t, t = UnderTheLimit(s, i)
  PROVE  /\ LimitFields \subseteq DOMAIN t /\ IsPair(t.pair, S) /\ t.over \subseteq {1, 2}
         /\ IsList(t.queue) /\ ToSet(t.queue) \subseteq ToSet(s.queue)
<1> DEFINE able == {k \in DOMAIN s.queue : s.queue[k] \notin s.lent
                                           /\ DayCount(s.queue[k]) + 1 <= inp.maxDaily}
<1>1. CASE t = s
  BY <1>1
<1>2. CASE t = [s EXCEPT !.over = @ \cup {i}]
  BY <1>2 DEF LimitFields
<1>3. CASE able # {}
  <2>1. PICK k : k = Min(able)
    OBVIOUS
  <2>2. able \subseteq Nat /\ able \subseteq DOMAIN s.queue
    BY ListHas
  <2>3. PICK name : name = s.queue[k]
    OBVIOUS
  <2>4. PICK q : q = IF DayCount(name) + 1 >= inp.maxDaily THEN RemoveAt(s.queue, k) ELSE s.queue
    OBVIOUS
  <2>5. t = s \/ t = [pair |-> [s.pair EXCEPT ![i] = name], lent |-> s.lent \cup {name},
                      over |-> s.over, queue |-> q]
    BY <1>3, <2>1, <2>3, <2>4 DEF UnderTheLimit
  <2> HIDE DEF able
  <2>6. k \in DOMAIN s.queue
    BY <1>3, <2>1, <2>2, MinType
  <2>7. name \in S
    BY <2>3, <2>6 DEF ToSet
  <2>8. IsPair([s.pair EXCEPT ![i] = name], S)
    BY <2>7 DEF IsPair
  <2>9. IsList(q) /\ ToSet(q) \subseteq ToSet(s.queue)
    BY <2>4, <2>6, WithoutOne
  <2>10. CASE t = [pair |-> [s.pair EXCEPT ![i] = name], lent |-> s.lent \cup {name},
                   over |-> s.over, queue |-> q]
    BY <2>8, <2>9, <2>10 DEF LimitFields
  <2> QED
    BY <1>1, <2>5, <2>10
<1>4. CASE able = {}
  <2>1. t = s \/ t = [s EXCEPT !.over = @ \cup {i}]
    BY <1>4 DEF UnderTheLimit
  <2> QED
    BY <1>1, <1>2, <2>1
<1> QED
  BY <1>3, <1>4

\* A list holds a player a number of times.
LEMMA Counts == ASSUME NEW lines, IsList(lines), NEW p PROVE Count(lines, p) \in Nat
<1>1. {i \in DOMAIN lines : p \in NamesOf(lines[i])} \subseteq DOMAIN lines /\ IsFiniteSet(DOMAIN lines)
  BY ListHas
<1> QED
  BY <1>1, FS_Subset, FS_CardinalityType DEF Count

\* The next round of a session names two of its members.
LEMMA NextPairIs ==
  ASSUME IsList(ext.members), Len(ext.members) >= 2, IsList(ExtLines)
  PROVE  IsPair(NextPair, ToSet(ext.members))
<1> DEFINE value == [i \in DOMAIN ext.members |-> Count(ExtLines, ext.members[i])]
<1>1. PICK n \in Nat : n = Len(ext.members) /\ DOMAIN ext.members = 1 .. n
  BY ListHas
<1>2. DOMAIN value = 1 .. n /\ \A i \in 1 .. n : value[i] \in Int
  <2>1. DOMAIN value = 1 .. n /\ \A i \in 1 .. n : value[i] = Count(ExtLines, ext.members[i])
    BY <1>1
  <2>2. \A i \in 1 .. n : Count(ExtLines, ext.members[i]) \in Int
    BY Counts
  <2> QED
    BY <2>1, <2>2
<1>3. PICK order : order = InOrder(value)
  OBVIOUS
<1>4. NextPair = <<ext.members[order[1]], ext.members[order[2]]>>
  BY <1>3 DEF NextPair
<1> HIDE DEF value
<1>5. Listing(1 .. n, order)
  BY <1>2, <1>3, InOrderIs
<1>6. DOMAIN order = 1 .. n
  <2>1. Cardinality(1 .. n) = n
    BY FS_Interval
  <2> QED
    BY <1>5, <2>1, ListHas DEF Listing
<1>7. order[1] \in 1 .. n /\ order[2] \in 1 .. n
  <2>1. 1 \in DOMAIN order /\ 2 \in DOMAIN order
    BY <1>1, <1>6
  <2>2. order[1] \in ToSet(order) /\ order[2] \in ToSet(order)
    BY <2>1 DEF ToSet
  <2>3. ToSet(order) = 1 .. n
    BY <1>5 DEF Listing
  <2> QED
    BY <2>2, <2>3
<1>8. ext.members[order[1]] \in ToSet(ext.members) /\ ext.members[order[2]] \in ToSet(ext.members)
  BY <1>1, <1>7 DEF ToSet
<1> QED
  BY <1>4, <1>8 DEF IsPair

\* Members, volunteers of the queue and the joker: nobody else is on the line of the round.
LEMMA ExtensionPairIs ==
  ASSUME NEW S, IsPair(NextPair, S), IsList(ext.queue), ToSet(ext.queue) \subseteq S,
         inp.joker \in S, RegisteredPair.pair # Unbookable
  PROVE  /\ ExtensionPair.pair = Unbookable \/ IsPair(ExtensionPair.pair, S)
         /\ IsList(ExtensionPair.queue) /\ ToSet(ExtensionPair.queue) \subseteq ToSet(ext.queue)
<1>1. PICK r : r = RegisteredPair
  OBVIOUS
<1>2. IsPair(r.pair, S) /\ IsList(r.queue) /\ ToSet(r.queue) \subseteq ToSet(ext.queue)
  <2>1. CASE ToSet(NextPair) \cap inp.unregistered = {}
    BY <1>1, <2>1 DEF RegisteredPair
  <2>2. CASE ToSet(NextPair) \cap inp.unregistered # {}
    <3>1. PICK pair, queue, blocked, joker :
            pair = NextPair /\ queue = ext.queue /\ blocked = inp.unregistered /\ joker = inp.joker
      OBVIOUS
    <3>2. IsPair(pair, S) /\ IsList(queue) /\ ToSet(queue) \subseteq S
      BY <3>1
    <3>3. r = ResolveBookablePair(pair, blocked, queue, joker)
      BY <1>1, <2>2, <3>1 DEF RegisteredPair, Registered
    <3>4. /\ r.pair = Unbookable \/ IsPair(r.pair, S \cup {joker})
          /\ IsList(r.queue) /\ ToSet(r.queue) \subseteq ToSet(queue)
      BY <3>2, <3>3, ResolvedIs
    <3> QED
      BY <1>1, <3>1, <3>4 DEF IsPair
  <2> QED
    BY <2>1, <2>2
<1>3. PICK s0 : s0 = [pair |-> r.pair, queue |-> r.queue, lent |-> {}, over |-> {}]
  OBVIOUS
<1>4. /\ LimitFields \subseteq DOMAIN s0 /\ s0.pair = r.pair /\ s0.queue = r.queue /\ s0.over = {}
  BY <1>3 DEF LimitFields
<1>5. PICK s1 : s1 = UnderTheLimit(s0, 1)
  OBVIOUS
<1>6. /\ LimitFields \subseteq DOMAIN s1 /\ IsPair(s1.pair, S) /\ s1.over \subseteq {1, 2}
      /\ IsList(s1.queue) /\ ToSet(s1.queue) \subseteq ToSet(ext.queue)
  <2>1. ToSet(s0.queue) \subseteq S
    BY <1>2, <1>4
  <2>2. /\ LimitFields \subseteq DOMAIN s1 /\ IsPair(s1.pair, S) /\ s1.over \subseteq {1, 2}
        /\ IsList(s1.queue) /\ ToSet(s1.queue) \subseteq ToSet(s0.queue)
    BY <1>2, <1>4, <1>5, <2>1, LimitedIs
  <2> QED
    BY <1>2, <1>4, <2>2
<1>7. PICK s : s = UnderTheLimit(s1, 2)
  OBVIOUS
<1>8. /\ LimitFields \subseteq DOMAIN s /\ IsPair(s.pair, S) /\ s.over \subseteq {1, 2}
      /\ IsList(s.queue) /\ ToSet(s.queue) \subseteq ToSet(ext.queue)
  <2>1. ToSet(s1.queue) \subseteq S
    BY <1>6
  <2>2. /\ LimitFields \subseteq DOMAIN s /\ IsPair(s.pair, S) /\ s.over \subseteq {1, 2}
        /\ IsList(s.queue) /\ ToSet(s.queue) \subseteq ToSet(s1.queue)
    BY <1>6, <1>7, <2>1, LimitedIs
  <2> QED
    BY <1>6, <2>2
<1>9. PICK b : b = ResolveBookablePair(s.pair, {s.pair[i] : i \in s.over}, << >>, inp.joker)
  OBVIOUS
<1>10. b.pair = Unbookable \/ IsPair(b.pair, S)
  <2>1. IsList(<< >>) /\ ToSet(<< >>) \subseteq S
    BY EmptyHas, HoldsEmpty
  <2>2. b.pair = Unbookable \/ IsPair(b.pair, S \cup {inp.joker})
    BY <1>8, <1>9, <2>1, ResolvedIs
  <2> QED
    BY <2>2 DEF IsPair
<1>11. ExtensionPair = IF s.over = {} THEN [pair |-> s.pair, queue |-> s.queue]
                       ELSE [pair |-> b.pair, queue |-> s.queue]
  BY <1>1, <1>3, <1>5, <1>7, <1>9 DEF ExtensionPair
<1>12. ExtensionPair.queue = s.queue /\ (ExtensionPair.pair = s.pair \/ ExtensionPair.pair = b.pair)
  BY <1>11
<1> QED
  BY <1>8, <1>10, <1>12

-----------------------------------------------------------------------------
(* The players of an evening.                                               *)

\* The lists of an input are lists.
PeopleOk(i) ==
  /\ IsList(i.lenders) /\ i.maxPlayers \in Nat /\ \A p \in DOMAIN i.minSlots : i.minSlots[p] \in Nat
  /\ \A h \in DOMAIN i.hours : IsList(i.confirmed[h])

\* The voters of an hour are a list, once those who were alone have moved,
LEMMA CascadeIs ==
  ASSUME NEW votes, NEW n \in Nat, n = Len(votes), \A i \in 1 .. n : IsList(votes[i])
  PROVE  /\ DOMAIN CascadeSoloVotersForward(votes) = 1 .. n
         /\ \A i \in 1 .. n : IsList(CascadeSoloVotersForward(votes)[i])
<1> DEFINE moves[i \in 1 .. n] == i < n /\ Len(votes[i]) = 1 /\ (i = 1 \/ ~moves[i - 1])
           own(i) == IF moves[i] THEN << >> ELSE votes[i]
           come(i) == IF i > 1 /\ moves[i - 1] THEN votes[i - 1] ELSE << >>
<1>1. CascadeSoloVotersForward(votes) = [i \in 1 .. n |-> own(i) \o come(i)]
  BY DEF CascadeSoloVotersForward
<1>2. IsList(<< >>)
  BY EmptyHas
<1> HIDE DEF moves
<1>3. \A i \in 1 .. n : IsList(own(i)) /\ IsList(come(i))
  BY <1>2
<1> HIDE DEF own, come
<1>4. \A i \in 1 .. n : IsList(own(i) \o come(i))
  BY <1>3, ConcatHas DEF Joined
<1> QED
  BY <1>1, <1>4

\* and those of the margin have joined.
LEMMA MarginIs ==
  ASSUME NEW votes, NEW n \in Nat, DOMAIN votes = 1 .. n, \A i \in 1 .. n : IsList(votes[i]),
         NEW lenders, IsList(lenders), NEW margin \in Nat
  PROVE  \A i \in 1 .. n : IsList(ApplyUnexpectedPlayersMargin(votes, lenders, margin)[i])
<1> DEFINE numbers == {k \in DOMAIN lenders : \A i \in DOMAIN votes : lenders[k] \notin ToSet(votes[i])}
           before(i) == margin * Cardinality({j \in 1 .. (i - 1) : votes[j] # << >>})
<1>1. PICK pool : pool = Picked(lenders, numbers)
  OBVIOUS
<1>2. IsList(pool) /\ Len(pool) \in Nat
  BY <1>1, PickedIs, ListHas
<1>3. ASSUME NEW i \in 1 .. n PROVE before(i) \in Nat
  <2>1. IsFiniteSet(1 .. (i - 1))
    BY FS_Interval
  <2>2. {j \in 1 .. (i - 1) : votes[j] # << >>} \subseteq 1 .. (i - 1)
    OBVIOUS
  <2>3. Cardinality({j \in 1 .. (i - 1) : votes[j] # << >>}) \in Nat
    BY <2>1, <2>2, FS_Subset, FS_CardinalityType
  <2> QED
    BY <2>3
<1> DEFINE more(i) == SubSeq(pool, before(i) + 1, Min({before(i) + margin, Len(pool)}))
<1>4. ApplyUnexpectedPlayersMargin(votes, lenders, margin) =
        [i \in DOMAIN votes |-> IF votes[i] = << >> THEN << >> ELSE votes[i] \o more(i)]
  BY <1>1 DEF ApplyUnexpectedPlayersMargin
<1>5. ASSUME NEW i \in 1 .. n PROVE IsList(more(i))
  <2>1. PICK b \in Nat : b = before(i)
    BY <1>3
  <2> HIDE DEF before
  <2>2. PICK m : m = Min({b + margin, Len(pool)})
    OBVIOUS
  <2>3. {b + margin, Len(pool)} \subseteq Nat /\ {b + margin, Len(pool)} # {}
    BY <1>2
  <2>4. m \in {b + margin, Len(pool)} /\ \A k \in {b + margin, Len(pool)} : m <= k
    BY <2>2, <2>3, MinType
  <2>5. m \in Int /\ m <= Len(pool)
    BY <1>2, <2>4
  <2>6. IsList(SubSeq(pool, b + 1, m))
    BY <1>2, <2>1, <2>5, PartOf
  <2> QED
    BY <2>1, <2>2, <2>6
<1> HIDE DEF more
<1>6. \A i \in 1 .. n : IsList(votes[i] \o more(i))
  BY <1>5, ConcatHas DEF Joined
<1>7. IsList(<< >>)
  BY EmptyHas
<1> QED
  BY <1>4, <1>6, <1>7

\* So are they in the input being planned.
LEMMA PeopleInit == ASSUME Init PROVE PeopleOk(inp)
<1>1. PICK i \in Inputs : inp = [i EXCEPT !.confirmed = WithMargin(i)]
  BY DEF Init
<1>2. /\ {"hours", "minSlots", "votes", "confirmed", "lenders", "margin", "maxPlayers"} \subseteq DOMAIN i
      /\ i.maxPlayers \in Nat /\ i.hours \in Seq(Nat)
      /\ i.minSlots \in [DOMAIN i.minSlots -> 1..6] /\ i.margin \in Nat
      /\ i.lenders \in Seq(DOMAIN i.minSlots)
      /\ i.votes \in Seq(Seq(DOMAIN i.minSlots)) /\ Len(i.votes) = Len(i.hours)
  BY InputsAssumption
<1>3. inp.lenders = i.lenders /\ inp.minSlots = i.minSlots /\ inp.hours = i.hours
      /\ inp.maxPlayers = i.maxPlayers /\ inp.confirmed = WithMargin(i)
  BY <1>1, <1>2
<1>4. PICK n \in Nat : n = Len(i.votes) /\ n = Len(i.hours) /\ DOMAIN i.hours = 1 .. n
                       /\ DOMAIN i.votes = 1 .. n
  BY <1>2, LenProperties
<1>5. IsList(i.lenders)
  BY <1>2, ListOf
<1>6. \A h \in 1 .. n : IsList(i.votes[h])
  <2>1. PICK T : T = Seq(DOMAIN i.minSlots)
    OBVIOUS
  <2>2. \A h \in 1 .. n : i.votes[h] \in T
    BY <1>2, <1>4, <2>1, ElementOfSeq
  <2> QED
    BY <2>1, <2>2, ListOf
<1>7. PICK c : c = CascadeSoloVotersForward(i.votes)
  OBVIOUS
<1>8. DOMAIN c = 1 .. n /\ \A h \in 1 .. n : IsList(c[h])
  BY <1>4, <1>6, <1>7, CascadeIs
<1>9. \A h \in 1 .. n : IsList(ApplyUnexpectedPlayersMargin(c, i.lenders, i.margin)[h])
  BY <1>2, <1>5, <1>8, MarginIs
<1>10. inp.confirmed = ApplyUnexpectedPlayersMargin(c, i.lenders, i.margin)
  BY <1>3, <1>7 DEF WithMargin
<1> QED
  BY <1>2, <1>3, <1>4, <1>5, <1>9, <1>10 DEF PeopleOk

-----------------------------------------------------------------------------
(* Who is counted.                                                          *)

\* Those who play this evening.
Attending == Voters \ {inp.joker}
Guests(queue, voters) == IsList(queue) /\ ToSet(queue) \cap voters = {}

\* The players of the groups that have a slot.
Seated(groups) == UNION {g.members : g \in {x \in ToSet(groups) : x.slots # {}}}
OnLines(groups, lines) ==
  /\ IsList(groups)
  /\ \A i \in DOMAIN groups : /\ {"members", "slots"} \subseteq DOMAIN groups[i]
                              /\ groups[i].slots \subseteq Slots(lines)
\* Whoever plays and is named on a line is in a group that has one.
Counted(lines, groups, who) ==
  OnLines(groups, lines) /\ NamedOn(lines) \cap who \subseteq Seated(groups)

\* A session on lines of a plan, whose members are counted with that plan.
Joinable(session, lines, groups, who) ==
  /\ IsList(session.members) /\ ToSet(session.members) \cap who \subseteq Seated(groups)
  /\ Slots(session.lines) # {} /\ Slots(session.lines) \subseteq Slots(lines)

\* The sessions opened may be joined.
Open(ss, ps, who) ==
  \A k \in DOMAIN ss : Joinable(ss[k], ps[ss[k].plan].lines, ps[ss[k].plan].groups, who)

\* The plans done so far.
DoneCounted ==
  /\ PeopleOk(inp) /\ Voters \subseteq mobilised
  /\ DOMAIN plans \subseteq DOMAIN inp.hours
  /\ \A h \in DOMAIN plans : Counted(plans[h].lines, plans[h].groups, Attending)
  /\ Open(sessions, plans, Attending)

CountFields ==
  {"players", "queue", "lines", "groups", "g", "batch", "cursor", "courtGroups", "left", "open",
   "former", "attempt", "k"}
\* The plan under construction, whatever its stage.
UnderwayOk(w, voters, who) ==
  /\ CountFields \subseteq DOMAIN w /\ Guests(w.queue, voters) /\ IsList(w.left)
  /\ OnLines(w.courtGroups, w.lines)
  /\ w.attempt # 1 => Counted(w.former[1], w.former[2], who)

\* A group of two or three.
IsGroup(members) == IsList(members) /\ DOMAIN members \in {1 .. 2, 1 .. 3}
\* Group after group: the lines not counted yet are those of the group being booked.
TimelineCounted(w, who) ==
  /\ IsList(w.groups) /\ \A g \in DOMAIN w.groups : IsGroup(w.groups[g].members)
  /\ \A i \in DOMAIN w.lines :
       \/ NamesOf(w.lines[i]) \cap who \subseteq Seated(w.courtGroups)
       \/ /\ w.lines[i].of = w.g /\ w.g \in DOMAIN w.groups
          /\ NamesOf(w.lines[i]) \cap who \subseteq ToSet(w.groups[w.g].members)
\* Layer after layer: a line names the players of its pair.
PairsNamed(w, who) ==
  /\ Len(w.players) \in Nat /\ w.cursor \in Nat \ {0}
  /\ \A i \in DOMAIN w.lines :
       /\ w.lines[i].of \in DOMAIN PairsOf(w.players)
       /\ NamesOf(w.lines[i]) \cap who \subseteq ToSet(PairsOf(w.players)[w.lines[i].of])
\* The pairs of the round being placed are there.
RoundFits(w) == w.cursor + Len(w.batch) <= Len(w.players) \div 2 + 1
\* Court after court: the members of the courts of the hour are counted with it.
RotationCounted(w, who) ==
  /\ Counted(w.lines, w.courtGroups, who)
  /\ \A k \in DOMAIN w.open : Joinable(w.open[k], w.lines, w.courtGroups, who)

\* The session being extended: its members and those who join it.
Joiners == IF work = Idle THEN ToSet(Confirmed) ELSE ToSet(work.left)
ExtCounted(e, joiners, voters, who) ==
  /\ IsList(e.members) /\ Guests(e.queue, voters)
  /\ ToSet(e.members) \subseteq ToSet(e.session.members) \cup joiners
  /\ NamedOn(e.added) \cap who \subseteq ToSet(e.members)

\* Who is counted, by stage.
StageCounted ==
  /\ work # Idle => UnderwayOk(work, Voters, Attending)
  /\ pc = "timeline" => TimelineCounted(work, Attending)
  /\ pc \in {"round", "place"} => PairsNamed(work, Attending)
  /\ pc = "place" => RoundFits(work)
  /\ work # Idle /\ pc \in {"rotate", "extend"} => RotationCounted(work, Attending)
  /\ pc = "accept" => Counted(work.lines, work.courtGroups, Attending)
  /\ ext # NoExt => ExtCounted(ext, Joiners, Voters, Attending)

CountInv == DoneCounted /\ StageCounted

\* The names of the lines of two lists, and of one line more.
LEMMA NamedConcat ==
  ASSUME NEW s, IsList(s), NEW t, IsList(t) PROVE NamedOn(s \o t) = NamedOn(s) \cup NamedOn(t)
<1>1. PICK u : u = s \o t
  OBVIOUS
<1>2. Joined(s, t, u)
  BY <1>1, ConcatHas
<1>3. \A p \in NamedOn(u) : p \in NamedOn(s) \cup NamedOn(t)
  <2>1. \A k \in DOMAIN u : k \in DOMAIN s \/ \E i \in DOMAIN t : k = Len(s) + i
    BY <1>2 DEF Joined
  <2> QED
    BY <1>2, <2>1 DEF Joined, NamedOn
<1>4. \A p \in NamedOn(s) : p \in NamedOn(u)
  BY <1>2 DEF Joined, NamedOn
<1>5. \A p \in NamedOn(t) : p \in NamedOn(u)
  <2>1. \A i \in DOMAIN t : Len(s) + i \in DOMAIN u /\ u[Len(s) + i] = t[i]
    BY <1>2 DEF Joined
  <2> QED
    BY <2>1 DEF NamedOn
<1> QED
  BY <1>1, <1>3, <1>4, <1>5

\* The names on the lines once one more line is appended.
LEMMA NamedAppend ==
  ASSUME NEW s, IsList(s), NEW line PROVE NamedOn(Append(s, line)) = NamedOn(s) \cup NamesOf(line)
<1>1. PICK t : t = Append(s, line)
  OBVIOUS
<1>2. Appended(s, line, t)
  BY <1>1, AppendHas
<1>3. NamedOn(t) = NamedOn(s) \cup NamesOf(line)
  BY <1>2 DEF Appended, NamedOn
<1> QED
  BY <1>1, <1>3

\* No line names nobody.
LEMMA NamedNone == NamedOn(<< >>) = {}
<1>1. PICK e : e = << >>
  OBVIOUS
<1>2. DOMAIN e = {}
  BY <1>1, EmptyHas
<1>3. NamedOn(e) = {}
  BY <1>2 DEF NamedOn
<1> QED
  BY <1>1, <1>3

\* Nobody is counted of a plan without lines.
LEMMA NoneCounted == ASSUME NEW who PROVE Counted(<< >>, << >>, who)
<1>1. PICK e : e = << >>
  OBVIOUS
<1>2. IsList(e) /\ DOMAIN e = {}
  BY <1>1, EmptyHas
<1>3. NamedOn(e) = {}
  BY <1>1, NamedNone
<1>4. Counted(e, e, who)
  BY <1>2, <1>3 DEF Counted, OnLines
<1> QED
  BY <1>1, <1>4

\* A group more.
LEMMA GroupAdded ==
  ASSUME NEW lines, NEW groups, OnLines(groups, lines), NEW more, NEW group,
         {"members", "slots"} \subseteq DOMAIN group, group.slots \subseteq Slots(more),
         Slots(lines) \subseteq Slots(more)
  PROVE  /\ OnLines(Append(groups, group), more)
         /\ Seated(groups) \subseteq Seated(Append(groups, group))
         /\ group.slots # {} => group.members \subseteq Seated(Append(groups, group))
<1>1. IsList(groups)
  BY DEF OnLines
<1>2. PICK t : t = Append(groups, group)
  OBVIOUS
<1>3. Appended(groups, group, t)
  BY <1>1, <1>2, AppendHas
<1>4. OnLines(t, more)
  BY <1>3 DEF Appended, OnLines
<1>5. ToSet(t) = ToSet(groups) \cup {group}
  BY <1>1, <1>2, HoldsAppend
<1>6. Seated(groups) \subseteq Seated(t) /\ (group.slots # {} => group.members \subseteq Seated(t))
  BY <1>5 DEF Seated
<1> QED
  BY <1>2, <1>4, <1>6

\* More lines, whose names are counted.
LEMMA CountedMore ==
  ASSUME NEW lines, IsList(lines), NEW add, IsList(add), NEW groups, NEW who,
         Counted(lines, groups, who), NEW more, more = lines \o add,
         NEW grown, OnLines(grown, more), Seated(groups) \subseteq Seated(grown),
         NamedOn(add) \cap who \subseteq Seated(grown)
  PROVE  Counted(more, grown, who)
<1>1. NamedOn(more) = NamedOn(lines) \cup NamedOn(add)
  BY NamedConcat
<1> QED
  BY <1>1 DEF Counted

\* A session stays one that may be joined when there are more lines and groups.
LEMMA StaysJoinable ==
  ASSUME NEW session, NEW lines, NEW groups, NEW who, Joinable(session, lines, groups, who),
         NEW more, NEW grown, Slots(lines) \subseteq Slots(more), Seated(groups) \subseteq Seated(grown)
  PROVE  Joinable(session, more, grown, who)
BY DEF Joinable

\* Volunteers are not players of the evening.
LEMMA EligibleIs ==
  ASSUME PeopleOk(inp), Voters \subseteq mobilised PROVE Guests(Eligible, Voters)
<1> DEFINE numbers == {i \in DOMAIN inp.lenders : inp.lenders[i] \notin mobilised \cup ToSet(Confirmed)}
<1>1. numbers \subseteq DOMAIN inp.lenders /\ IsList(inp.lenders)
  BY DEF PeopleOk
<1>2. Eligible = Picked(inp.lenders, numbers)
  BY DEF Eligible
<1>3. \A i \in numbers : inp.lenders[i] \notin Voters
  OBVIOUS
<1> HIDE DEF numbers
<1>4. PICK q : q = Eligible
  OBVIOUS
<1>5. IsList(q) /\ ToSet(q) = {inp.lenders[i] : i \in numbers}
  BY <1>1, <1>2, <1>4, PickedIs
<1>6. Guests(q, Voters)
  BY <1>3, <1>5 DEF Guests
<1> QED
  BY <1>4, <1>6

\* The pair of a line: of those who play this evening, it names nobody but the pair it is for.
LEMMA BookableIs ==
  ASSUME NEW pair, NEW S, IsPair(pair, S), NEW lines, NEW voters, Guests(work.queue, voters),
         NEW who, who = voters \ {inp.joker}, NEW found, found = Bookable(pair, lines)
  PROVE  /\ Guests(found.queue, voters)
         /\ found.pair # Unbookable => \A slot, of :
              NamesOf(Line(slot, found.pair, of)) \cap who \subseteq S
<1>1. PICK queue, blocked, joker :
        queue = work.queue /\ blocked = Blocked(pair, lines) /\ joker = inp.joker
  OBVIOUS
<1>2. IsList(queue) /\ ToSet(queue) \cap voters = {} /\ who = voters \ {joker}
  BY <1>1 DEF Guests
<1>3. found = [pair |-> pair, queue |-> queue] \/ found = ResolveBookablePair(pair, blocked, queue, joker)
  BY <1>1 DEF Bookable
<1> DEFINE R == S \cup ToSet(queue)
<1>4. IsPair(pair, R) /\ ToSet(queue) \subseteq R
  BY DEF IsPair
<1> HIDE DEF R
<1>5. /\ found.pair = Unbookable \/ IsPair(found.pair, R \cup {joker})
      /\ IsList(found.queue) /\ ToSet(found.queue) \subseteq ToSet(queue)
  <2>1. CASE found = [pair |-> pair, queue |-> queue]
    <3>1. found.pair = pair /\ found.queue = queue
      BY <2>1
    <3> QED
      BY <1>2, <1>4, <3>1 DEF IsPair
  <2>2. CASE found = ResolveBookablePair(pair, blocked, queue, joker)
    BY <1>2, <1>4, <2>2, ResolvedIs
  <2> QED
    BY <1>3, <2>1, <2>2
<1>6. Guests(found.queue, voters)
  BY <1>2, <1>5 DEF Guests
<1>7. ASSUME found.pair # Unbookable, NEW slot, NEW of
      PROVE  NamesOf(Line(slot, found.pair, of)) \cap who \subseteq S
  <2>1. NamesOf(Line(slot, found.pair, of)) = {found.pair[1], found.pair[2]}
    BY DEF Line, NamesOf
  <2>2. found.pair[1] \in R \cup {joker} /\ found.pair[2] \in R \cup {joker}
    BY <1>5, <1>7 DEF IsPair
  <2> QED
    BY <1>2, <2>1, <2>2 DEF R
<1> QED
  BY <1>6, <1>7

-----------------------------------------------------------------------------
(* Everybody is counted, step by step.                                      *)

\* The players of an evening stay the same.
LEMMA VotersSame == ASSUME inp' = inp PROVE Voters' = Voters /\ Attending' = Attending
<1>1. Voters' = Voters
  BY DEF Voters
<1> QED
  BY <1>1 DEF Attending

\* The plans done are not touched.
LEMMA DoneSame ==
  ASSUME DoneCounted, UNCHANGED <<inp, plans, sessions>>, mobilised \subseteq mobilised'
  PROVE  DoneCounted'
<1>1. Voters' = Voters /\ Attending' = Attending
  BY VotersSame
<1> QED
  BY <1>1 DEF DoneCounted

\* A pair names its two players.
LEMMA PairIs ==
  ASSUME NEW players, NEW i \in DOMAIN PairsOf(players)
  PROVE  IsPair(PairsOf(players)[i], ToSet(PairsOf(players)[i]))
<1>1. PICK pair : pair = PairsOf(players)[i]
  OBVIOUS
<1>2. DOMAIN pair = 1 .. 2
  BY <1>1 DEF PairsOf
<1>3. pair[1] \in ToSet(pair) /\ pair[2] \in ToSet(pair)
  BY <1>2 DEF ToSet
<1> QED
  BY <1>1, <1>2, <1>3 DEF IsPair

\* The groups of the common case are of two or three (buildGroupsForBooking).
LEMMA GroupsAre ==
  ASSUME NEW players, Len(players) \in Nat, NEW maxPlayers, NEW target \in Nat,
         NEW slots, \A p \in DOMAIN slots : slots[p] \in Nat,
         NEW groups, groups = BuildGroupsForBooking(players, maxPlayers, target, slots)
  PROVE  IsList(groups) /\ \A g \in DOMAIN groups : IsGroup(groups[g].members)
<1> DEFINE pairs == PairsOf(players)
           base == Min({target, Len(pairs)})
           overflow == FlattenSeq(SubSeq(pairs, base + 1, Len(pairs))) \o RotatorsOf(players)
           room == Min({maxPlayers, MAX_PLAYERS_PER_COURT_GROUP}) >= 3
           members(i) == IF room /\ i <= Len(overflow) THEN Append(pairs[i], overflow[i]) ELSE pairs[i]
           ordered(i) == OrderMembersByDemand(members(i), slots)
<1>1. groups = [i \in 1 .. base |->
                  [members |-> ordered(i), rounds |-> ComputeRoundsNeeded(ordered(i), slots)]]
  BY DEF BuildGroupsForBooking
<1>2. PICK n \in Nat : n = Len(players) \div 2
  OBVIOUS
<1>3. pairs = [i \in 1 .. n |-> pairs[i]] /\ \A i \in 1 .. n : pairs[i] = <<players[2 * i - 1], players[2 * i]>>
  BY <1>2 DEF PairsOf
<1> HIDE DEF pairs
<1>4. Len(pairs) = n
  BY <1>3, ListFrom
<1>5. base \in Nat /\ base <= n
  <2>1. {target, n} \subseteq Nat /\ {target, n} # {}
    OBVIOUS
  <2> QED
    BY <1>4, <2>1, MinType
<1> HIDE DEF base, overflow, room
<1>6. ASSUME NEW i \in 1 .. base PROVE IsList(members(i)) /\ DOMAIN members(i) \in {1 .. 2, 1 .. 3}
  <2>1. PICK pair : pair = pairs[i]
    OBVIOUS
  <2>2. pair = <<players[2 * i - 1], players[2 * i]>>
    BY <1>3, <1>5, <2>1
  <2>3. DOMAIN pair = 1 .. 2 /\ pair = [j \in 1 .. 2 |-> pair[j]]
    BY <2>2
  <2>4. IsList(pair) /\ Len(pair) = 2
    BY <2>3, ListFrom
  <2>5. PICK more : more = Append(pair, overflow[i])
    OBVIOUS
  <2>6. Appended(pair, overflow[i], more)
    BY <2>4, <2>5, AppendHas
  <2>7. IsList(more) /\ DOMAIN more = 1 .. 3
    BY <2>3, <2>4, <2>6 DEF Appended
  <2>8. members(i) = pair \/ members(i) = more
    BY <2>1, <2>5
  <2> HIDE DEF members
  <2> QED
    BY <2>3, <2>4, <2>7, <2>8
<1> HIDE DEF members
<1>7. ASSUME NEW i \in 1 .. base PROVE IsGroup(ordered(i))
  <2>1. PICK m : m = members(i)
    OBVIOUS
  <2>2. IsList(m) /\ DOMAIN m \in {1 .. 2, 1 .. 3}
    BY <1>6, <2>1
  <2>3. IsList(OrderMembersByDemand(m, slots)) /\ DOMAIN OrderMembersByDemand(m, slots) = DOMAIN m
    BY <2>2, OrderedIs
  <2> QED
    BY <2>1, <2>2, <2>3 DEF IsGroup
<1> HIDE DEF ordered
<1>8. DOMAIN groups = 1 .. base /\ groups = [i \in 1 .. base |-> groups[i]]
      /\ \A i \in 1 .. base : groups[i].members = ordered(i)
  BY <1>1
<1>9. IsList(groups)
  BY <1>5, <1>8, ListFrom
<1> QED
  BY <1>7, <1>8, <1>9

\* An attempt begins with nobody on a line.
LEMMA AttemptCounted ==
  ASSUME PeopleOk(inp), Voters \subseteq mobilised, inp.maxCourts \in Nat,
         NEW number, NEW preferMin, NEW former,
         number # 1 => Counted(former[1], former[2], Attending),
         NEW w, w = Attempt(number, preferMin, former)
  PROVE  /\ UnderwayOk(w, Voters, Attending) /\ PairsNamed(w, Attending)
         /\ Counted(w.lines, w.courtGroups, Attending)
         /\ w.common => TimelineCounted(w, Attending)
<1> DEFINE players == PrioritizePlayers(Confirmed, inp.priorityBookers)
           raw == CourtsNeededForPlayers(Len(players), preferMin)
           needed == Min({raw, SQUASH_COURT_COUNT, inp.maxCourts})
           groups == BuildGroupsForBooking(players, inp.maxPlayers, needed, inp.minSlots)
<1>1. PICK e : e = << >>
  OBVIOUS
<1>2. /\ CountFields \subseteq DOMAIN w /\ w.players = players /\ w.queue = Eligible /\ w.cursor = 1
      /\ w.lines = e /\ w.courtGroups = e /\ w.left = e /\ w.former = former /\ w.attempt = number
      /\ w.common => w.groups = groups
  BY <1>1 DEF Attempt, CountFields
<1>3. IsList(e) /\ DOMAIN e = {} /\ Counted(e, e, Attending)
  BY <1>1, EmptyHas, NoneCounted
<1>4. UnderwayOk(w, Voters, Attending)
  BY <1>2, <1>3, EligibleIs DEF UnderwayOk, Counted
<1>5. Len(players) \in Nat
  BY PlayersCounted
<1>6. PairsNamed(w, Attending)
  BY <1>2, <1>3, <1>5 DEF PairsNamed
<1> HIDE DEF players
<1>7. raw \in Nat
  BY <1>5, CourtsCounted
<1> HIDE DEF raw
<1>8. needed \in Nat
  <2>1. {raw, SQUASH_COURT_COUNT, inp.maxCourts} \subseteq Nat
    BY <1>7 DEF SQUASH_COURT_COUNT
  <2> QED
    BY <2>1, MinType
<1> HIDE DEF needed
<1>9. IsList(groups) /\ \A g \in DOMAIN groups : IsGroup(groups[g].members)
  BY <1>5, <1>8, GroupsAre DEF PeopleOk
<1> HIDE DEF groups
<1>10. w.common => TimelineCounted(w, Attending)
  BY <1>2, <1>3, <1>9 DEF TimelineCounted
<1> QED
  BY <1>2, <1>3, <1>4, <1>6, <1>10

\* An hour's attempt begins: nobody is placed yet, and the former attempt counts its own.
LEMMA BeginCounted ==
  ASSUME DoneCounted, inp.maxCourts \in Nat, NEW number, NEW preferMin, NEW former,
         number # 1 => Counted(former[1], former[2], Attending),
         Begin(Attempt(number, preferMin, former)), ext = NoExt,
         UNCHANGED <<inp, plans, sessions, mobilised, ext>>
  PROVE  CountInv'
<1>1. Voters' = Voters /\ Attending' = Attending /\ DoneCounted'
  BY VotersSame, DoneSame
<1>2. /\ UnderwayOk(work', Voters, Attending) /\ PairsNamed(work', Attending)
      /\ Counted(work'.lines, work'.courtGroups, Attending)
      /\ work'.common => TimelineCounted(work', Attending)
  BY AttemptCounted DEF Begin, DoneCounted
<1>3. pc' \in {"accept", "timeline", "round"} /\ (pc' = "timeline" => work'.common)
  BY DEF Begin
<1> QED
  BY <1>1, <1>2, <1>3 DEF CountInv, StageCounted

\* The lines of a group or pair.
LEMMA LinesOfIs ==
  ASSUME NEW lines, IsList(lines), NEW of
  PROVE  /\ DOMAIN LinesOf(lines, of) = {i \in DOMAIN lines : lines[i].of = of}
         /\ \A i \in DOMAIN LinesOf(lines, of) : LinesOf(lines, of)[i] = lines[i]
         /\ Slots(LinesOf(lines, of)) \subseteq Slots(lines)
         /\ \A i \in DOMAIN lines : lines[i].of = of => lines[i].slot \in Slots(LinesOf(lines, of))
         /\ Cardinality(DOMAIN LinesOf(lines, of)) \in Nat
<1> DEFINE own == {i \in DOMAIN lines : lines[i].of = of}
<1>1. LinesOf(lines, of) = [i \in own |-> lines[i]]
  BY DEF LinesOf, RestrictValues, Restrict
<1>2. PICK t : t = LinesOf(lines, of)
  OBVIOUS
<1>3. DOMAIN t = own /\ \A i \in own : t[i] = lines[i]
  BY <1>1, <1>2
<1>4. own \subseteq DOMAIN lines /\ IsFiniteSet(DOMAIN lines)
  BY ListHas
<1>5. Cardinality(own) \in Nat
  <2> HIDE DEF own
  <2> QED
    BY <1>4, FS_Subset, FS_CardinalityType
<1>6. Slots(t) \subseteq Slots(lines) /\ \A i \in DOMAIN lines : lines[i].of = of => lines[i].slot \in Slots(t)
  BY <1>3 DEF Slots
<1> QED
  BY <1>2, <1>3, <1>5, <1>6

\* What is under construction keeps what holds of it when its lines, groups and queue do not change.
LEMMA UnderwayKeeps ==
  ASSUME NEW w, NEW voters, NEW who, UnderwayOk(w, voters, who), NEW v, DOMAIN v = DOMAIN w,
         v.queue = w.queue, v.left = w.left, v.lines = w.lines, v.courtGroups = w.courtGroups,
         v.former = w.former, v.attempt = w.attempt
  PROVE  UnderwayOk(v, voters, who)
BY DEF UnderwayOk

\* The step goes on planning an hour.
LEMMA PlanningCounted ==
  ASSUME CountInv, HourInv, UNCHANGED <<inp, plans, sessions, mobilised, ext>>, ext = NoExt,
         UnderwayOk(work', Voters, Attending),
         pc' \in {"timeline", "round", "place", "rotate", "accept"},
         pc' = "timeline" => TimelineCounted(work', Attending),
         pc' \in {"round", "place"} => PairsNamed(work', Attending),
         pc' = "place" => RoundFits(work'),
         pc' = "rotate" => RotationCounted(work', Attending),
         pc' = "accept" => Counted(work'.lines, work'.courtGroups, Attending)
  PROVE  CountInv'
<1>1. Voters' = Voters /\ Attending' = Attending /\ DoneCounted'
  BY VotersSame, DoneSame DEF CountInv
<1> QED
  BY <1>1 DEF CountInv, StageCounted

\* A group looks at a later time.
LEMMA SkipTimeCounted == ASSUME CountInv, HourInv, SkipTime PROVE CountInv'
<1>1. /\ pc = "timeline" /\ pc' = pc /\ UNCHANGED <<inp, plans, sessions, mobilised, ext>>
      /\ work' = [work EXCEPT !.t = @ + 1]
  BY DEF SkipTime
<1>2. work # Idle /\ ext = NoExt
  BY <1>1 DEF HourInv, StageOk
<1>3. UnderwayOk(work, Voters, Attending) /\ TimelineCounted(work, Attending)
  BY <1>1, <1>2 DEF CountInv, StageCounted
<1>4. /\ DOMAIN work' = DOMAIN work /\ work'.lines = work.lines /\ work'.queue = work.queue
      /\ work'.left = work.left /\ work'.courtGroups = work.courtGroups /\ work'.former = work.former
      /\ work'.attempt = work.attempt /\ work'.groups = work.groups /\ work'.g = work.g
  BY <1>1
<1>5. UnderwayOk(work', Voters, Attending)
  BY <1>3, <1>4, UnderwayKeeps
<1>6. TimelineCounted(work', Attending)
  BY <1>3, <1>4 DEF TimelineCounted
<1> QED
  BY <1>1, <1>2, <1>5, <1>6, PlanningCounted

\* The names on the line of a round are two members of the group, whichever the round.
LEMMA GroupRoundIs ==
  ASSUME IsList(work.lines), IsGroup(work.groups[work.g].members)
  PROVE  IsPair(GroupRound, ToSet(work.groups[work.g].members))
<1>1. PICK m : m = work.groups[work.g].members
  OBVIOUS
<1>2. PICK r \in Nat : r = Cardinality(DOMAIN OwnLines)
  BY LinesOfIs DEF OwnLines
<1>3. PICK n : n = TeamrNamesForRound(Len(m), r)
  OBVIOUS
<1>4. GroupRound = <<m[n[1]], m[n[2]]>>
  BY <1>1, <1>2, <1>3 DEF GroupRound
<1>5. Len(m) \in Nat /\ DOMAIN m = 1 .. Len(m) /\ DOMAIN m \in {1 .. 2, 1 .. 3}
  BY <1>1, ListHas DEF IsGroup
<1>6. n[1] \in DOMAIN m /\ n[2] \in DOMAIN m
  <2>1. CASE Len(m) # 3
    <3>1. n = <<1, 2>>
      BY <1>3, <2>1 DEF TeamrNamesForRound
    <3> QED
      BY <1>5, <3>1
  <2>2. CASE Len(m) = 3
    <3>1. n = << <<1, 2>>, <<1, 3>>, <<2, 3>> >>[(r % 3) + 1]
      BY <1>3, <2>2 DEF TeamrNamesForRound
    <3>2. r % 3 \in {0, 1, 2}
      OBVIOUS
    <3>3. n \in {<<1, 2>>, <<1, 3>>, <<2, 3>>}
      BY <3>1, <3>2
    <3> QED
      BY <1>5, <2>2, <3>3
  <2> QED
    BY <2>1, <2>2
<1>7. m[n[1]] \in ToSet(m) /\ m[n[2]] \in ToSet(m)
  BY <1>6 DEF ToSet
<1> QED
  BY <1>1, <1>4, <1>7 DEF IsPair

\* The line of a round names players of the group being booked.
LEMMA BookGroupRoundCounted ==
  ASSUME CountInv, CapInv, HourInv, BookGroupRound PROVE CountInv'
<1> DEFINE found == Bookable(GroupRound, OwnLines)
<1>1. /\ pc = "timeline" /\ pc' = pc /\ UNCHANGED <<inp, plans, sessions, mobilised, ext>>
      /\ work.g <= Len(work.groups) /\ found.pair # Unbookable
  BY DEF BookGroupRound
<1>2. PICK court :
        work' = [work EXCEPT !.lines = Append(@, Line(<<court, work.t>>, found.pair, work.g)),
                             !.queue = found.queue, !.court = court, !.t = @ + 1]
  BY DEF BookGroupRound
<1>3. work # Idle /\ ext = NoExt
  BY <1>1 DEF HourInv, StageOk
<1>4. UnderwayOk(work, Voters, Attending) /\ TimelineCounted(work, Attending)
  BY <1>1, <1>3 DEF CountInv, StageCounted
<1>5. IsList(work.lines)
  BY <1>3 DEF HourInv, WorkOk, Fresh
<1>6. CASE work.g \in DOMAIN work.groups
  <2>1. PICK m : m = work.groups[work.g].members
    OBVIOUS
  <2>2. IsPair(GroupRound, ToSet(m))
    BY <1>4, <1>5, <1>6, <2>1, GroupRoundIs DEF TimelineCounted
  <2>3. PICK pair, S, mine : pair = GroupRound /\ S = ToSet(m) /\ mine = OwnLines
    OBVIOUS
  <2>4. found = Bookable(pair, mine) /\ IsPair(pair, S)
    BY <2>2, <2>3
  <2>5. Guests(work.queue, Voters)
    BY <1>4 DEF UnderwayOk
  <2> HIDE DEF found
  <2>6. /\ Guests(found.queue, Voters)
        /\ \A slot, of : NamesOf(Line(slot, found.pair, of)) \cap Attending \subseteq S
    <3>1. PICK voters, who, f : voters = Voters /\ who = Attending /\ f = found
      OBVIOUS
    <3>2. who = voters \ {inp.joker}
      BY <3>1 DEF Attending
    <3>3. /\ Guests(f.queue, voters)
          /\ f.pair # Unbookable => \A slot, of : NamesOf(Line(slot, f.pair, of)) \cap who \subseteq S
      BY <2>4, <2>5, <3>1, <3>2, BookableIs
    <3> QED
      BY <1>1, <3>1, <3>3
  <2>7. PICK line : line = Line(<<court, work.t>>, found.pair, work.g)
    OBVIOUS
  <2>8. line.of = work.g /\ NamesOf(line) \cap Attending \subseteq S
    <3>1. line.of = work.g
      BY <2>7 DEF Line
    <3> QED
      BY <2>6, <2>7, <3>1
  <2>9. /\ DOMAIN work' = DOMAIN work /\ work'.lines = Append(work.lines, line)
        /\ work'.queue = found.queue
        /\ work'.left = work.left /\ work'.courtGroups = work.courtGroups /\ work'.former = work.former
        /\ work'.attempt = work.attempt /\ work'.groups = work.groups /\ work'.g = work.g
    <3>1. {"lines", "queue"} \subseteq DOMAIN work
      BY <1>4 DEF UnderwayOk, CountFields
    <3> QED
      BY <1>2, <2>7, <3>1
  <2>10. Appended(work.lines, line, work'.lines)
    BY <1>5, <2>9, AppendHas
  <2>11. Slots(work.lines) \subseteq Slots(work'.lines)
    BY <2>10 DEF Appended, Slots
  <2>12. UnderwayOk(work', Voters, Attending)
    BY <1>4, <2>6, <2>9, <2>11 DEF UnderwayOk, OnLines
  <2>13. TimelineCounted(work', Attending)
    BY <1>4, <1>6, <2>1, <2>3, <2>8, <2>9, <2>10 DEF TimelineCounted, Appended
  <2> QED
    BY <1>1, <1>3, <2>12, <2>13, PlanningCounted
<1>7. work.g \in DOMAIN work.groups
  <2>1. IsList(work.groups)
    BY <1>4 DEF TimelineCounted
  <2>2. work.g \in Nat \ {0}
    BY <1>3 DEF CapInv, CapOk
  <2> QED
    BY <1>1, <2>1, <2>2, ListHas
<1> QED
  BY <1>6, <1>7

\* A group that is done is counted, with the slots of its lines.
LEMMA NextGroupCounted == ASSUME CountInv, HourInv, NextGroup PROVE CountInv'
<1> DEFINE m == work.groups[work.g].members
           group == [members |-> ToSet(m), slots |-> Slots(OwnLines)]
<1>1. /\ pc = "timeline" /\ pc' = pc /\ UNCHANGED <<inp, plans, sessions, mobilised, ext>>
      /\ work' = [work EXCEPT !.g = @ + 1, !.t = Start, !.court = 0, !.courtGroups = Append(@, group)]
  BY DEF NextGroup
<1>2. /\ {"members", "slots"} \subseteq DOMAIN group
      /\ group.members = ToSet(m) /\ group.slots = Slots(OwnLines)
  OBVIOUS
<1> HIDE DEF group
<1>3. work # Idle /\ ext = NoExt
  BY <1>1 DEF HourInv, StageOk
<1>4. UnderwayOk(work, Voters, Attending) /\ TimelineCounted(work, Attending)
  BY <1>1, <1>3 DEF CountInv, StageCounted
<1>5. IsList(work.lines)
  BY <1>3 DEF HourInv, WorkOk, Fresh
<1>6. /\ DOMAIN work' = DOMAIN work /\ work'.lines = work.lines /\ work'.queue = work.queue
      /\ work'.left = work.left /\ work'.courtGroups = Append(work.courtGroups, group)
      /\ work'.former = work.former /\ work'.attempt = work.attempt /\ work'.groups = work.groups
  <2>1. "courtGroups" \in DOMAIN work
    BY <1>4 DEF UnderwayOk, CountFields
  <2> QED
    BY <1>1, <2>1
<1>7. PICK lines, own : lines = work.lines /\ own = OwnLines
  OBVIOUS
<1>8. Slots(own) \subseteq Slots(lines) /\ \A i \in DOMAIN lines : lines[i].of = work.g => lines[i].slot \in Slots(own)
  BY <1>5, <1>7, LinesOfIs DEF OwnLines
<1>9. /\ OnLines(work'.courtGroups, lines)
      /\ Seated(work.courtGroups) \subseteq Seated(work'.courtGroups)
      /\ group.slots # {} => group.members \subseteq Seated(work'.courtGroups)
  <2>1. OnLines(work.courtGroups, lines) /\ group.slots \subseteq Slots(lines)
    BY <1>2, <1>4, <1>7, <1>8 DEF UnderwayOk
  <2>2. PICK old, one, grown : old = work.courtGroups /\ one = group /\ grown = work'.courtGroups
    OBVIOUS
  <2>3. /\ grown = Append(old, one) /\ OnLines(old, lines) /\ one.slots \subseteq Slots(lines)
        /\ {"members", "slots"} \subseteq DOMAIN one
    BY <1>2, <1>6, <2>1, <2>2
  <2>4. /\ OnLines(grown, lines) /\ Seated(old) \subseteq Seated(grown)
        /\ one.slots # {} => one.members \subseteq Seated(grown)
    BY <2>3, GroupAdded
  <2> QED
    BY <2>2, <2>4
<1>10. UnderwayOk(work', Voters, Attending)
  BY <1>4, <1>6, <1>7, <1>9 DEF UnderwayOk
<1>11. ASSUME NEW i \in DOMAIN lines
       PROVE  NamesOf(lines[i]) \cap Attending \subseteq Seated(work'.courtGroups)
  <2>1. CASE NamesOf(lines[i]) \cap Attending \subseteq Seated(work.courtGroups)
    BY <1>9, <2>1
  <2>2. CASE lines[i].of = work.g /\ NamesOf(lines[i]) \cap Attending \subseteq ToSet(m)
    BY <1>2, <1>7, <1>8, <1>9, <2>2
  <2> QED
    BY <1>4, <1>7, <2>1, <2>2 DEF TimelineCounted
<1>12. TimelineCounted(work', Attending)
  BY <1>4, <1>6, <1>7, <1>11 DEF TimelineCounted
<1> QED
  BY <1>1, <1>3, <1>10, <1>12, PlanningCounted

\* When all the groups are, everybody is.
LEMMA GroupsDoneCounted == ASSUME CountInv, CapInv, HourInv, GroupsDone PROVE CountInv'
<1>1. /\ pc = "timeline" /\ pc' = "accept" /\ UNCHANGED <<inp, plans, sessions, mobilised, work, ext>>
      /\ work.g > Len(work.groups)
  BY DEF GroupsDone
<1>2. work # Idle /\ ext = NoExt
  BY <1>1 DEF HourInv, StageOk
<1>3. UnderwayOk(work, Voters, Attending) /\ TimelineCounted(work, Attending)
  BY <1>1, <1>2 DEF CountInv, StageCounted
<1>4. work.g \notin DOMAIN work.groups
  <2>1. IsList(work.groups) /\ work.g \in Nat
    BY <1>2, <1>3 DEF TimelineCounted, CapInv, CapOk
  <2> QED
    BY <1>1, <2>1, ListHas
<1>5. NamedOn(work.lines) \cap Attending \subseteq Seated(work.courtGroups)
  BY <1>3, <1>4 DEF TimelineCounted, NamedOn
<1>6. Counted(work.lines, work.courtGroups, Attending)
  BY <1>3, <1>5 DEF UnderwayOk, Counted
<1> QED
  BY <1>1, <1>2, <1>3, <1>6, PlanningCounted

\* Half a number of players is a number of pairs.
LEMMA HalfIs == ASSUME NEW k \in Nat PROVE k \div 2 \in Nat
OBVIOUS

\* There is a pair for each two players.
LEMMA PairsAre ==
  ASSUME NEW players, Len(players) \in Nat
  PROVE  /\ Len(PairsOf(players)) = Len(players) \div 2 /\ IsList(PairsOf(players))
         /\ DOMAIN PairsOf(players) = 1 .. (Len(players) \div 2)
<1>1. PICK n \in Nat : n = Len(players) \div 2
  OBVIOUS
<1>2. PICK pairs : pairs = PairsOf(players)
  OBVIOUS
<1>3. DOMAIN pairs = 1 .. n /\ pairs = [i \in 1 .. n |-> pairs[i]]
  BY <1>1, <1>2 DEF PairsOf
<1>4. Len(pairs) = n /\ IsList(pairs)
  BY <1>3, ListFrom
<1> QED
  BY <1>1, <1>2, <1>3, <1>4

\* A round is found for pairs that are there.
LEMMA FindRoundCounted == ASSUME CountInv, HourInv, GivenOk(inp), FindRound PROVE CountInv'
<1> DEFINE size == Max({r[1] : r \in Rounds})
           t == Min({r[2] : r \in {x \in Rounds : x[1] = size}})
<1>1. /\ pc = "round" /\ pc' = "place" /\ Rounds # {}
      /\ UNCHANGED <<inp, plans, sessions, mobilised, ext>>
  BY DEF FindRound
<1>2. PICK courts : work' = [work EXCEPT !.batch = [i \in 1..size |-> <<courts[i], t>>],
                                         !.taken = @ \cup {t}, !.rounds = @ + 1]
  BY DEF FindRound
<1>3. size \in Nat /\ size \in Sizes
  BY <1>1, RoundChosen
<1> HIDE DEF size, t
<1>4. work # Idle /\ ext = NoExt
  BY <1>1 DEF HourInv, StageOk
<1>5. UnderwayOk(work, Voters, Attending) /\ PairsNamed(work, Attending)
  BY <1>1, <1>4 DEF CountInv, StageCounted
<1>6. PICK batch : batch = [i \in 1..size |-> <<courts[i], t>>]
  OBVIOUS
<1>7. /\ DOMAIN work' = DOMAIN work /\ work'.lines = work.lines /\ work'.queue = work.queue
      /\ work'.left = work.left /\ work'.courtGroups = work.courtGroups /\ work'.former = work.former
      /\ work'.attempt = work.attempt /\ work'.players = work.players /\ work'.cursor = work.cursor
      /\ work'.batch = batch
  BY <1>2, <1>5, <1>6 DEF UnderwayOk, CountFields
<1>8. Len(batch) = size
  <2>1. batch = [i \in 1 .. size |-> batch[i]]
    BY <1>6
  <2> QED
    BY <1>3, <2>1, ListFrom
<1>9. RoundFits(work')
  <2>1. work.cursor + size - 1 <= Len(Pairs)
    BY <1>3 DEF Sizes
  <2>2. Len(Pairs) = Len(work.players) \div 2 /\ Len(work.players) \in Nat /\ work.cursor \in Nat
    BY <1>5, PairsAre DEF PairsNamed, Pairs
  <2>3. PICK n, c : n = Len(work.players) \div 2 /\ c = work.cursor
    OBVIOUS
  <2>4. n \in Nat /\ c \in Nat /\ c + size - 1 <= n
    BY <2>1, <2>2, <2>3, HalfIs
  <2>5. c + size <= n + 1
    BY <1>3, <2>4
  <2> QED
    BY <1>7, <1>8, <2>3, <2>5 DEF RoundFits
<1>10. UnderwayOk(work', Voters, Attending)
  BY <1>5, <1>7, UnderwayKeeps
<1>11. PairsNamed(work', Attending)
  BY <1>5, <1>7 DEF PairsNamed
<1> QED
  BY <1>1, <1>4, <1>9, <1>10, <1>11, PlanningCounted

\* The line of a pair names players of the pair.
LEMMA PlacePairCounted == ASSUME CountInv, HourInv, PlacePair PROVE CountInv'
<1> DEFINE found == Bookable(Pairs[work.cursor], work.lines)
           line == Line(work.batch[1], found.pair, work.cursor)
<1>1. /\ pc = "place" /\ pc' = pc /\ UNCHANGED <<inp, plans, sessions, mobilised, ext>>
      /\ work.batch # << >>
      /\ work' = [work EXCEPT !.batch = Tail(@), !.cursor = @ + 1, !.queue = found.queue,
                  !.lines = IF found.pair = Unbookable THEN @ ELSE Append(@, line)]
  BY DEF PlacePair
<1>2. work # Idle /\ ext = NoExt
  BY <1>1 DEF HourInv, StageOk
<1>3. UnderwayOk(work, Voters, Attending) /\ PairsNamed(work, Attending) /\ RoundFits(work)
  BY <1>1, <1>2 DEF CountInv, StageCounted
<1>4. IsList(work.lines) /\ IsList(work.batch)
  BY <1>1, <1>2 DEF HourInv, WorkOk, Fresh, BatchOk
<1>5. line.of = work.cursor
  BY DEF Line
<1>6. Len(work.batch) \in Nat \ {0} /\ Len(Tail(work.batch)) = Len(work.batch) - 1
  BY <1>1, <1>4, TailShorter
<1>7. work.cursor \in Nat \ {0} /\ work.cursor \in DOMAIN Pairs
  <2>1. work.cursor \in Nat \ {0} /\ Len(work.players) \in Nat
    BY <1>3 DEF PairsNamed
  <2>2. DOMAIN Pairs = 1 .. (Len(work.players) \div 2)
    BY <2>1, PairsAre DEF Pairs
  <2>3. PICK n, c, b : n = Len(work.players) \div 2 /\ c = work.cursor /\ b = Len(work.batch)
    OBVIOUS
  <2>4. n \in Nat
    BY <2>1, <2>3, HalfIs
  <2>5. c + b <= n + 1
    BY <1>3, <2>3 DEF RoundFits
  <2>6. c \in Nat \ {0} /\ b \in Nat \ {0}
    BY <1>6, <2>1, <2>3
  <2>7. c \in 1 .. n
    BY <2>4, <2>5, <2>6
  <2> QED
    BY <2>1, <2>2, <2>3, <2>7
<1>8. PICK pair, S : pair = Pairs[work.cursor] /\ S = ToSet(pair)
  OBVIOUS
<1>9. IsPair(pair, S)
  BY <1>7, <1>8, PairIs DEF Pairs
<1>10. /\ Guests(found.queue, Voters)
       /\ found.pair # Unbookable => NamesOf(line) \cap Attending \subseteq S
  <2>1. PICK voters, who, f, lines :
          voters = Voters /\ who = Attending /\ f = found /\ lines = work.lines
    OBVIOUS
  <2>2. who = voters \ {inp.joker}
    BY <2>1 DEF Attending
  <2>3. f = Bookable(pair, lines)
    BY <1>8, <2>1
  <2>4. Guests(work.queue, voters)
    BY <1>3, <2>1 DEF UnderwayOk
  <2>5. /\ Guests(f.queue, voters)
        /\ f.pair # Unbookable => \A slot, of : NamesOf(Line(slot, f.pair, of)) \cap who \subseteq S
    BY <1>9, <2>2, <2>3, <2>4, BookableIs
  <2> QED
    BY <2>1, <2>5
<1> HIDE DEF found, line
<1>11. /\ DOMAIN work' = DOMAIN work /\ work'.queue = found.queue
       /\ work'.left = work.left /\ work'.courtGroups = work.courtGroups /\ work'.former = work.former
       /\ work'.attempt = work.attempt /\ work'.players = work.players /\ work'.cursor = work.cursor + 1
       /\ work'.batch = Tail(work.batch)
       /\ \/ work'.lines = work.lines
          \/ work'.lines = Append(work.lines, line) /\ found.pair # Unbookable
  BY <1>1, <1>3 DEF UnderwayOk, CountFields
<1>12. RoundFits(work')
  <2>1. PICK n : n = Len(work.players) \div 2
    OBVIOUS
  <2>2. PICK c, b : c = work.cursor /\ b = Len(work.batch)
    OBVIOUS
  <2>3. c + b <= n + 1 /\ c \in Nat /\ b \in Nat
    BY <1>3, <1>6, <1>7, <2>1, <2>2 DEF RoundFits
  <2>4. (c + 1) + (b - 1) = c + b
    BY <2>3
  <2> QED
    BY <1>6, <1>11, <2>1, <2>2, <2>3, <2>4 DEF RoundFits
<1>13. CASE work'.lines = work.lines
  <2>1. UnderwayOk(work', Voters, Attending)
    BY <1>3, <1>10, <1>11, <1>13 DEF UnderwayOk
  <2>2. PairsNamed(work', Attending)
    BY <1>3, <1>7, <1>11, <1>13 DEF PairsNamed
  <2> QED
    BY <1>1, <1>2, <1>12, <2>1, <2>2, PlanningCounted
<1>14. CASE work'.lines = Append(work.lines, line) /\ found.pair # Unbookable
  <2>1. Appended(work.lines, line, work'.lines)
    BY <1>4, <1>14, AppendHas
  <2>2. Slots(work.lines) \subseteq Slots(work'.lines)
    BY <2>1 DEF Appended, Slots
  <2>3. UnderwayOk(work', Voters, Attending)
    BY <1>3, <1>10, <1>11, <2>2 DEF UnderwayOk, OnLines
  <2>4. NamesOf(line) \cap Attending \subseteq ToSet(PairsOf(work.players)[line.of])
        /\ line.of \in DOMAIN PairsOf(work.players)
    BY <1>5, <1>7, <1>8, <1>10, <1>14 DEF Pairs
  <2>5. PairsNamed(work', Attending)
    BY <1>3, <1>7, <1>11, <2>1, <2>4 DEF PairsNamed, Appended
  <2> QED
    BY <1>1, <1>2, <1>12, <2>3, <2>5, PlanningCounted
<1> QED
  BY <1>11, <1>13, <1>14

\* The pairs of a round have been placed.
LEMMA RoundPlacedCounted == ASSUME CountInv, HourInv, RoundPlaced PROVE CountInv'
<1>1. /\ pc = "place" /\ pc' = "round" /\ UNCHANGED <<inp, plans, sessions, mobilised, work, ext>>
  BY DEF RoundPlaced
<1>2. work # Idle /\ ext = NoExt
  BY <1>1 DEF HourInv, StageOk
<1>3. UnderwayOk(work, Voters, Attending) /\ PairsNamed(work, Attending)
  BY <1>1, <1>2 DEF CountInv, StageCounted
<1> QED
  BY <1>1, <1>2, <1>3, PlanningCounted

\* The next layer begins with the first pair.
LEMMA NextLayerCounted == ASSUME CountInv, HourInv, NextLayer PROVE CountInv'
<1>1. /\ pc = "round" /\ pc' = pc /\ UNCHANGED <<inp, plans, sessions, mobilised, ext>>
      /\ work' = [work EXCEPT !.layer = @ + 1, !.cursor = 1, !.rounds = 0, !.taken = {}]
  BY DEF NextLayer
<1>2. work # Idle /\ ext = NoExt
  BY <1>1 DEF HourInv, StageOk
<1>3. UnderwayOk(work, Voters, Attending) /\ PairsNamed(work, Attending)
  BY <1>1, <1>2 DEF CountInv, StageCounted
<1>4. /\ DOMAIN work' = DOMAIN work /\ work'.lines = work.lines /\ work'.queue = work.queue
      /\ work'.left = work.left /\ work'.courtGroups = work.courtGroups /\ work'.former = work.former
      /\ work'.attempt = work.attempt /\ work'.players = work.players /\ work'.cursor = 1
  BY <1>1, <1>3 DEF UnderwayOk, CountFields
<1>5. UnderwayOk(work', Voters, Attending)
  BY <1>3, <1>4, UnderwayKeeps
<1>6. PairsNamed(work', Attending)
  BY <1>3, <1>4 DEF PairsNamed
<1> QED
  BY <1>1, <1>2, <1>5, <1>6, PlanningCounted

\* The pairs, as the groups of the queueing case, count everybody their lines name.
LEMMA PairsCounted ==
  ASSUME NEW w, NEW who, PairsNamed(w, who), NEW lines, lines = w.lines, IsList(lines),
         NEW groups,
         groups = [i \in DOMAIN PairsOf(w.players) |->
                     [members |-> ToSet(PairsOf(w.players)[i]), slots |-> Slots(LinesOf(lines, i))]]
  PROVE  Counted(lines, groups, who)
<1>1. PICK pairs : pairs = PairsOf(w.players)
  OBVIOUS
<1>2. PICK n \in Nat : n = Len(w.players) \div 2
  BY HalfIs DEF PairsNamed
<1>3. DOMAIN pairs = 1 .. n
  BY <1>1, <1>2, PairsAre DEF PairsNamed
<1>4. /\ DOMAIN groups = 1 .. n /\ groups = [i \in 1 .. n |-> groups[i]]
      /\ \A i \in 1 .. n : /\ DOMAIN groups[i] = {"members", "slots"}
                           /\ groups[i].members = ToSet(pairs[i])
                           /\ groups[i].slots = Slots(LinesOf(lines, i))
  BY <1>1, <1>3
<1>5. IsList(groups)
  BY <1>4, ListFrom
<1>6. OnLines(groups, lines)
  <2>1. \A i \in 1 .. n : Slots(LinesOf(lines, i)) \subseteq Slots(lines)
    BY LinesOfIs
  <2> QED
    BY <1>4, <1>5, <2>1 DEF OnLines
<1>7. ASSUME NEW k \in DOMAIN lines PROVE NamesOf(lines[k]) \cap who \subseteq Seated(groups)
  <2>1. PICK i \in 1 .. n : i = lines[k].of /\ NamesOf(lines[k]) \cap who \subseteq ToSet(pairs[i])
    BY <1>1, <1>3 DEF PairsNamed
  <2>2. lines[k].slot \in Slots(LinesOf(lines, i))
    BY <2>1, LinesOfIs
  <2>3. groups[i] \in ToSet(groups) /\ groups[i].slots # {} /\ groups[i].members = ToSet(pairs[i])
    BY <1>4, <2>2 DEF ToSet
  <2> QED
    BY <2>1, <2>3 DEF Seated
<1> QED
  BY <1>6, <1>7 DEF Counted, NamedOn

\* The sessions opened for lines have members who are counted with them.
LEMMA OpenedJoinable ==
  ASSUME NEW lines, NEW groups, NEW who, Counted(lines, groups, who), NEW open,
         MembersNamed(lines, open)
  PROVE  \A k \in DOMAIN open : Joinable(open[k], lines, groups, who)
BY DEF Counted, MembersNamed, Joinable

\* In the rotation, the pairs are the groups.
LEMMA LayersDoneCounted == ASSUME CountInv, HourInv, GivenOk(inp), LayersDone PROVE CountInv'
<1> DEFINE groups == [i \in DOMAIN Pairs |-> [members |-> ToSet(Pairs[i]),
                                             slots |-> Slots(LinesOf(work.lines, i))]]
           open == BuildOngoingSessions(work.lines, Start, ToSet(work.players), Hour)
<1>1. /\ pc = "round" /\ pc' = "rotate" /\ UNCHANGED <<inp, plans, sessions, mobilised, ext>>
      /\ work' = [work EXCEPT !.extra = used, !.courtGroups = groups, !.open = open,
                              !.left = RotatorsOf(work.players), !.queue = Eligible]
  BY DEF LayersDone
<1>2. work # Idle /\ ext = NoExt
  BY <1>1 DEF HourInv, StageOk
<1>3. UnderwayOk(work, Voters, Attending) /\ PairsNamed(work, Attending)
  BY <1>1, <1>2 DEF CountInv, StageCounted
<1>4. Fresh(work.lines, inp.free \ used)
  BY <1>2 DEF HourInv, WorkOk
<1>5. Counted(work.lines, groups, Attending)
  <2>1. PICK w, who, lines, gs : w = work /\ who = Attending /\ lines = work.lines /\ gs = groups
    OBVIOUS
  <2>2. PairsNamed(w, who) /\ IsList(lines) /\ lines = w.lines
    BY <1>3, <1>4, <2>1 DEF Fresh
  <2>3. gs = [i \in DOMAIN PairsOf(w.players) |->
                [members |-> ToSet(PairsOf(w.players)[i]), slots |-> Slots(LinesOf(lines, i))]]
    BY <2>1 DEF Pairs
  <2>4. Counted(lines, gs, who)
    BY <2>2, <2>3, PairsCounted
  <2> QED
    BY <2>1, <2>4
<1>6. MembersNamed(work.lines, open)
  <2>1. PICK room, lines : room = inp.free \ used /\ lines = work.lines
    OBVIOUS
  <2>2. room \subseteq AllCourts \X Nat /\ Fresh(lines, room)
    BY <1>4, <2>1 DEF GivenOk
  <2> QED
    BY <2>1, <2>2, SessionsOpened
<1>7. Guests(Eligible, Voters)
  BY EligibleIs DEF CountInv, DoneCounted
<1>8. IsList(RotatorsOf(work.players))
  <2>1. PICK p : p = Last(work.players)
    OBVIOUS
  <2>2. PICK one, none : one = <<p>> /\ none = << >>
    OBVIOUS
  <2>3. IsList(one)
    <3>1. one = [i \in 1 .. 1 |-> one[i]]
      BY <2>2
    <3> QED
      BY <3>1, ListFrom
  <2>4. RotatorsOf(work.players) \in {one, none} /\ IsList(none)
    BY <2>1, <2>2, EmptyHas DEF RotatorsOf
  <2> QED
    BY <2>3, <2>4
<1> HIDE DEF groups, open
<1>9. /\ DOMAIN work' = DOMAIN work /\ work'.lines = work.lines /\ work'.queue = Eligible
      /\ work'.left = RotatorsOf(work.players) /\ work'.courtGroups = groups
      /\ work'.former = work.former /\ work'.attempt = work.attempt /\ work'.open = open
  BY <1>1, <1>3 DEF UnderwayOk, CountFields
<1>10. UnderwayOk(work', Voters, Attending)
  BY <1>3, <1>5, <1>7, <1>8, <1>9 DEF UnderwayOk, Counted
<1>11. RotationCounted(work', Attending)
  <2>1. \A k \in DOMAIN open : Joinable(open[k], work.lines, groups, Attending)
    BY <1>5, <1>6, OpenedJoinable
  <2> QED
    BY <1>5, <1>9, <2>1 DEF RotationCounted
<1> QED
  BY <1>1, <1>2, <1>10, <1>11, PlanningCounted

\* A group whose members grow counts those it counted.
LEMMA GroupGrows ==
  ASSUME NEW lines, NEW groups, NEW who, Counted(lines, groups, who), NEW more, NEW grown,
         grown = [i \in DOMAIN groups |->
                    IF i = 1 THEN [members |-> groups[i].members \cup more, slots |-> groups[i].slots]
                    ELSE groups[i]]
  PROVE  Counted(lines, grown, who)
<1>1. IsList(groups)
  BY DEF Counted, OnLines
<1>2. PICK n \in Nat : n = Len(groups) /\ DOMAIN groups = 1 .. n
  BY <1>1, ListHas
<1>3. DOMAIN grown = 1 .. n /\ grown = [i \in 1 .. n |-> grown[i]]
  BY <1>2
<1>4. IsList(grown)
  BY <1>3, ListFrom
<1>5. ASSUME NEW i \in 1 .. n
      PROVE  /\ {"members", "slots"} \subseteq DOMAIN grown[i]
             /\ grown[i].slots = groups[i].slots /\ groups[i].members \subseteq grown[i].members
  <2>1. {"members", "slots"} \subseteq DOMAIN groups[i]
    BY <1>2 DEF Counted, OnLines
  <2>2. CASE i = 1
    <3>1. grown[i] = [members |-> groups[i].members \cup more, slots |-> groups[i].slots]
      BY <1>2, <2>2
    <3>2. PICK g, h : g = groups[i] /\ h = grown[i]
      OBVIOUS
    <3>3. h = [members |-> g.members \cup more, slots |-> g.slots]
      BY <3>1, <3>2
    <3>4. DOMAIN h = {"members", "slots"} /\ h.slots = g.slots /\ h.members = g.members \cup more
      BY <3>3
    <3> QED
      BY <3>2, <3>4
  <2>3. CASE i # 1
    <3>1. grown[i] = groups[i]
      BY <1>2, <2>3
    <3> QED
      BY <2>1, <3>1
  <2> QED
    BY <2>2, <2>3
<1>6. OnLines(grown, lines)
  BY <1>2, <1>3, <1>4, <1>5 DEF Counted, OnLines
<1>7. Seated(groups) \subseteq Seated(grown)
  <2>1. ASSUME NEW p \in Seated(groups) PROVE p \in Seated(grown)
    <3>1. PICK i \in 1 .. n : groups[i].slots # {} /\ p \in groups[i].members
      BY <1>2 DEF Seated, ToSet
    <3>2. grown[i] \in ToSet(grown) /\ grown[i].slots # {} /\ p \in grown[i].members
      BY <1>3, <1>5, <3>1 DEF ToSet
    <3> QED
      BY <3>2 DEF Seated
  <2> QED
    BY <2>1
<1> QED
  BY <1>6, <1>7 DEF Counted

\* Whoever found no court is counted with the first group; nobody is forgotten.
LEMMA RotationDoneCounted == ASSUME CountInv, HourInv, RotationDone PROVE CountInv'
<1> DEFINE grown == [i \in DOMAIN work.courtGroups |->
             IF i = 1 THEN [members |-> work.courtGroups[i].members \cup ToSet(work.left),
                            slots |-> work.courtGroups[i].slots]
             ELSE work.courtGroups[i]]
<1>1. /\ pc = "rotate" /\ pc' = "accept" /\ UNCHANGED <<inp, plans, sessions, mobilised, ext>>
      /\ work' = [work EXCEPT !.courtGroups = grown]
  BY DEF RotationDone
<1>2. work # Idle /\ ext = NoExt
  BY <1>1 DEF HourInv, StageOk
<1>3. UnderwayOk(work, Voters, Attending) /\ RotationCounted(work, Attending)
  BY <1>1, <1>2 DEF CountInv, StageCounted
<1>4. Counted(work.lines, grown, Attending)
  <2>1. PICK lines, gs, who, more, g : lines = work.lines /\ gs = work.courtGroups /\ who = Attending
                                       /\ more = ToSet(work.left) /\ g = grown
    OBVIOUS
  <2>2. Counted(lines, gs, who)
    BY <1>3, <2>1 DEF RotationCounted
  <2>3. g = [i \in DOMAIN gs |->
               IF i = 1 THEN [members |-> gs[i].members \cup more, slots |-> gs[i].slots]
               ELSE gs[i]]
    BY <2>1
  <2>4. Counted(lines, g, who)
    BY <2>2, <2>3, GroupGrows
  <2> QED
    BY <2>1, <2>4
<1> HIDE DEF grown
<1>5. /\ DOMAIN work' = DOMAIN work /\ work'.lines = work.lines /\ work'.queue = work.queue
      /\ work'.left = work.left /\ work'.courtGroups = grown
      /\ work'.former = work.former /\ work'.attempt = work.attempt
  BY <1>1, <1>3 DEF UnderwayOk, CountFields
<1>6. UnderwayOk(work', Voters, Attending)
  BY <1>3, <1>4, <1>5 DEF UnderwayOk, Counted
<1> QED
  BY <1>1, <1>2, <1>4, <1>5, <1>6, PlanningCounted

-----------------------------------------------------------------------------
(* Sessions that are joined.                                                *)

\* Of those who join a session, some become members; nobody else does.
LEMMA JoiningCounted ==
  ASSUME PeopleOk(inp), NEW session, IsList(session.members), NEW joiners, IsList(joiners),
         NEW voters, NEW queue, Guests(queue, voters), NEW k, NEW taken, NEW who,
         NEW e, e = Joining(k, session, joiners, queue, taken)
  PROVE  ExtCounted(e, ToSet(joiners), voters, who)
<1> DEFINE numbers == {i \in DOMAIN joiners : joiners[i] \notin ToSet(session.members)}
<1>1. PICK new : new = Picked(joiners, numbers)
  OBVIOUS
<1>2. IsList(new) /\ ToSet(new) \subseteq ToSet(joiners) /\ Len(new) \in Nat
  <2>1. numbers \subseteq DOMAIN joiners
    OBVIOUS
  <2> HIDE DEF numbers
  <2>2. IsList(new) /\ ToSet(new) = {joiners[i] : i \in numbers}
    BY <1>1, <2>1, PickedIs
  <2> QED
    BY <2>1, <2>2, ListHas DEF ToSet
<1>3. PICK size : size = Len(session.members)
  OBVIOUS
<1>4. PICK room : room = IF inp.maxPlayers > size THEN inp.maxPlayers - size ELSE 0
  OBVIOUS
<1>5. room \in Nat
  BY <1>3, <1>4, ListHas DEF PeopleOk
<1>6. PICK m : m = Min({room, Len(new)})
  OBVIOUS
<1>7. m \in Nat /\ m <= Len(new)
  <2>1. {room, Len(new)} \subseteq Nat /\ {room, Len(new)} # {}
    BY <1>2, <1>5
  <2>2. m \in {room, Len(new)} /\ \A t \in {room, Len(new)} : m <= t
    BY <1>6, <2>1, MinType
  <2> QED
    BY <2>1, <2>2
<1>8. PICK some, slots : some = SubSeq(new, 1, m) /\ slots = inp.minSlots
  OBVIOUS
<1>9. IsList(some) /\ ToSet(some) \subseteq ToSet(joiners)
  BY <1>2, <1>7, <1>8, PartOf
<1>10. PICK all : all = session.members \o some
  OBVIOUS
<1>11. IsList(all) /\ ToSet(all) = ToSet(session.members) \cup ToSet(some)
  BY <1>9, <1>10, HoldsConcat, ConcatHas DEF Joined
<1>12. /\ IsList(OrderMembersByDemand(all, slots))
       /\ ToSet(OrderMembersByDemand(all, slots)) \subseteq ToSet(all)
  BY <1>8, <1>11, OrderedIs DEF PeopleOk
<1>13. /\ e.members = OrderMembersByDemand(all, slots) /\ e.queue = queue /\ e.session = session
       /\ e.added = << >>
  BY <1>1, <1>3, <1>4, <1>6, <1>8, <1>10 DEF Joining
<1>14. NamedOn(e.added) = {}
  BY <1>13, NamedNone
<1> QED
  BY <1>9, <1>11, <1>12, <1>13, <1>14 DEF ExtCounted

\* Late players join a session that may be joined.
LEMMA JoinSessionCounted == ASSUME CountInv, HourInv, DayInv, JoinSession PROVE CountInv'
<1> DEFINE k == Min(Mergeable(Len(Confirmed)))
<1>1. /\ pc = "hour" /\ pc' = "extend" /\ UNCHANGED <<inp, plans, sessions, mobilised, work>>
      /\ Hour <= Len(inp.hours) /\ Mergeable(Len(Confirmed)) # {}
      /\ ext' = Joining(k, sessions[k], Confirmed, Eligible, used)
  BY DEF JoinSession
<1>2. work = Idle
  BY <1>1 DEF HourInv, StageOk
<1>3. Hour \in DOMAIN inp.hours
  BY <1>1, HourIs DEF DayInv
<1>4. k \in DOMAIN sessions
  <2>1. Mergeable(Len(Confirmed)) \subseteq DOMAIN sessions
    BY DEF Mergeable
  <2>2. DOMAIN sessions \subseteq Nat
    BY ListHas DEF DayInv, SessionsOk
  <2>3. Mergeable(Len(Confirmed)) \subseteq Nat
    BY <2>1, <2>2
  <2> QED
    BY <1>1, <2>1, <2>3, MinType
<1> HIDE DEF k
<1>5. PeopleOk(inp) /\ IsList(sessions[k].members) /\ IsList(Confirmed) /\ Guests(Eligible, Voters)
  BY <1>3, <1>4, EligibleIs DEF CountInv, DoneCounted, Open, Joinable, PeopleOk, Confirmed
<1>6. ExtCounted(ext', ToSet(Confirmed), Voters, Attending)
  <2>1. PICK session, joiners, queue, voters, who, e :
          /\ session = sessions[k] /\ joiners = Confirmed /\ queue = Eligible /\ voters = Voters
          /\ who = Attending /\ e = ext'
    OBVIOUS
  <2>2. IsList(session.members) /\ IsList(joiners) /\ Guests(queue, voters)
    BY <1>5, <2>1
  <2>3. e = Joining(k, session, joiners, queue, used)
    BY <1>1, <2>1
  <2>4. ExtCounted(e, ToSet(joiners), voters, who)
    BY <1>5, <2>2, <2>3, JoiningCounted
  <2> QED
    BY <2>1, <2>4
<1>7. /\ Voters' = Voters /\ Attending' = Attending /\ DoneCounted' /\ Confirmed' = Confirmed
  BY <1>1, VotersSame, DoneSame DEF CountInv, Confirmed, Hour
<1>8. Joiners' = ToSet(Confirmed)
  BY <1>1, <1>2, <1>7 DEF Joiners
<1> QED
  BY <1>1, <1>2, <1>6, <1>7, <1>8 DEF CountInv, StageCounted

\* The rotating player joins a court of the hour.
LEMMA JoinCourtCounted == ASSUME CountInv, HourInv, JoinCourt PROVE CountInv'
<1>1. /\ pc = "rotate" /\ pc' = "extend" /\ UNCHANGED <<inp, plans, sessions, mobilised, work>>
      /\ work.k <= Len(work.open)
      /\ ext' = Joining(work.k, work.open[work.k], work.left, work.queue, work.extra)
  BY DEF JoinCourt
<1>2. work # Idle /\ WorkOk(work, inp.free \ used) /\ RotationOk(work, inp.free, used)
  BY <1>1 DEF HourInv, StageOk
<1>3. UnderwayOk(work, Voters, Attending) /\ RotationCounted(work, Attending)
  BY <1>1, <1>2 DEF CountInv, StageCounted
<1>4. work.k \in DOMAIN work.open
  <2>1. IsList(work.open) /\ work.k \in Nat \ {0}
    BY <1>2 DEF RotationOk, WorkOk
  <2>2. Len(work.open) \in Nat /\ DOMAIN work.open = 1 .. Len(work.open)
    BY <2>1, ListHas
  <2> QED
    BY <1>1, <2>1, <2>2
<1>5. /\ PeopleOk(inp) /\ IsList(work.open[work.k].members) /\ IsList(work.left)
      /\ Guests(work.queue, Voters)
  BY <1>3, <1>4 DEF CountInv, DoneCounted, RotationCounted, Joinable, UnderwayOk
<1>6. ExtCounted(ext', ToSet(work.left), Voters, Attending)
  <2>1. PICK k, session, joiners, queue, taken, voters, who, e :
          /\ k = work.k /\ session = work.open[work.k] /\ joiners = work.left /\ queue = work.queue
          /\ taken = work.extra /\ voters = Voters /\ who = Attending /\ e = ext'
    OBVIOUS
  <2>2. IsList(session.members) /\ IsList(joiners) /\ Guests(queue, voters)
    BY <1>5, <2>1
  <2>3. e = Joining(k, session, joiners, queue, taken)
    BY <1>1, <2>1
  <2>4. ExtCounted(e, ToSet(joiners), voters, who)
    BY <1>5, <2>2, <2>3, JoiningCounted
  <2> QED
    BY <2>1, <2>4
<1>7. /\ Voters' = Voters /\ Attending' = Attending /\ DoneCounted'
  BY <1>1, VotersSame, DoneSame DEF CountInv
<1>8. Joiners' = ToSet(work.left)
  BY <1>1, <1>2 DEF Joiners
<1> QED
  BY <1>1, <1>2, <1>3, <1>6, <1>7, <1>8 DEF CountInv, StageCounted

\* The lines of a session and those added to it.
LEMMA ExtLinesAre ==
  ASSUME NEW free, NEW taken, ExtOk(ext, free, taken)
  PROVE  /\ IsList(ext.session.lines) /\ IsList(ext.added) /\ IsList(ExtLines)
         /\ Slots(ExtLines) = Slots(ext.session.lines) \cup Slots(ext.added)
<1>1. IsList(ext.session.lines) /\ IsList(ext.added)
  BY DEF ExtOk, IsSession, Fresh
<1> QED
  BY <1>1, SlotsConcat DEF ExtLines

\* Of those who play, the line of the next round names members only.
LEMMA RoundCounted ==
  ASSUME IsList(ExtLines), CanExtend, RegisteredPair.pair # Unbookable,
         NEW joiners, ExtCounted(ext, joiners, Voters, Attending)
  PROVE  /\ Guests(ExtensionPair.queue, Voters)
         /\ ExtensionPair.pair # Unbookable => \A slot, of :
              NamesOf(Line(slot, ExtensionPair.pair, of)) \cap Attending \subseteq ToSet(ext.members)
<1> DEFINE S == ToSet(ext.members) \cup ToSet(ext.queue) \cup {inp.joker}
<1>1. IsList(ext.members) /\ IsList(ext.queue) /\ ToSet(ext.queue) \cap Voters = {}
  BY DEF ExtCounted, Guests
<1>2. IsPair(NextPair, ToSet(ext.members))
  BY <1>1, NextPairIs DEF CanExtend
<1>3. IsPair(NextPair, S) /\ ToSet(ext.queue) \subseteq S /\ inp.joker \in S
  BY <1>2 DEF IsPair
<1>4. S \cap Attending \subseteq ToSet(ext.members)
  BY <1>1 DEF Attending
<1> HIDE DEF S
<1>5. /\ ExtensionPair.pair = Unbookable \/ IsPair(ExtensionPair.pair, S)
      /\ IsList(ExtensionPair.queue) /\ ToSet(ExtensionPair.queue) \subseteq ToSet(ext.queue)
  BY <1>1, <1>3, ExtensionPairIs
<1>6. Guests(ExtensionPair.queue, Voters)
  BY <1>1, <1>5 DEF Guests
<1>7. ASSUME ExtensionPair.pair # Unbookable, NEW slot, NEW of
      PROVE  NamesOf(Line(slot, ExtensionPair.pair, of)) \cap Attending \subseteq ToSet(ext.members)
  <2>1. NamesOf(Line(slot, ExtensionPair.pair, of)) = {ExtensionPair.pair[1], ExtensionPair.pair[2]}
    BY DEF Line, NamesOf
  <2>2. ExtensionPair.pair[1] \in S /\ ExtensionPair.pair[2] \in S
    BY <1>5, <1>7 DEF IsPair
  <2> QED
    BY <1>4, <2>1, <2>2
<1> QED
  BY <1>6, <1>7

\* A round more on a session.
LEMMA ExtendRoundCounted == ASSUME CountInv, HourInv, ExtendRound PROVE CountInv'
<1> DEFINE line == Line(NextSlot, ExtensionPair.pair, Extension)
<1>1. /\ pc = "extend" /\ pc' = pc /\ UNCHANGED <<inp, plans, sessions, mobilised, work>>
      /\ CanExtend /\ RegisteredPair.pair # Unbookable /\ ExtensionPair.pair # Unbookable
      /\ ext' = [ext EXCEPT !.added = Append(@, line), !.queue = ExtensionPair.queue,
                            !.used = @ \cup {NextSlot}]
  BY DEF ExtendRound
<1>2. ext # NoExt /\ ExtOk(ext, inp.free, used)
  BY <1>1 DEF HourInv, StageOk
<1>3. ExtCounted(ext, Joiners, Voters, Attending)
  BY <1>2 DEF CountInv, StageCounted
<1>4. IsList(ExtLines) /\ IsList(ext.added)
  BY <1>2, ExtLinesAre
<1>5. Guests(ExtensionPair.queue, Voters) /\ NamesOf(line) \cap Attending \subseteq ToSet(ext.members)
  BY <1>1, <1>3, <1>4, RoundCounted
<1> HIDE DEF line
<1>6. /\ ext'.members = ext.members /\ ext'.session = ext.session /\ ext'.queue = ExtensionPair.queue
      /\ ext'.added = Append(ext.added, line)
  BY <1>1, <1>2 DEF ExtOk, ExtFields
<1>7. NamedOn(ext'.added) = NamedOn(ext.added) \cup NamesOf(line)
  BY <1>4, <1>6, NamedAppend
<1>8. ExtCounted(ext', Joiners, Voters, Attending)
  BY <1>3, <1>5, <1>6, <1>7 DEF ExtCounted
<1>9. /\ Voters' = Voters /\ Attending' = Attending /\ DoneCounted' /\ Joiners' = Joiners
  BY <1>1, VotersSame, DoneSame DEF CountInv, Joiners, Confirmed, Hour
<1>10. work # Idle => UnderwayOk(work', Voters, Attending) /\ RotationCounted(work', Attending)
  BY <1>1 DEF CountInv, StageCounted
<1> QED
  BY <1>1, <1>8, <1>9, <1>10 DEF CountInv, StageCounted

\* The queue that is left at the end has volunteers only.
LEMMA QueueLeftIs ==
  ASSUME IsList(ExtLines), ExtensionEnds, NEW joiners, ExtCounted(ext, joiners, Voters, Attending)
  PROVE  Guests(QueueLeft, Voters)
<1>1. CASE CanExtend
  <2>1. RegisteredPair.pair # Unbookable
    BY <1>1 DEF ExtensionEnds
  <2> QED
    BY <1>1, <2>1, RoundCounted DEF QueueLeft
<1>2. CASE ~CanExtend
  BY <1>2 DEF QueueLeft, ExtCounted
<1> QED
  BY <1>1, <1>2

\* Lines are added on a session of a plan, which name its members and those who have joined.
Adds(lines, groups, who, added, session, members, joined) ==
  /\ IsList(lines) /\ Counted(lines, groups, who) /\ IsList(added)
  /\ Joinable(session, lines, groups, who)
  /\ ToSet(members) \cap who \subseteq ToSet(session.members) \cup joined
  /\ NamedOn(added) \cap who \subseteq ToSet(members)
\* The groups, with one of those who have joined.
JoinedBy(groups, joined, slots, grown) ==
  \/ grown = Append(groups, [members |-> joined, slots |-> slots])
  \/ grown = groups /\ joined = {}

\* They are counted: by the plan of the session, and by the group of those who have joined.
LEMMA AddedCounted ==
  ASSUME NEW lines, NEW groups, NEW who, NEW added, NEW session, NEW members, NEW joined,
         Adds(lines, groups, who, added, session, members, joined),
         NEW slots, slots = Slots(session.lines) \cup Slots(added),
         NEW grown, JoinedBy(groups, joined, slots, grown)
  PROVE  /\ Counted(lines \o added, grown, who) /\ Seated(groups) \subseteq Seated(grown)
         /\ Slots(lines \o added) = Slots(lines) \cup Slots(added)
         /\ ToSet(members) \cap who \subseteq Seated(grown)
<1>1. /\ IsList(lines) /\ Counted(lines, groups, who) /\ IsList(added)
      /\ Joinable(session, lines, groups, who)
      /\ ToSet(members) \cap who \subseteq ToSet(session.members) \cup joined
      /\ NamedOn(added) \cap who \subseteq ToSet(members)
  BY DEF Adds
<1>2. PICK more : more = lines \o added
  OBVIOUS
<1>3. IsList(more) /\ Slots(more) = Slots(lines) \cup Slots(added)
  BY <1>1, <1>2, SlotsConcat
<1>4. slots # {} /\ slots \subseteq Slots(more)
  BY <1>1, <1>3 DEF Joinable
<1>5. OnLines(grown, more) /\ Seated(groups) \subseteq Seated(grown) /\ joined \subseteq Seated(grown)
  <2>1. OnLines(groups, lines) /\ Slots(lines) \subseteq Slots(more)
    BY <1>1, <1>3 DEF Counted
  <2>2. PICK group : group = [members |-> joined, slots |-> slots]
    OBVIOUS
  <2>3. DOMAIN group = {"members", "slots"} /\ group.members = joined /\ group.slots = slots
    BY <2>2
  <2>4. CASE grown = Append(groups, group)
    BY <1>4, <2>1, <2>3, <2>4, GroupAdded
  <2>5. CASE grown = groups /\ joined = {}
    BY <2>1, <2>5 DEF OnLines
  <2> QED
    BY <2>2, <2>4, <2>5 DEF JoinedBy
<1>6. ToSet(members) \cap who \subseteq Seated(grown)
  BY <1>1, <1>5 DEF Joinable
<1>7. NamedOn(added) \cap who \subseteq Seated(grown)
  BY <1>1, <1>6
<1>8. Counted(more, grown, who)
  BY <1>1, <1>2, <1>5, <1>7, CountedMore
<1> QED
  BY <1>2, <1>3, <1>5, <1>6, <1>8

\* The player who has joined a court is counted with it; the others go on asking.
LEMMA CourtJoinedCounted == ASSUME CountInv, HourInv, CourtJoined PROVE CountInv'
<1> DEFINE joined == {p \in ToSet(work.left) : p \in ToSet(ext.members)}
           numbers == {i \in DOMAIN work.left : work.left[i] \notin joined}
           grown == IF joined = {} THEN work.courtGroups
                    ELSE Append(work.courtGroups, [members |-> joined, slots |-> Slots(ExtLines)])
<1>1. /\ pc = "extend" /\ pc' = "rotate" /\ work # Idle /\ ext' = NoExt /\ ExtensionEnds
      /\ UNCHANGED <<inp, plans, sessions, mobilised>>
  BY DEF CourtJoined, ExtensionEnds
<1>2. work' = [work EXCEPT !.lines = @ \o ext.added, !.k = @ + 1,
          !.left = Picked(@, numbers), !.queue = QueueLeft, !.extra = ext.used, !.courtGroups = grown]
  BY DEF CourtJoined
<1>3. /\ ext # NoExt /\ ExtOk(ext, inp.free, used) /\ TurnOk(ext, work)
      /\ WorkOk(work, inp.free \ used)
  BY <1>1 DEF HourInv, StageOk
<1>4. /\ UnderwayOk(work, Voters, Attending) /\ RotationCounted(work, Attending)
      /\ ExtCounted(ext, ToSet(work.left), Voters, Attending)
  BY <1>1, <1>3 DEF CountInv, StageCounted, Joiners
<1>5. IsList(Picked(work.left, numbers))
  <2>1. PICK left, some : left = work.left /\ some = numbers
    OBVIOUS
  <2>2. IsList(left) /\ some \subseteq DOMAIN left
    BY <1>4, <2>1 DEF UnderwayOk
  <2>3. IsList(Picked(left, some))
    BY <2>2, PickedIs
  <2> QED
    BY <2>1, <2>3
<1>6. /\ IsList(ext.added) /\ IsList(ExtLines) /\ IsList(work.lines)
      /\ Slots(ExtLines) = Slots(ext.session.lines) \cup Slots(ext.added)
  BY <1>3, ExtLinesAre DEF WorkOk, Fresh
<1>7. Guests(QueueLeft, Voters)
  BY <1>1, <1>4, <1>6, QueueLeftIs
<1>8. work.k \in DOMAIN work.open /\ ext.session = work.open[work.k]
  BY <1>3 DEF TurnOk
<1>9. /\ Counted(work.lines \o ext.added, grown, Attending)
      /\ Seated(work.courtGroups) \subseteq Seated(grown)
      /\ Slots(work.lines) \subseteq Slots(work.lines \o ext.added)
  <2>1. PICK lines, groups, who, added, session, members, some, slots, big :
          /\ lines = work.lines /\ groups = work.courtGroups /\ who = Attending /\ added = ext.added
          /\ session = ext.session /\ members = ext.members /\ some = joined
          /\ slots = Slots(ExtLines) /\ big = grown
    OBVIOUS
  <2>2. slots = Slots(session.lines) \cup Slots(added)
    BY <1>6, <2>1
  <2>3. Adds(lines, groups, who, added, session, members, some)
    BY <1>4, <1>6, <1>8, <2>1 DEF RotationCounted, ExtCounted, Adds
  <2>4. JoinedBy(groups, some, slots, big)
    <3> HIDE DEF joined
    <3> QED
      BY <2>1 DEF JoinedBy
  <2>5. /\ Counted(lines \o added, big, who) /\ Seated(groups) \subseteq Seated(big)
        /\ Slots(lines \o added) = Slots(lines) \cup Slots(added)
    BY <2>2, <2>3, <2>4, AddedCounted
  <2> QED
    BY <2>1, <2>5
<1> HIDE DEF numbers, grown
<1>10. /\ work'.lines = work.lines \o ext.added /\ work'.queue = QueueLeft
       /\ work'.left = Picked(work.left, numbers) /\ work'.courtGroups = grown
       /\ work'.open = work.open /\ work'.former = work.former /\ work'.attempt = work.attempt
       /\ DOMAIN work' = DOMAIN work
  BY <1>2, <1>4 DEF UnderwayOk, CountFields
<1>11. UnderwayOk(work', Voters, Attending)
  BY <1>4, <1>5, <1>7, <1>9, <1>10 DEF UnderwayOk, Counted
<1>12. RotationCounted(work', Attending)
  <2>1. \A k \in DOMAIN work.open : Joinable(work.open[k], work'.lines, grown, Attending)
    BY <1>4, <1>9, <1>10, StaysJoinable DEF RotationCounted
  <2> QED
    BY <1>9, <1>10, <2>1 DEF RotationCounted
<1>13. Voters' = Voters /\ Attending' = Attending /\ DoneCounted'
  BY <1>1, VotersSame, DoneSame DEF CountInv
<1> QED
  BY <1>1, <1>11, <1>12, <1>13 DEF CountInv, StageCounted

\* The plans done and their sessions, when one of them and one session have more.
LEMMA DoneGrows ==
  ASSUME NEW ss, NEW ps, NEW who, Open(ss, ps, who), \A h \in DOMAIN ps : Counted(ps[h].lines, ps[h].groups, who),
         NEW k \in DOMAIN ss, NEW p \in DOMAIN ps, ss[k].plan = p,
         \A j \in DOMAIN ss : ss[j].plan \in DOMAIN ps,
         NEW mid, DOMAIN mid = DOMAIN ps, \A h \in DOMAIN ps : h # p => mid[h] = ps[h],
         Counted(mid[p].lines, mid[p].groups, who), Slots(ps[p].lines) \subseteq Slots(mid[p].lines),
         Seated(ps[p].groups) \subseteq Seated(mid[p].groups),
         NEW tt, DOMAIN tt = DOMAIN ss, \A j \in DOMAIN ss : j # k => tt[j] = ss[j],
         tt[k].plan = p, Joinable(tt[k], mid[p].lines, mid[p].groups, who)
  PROVE  Open(tt, mid, who) /\ \A h \in DOMAIN mid : Counted(mid[h].lines, mid[h].groups, who)
<1>1. ASSUME NEW j \in DOMAIN ss, j # k
      PROVE  Joinable(tt[j], mid[tt[j].plan].lines, mid[tt[j].plan].groups, who)
  <2>1. Joinable(ss[j], ps[ss[j].plan].lines, ps[ss[j].plan].groups, who) /\ tt[j] = ss[j]
    BY <1>1 DEF Open
  <2>2. CASE ss[j].plan = p
    BY <2>1, <2>2, StaysJoinable
  <2>3. CASE ss[j].plan # p
    <3>1. mid[ss[j].plan] = ps[ss[j].plan]
      BY <2>3
    <3> QED
      BY <2>1, <3>1
  <2> QED
    BY <2>2, <2>3
<1>2. Open(tt, mid, who)
  BY <1>1 DEF Open
<1>3. ASSUME NEW h \in DOMAIN ps PROVE Counted(mid[h].lines, mid[h].groups, who)
  BY <1>3
<1> QED
  BY <1>2, <1>3

\* A plan at the end.
LEMMA PlanEnds ==
  ASSUME NEW ss, NEW ps, NEW who, Open(ss, ps, who), \A j \in DOMAIN ss : ss[j].plan \in DOMAIN ps,
         \A h \in DOMAIN ps : Counted(ps[h].lines, ps[h].groups, who),
         NEW plan, Counted(plan.lines, plan.groups, who), NEW qs, Appended(ps, plan, qs)
  PROVE  Open(ss, qs, who) /\ \A h \in DOMAIN qs : Counted(qs[h].lines, qs[h].groups, who)
<1>1. DOMAIN qs = DOMAIN ps \cup {Len(ps) + 1} /\ (\A h \in DOMAIN ps : qs[h] = ps[h])
      /\ qs[Len(ps) + 1] = plan
  BY DEF Appended
<1>2. ASSUME NEW j \in DOMAIN ss
      PROVE  Joinable(ss[j], qs[ss[j].plan].lines, qs[ss[j].plan].groups, who)
  <2>1. qs[ss[j].plan] = ps[ss[j].plan]
    BY <1>1
  <2> QED
    BY <2>1 DEF Open
<1>3. ASSUME NEW h \in DOMAIN qs PROVE Counted(qs[h].lines, qs[h].groups, who)
  BY <1>1
<1> QED
  BY <1>2, <1>3 DEF Open

\* The plan of an hour without any line counts whoever attends.
LEMMA NoPlanCounted == ASSUME NEW who PROVE Counted(NoPlan.lines, NoPlan.groups, who)
BY NoneCounted DEF NoPlan

\* Between two hours.
LEMMA BetweenCounted == ASSUME DoneCounted, work = Idle, ext = NoExt, pc \in {"hour", "done"} PROVE CountInv
BY DEF CountInv, StageCounted

\* An hour without enough players.
LEMMA NotEnoughPlayersCounted ==
  ASSUME CountInv, HourInv, DayInv, NotEnoughPlayers PROVE CountInv'
<1>1. /\ pc = "hour" /\ pc' = pc /\ plans' = Append(plans, NoPlan) /\ Hour <= Len(inp.hours)
      /\ UNCHANGED <<inp, sessions, mobilised, work, ext>>
  BY DEF NotEnoughPlayers
<1>2. work' = Idle /\ ext' = NoExt
  BY <1>1 DEF HourInv, StageOk
<1>3. Hour \in DOMAIN inp.hours /\ IsList(plans)
  BY <1>1, HourIs DEF DayInv, PlansOk
<1>4. Appended(plans, NoPlan, plans') /\ Hour = Len(plans) + 1
  BY <1>1, <1>3, AppendHas DEF Hour
<1>5. Voters' = Voters /\ Attending' = Attending
  BY <1>1, VotersSame
<1>6. /\ Open(sessions, plans', Attending)
      /\ \A h \in DOMAIN plans' : Counted(plans'[h].lines, plans'[h].groups, Attending)
  <2>1. /\ Open(sessions, plans, Attending)
        /\ \A h \in DOMAIN plans : Counted(plans[h].lines, plans[h].groups, Attending)
    BY DEF CountInv, DoneCounted
  <2>2. \A j \in DOMAIN sessions : sessions[j].plan \in DOMAIN plans
    BY DEF DayInv, SessionsOk
  <2>3. Counted(NoPlan.lines, NoPlan.groups, Attending)
    BY NoPlanCounted
  <2> QED
    BY <1>4, <2>1, <2>2, <2>3, PlanEnds
<1>7. DOMAIN plans' \subseteq DOMAIN inp.hours
  BY <1>3, <1>4 DEF Appended, CountInv, DoneCounted
<1>8. DoneCounted'
  BY <1>1, <1>5, <1>6, <1>7 DEF CountInv, DoneCounted
<1> QED
  BY <1>1, <1>2, <1>8 DEF CountInv, StageCounted

\* The plan accepted counts everybody its lines name, and its courts may be joined.
LEMMA AcceptPlanCounted == ASSUME CountInv, HourInv, DayInv, AcceptPlan PROVE CountInv'
<1> DEFINE worse == work.attempt = 2 /\ Len(work.lines) <= Len(work.former[1])
           room == inp.free \ used
<1>1. pc = "accept" /\ pc' = "hour" /\ work' = Idle /\ UNCHANGED <<inp, ext>>
  BY DEF AcceptPlan
<1>2. PICK lines, groups :
        /\ lines = IF worse THEN work.former[1] ELSE work.lines
        /\ groups = IF worse THEN work.former[2] ELSE work.courtGroups
        /\ plans' = Append(plans, [lines |-> lines, groups |-> groups, outside |-> Outside(lines)])
        /\ RecordSessions(lines) /\ Track(lines)
  BY DEF AcceptPlan
<1>3. work # Idle /\ ext = NoExt /\ WorkOk(work, room) /\ Hour \in DOMAIN inp.hours
  BY <1>1 DEF HourInv, StageOk
<1> HIDE DEF room
<1>4. Fresh(lines, room)
  BY <1>2, <1>3 DEF WorkOk
<1>5. Counted(lines, groups, Attending)
  <2>1. /\ Counted(work.lines, work.courtGroups, Attending)
        /\ work.attempt # 1 => Counted(work.former[1], work.former[2], Attending)
    BY <1>1, <1>3 DEF CountInv, StageCounted, UnderwayOk
  <2>2. CASE worse
    BY <1>2, <2>1, <2>2
  <2>3. CASE ~worse
    BY <1>2, <2>1, <2>3
  <2> QED
    BY <2>2, <2>3
<1> HIDE DEF worse
<1>6. PICK plan : plan = [lines |-> lines, groups |-> groups, outside |-> Outside(lines)]
  OBVIOUS
<1>7. plan.lines = lines /\ plan.groups = groups
  BY <1>6
<1>8. IsList(plans) /\ Hour = Len(plans) + 1
  BY DEF DayInv, PlansOk, Hour
<1>9. Appended(plans, plan, plans')
  BY <1>2, <1>6, <1>8, AppendHas
<1>10. /\ Open(sessions, plans', Attending)
       /\ \A h \in DOMAIN plans' : Counted(plans'[h].lines, plans'[h].groups, Attending)
  <2>1. /\ Open(sessions, plans, Attending)
        /\ \A h \in DOMAIN plans : Counted(plans[h].lines, plans[h].groups, Attending)
    BY DEF CountInv, DoneCounted
  <2>2. \A j \in DOMAIN sessions : sessions[j].plan \in DOMAIN plans
    BY DEF DayInv, SessionsOk
  <2> QED
    BY <1>5, <1>7, <1>9, <2>1, <2>2, PlanEnds
<1>11. PICK open : open = BuildOngoingSessions(lines, Start, ToSet(Confirmed), Hour)
  OBVIOUS
<1>12. Opened(lines, Start, Hour, room, open) /\ MembersNamed(lines, open)
  <2>1. room \subseteq AllCourts \X Nat
    BY DEF DayInv, GivenOk, room
  <2> QED
    BY <1>4, <1>11, <2>1, SessionsOpened
<1>13. Joined(sessions, open, sessions')
  <2>1. sessions' = sessions \o open /\ IsList(open) /\ IsList(sessions)
    BY <1>2, <1>11, <1>12 DEF RecordSessions, Opened, DayInv, SessionsOk
  <2> QED
    BY <2>1, ConcatHas
<1>14. Open(sessions', plans', Attending)
  <2>1. \A k \in DOMAIN open : Joinable(open[k], lines, groups, Attending)
    BY <1>5, <1>12, OpenedJoinable
  <2>2. plans'[Hour] = plan
    BY <1>8, <1>9 DEF Appended
  <2>3. ASSUME NEW k \in DOMAIN open
        PROVE  Joinable(open[k], plans'[open[k].plan].lines, plans'[open[k].plan].groups, Attending)
    <3>1. open[k].plan = Hour
      BY <1>12 DEF Opened
    <3> QED
      BY <1>7, <2>1, <2>2, <3>1
  <2>4. ASSUME NEW k \in DOMAIN sessions'
        PROVE  Joinable(sessions'[k], plans'[sessions'[k].plan].lines,
                        plans'[sessions'[k].plan].groups, Attending)
    <3>1. CASE k \in DOMAIN sessions
      BY <1>10, <1>13, <3>1 DEF Joined, Open
    <3>2. ASSUME NEW i \in DOMAIN open, k = Len(sessions) + i
          PROVE  Joinable(sessions'[k], plans'[sessions'[k].plan].lines,
                          plans'[sessions'[k].plan].groups, Attending)
      <4>1. sessions'[k] = open[i]
        BY <1>13, <3>2 DEF Joined
      <4> QED
        BY <2>3, <4>1
    <3>3. k \in DOMAIN sessions \/ \E i \in DOMAIN open : k = Len(sessions) + i
      BY <1>13, <2>4 DEF Joined
    <3> QED
      BY <3>1, <3>2, <3>3
  <2> QED
    BY <2>4 DEF Open
<1>15. Voters' = Voters /\ Attending' = Attending
  BY <1>1, VotersSame
<1>16. DOMAIN plans' \subseteq DOMAIN inp.hours
  BY <1>3, <1>8, <1>9 DEF Appended, CountInv, DoneCounted
<1>17. mobilised \subseteq mobilised'
  BY <1>2 DEF Track
<1>18. DoneCounted'
  BY <1>1, <1>10, <1>14, <1>15, <1>16, <1>17 DEF CountInv, DoneCounted
<1> QED
  BY <1>1, <1>3, <1>18 DEF CountInv, StageCounted

\* The rounds of late players are counted by the plan of the hour they join.
LEMMA LateJoinedCounted == ASSUME CountInv, HourInv, DayInv, LateJoined PROVE CountInv'
<1> DEFINE p == ext.session.plan
           joined == ToSet(Confirmed) \cap ToSet(ext.members)
           group == [members |-> joined, slots |-> Slots(ExtLines)]
           mid == [plans EXCEPT ![p] = WithGroup(WithBookings(@, ext.added), group)]
<1>1. /\ pc = "extend" /\ work = Idle /\ Track(ext.added)
      /\ pc' = "hour" /\ ext' = NoExt /\ UNCHANGED <<inp, work>>
      /\ sessions' = [sessions EXCEPT ![ext.k].lines = ExtLines, ![ext.k].members = ext.members]
  BY DEF LateJoined, ExtensionEnds
<1>2. plans' = Append(mid, NoPlan)
  BY DEF LateJoined
<1>3. /\ ext # NoExt /\ ExtOk(ext, inp.free, used) /\ LateOk(ext, used, sessions, inp.window)
      /\ Hour \in DOMAIN inp.hours
  BY <1>1 DEF HourInv, StageOk
<1>4. ext.k \in DOMAIN sessions /\ ext.session = sessions[ext.k] /\ p \in DOMAIN plans
  BY <1>3 DEF LateOk, DayInv, SessionsOk
<1>5. ExtCounted(ext, ToSet(Confirmed), Voters, Attending)
  BY <1>1, <1>3 DEF CountInv, StageCounted, Joiners
<1>6. /\ Open(sessions, plans, Attending) /\ IsList(plans) /\ IsPlan(plans[p])
      /\ \A h \in DOMAIN plans : Counted(plans[h].lines, plans[h].groups, Attending)
  BY <1>4 DEF CountInv, DoneCounted, DayInv, PlansOk
<1>7. IsList(ext.added) /\ Slots(ExtLines) = Slots(ext.session.lines) \cup Slots(ext.added)
  BY <1>3, ExtLinesAre
<1> HIDE DEF p
<1>8. /\ mid = [h \in DOMAIN plans |-> mid[h]]
      /\ \A h \in DOMAIN plans : h # p => mid[h] = plans[h]
      /\ mid[p].lines = plans[p].lines \o ext.added
      /\ mid[p].groups = Append(plans[p].groups, group)
  <2> HIDE DEF group
  <2> DEFINE old == plans[p]
             more == WithBookings(old, ext.added)
             new == WithGroup(more, group)
  <2>1. {"lines", "groups", "outside"} \subseteq DOMAIN old
    BY <1>6 DEF IsPlan
  <2>2. mid = [plans EXCEPT ![p] = new]
    OBVIOUS
  <2>3. DOMAIN more = DOMAIN old /\ more.lines = old.lines \o ext.added /\ more.groups = old.groups
    BY <2>1 DEF WithBookings
  <2>4. DOMAIN new = DOMAIN more /\ new.lines = more.lines /\ new.groups = Append(more.groups, group)
    BY <2>1, <2>3 DEF WithGroup
  <2> HIDE DEF more, new, mid
  <2>5. mid[p] = new /\ (\A h \in DOMAIN plans : h # p => mid[h] = plans[h])
        /\ mid = [h \in DOMAIN plans |-> mid[h]]
    BY <1>4, <2>2
  <2> QED
    BY <2>3, <2>4, <2>5
<1> HIDE DEF mid
<1>9. IsList(mid) /\ DOMAIN mid = DOMAIN plans
  BY <1>6, <1>8, ListSame
<1>10. /\ Counted(mid[p].lines, mid[p].groups, Attending)
       /\ Seated(plans[p].groups) \subseteq Seated(mid[p].groups)
       /\ Slots(mid[p].lines) = Slots(plans[p].lines) \cup Slots(ext.added)
       /\ ToSet(ext.members) \cap Attending \subseteq Seated(mid[p].groups)
  <2>1. PICK lines, groups, who, added, session, members, some, slots, grown :
          /\ lines = plans[p].lines /\ groups = plans[p].groups /\ who = Attending
          /\ added = ext.added /\ session = ext.session /\ members = ext.members /\ some = joined
          /\ slots = Slots(ExtLines) /\ grown = mid[p].groups
    OBVIOUS
  <2>2. slots = Slots(session.lines) \cup Slots(added)
    BY <1>7, <2>1
  <2>3. Adds(lines, groups, who, added, session, members, some)
    <3>1. IsList(lines) /\ Counted(lines, groups, who) /\ IsList(added)
      BY <1>4, <1>6, <1>7, <2>1 DEF IsPlan
    <3>2. Joinable(session, lines, groups, who)
      BY <1>4, <1>6, <2>1 DEF Open, p
    <3>3. ToSet(members) \cap who \subseteq ToSet(session.members) \cup some
          /\ NamedOn(added) \cap who \subseteq ToSet(members)
      BY <1>5, <2>1 DEF ExtCounted
    <3> QED
      BY <3>1, <3>2, <3>3 DEF Adds
  <2>4. JoinedBy(groups, some, slots, grown)
    <3> HIDE DEF joined
    <3> QED
      BY <1>8, <2>1 DEF JoinedBy
  <2>5. /\ Counted(lines \o added, grown, who) /\ Seated(groups) \subseteq Seated(grown)
        /\ Slots(lines \o added) = Slots(lines) \cup Slots(added)
        /\ ToSet(members) \cap who \subseteq Seated(grown)
    BY <2>2, <2>3, <2>4, AddedCounted
  <2> QED
    BY <1>8, <2>1, <2>5
<1> HIDE DEF joined, group
<1>11. /\ DOMAIN sessions' = DOMAIN sessions
       /\ \A k \in DOMAIN sessions : k # ext.k => sessions'[k] = sessions[k]
       /\ sessions'[ext.k].lines = ExtLines /\ sessions'[ext.k].members = ext.members
       /\ sessions'[ext.k].plan = p
  <2>1. {"lines", "plan", "anchor", "court", "members"} \subseteq DOMAIN sessions[ext.k]
    BY <1>4 DEF DayInv, SessionsOk, IsSession
  <2>2. sessions[ext.k].plan = p
    BY <1>4 DEF p
  <2> QED
    BY <1>1, <1>4, <2>1, <2>2
<1>12. Joinable(sessions'[ext.k], mid[p].lines, mid[p].groups, Attending)
  <2>1. Joinable(sessions[ext.k], plans[p].lines, plans[p].groups, Attending)
    BY <1>4, <1>6 DEF Open, p
  <2>2. Slots(ExtLines) # {} /\ Slots(ExtLines) \subseteq Slots(mid[p].lines)
    BY <1>4, <1>7, <1>10, <2>1 DEF Joinable
  <2>3. IsList(ext.members)
    BY <1>5 DEF ExtCounted
  <2> QED
    BY <1>10, <1>11, <2>2, <2>3 DEF Joinable
<1>13. /\ Open(sessions', mid, Attending)
       /\ \A h \in DOMAIN mid : Counted(mid[h].lines, mid[h].groups, Attending)
  <2>1. PICK ss, tt, ps, qs, k, q, who :
          /\ ss = sessions /\ tt = sessions' /\ ps = plans /\ qs = mid /\ k = ext.k /\ q = p
          /\ who = Attending
    OBVIOUS
  <2>2. /\ Open(ss, ps, who) /\ \A h \in DOMAIN ps : Counted(ps[h].lines, ps[h].groups, who)
        /\ k \in DOMAIN ss /\ q \in DOMAIN ps /\ ss[k].plan = q
        /\ \A j \in DOMAIN ss : ss[j].plan \in DOMAIN ps
    BY <1>4, <1>6, <2>1 DEF DayInv, SessionsOk, p
  <2>3. /\ DOMAIN qs = DOMAIN ps /\ \A h \in DOMAIN ps : h # q => qs[h] = ps[h]
        /\ Counted(qs[q].lines, qs[q].groups, who) /\ Slots(ps[q].lines) \subseteq Slots(qs[q].lines)
        /\ Seated(ps[q].groups) \subseteq Seated(qs[q].groups)
    BY <1>8, <1>9, <1>10, <2>1
  <2>4. /\ DOMAIN tt = DOMAIN ss /\ \A j \in DOMAIN ss : j # k => tt[j] = ss[j]
        /\ tt[k].plan = q /\ Joinable(tt[k], qs[q].lines, qs[q].groups, who)
    BY <1>11, <1>12, <2>1
  <2>5. Open(tt, qs, who) /\ \A h \in DOMAIN qs : Counted(qs[h].lines, qs[h].groups, who)
    BY <2>2, <2>3, <2>4, DoneGrows
  <2> QED
    BY <2>1, <2>5
<1>14. Appended(mid, NoPlan, plans') /\ Len(mid) = Len(plans)
  <2>1. Len(mid) = Len(plans)
    <3>1. Len(plans) \in Nat /\ DOMAIN plans = 1 .. Len(plans)
      BY <1>6, ListHas
    <3>2. PICK n \in Nat : n = Len(plans) /\ DOMAIN plans = 1 .. n
      BY <3>1
    <3>3. mid = [h \in 1 .. n |-> mid[h]]
      BY <1>8, <3>2
    <3> QED
      BY <3>2, <3>3, ListFrom
  <2> QED
    BY <1>2, <1>9, <2>1, AppendHas
<1>15. /\ Open(sessions', plans', Attending)
       /\ \A h \in DOMAIN plans' : Counted(plans'[h].lines, plans'[h].groups, Attending)
  <2>1. \A j \in DOMAIN sessions' : sessions'[j].plan \in DOMAIN mid
    BY <1>4, <1>9, <1>11 DEF DayInv, SessionsOk
  <2>2. Counted(NoPlan.lines, NoPlan.groups, Attending)
    BY NoPlanCounted
  <2> QED
    BY <1>13, <1>14, <2>1, <2>2, PlanEnds
<1>16. DOMAIN plans' \subseteq DOMAIN inp.hours
  <2>1. DOMAIN plans' = DOMAIN plans \cup {Hour}
    BY <1>9, <1>14 DEF Appended, Hour
  <2> QED
    BY <1>3, <2>1 DEF CountInv, DoneCounted
<1>17. Voters' = Voters /\ Attending' = Attending /\ mobilised \subseteq mobilised'
  BY <1>1, VotersSame DEF Track
<1>18. DoneCounted'
  BY <1>1, <1>15, <1>16, <1>17 DEF CountInv, DoneCounted
<1> QED
  BY <1>1, <1>18 DEF CountInv, StageCounted

\* At the beginning nobody is on a line.
LEMMA CountInit == Init => CountInv
<1> SUFFICES ASSUME Init PROVE CountInv
  OBVIOUS
<1>1. /\ pc = "hour" /\ plans = << >> /\ sessions = << >> /\ work = Idle /\ ext = NoExt
      /\ mobilised = Voters
  BY DEF Init, Voters
<1>2. DOMAIN plans = {} /\ DOMAIN sessions = {}
  BY <1>1, EmptyHas
<1>3. DoneCounted
  BY <1>1, <1>2, PeopleInit DEF DoneCounted, Open
<1> QED
  BY <1>1, <1>3, BetweenCounted

\* Each step keeps everybody counted.
LEMMA CountStep == CourtsInv /\ CapInv /\ CountInv /\ [Next]_vars => CountInv'
<1> SUFFICES ASSUME CourtsInv, CapInv, CountInv, [Next]_vars PROVE CountInv'
  OBVIOUS
<1>1. DayInv /\ HourInv /\ GivenOk(inp) /\ DoneCounted /\ inp.maxCourts \in Nat
  BY DEF CourtsInv, DayInv, CountInv, CapInv
<1>2. CASE NotEnoughPlayers
  BY <1>1, <1>2, NotEnoughPlayersCounted
<1>3. CASE AcceptPlan
  BY <1>1, <1>3, AcceptPlanCounted
<1>4. CASE LateJoined
  BY <1>1, <1>4, LateJoinedCounted
<1>5. CASE JoinSession
  BY <1>1, <1>5, JoinSessionCounted
<1>6. CASE PlanHour
  <2>1. /\ pc = "hour" /\ Begin(Attempt(1, inp.preferMin, << >>))
        /\ UNCHANGED <<inp, plans, sessions, mobilised, ext>>
    BY <1>6 DEF PlanHour
  <2>2. ext = NoExt
    BY <1>1, <2>1 DEF HourInv, StageOk
  <2> QED
    BY <1>1, <2>1, <2>2, BeginCounted
<1>7. CASE Finish
  <2>1. /\ pc = "hour" /\ pc' = "done" /\ UNCHANGED <<inp, plans, sessions, mobilised, work, ext>>
    BY <1>7 DEF Finish
  <2>2. work' = Idle /\ ext' = NoExt
    BY <1>1, <2>1 DEF HourInv, StageOk
  <2>3. DoneCounted'
    BY <1>1, <2>1, DoneSame
  <2> QED
    BY <2>1, <2>2, <2>3 DEF CountInv, StageCounted
<1>8. CASE SkipTime
  BY <1>1, <1>8, SkipTimeCounted
<1>9. CASE BookGroupRound
  BY <1>1, <1>9, BookGroupRoundCounted
<1>10. CASE NextGroup
  BY <1>1, <1>10, NextGroupCounted
<1>11. CASE GroupsDone
  BY <1>1, <1>11, GroupsDoneCounted
<1>12. CASE FindRound
  BY <1>1, <1>12, FindRoundCounted
<1>13. CASE PlacePair
  BY <1>1, <1>13, PlacePairCounted
<1>14. CASE RoundPlaced
  BY <1>1, <1>14, RoundPlacedCounted
<1>15. CASE NextLayer
  BY <1>1, <1>15, NextLayerCounted
<1>16. CASE LayersDone
  BY <1>1, <1>16, LayersDoneCounted
<1>17. CASE JoinCourt
  BY <1>1, <1>17, JoinCourtCounted
<1>18. CASE RotationDone
  BY <1>1, <1>18, RotationDoneCounted
<1>19. CASE ExtendRound
  BY <1>1, <1>19, ExtendRoundCounted
<1>20. CASE CourtJoined
  BY <1>1, <1>20, CourtJoinedCounted
<1>21. CASE Escalate
  <2>1. /\ pc = "accept" /\ Begin(Attempt(2, FALSE, <<work.lines, work.courtGroups>>))
        /\ UNCHANGED <<inp, plans, sessions, mobilised, ext>>
    BY <1>21 DEF Escalate
  <2>2. ext = NoExt
    BY <1>1, <2>1 DEF HourInv, StageOk
  <2>3. PICK former : former = <<work.lines, work.courtGroups>>
    OBVIOUS
  <2>4. Counted(former[1], former[2], Attending)
    BY <2>1, <2>3 DEF CountInv, StageCounted
  <2>5. Begin(Attempt(2, FALSE, former))
    BY <2>1, <2>3
  <2> QED
    BY <1>1, <2>1, <2>2, <2>4, <2>5, BeginCounted
<1>22. CASE RetryRound \/ UNCHANGED vars
  <2>1. UNCHANGED <<inp, pc, plans, sessions, mobilised, work, ext>>
    BY <1>22 DEF RetryRound, vars
  <2>2. Voters' = Voters /\ Attending' = Attending /\ DoneCounted'
    BY <1>1, <2>1, VotersSame, DoneSame
  <2>3. Joiners' = Joiners
    BY <2>1 DEF Joiners, Confirmed, Hour
  <2> QED
    BY <2>1, <2>2, <2>3 DEF CountInv, StageCounted
<1> QED
  BY <1>2, <1>3, <1>4, <1>5, <1>6, <1>7, <1>8, <1>9, <1>10, <1>11, <1>12, <1>13, <1>14, <1>15,
     <1>16, <1>17, <1>18, <1>19, <1>20, <1>21, <1>22 DEF Next

\* What the run checks follows.
LEMMA CountFollow == CountInv => CountIsTrueInWindow
<1> SUFFICES ASSUME CountInv, \A h \in DOMAIN plans : plans[h].outside = {}
             PROVE  /\ CountedAsBooked = Playing
                    /\ \A h \in DOMAIN plans :
                         {p \in ToSet(inp.confirmed[h]) \ {inp.joker} :
                            Count(BookedLines(h), p) > 0} \subseteq Playing
  BY DEF CountIsTrueInWindow
<1>1. ASSUME NEW h \in DOMAIN plans
      PROVE  /\ Slots(BookedLines(h)) = Slots(plans[h].lines)
             /\ \A p : Count(BookedLines(h), p) > 0 => p \in NamedOn(plans[h].lines)
  <2>1. PICK lines : lines = plans[h].lines
    OBVIOUS
  <2>2. PICK booked : booked = BookedLines(h)
    OBVIOUS
  <2>3. DOMAIN booked = DOMAIN lines /\ \A i \in DOMAIN lines : booked[i] = lines[i]
    BY <2>1, <2>2 DEF BookedLines, RestrictValues, Restrict
  <2>4. Slots(booked) = Slots(lines)
    BY <2>3 DEF Slots
  <2>5. ASSUME NEW p, Count(booked, p) > 0 PROVE p \in NamedOn(lines)
    <3>1. CASE {i \in DOMAIN booked : p \in NamesOf(booked[i])} = {}
      <4>1. Count(booked, p) = 0
        BY <3>1, FS_EmptySet DEF Count
      <4> QED
        BY <2>5, <4>1
    <3>2. CASE {i \in DOMAIN booked : p \in NamesOf(booked[i])} # {}
      BY <2>3, <3>2 DEF NamedOn
    <3> QED
      BY <3>1, <3>2
  <2> QED
    BY <2>1, <2>2, <2>4, <2>5
<1>2. ASSUME NEW h \in DOMAIN plans PROVE Slots(plans[h].lines) \subseteq Slots(Booked)
  <2>1. ASSUME NEW i \in DOMAIN plans[h].lines PROVE plans[h].lines[i].slot \in Slots(Booked)
    <3>1. PICK x : x = <<h, i>>
      OBVIOUS
    <3>2. x \in Places /\ AllLines[x] = plans[h].lines[i]
      BY <3>1 DEF Places, AllLines
    <3>3. x \in BookedPlaces
      BY <3>1, <3>2 DEF BookedPlaces
    <3>4. x \in DOMAIN Booked /\ Booked[x] = plans[h].lines[i]
      BY <3>2, <3>3 DEF Booked
    <3> QED
      BY <3>4 DEF Slots
  <2> QED
    BY <2>1 DEF Slots
<1>3. ASSUME NEW h \in DOMAIN plans, NEW g \in ToSet(plans[h].groups)
      PROVE  g.slots \subseteq Slots(plans[h].lines)
  BY DEF CountInv, DoneCounted, Counted, OnLines, ToSet
<1>4. \A h \in DOMAIN plans :
        {x \in ToSet(plans[h].groups) : x.slots \cap Slots(Booked) # {}} =
          {x \in ToSet(plans[h].groups) : x.slots # {}}
  BY <1>2, <1>3
<1>5. \A h \in DOMAIN plans :
        {x \in ToSet(plans[h].groups) : x.slots \cap Slots(BookedLines(h)) # {}} =
          {x \in ToSet(plans[h].groups) : x.slots # {}}
  BY <1>1, <1>3
<1>6. CountedAsBooked = UNION {Seated(plans[h].groups) : h \in DOMAIN plans}
  BY <1>4 DEF CountedAsBooked, Seated
<1>7. Playing = UNION {Seated(plans[h].groups) : h \in DOMAIN plans}
  BY <1>5 DEF Playing, Seated
<1>8. ASSUME NEW h \in DOMAIN plans, NEW p \in ToSet(inp.confirmed[h]) \ {inp.joker},
             Count(BookedLines(h), p) > 0
      PROVE  p \in Playing
  <2>1. p \in Attending
    BY DEF CountInv, DoneCounted, Attending, Voters
  <2>2. p \in NamedOn(plans[h].lines)
    BY <1>1, <1>8
  <2>3. p \in Seated(plans[h].groups)
    BY <2>1, <2>2 DEF CountInv, DoneCounted, Counted
  <2> QED
    BY <1>7, <2>3
<1> QED
  BY <1>6, <1>7, <1>8

\* CountIsTrueInWindow of the run, for any rule, votes, volunteers and free slots: when no slot
\* of the plans is set apart, everybody who plays and is named on a line is among those the
\* announcement counts, however the hours, layers, rotations and late players followed each
\* other, and whoever stood in for whom (planJobBookings: groups; announce.ts: the players of
\* the groups that hold a booked slot).
THEOREM EveryoneIsCounted == Spec => []CountIsTrueInWindow
<1>1. Init => CountInv
  BY CountInit
<1>2. CourtsInv /\ CapInv /\ CountInv /\ [Next]_vars => CountInv'
  BY CountStep
<1>3. CountInv => CountIsTrueInWindow
  BY CountFollow
<1> QED
  BY <1>1, <1>2, <1>3, CourtsInvariant, PTL DEF Spec
=============================================================================
