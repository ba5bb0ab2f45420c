---------------------------- MODULE Allocation ----------------------------
(***************************************************************************)
(* The allocation of seats and of waiting places in the final roster       *)
(* (apps/worker/src/roster/allocation.ts), as operators without state.     *)
(*                                                                         *)
(* A roster gives every candidate hour its seats and its waiting list.  An *)
(* hour the code has not created yet is the same as the one insertHour     *)
(* creates, with no seat and nobody waiting: the order of the hours only   *)
(* matters to the text.  The capacity of an hour is its number of seats.   *)
(***************************************************************************)
EXTENDS Integers, Sequences, FiniteSets, FiniteSetsExt

CONSTANTS
  Players,    \* the voters, each under its voter key
  Hours,      \* the candidate start times
  Nobody      \* null, where a voter key is expected

ASSUME AllocationAssumption ==
  /\ Nobody \notin Players
  /\ IsFiniteSet(Hours)

-----------------------------------------------------------------------------
(* A seat is taken (key) or free, and a free seat remembers who left it and
   when; a null freedSeq is -1. *)
Seat == [key : Players \cup {Nobody}, replaces : Players \cup {Nobody},
         freedBy : Players \cup {Nobody}, freedSeq : Int]

Occupied(p, predecessor) ==
  [key |-> p, replaces |-> predecessor, freedBy |-> Nobody, freedSeq |-> -1]

Left(p, seq) ==
  [key |-> Nobody, replaces |-> Nobody, freedBy |-> p, freedSeq |-> seq]

HourRoster == [slots : Seq(Seat), waiting : Seq(Players)]

SeatedAt(hr) == {hr.slots[i].key : i \in DOMAIN hr.slots} \ {Nobody}
WaitingAt(hr) == {hr.waiting[i] : i \in DOMAIN hr.waiting}
FreeAt(hr) == {i \in DOMAIN hr.slots : hr.slots[i].key = Nobody}

Held(hr) == SeatedAt(hr) \cup WaitingAt(hr)

IsPlaced(hr, p) == p \in Held(hr)

(* What is expected of one hour: a seat is free only when nobody waits, and
   each player has one place. *)
Full(hr) == FreeAt(hr) # {} => hr.waiting = <<>>

Orderly(hr) ==
  /\ \A i, j \in DOMAIN hr.slots :
       hr.slots[i].key = hr.slots[j].key /\ hr.slots[i].key # Nobody => i = j
  /\ \A i, j \in DOMAIN hr.waiting : hr.waiting[i] = hr.waiting[j] => i = j
  /\ SeatedAt(hr) \cap WaitingAt(hr) = {}

(* From one roster of an hour to the next, first come is first served: of two
   players who wait, the second one neither gets a seat nor passes ahead while
   the first one still waits. *)
FairTo(hr, new) ==
  \A i, j \in DOMAIN hr.waiting :
    i < j /\ hr.waiting[i] \in WaitingAt(new) =>
      /\ hr.waiting[j] \notin SeatedAt(new)
      /\ \A k, l \in DOMAIN new.waiting :
           new.waiting[k] = hr.waiting[i] /\ new.waiting[l] = hr.waiting[j] => k < l

(* `ordered` are the voters of the hour: all of them are seated when a court
   was taken for it, and all of them wait when none was. *)
InitialHour(ordered, taken) ==
  IF taken
  THEN [slots |-> [i \in DOMAIN ordered |-> Occupied(ordered[i], Nobody)],
        waiting |-> <<>>]
  ELSE [slots |-> <<>>, waiting |-> ordered]

-----------------------------------------------------------------------------
NextFreedSeq(r) ==
  1 + Max({-1} \cup UNION {{r[h].slots[i].freedSeq : i \in DOMAIN r[h].slots} : h \in Hours})

(* A waiting list is without duplicates: to filter a player out is to take
   one element away. *)
Without(s, p) ==
  LET at == CHOOSE i \in DOMAIN s : s[i] = p
  IN  [i \in 1 .. Len(s) - 1 |-> IF i < at THEN s[i] ELSE s[i + 1]]

(* Rule 1 for a seated player: the first one waiting takes the seat, else the
   seat stays free in the name of who left it. *)
Vacate(hr, p, seq) ==
  LET seat == CHOOSE i \in DOMAIN hr.slots : hr.slots[i].key = p
  IN  IF hr.waiting = <<>>
      THEN [hr EXCEPT !.slots = [@ EXCEPT ![seat] = Left(p, seq)]]
      ELSE [slots |-> [hr.slots EXCEPT ![seat] = Occupied(Head(hr.waiting), p)],
            waiting |-> Tail(hr.waiting)]

Withdraw(r, p) ==
  [h \in Hours |->
     IF p \in WaitingAt(r[h]) THEN [r[h] EXCEPT !.waiting = Without(@, p)]
     ELSE IF p \in SeatedAt(r[h]) THEN Vacate(r[h], p, NextFreedSeq(r))
     ELSE r[h]]

(* Rule 2: a player takes back the seat he left himself, else the seat that
   has been free for longest, else the last place of the waiting list. *)
OwnSeats(hr, p) == {i \in FreeAt(hr) : hr.slots[i].freedBy = p}

Oldest(hr) ==
  CHOOSE i \in FreeAt(hr) :
    \A j \in FreeAt(hr) : hr.slots[i].freedSeq <= hr.slots[j].freedSeq

TakeSeat(hr, p) ==
  IF OwnSeats(hr, p) # {}
  THEN [hr EXCEPT !.slots = [@ EXCEPT ![CHOOSE i \in OwnSeats(hr, p) : TRUE] = Occupied(p, Nobody)]]
  ELSE [hr EXCEPT !.slots = [@ EXCEPT ![Oldest(hr)] = Occupied(p, hr.slots[Oldest(hr)].freedBy)]]

EnterHour(hr, p) ==
  IF FreeAt(hr) = {} THEN [hr EXCEPT !.waiting = Append(@, p)] ELSE TakeSeat(hr, p)

Enter(r, p, hour) == [r EXCEPT ![hour] = EnterHour(@, p)]

(* Mutant: a player enters an hour and keeps his place at another one. *)
MoveWithoutWithdraw(r, p, option) ==
  IF option \notin Hours THEN Withdraw(r, p)
  ELSE IF IsPlaced(r[option], p) THEN r
  ELSE Enter(r, p, option)

(* One change of vote: an option that is no candidate hour is a withdrawal,
   and a choice already in force changes nothing (rule 3). *)
Move(r, p, option) ==
  IF option \notin Hours THEN Withdraw(r, p)
  ELSE IF IsPlaced(r[option], p) THEN r
  ELSE Enter(Withdraw(r, p), p, option)
=============================================================================
