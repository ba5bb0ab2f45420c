-------------------------- MODULE BookingPromise --------------------------
(***************************************************************************)
(* What the real booking of a plan promises, whatever it takes to keep it    *)
(* (ADR-027): the lines are settled one after the other and independently, a *)
(* line is never booked twice, and the booking fails as a whole only when    *)
(* every line has been refused.                                              *)
(***************************************************************************)
EXTENDS Naturals, FiniteSetsExt

VARIABLES
  lines,    \* the lines of the plan, 1..n
  open,     \* those not settled yet
  booked,   \* those the club holds for the job
  refused,  \* those reported as refused
  verdict   \* "none" while it runs, then "booked", "failed" or "interrupted"

vars == <<lines, open, booked, refused, verdict>>

Init ==
  /\ lines \subseteq Nat
  /\ open = lines /\ booked = {} /\ refused = {}
  /\ verdict = "none"

Current == Min(open)
Busy == verdict = "none" /\ open # {}

Settle == open' = open \ {Current}
Hold == Current \notin booked /\ booked' = booked \cup {Current}
Report == refused' = refused \cup {Current}

Book == Busy /\ Hold /\ Settle /\ UNCHANGED <<lines, refused, verdict>>
Refuse == Busy /\ Report /\ Settle /\ UNCHANGED <<lines, booked, verdict>>

\* The club books the line and its answer is lost: other names may still be tried.
BookUnheard ==
  /\ Busy /\ Hold
  /\ (Report /\ Settle) \/ UNCHANGED <<refused, open>>
  /\ UNCHANGED <<lines, verdict>>

Conclude ==
  /\ verdict = "none" /\ open = {}
  /\ verdict' = IF refused = lines /\ lines # {} THEN "failed" ELSE "booked"
  /\ UNCHANGED <<lines, open, booked, refused>>

\* A restart of the worker, or a failure of what follows the booking.
Interrupt ==
  /\ verdict \in {"none", "booked"}
  /\ verdict' = "interrupted"
  /\ UNCHANGED <<lines, open, booked, refused>>

\* The step is retried from its first line.
Again ==
  /\ verdict \in {"failed", "interrupted"}
  /\ open' = lines /\ refused' = {} /\ verdict' = "none"
  /\ UNCHANGED <<lines, booked>>

Next == Book \/ Refuse \/ BookUnheard \/ Conclude \/ Interrupt \/ Again
Spec == Init /\ [][Next]_vars
=============================================================================
