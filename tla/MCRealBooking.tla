--------------------------- MODULE MCRealBooking ---------------------------
EXTENDS RealBooking

\* Lines of the plan with and without the joker, a volunteer or two, few credits.
Plans == {<< <<"a", "b">>, <<"a", "b">> >>,
          << <<"a", "b">>, <<"v", "c">> >>,
          << <<"a", "j">>, <<"b", "c">> >>,
          << <<"a", "j">>, <<"b", "j">>, <<"c", "j">> >>}
Credits == [{"a", "b", "v"} -> 0 .. 1]
Volunteers == {<< >>, <<"v">>, <<"v", "w">>}

OneInput(plan, vol, few, j, out, real, roster, joker) ==
  [lines |-> plan, volunteers |-> vol, joker |-> joker, maxDaily |-> 1,
   unregistered |-> out, real |-> real, roster |-> roster,
   credits |-> [p \in {"a", "b", "c", "v", "w", "j"} |->
                 CASE p \in {"a", "b", "v"} -> 2 * few[p] [] p = "j" -> j [] OTHER -> 2]]

MCInputs ==
  {OneInput(plan, vol, few, j, out, TRUE, TRUE, "j") :
     plan \in Plans, vol \in Volunteers, few \in Credits, j \in 0 .. 2, out \in {{}, {"b"}}}
  \cup {OneInput(plan, <<"v">>, few, 2, {}, real, FALSE, "j") :
          plan \in Plans \cup {<< >>}, few \in Credits, real \in BOOLEAN}
  \cup {OneInput(<< <<"a", "b">>, <<"c", "w">> >>, <<"v">>, few, 2, {}, TRUE, TRUE, NoOne) :
          few \in Credits}
  \cup {OneInput(<< <<"a", "b">>, <<"a", "c">> >>, <<"j", "v">>, few, 2, {}, TRUE, TRUE, "j") :
          few \in Credits}
\* The joker, held to have no credit after two lines, is a volunteer for the third.
  \cup {[OneInput(<< <<"a", "j">>, <<"b", "j">>, <<"c", "w">> >>, vol, few, 2, {}, TRUE, TRUE, "j")
           EXCEPT !.maxDaily = 3, !.credits["c"] = 0] :
          vol \in {<<"j">>, <<"j", "v">>}, few \in Credits}
MCMishaps == {"take", "error", "lose", "refuse", "crash"}
=============================================================================
