---------------------------- MODULE MCVoteRoster ----------------------------
(* Model checking of VoteRoster: the voters are the numbers of their phones,
   and two of them have voted for different hours before the collection. *)
EXTENDS VoteRoster

MCInit == VotesInit /\ Len(sent) = 2 /\ \A i \in DOMAIN sent :
            sent[i].voter = i /\ sent[i].option = <<"h1", "h2">>[i]

MCSpec == MCInit /\ [][VotesNext]_votesVars
=============================================================================
