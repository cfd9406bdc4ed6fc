--------------------------- MODULE MCKvElection ---------------------------
(* Model checking of KvElection: three servers, of which one starts as     *)
(* leader, or which are left of a mesh of four whose leader s0 stopped.    *)
EXTENDS KvElection, TLC

CONSTANTS s0, s1, s2, s3, s4

MCServer == {s1, s2, s3}

MCLed  == MCServer
MCBoth == MCServer \cup {s0}

\* The leader the run started from.
VARIABLE start

MCInit == \E first \in FirstLeaders : Mesh(first) /\ start = first
MCNext == Next /\ UNCHANGED start
MCSpec == MCInit /\ [][MCNext]_<<vars, start>>

\* Where all three may be candidates at once, one term and one packet at a time
\* are enough for that, and a campaign that timed out has no other to follow.
MCTerms ==
  start = s0 =>
    /\ \A s \in Server : term'[s] <= 1 /\ Len(handler'[s].todo) <= 1
    /\ \A c \in campaigned' : flag_election'[c[1]] # -1

\* Runs in which no campaign starts in the middle of a handler.
MCWhole == torn' = {}

\* Four servers left of five, of which s1 and s2 campaign and s4 may stop: where
\* TLC refutes CampaignLeadersUnique in a mesh of more than three.
MCFour == {s1, s2, s3, s4}
MCLeft == {s0}
MCTwoCandidates ==
  /\ \A s \in {s3, s4} : serverType'[s] \notin {"candidate", "leader"}
  /\ \A s \in {s1, s2, s3} : serverType'[s] # "down"
  /\ \A g \in granted' : g.candidate = IF g.voter = s3 THEN s1 ELSE s2

\* Servers that start alike.
MCSymmetry == Permutations(MCServer)
===========================================================================
