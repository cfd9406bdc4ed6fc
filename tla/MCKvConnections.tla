-------------------------- MODULE MCKvConnections --------------------------
(* Model checking of KvConnections: two users and a server to follow.       *)
EXTENDS KvConnections

CONSTANTS u1, u2, b1, b2

MCTwo == {u1, u2}

MCLinks == {b1, b2}

\* A reduction: peers move between batches.  What they do while a batch is
\* served commutes to before it, if it is about a connection still to be served
\* (whose event is there already), and else to behind it.
MCOneBatch == (batch # {} \/ run.at # "loop") => loop' # loop

\* Users start alike: u1 stands for the one that connects first.
MCFirstUser == end'[u2] # "new" => end'[u1] # "new"

\* Links are alike too: b2 is one made while there is another.
MCFirstLink == end'[b2] = "open" /\ end[b2] # "open" => end[b1] \notin {"new", "closed"}

============================================================================
