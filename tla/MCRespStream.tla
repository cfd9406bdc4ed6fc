---------------------------- MODULE MCRespStream ----------------------------
(* Model checking of RespStream: a key, values of one and two words, and    *)
(* a command of an unknown name, one the router asks no answer for and the  *)
(* ones that empty or show.                                                 *)
EXTENDS RespStream

K == <<"k">>
V == <<"v">>
W == <<"w", "x">>

MCLines == {<<Set, K, V>>, <<Set, K, W, V>>, <<Get, K>>, <<Del, K, V>>, <<V, Set, K, W>>,
            <<Set, Onetime, V>>, <<FlushDb>>, <<<<"showClients">>>>}

\* A reduction: all is typed before the first read.  Typing only adds bytes that
\* reads may leave for later.
MCTypedFirst == entered' # entered => ran = <<>>

\* Where reads cut, what the router reads does not matter: it reads at once.
MCReadsAtOnce == ~tidy /\ toRouter # <<>> => printed' # printed

\* Of three commands each is read as one packet.
MCThreeTidy == Len(entered) <= 2 \/ tidy'
============================================================================
