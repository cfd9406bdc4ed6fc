-------------------------- MODULE MCKvReplication --------------------------
(* Model checking of KvReplication: one key, two values, two writes.         *)
EXTENDS KvReplication, TLC, FiniteSetsExt

CONSTANTS s1, s2, s3, k, a, b

MCTwo   == {s1, s2}
MCThree == {s1, s2, s3}
MCKey   == {k}
MCValue == {a, b}

Set(v)  == [op |-> "set", key |-> k, value |-> v]
FlushDb == [op |-> "flushDb", key |-> k, value |-> a]

MCSets     == <<Set(a), Set(b)>>
MCSetFlush == <<Set(a), FlushDb>>

\* A reduction: while the loop of s works through a batch only s moves, by its
\* loop or by its timer.  Steps of other servers commute with those of s until
\* s reads again, so no order of events is lost.
MCOneLoop ==
  \A s \in Server : Running(s) =>
    \/ handler'[s] # handler[s] \/ wire'[s] # wire[s]
    \/ serverType'[s] # serverType[s]

\* A bound: unread packets in the mesh.
CONSTANT MaxLoad
MCLoad == MapThenSumSet(LAMBDA c : Len(wire[c[1]][c[2]]), Server \X Server) <= MaxLoad

\* The followers start alike.
MCSymmetry == Permutations({s2, s3})
============================================================================
