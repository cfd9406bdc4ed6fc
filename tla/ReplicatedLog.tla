--------------------------- MODULE ReplicatedLog ---------------------------
(***************************************************************************)
(* What the replication of the Lab3 store promises until a follower gives  *)
(* its leader up: the leader's commands form one growing sequence, and     *)
(* every other server executes that sequence, in order, one command at a   *)
(* time, none twice and none invented.                                     *)
(***************************************************************************)
EXTENDS Naturals, Sequences

CONSTANTS Command, Replica

VARIABLES
  log,   \* the commands the leader executed
  copy   \* copy[r]: the commands the replica r executed

Init ==
  /\ log \in Seq(Command)
  /\ copy = [r \in Replica |-> <<>>]

Write(c) == log' = Append(log, c) /\ UNCHANGED copy

Copy(r) ==
  /\ Len(copy[r]) < Len(log)
  /\ copy' = [copy EXCEPT ![r] = Append(@, log[Len(@) + 1])]
  /\ UNCHANGED log

Next == (\E c \in Command : Write(c)) \/ (\E r \in Replica : Copy(r))

Spec == Init /\ [][Next]_<<log, copy>>
============================================================================
