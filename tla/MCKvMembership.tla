--------------------------- MODULE MCKvMembership ---------------------------
(* Model checking of KvMembership: a leader and two followers, of which one *)
(* may stop and come back.                                                  *)
EXTENDS KvMembership

CONSTANTS s1, s2, s3

MCServer == {s1, s2, s3}
=============================================================================
