---------------------------- MODULE MCHttpServer ----------------------------
(* Model checking of HttpServer: two workers, as many descriptors as       *)
(* connections, and room for one request less than them.                   *)
EXTENDS HttpServer

CONSTANTS w1, w2, c1, c2, c3

MCWorkers == {w1, w2}
MCConns   == {c1, c2, c3}
MCFds     == 1..3
=============================================================================
