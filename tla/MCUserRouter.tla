---------------------------- MODULE MCUserRouter ----------------------------
(* Model checking of UserRouter: two servers and a descriptor more than    *)
(* that, so that a failed connect and a reused number both happen.         *)
EXTENDS UserRouter

CONSTANTS a, b

MCServers == {a, b}
MCFds     == 1..3
=============================================================================
