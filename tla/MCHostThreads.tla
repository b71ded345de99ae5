--------------------------- MODULE MCHostThreads ---------------------------
(* Instances of HostThreads with two timer threads.                        *)
EXTENDS HostThreads

CONSTANTS t1, t2
=============================================================================
