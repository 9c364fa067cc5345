--------------------------- MODULE MCSecAggServer ---------------------------
(* Instance of SecAggServer for TLC: three clients, of which two are       *)
(* enough, and an asynchronous round 2.                                    *)
EXTENDS SecAggServer
=============================================================================
