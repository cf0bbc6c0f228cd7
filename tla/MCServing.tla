------------------------------- MODULE MCServing -------------------------------
(* Three requests of one caller, one of them a stream.                     *)
EXTENDS Serving

AllRequests == {"a", "b", "c"}
Caller == [r \in AllRequests |-> "alice"]
Streaming == {"c"}
=============================================================================
