----------------------------- MODULE MCShutdown -----------------------------
(* Two processes that may both ask for a shutdown. *)
EXTENDS Shutdown

ShortSlices == [l \in Levels |-> 1]
=============================================================================
