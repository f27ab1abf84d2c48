-------------------------- MODULE MCStreamingTools --------------------------
(* Instances of StreamingTools for TLC: the values are in the cfg files.   *)
EXTENDS StreamingTools
=============================================================================
