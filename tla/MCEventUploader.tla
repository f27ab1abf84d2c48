-------------------------- MODULE MCEventUploader --------------------------
(* An instance of EventUploader for TLC. *)
EXTENDS EventUploader

\* The settings of the uploaders of CCRClient for events, of HybridTransport in
\* a bridge, whose send may resolve undelivered, and of CCRClient for deliveries.
MCConfigs ==
  {[bytes |-> TRUE, giveUp |-> 0, poison |-> TRUE, silent |-> FALSE],
   [bytes |-> FALSE, giveUp |-> 2, poison |-> TRUE, silent |-> TRUE],
   [bytes |-> FALSE, giveUp |-> 0, poison |-> FALSE, silent |-> FALSE]}
=============================================================================
