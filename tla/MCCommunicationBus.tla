------------------------- MODULE MCCommunicationBus -------------------------
(* Instances of CommunicationBus for TLC: the values are in the cfg files. *)
EXTENDS CommunicationBus
=============================================================================
