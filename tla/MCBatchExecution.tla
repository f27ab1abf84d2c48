-------------------------- MODULE MCBatchExecution --------------------------
(* Instances of BatchExecution for TLC.                                    *)
EXTENDS BatchExecution

\* Ids that sort the other way round than the calls come.
Descending == [c \in 1 .. MaxCalls |-> MaxCalls - c]
=============================================================================
