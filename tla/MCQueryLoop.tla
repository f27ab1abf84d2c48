----------------------------- MODULE MCQueryLoop -----------------------------
(* Instances of QueryLoop for TLC.                                         *)
EXTENDS QueryLoop

Config(streaming, reactive, collapse, escalate, auto, budget) ==
  [streaming |-> streaming, reactive |-> reactive, collapse |-> collapse,
   escalate |-> escalate, auto |-> auto, budget |-> budget]

Limit(fallbacks, switches, drains, blocks, large) ==
  [fallbacks |-> fallbacks, switches |-> switches, drains |-> drains, blocks |-> blocks,
   large |-> large]

\* Every recovery of an error; failing compactions; a budget; streams that break;
\* an older build without streaming execution or any recovery.
Recovering == Config(TRUE, TRUE, TRUE, TRUE, FALSE, FALSE)
Compacting == Config(FALSE, TRUE, FALSE, FALSE, TRUE, FALSE)
Budgeted == Config(TRUE, TRUE, FALSE, FALSE, FALSE, TRUE)
Breaking == Config(TRUE, FALSE, FALSE, FALSE, FALSE, FALSE)
Plain == Config(FALSE, FALSE, TRUE, FALSE, FALSE, FALSE)

Some == {Recovering, Compacting, Budgeted, Breaking, Plain}

SomeLimits ==
  [c \in Some |-> CASE c = Recovering -> Limit(0, 0, 1, 1, 0)
                    [] c = Compacting -> Limit(0, 0, 0, 1, 0)
                    [] c = Budgeted -> Limit(0, 0, 0, 0, 1)
                    [] c = Breaking -> Limit(1, 1, 0, 0, 0)
                    [] c = Plain -> Limit(0, 1, 1, 0, 0)]
=============================================================================
