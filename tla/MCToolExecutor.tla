--------------------------- MODULE MCToolExecutor ---------------------------
(* Instances of ToolExecutor for TLC.                                      *)
EXTENDS ToolExecutor

Kind(known, safe, bash, cancel, quick) ==
  [known |-> known, safe |-> safe, bash |-> bash, cancel |-> cancel, quick |-> quick]

Missing == Kind(FALSE, TRUE, FALSE, FALSE, FALSE)
Read == Kind(TRUE, TRUE, FALSE, FALSE, FALSE)
ReadShell == Kind(TRUE, TRUE, TRUE, FALSE, FALSE)
BadEdit == Kind(TRUE, FALSE, FALSE, FALSE, TRUE)
Sleep == Kind(TRUE, TRUE, FALSE, TRUE, FALSE)
Edit == Kind(TRUE, FALSE, FALSE, FALSE, FALSE)

\* First what may hold up the others, then what is held up or fails, what is
\* answered at once, and what may overtake.
Various ==
  << {Sleep}, {Edit}, {Missing, BadEdit}, {ReadShell} >>

EditThenMissing == << {Edit}, {Missing} >>
=============================================================================
