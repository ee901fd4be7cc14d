------------------------------ MODULE TaskRules ------------------------------
(***************************************************************************)
(* The domain rules: the statuses a task may have and which moves between  *)
(* them are allowed (api/internal/domain).                                 *)
(***************************************************************************)
EXTENDS Integers

NotStarted == "not_started"
InProgress == "in_progress"
Completed  == "completed"
Archived   == "archived"

Status == {NotStarted, InProgress, Completed, Archived}

\* Mutant: the brief read literally, which guards In progress alone.
CanTransitionLiterally(from, to, unmetDeps) ==
  IF from = to \/ to = Archived THEN "ok"
  ELSE IF from = Archived /\ to # NotStarted THEN "invalid"
  ELSE IF to = InProgress /\ unmetDeps > 0 THEN "blocked"
  ELSE "ok"

\* The outcome of a move for a status that is valid: no error, a
\* ValidationError, or a BlockedError.  unmetDeps is the stored counter.
CanTransition(from, to, unmetDeps) ==
  IF from = to \/ to = Archived THEN "ok"
  ELSE IF from = Archived /\ to # NotStarted THEN "invalid"
  ELSE IF to \in {InProgress, Completed} /\ unmetDeps > 0 THEN "blocked"
  ELSE "ok"
==============================================================================
