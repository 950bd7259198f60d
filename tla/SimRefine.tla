------------------------------ MODULE SimRefine ------------------------------
(***************************************************************************)
(* The interpreter implements the lexically scoped machine: one flat        *)
(* register table, kept for the whole run and never cleared between blocks, *)
(* holds at every instruction exactly the bindings scope would give the      *)
(* values in scope; whatever else it holds cannot be seen.                  *)
(***************************************************************************)
EXTENDS Sim

Visible == phase = "running" /\ WellFormedRun

Ending == CASE error = "none"              -> "returned"
            [] error = "OutOfBounds"       -> "faulted"
            [] error = "StepLimitExceeded" -> "gave up"
            [] OTHER                       -> "broken"

StatusOf ==
  IF phase = "idle" THEN "none"
  ELSE IF ~WellFormedRun THEN "unspecified"
  ELSE IF phase = "running" THEN "running"
  ELSE Ending

InScope ==
  [v \in IF Visible THEN AvailAt(func, current, pc) ELSE {} |-> registers[v]]

Ssa == INSTANCE SsaMachine WITH
         status <- StatusOf,
         at     <- IF Visible THEN <<current, pc>> ELSE <<>>,
         env    <- InScope,
         heap   <- mem,
         answer <- returns

\* Every run of the interpreter is an evaluation of the lexically scoped
\* machine: block parameters are bound in parallel, a value of an earlier
\* iteration is never seen after it should have been rebound, results and
\* faults come where the meaning of the function has them.
ImplementsSsa == Ssa!SSpec
=============================================================================
