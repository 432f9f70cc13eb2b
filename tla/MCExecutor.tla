----------------------------- MODULE MCExecutor -----------------------------
(* Instances of Executor for TLC. *)
EXTENDS Executor, TLC

CONSTANTS first, second

MCOpps == {first, second}

\* A two-leg spread and a single-leg opportunity.
MCLegs == first :> 2 @@ second :> 1

\* Two single-leg opportunities: which is queued first does not matter.
MCSingleLegs == [o \in MCOpps |-> 1]
MCSymmetry == Permutations(MCOpps)

\* A single spread.
MCOneOpp == {first}
MCSpread == first :> 2

\* A spread beside a message that has no order plan.
MCNoPlan == first :> 2 @@ second :> 0
=============================================================================
