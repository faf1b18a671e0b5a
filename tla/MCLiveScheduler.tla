--------------------------- MODULE MCLiveScheduler ---------------------------
(* Instances of LiveScheduler for TLC.                                     *)
EXTENDS LiveSchedulerRefinement, TLC

CONSTANTS d1, d2, cn, us

OneMarket == d1 :> cn @@ d2 :> cn
TwoMarkets == d1 :> cn @@ d2 :> us
OneDeployment == d1 :> cn

EveryDay == [m \in Markets |-> Days]
FirstDayIsHoliday == [m \in Markets |-> IF m = us THEN Days \ {1} ELSE Days]

Symmetry == Permutations(Deployments)
=============================================================================
