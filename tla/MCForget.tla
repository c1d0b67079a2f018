------------------------------ MODULE MCForget ------------------------------
(***************************************************************************)
(* Instances of Forget and their policies.                                 *)
(***************************************************************************)
EXTENDS Forget, TLC

CONSTANTS f1, f2

None == [last |-> 0, hourly |-> 0, daily |-> 0, weekly |-> 0, monthly |-> 0,
         yearly |-> 0, tags |-> {}]

OneTagged == <<{}, {"t"}, {}>>

LastOne == [None EXCEPT !.last = 1]
DailyTagged == [None EXCEPT !.daily = 1, !.tags = {"t"}]

MCTwoPolicies == (f1 :> LastOne) @@ (f2 :> DailyTagged)
=============================================================================
