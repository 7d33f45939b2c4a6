-------------------------- MODULE PayoutLifecycle --------------------------
(***************************************************************************)
(* What the payout ledger promises of each payout: it is recorded once, as *)
(* money on its way or as a failure; it is completed and its liability     *)
(* cleared in one step; only completed payouts settle; any payout not yet  *)
(* failed may fail, a settled one when the bank returns the money; a       *)
(* failed payout stays as it is.                                           *)
(***************************************************************************)
EXTENDS Integers

CONSTANT Row
VARIABLES stage,    \* where each payout is
          cleared   \* clearing entries written for it

Init == stage = [r \in Row |-> "none"] /\ cleared = [r \in Row |-> 0]

Move(S, from, to) ==
    /\ \A r \in S : stage[r] \in from
    /\ stage' = [r \in Row |-> IF r \in S THEN to ELSE stage[r]]

Record(r) == /\ \/ Move({r}, {"none"}, "processing")
                \/ Move({r}, {"none"}, "failed")
             /\ UNCHANGED cleared

Complete(r) == /\ Move({r}, {"processing"}, "completed")
               /\ cleared' = [cleared EXCEPT ![r] = @ + 1]

Settle(S) == Move(S, {"completed"}, "settled") /\ UNCHANGED cleared

Fail(S) == /\ Move(S, {"processing", "completed", "settled"}, "failed")
           /\ UNCHANGED cleared

Next == \/ \E r \in Row : Record(r) \/ Complete(r)
        \/ \E S \in SUBSET Row : Settle(S) \/ Fail(S)

Spec == Init /\ [][Next]_<<stage, cleared>>
=============================================================================
