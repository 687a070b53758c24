------------------------------ MODULE MCRules ------------------------------
(* Committees, parameters and delegations for the instances TLC checks.     *)
EXTENDS CovenantRules

CONSTANTS own, other        \* model values: the committee's two keys

MCMember == {own, other}

MCVersion == {1, 2}

(* Version 2 is a later committee without this member.                      *)
MCParam ==
    [v \in MCVersion |->
        [committee |-> IF v = 1 THEN {own, other} ELSE {other},
         quorum |-> IF v = 1 THEN 2 ELSE 1,
         unbondingTime |-> 5, minStakingTime |-> 10, maxStakingTime |-> 20,
         minStakingValue |-> 100, maxStakingValue |-> 200,
         unbondingFee |-> 3]]

Good(v) ==
    [version |-> v, parses |-> TRUE, undelegation |-> TRUE,
     unbondingTime |-> 5, stakingTime |-> 20, totalSat |-> 100,
     stakingTx |-> TRUE, unbondingTx |-> TRUE,
     stakingOut |-> 100, unbondingOut |-> 97,
     fpKeys |-> TRUE, scripts |-> TRUE, unbondingScript |-> TRUE,
     prev |-> NoDel, prevTx |-> TRUE, funding |-> TRUE]
=============================================================================
