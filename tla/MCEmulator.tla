----------------------------- MODULE MCEmulator -----------------------------
(* Instances of CovenantEmulator for TLC.                                   *)
EXTENDS CovenantEmulator, MCRules

(* For the submission: 0 is a stake expansion of 1, both may be signed.     *)
MCDel2 == {0, 1}
MCInfoSignable ==
    [d \in MCDel2 |-> IF d = 0 THEN [Good(1) EXCEPT !.prev = 1] ELSE Good(1)]

(* For liveness: 0 passes the filter and fails a check, 1 may be signed.    *)
MCInfoNeighbour ==
    [d \in MCDel2 |-> IF d = 0 THEN [Good(1) EXCEPT !.unbondingOut = 98]
                              ELSE Good(1)]

(* For the filter and the checks: 0 is a stake expansion of 1, a delegation *)
(* this member was not asked to sign; 2 may be signed; the staking time of  *)
(* 3 does not fit uint16.                                                   *)
MCDel4 == {0, 1, 2, 3}
MCInfoMixed ==
    [d \in MCDel4 |->
        CASE d = 0 -> [Good(1) EXCEPT !.prev = 1]
          [] d = 1 -> Good(2)
          [] d = 2 -> Good(1)
          [] d = 3 -> [Good(1) EXCEPT !.stakingTime = MaxUint16 + 1]]
=============================================================================
