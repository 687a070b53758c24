------------------------------ MODULE MCQuery ------------------------------
(* Instances of QueryContract for TLC.                                      *)
EXTENDS QueryContract, MCRules

(* 0 expands 2; 1 belongs to a committee without this member.               *)
MCDel == {0, 1, 2}
MCInfo ==
    [d \in MCDel |->
        CASE d = 0 -> [Good(1) EXCEPT !.prev = 2]
          [] d = 1 -> Good(2)
          [] OTHER -> Good(1)]
=============================================================================
