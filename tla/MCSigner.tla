------------------------------ MODULE MCSigner ------------------------------
(* Instances of SignerService for TLC.                                      *)
EXTENDS SignerService

(* A signing request for unbonding only, one for an expansion with a wrong  *)
(* index, one without a valid HMAC; an unlock, a lock, a second unlock that *)
(* may come before or after it, and an unlock with a wrong passphrase.      *)
MCReq == {"s1", "s2", "x1", "u1", "u2", "u3", "l1"}

(* The operator only unlocks and locks.                                     *)
MCReqOperator == {"u1", "u2", "l1", "l2", "s1"}

KindOf(r) ==
    CASE r \in {"s1", "s2", "x1"} -> "sign"
      [] r \in {"u1", "u2", "u3"} -> "unlock"
      [] OTHER -> "lock"

MCKind == [r \in Req |-> KindOf(r)]
MCAdmitted == [r \in Req |-> r # "x1"]
MCPassOK == [r \in Req |-> r # "u3"]
MCSigCount == [r \in Req |-> IF r = "s2" THEN 2 ELSE 1]
MCBadIndex == Req \cap {"s2"}
=============================================================================
