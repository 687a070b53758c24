------------------------------- MODULE MCCall -------------------------------
(* The instances of SigningCall and of WireFormat for TLC: who calls the    *)
(* signer when, and what one of the calls carries. The two share no         *)
(* variable; one moves while the other is where it began.                   *)
EXTENDS SigningCall, WireFormat

(* The daemon's health check, public key and one signing call; an unlock    *)
(* and a lock of the operator. (A second signing call, with a wrong index,  *)
(* is beyond TLC's reach; the proofs have it.)                              *)
MCReq == {"p1", "p2", "s1", "u1", "l1"}
MCProgram == <<"p1", "p2", "s1">>

MCKind == [r \in Req |->
    CASE r \in {"p1", "p2"} -> "pubkey" [] r = "s1" -> "sign"
      [] r = "u1" -> "unlock" [] OTHER -> "lock"]
MCPassOK == [r \in Req |-> TRUE]
MCSigCount == [r \in Req |-> 2]
MCBadIndex == {}

(* Everything agrees; the daemon or the operator has another HMAC key than  *)
(* the signer, or none; the signer accepts no body as large as a signing    *)
(* request's, and the lock comes from someone without the key.              *)
Agreed == [clientKey |-> [r \in Req |-> "k"], serverKey |-> "k",
           wellFormed |-> [r \in Req |-> TRUE]]
MCDeployments ==
    {Agreed, [Agreed EXCEPT !.clientKey["p1"] = "other"],
     [Agreed EXCEPT !.clientKey["u1"] = NoKey],
     [Agreed EXCEPT !.wellFormed["s1"] = FALSE, !.clientKey["l1"] = NoKey]}

(* Up to two of three finality providers, in either order.                  *)
Fp == {"f1", "f2", "f3"}
FpLists == {<<>>} \cup {<<f>> : f \in Fp}
    \cup UNION {{<<f, g>> : g \in Fp \ {f}} : f \in Fp}

Expansions == {Nil} \cup
    {[PreviousActiveStakeTx |-> "previousTx", OtherFundingOutput |-> "otherOutput",
      PreviousStakingOutputIdx |-> i,
      PreviousActiveStakeUnbondingPkScriptPath |-> s] :
        i \in 0 .. 1, s \in {"previousScript", Empty}}

Regular ==
    {[StakingTx |-> "stakingTx", SlashingTx |-> "slashingTx",
      UnbondingTx |-> "unbondingTx", SlashUnbondingTx |-> "slashUnbondingTx",
      StakeExp |-> e, StakingOutputIdx |-> i,
      SlashingPkScriptPath |-> "slashingScript",
      StakingTxUnbondingPkScriptPath |-> "unbondingScript",
      UnbondingTxSlashingPkScriptPath |-> "unbondingSlashingScript",
      FpEncKeys |-> l] : e \in Expansions, i \in 0 .. 1, l \in FpLists}

(* One field of another caller's request is missing or undecodable.         *)
Faulty ==
    {[r EXCEPT ![f] = v] : r \in Regular, v \in {Empty, Junk},
        f \in {"StakingTx", "SlashingTx", "UnbondingTx", "SlashUnbondingTx",
               "SlashingPkScriptPath", "StakingTxUnbondingPkScriptPath",
               "UnbondingTxSlashingPkScriptPath"}}
    \cup {[r EXCEPT !.FpEncKeys = <<"f1", v>>] : r \in Regular, v \in {Empty, Junk}}

MCRequests == Regular \cup Faulty

----------------------------------------------------------------------------

MCCallInit == CallInit /\ WireInit

MCCallNext ==
    \/ WireInit /\ CallNext /\ UNCHANGED wireVars
    \/ CallInit /\ deployment = Agreed /\ WireNext /\ UNCHANGED callVars

MCCallSpec == MCCallInit /\ [][MCCallNext]_<<callVars, wireVars>>
=============================================================================
