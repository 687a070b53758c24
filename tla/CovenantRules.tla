--------------------------- MODULE CovenantRules ---------------------------
(***************************************************************************)
(* What the covenant emulator checks about ONE BTC delegation, as pure     *)
(* operators: the conversion of the chain's answer, the filter that decides*)
(* whether this member should sign (AcceptDelegationToSign) and the checks *)
(* AddCovenantSignatures runs before it calls the signer.                  *)
(*                                                                         *)
(* Transactions and scripts are abstracted to the verdict of the check the *)
(* code runs on them (a BOOLEAN field of Info[d]); times, amounts, fees,   *)
(* versions, committees and quorums keep their values.                     *)
(***************************************************************************)
EXTENDS Integers, FiniteSets

CONSTANTS
    Del,        \* delegations, named by their position in the chain's store
    NoDel,      \* "no previous delegation": not a stake expansion
    Member,     \* covenant committee members (public keys)
    Own,        \* the key this emulator signs with
    Version,    \* versions of the staking parameters
    Param,      \* Param[v]: the staking parameters of version v
    Info        \* Info[d]: the immutable part of delegation d

MaxUint16 == 65535

StakingParams ==
    [committee      : SUBSET Member,
     quorum         : Nat,
     unbondingTime  : Nat,
     minStakingTime : Nat,
     maxStakingTime : Nat,
     minStakingValue: Nat,
     maxStakingValue: Nat,
     unbondingFee   : Nat]

(* parses      : tx hexes not empty, amount fits int64, signatures decode   *)
(* undelegation: the response carries an undelegation                       *)
(* stakingTx   : staking and slashing tx decode and match                   *)
(* unbondingTx : unbonding and its slashing tx decode and match             *)
(* stakingOut, unbondingOut: values of the outputs the fee is computed from *)
(* fpKeys      : every finality provider key gives an encryption key        *)
(* scripts, unbondingScript: the script paths of the staking and of the     *)
(*               unbonding output can be built                              *)
(* prev        : the delegation a stake expansion spends, or NoDel          *)
(* prevTx      : the previous staking tx decodes and hashes to the name     *)
(* funding     : two inputs, the first one the previous staking tx, and a   *)
(*               funding output of positive value                           *)
DelegationInfo ==
    [version      : Version,
     parses       : BOOLEAN,
     undelegation : BOOLEAN,
     unbondingTime: Nat,
     stakingTime  : Nat,
     totalSat     : Nat,
     stakingTx    : BOOLEAN,
     unbondingTx  : BOOLEAN,
     stakingOut   : Nat,
     unbondingOut : Nat,
     fpKeys       : BOOLEAN,
     scripts      : BOOLEAN,
     unbondingScript: BOOLEAN,
     prev         : Del \cup {NoDel},
     prevTx       : BOOLEAN,
     funding      : BOOLEAN]

ASSUME RulesAssumption ==
    /\ Del \subseteq Nat
    /\ IsFiniteSet(Del)
    /\ NoDel \notin Del
    /\ Own \in Member
    /\ Param \in [Version -> StakingParams]
    /\ Info \in [Del -> DelegationInfo]

(* What a query returns of a delegation: its name and the members whose     *)
(* signatures it carried when the chain answered. A signature set stands    *)
(* for the three lists of the response (slashing, unbonding and unbonding   *)
(* slashing), which the chain extends together.                             *)
Delegation == [del : Del, sigs : SUBSET Member]

ParamsOf(d) == Param[Info[d].version]

(* QueryStakingParamsByVersion rejects bounds that do not fit uint16.       *)
ParamsUsable(v) ==
    /\ Param[v].minStakingTime <= MaxUint16
    /\ Param[v].maxStakingTime <= MaxUint16

DelegationRespOK(d) ==
    /\ Info[d].parses
    /\ Info[d].unbondingTime <= MaxUint16

IsStakeExpansion(d) == Info[d].prev # NoDel

----------------------------------------------------------------------------
(* The filter *)

(* Mutant: the signatures of the response are not looked at.                *)
NeverAlreadySigned(s) == FALSE

AlreadySigned(s) == Own \in s.sigs

IsKeyInCommittee(d) == Own \in ParamsOf(d).committee

(* Parameter versions the filter reads for d, in this order: its own, and   *)
(* for a stake expansion whose own committee holds the key, the previous.   *)
PrevVersion(d) == Info[Info[d].prev].version

VersionsRead(d) ==
    {Info[d].version} \cup
        (IF IsStakeExpansion(d) /\ IsKeyInCommittee(d)
            THEN {PrevVersion(d)} ELSE {})

(* Mutant: the committee of the expansion itself is looked up again.        *)
ValidateExpansionOfSelf(d) == IsKeyInCommittee(d)

ValidateStakeExpansion(d) == IsKeyInCommittee(Info[d].prev)

(* Mutant: the previous committee of a stake expansion is not checked.      *)
AcceptWithoutPrevious(s) ==
    /\ ~AlreadySigned(s)
    /\ IsKeyInCommittee(s.del)

AcceptDelegationToSign(s) ==
    /\ ~AlreadySigned(s)
    /\ IsKeyInCommittee(s.del)
    /\ IsStakeExpansion(s.del) => ValidateStakeExpansion(s.del)

----------------------------------------------------------------------------
(* The checks before signing *)

HasCovenantQuorum(s) == Cardinality(s.sigs) >= ParamsOf(s.del).quorum

(* Steps 0 to 3: what is decided before the staking time is read.           *)
EarlyChecks(s) ==
    LET i == Info[s.del]
    IN  /\ i.undelegation
        /\ ~HasCovenantQuorum(s)
        /\ i.unbondingTime = ParamsOf(s.del).unbondingTime

StakingTimeInRange(d) ==
    /\ Info[d].stakingTime >= ParamsOf(d).minStakingTime
    /\ Info[d].stakingTime <= ParamsOf(d).maxStakingTime

StakingValueInRange(d) ==
    /\ Info[d].totalSat >= ParamsOf(d).minStakingValue
    /\ Info[d].totalSat <= ParamsOf(d).maxStakingValue

UnbondingFeeOK(d) ==
    Info[d].stakingOut - Info[d].unbondingOut = ParamsOf(d).unbondingFee

(* What the transactions and scripts of a delegation come to.               *)
DecodeDelegationTransactions(d) == Info[d].stakingTx
DecodeUndelegationTransactions(d) == Info[d].unbondingTx
FpEncKeysFromDel(d) == Info[d].fpKeys
PkScriptPathSlashAndUnbond(d) == Info[d].scripts
PkScriptPathUnbondingSlash(d) == Info[d].unbondingScript
PkScriptPaths(d) == PkScriptPathSlashAndUnbond(d) /\ PkScriptPathUnbondingSlash(d)

(* Steps 4 to 8.                                                            *)
LateChecks(d) ==
    /\ StakingTimeInRange(d)
    /\ StakingValueInRange(d)
    /\ DecodeDelegationTransactions(d)
    /\ DecodeUndelegationTransactions(d)
    /\ UnbondingFeeOK(d)
    /\ FpEncKeysFromDel(d)
    /\ PkScriptPaths(d)

(* GetStakingTime panics on a value that does not fit uint16.               *)
GetStakingTimePanics(d) == Info[d].stakingTime > MaxUint16

StakeExpValidateBasic(d) == Info[d].funding

(* Step 9: the stake expansion request.                                     *)
BuildStkExpSigningRequest(d) ==
    /\ StakeExpValidateBasic(d)
    /\ Info[d].prevTx
    /\ PkScriptPathSlashAndUnbond(Info[d].prev)

(* The previous delegation is queried once more for s.                      *)
QueriesPrevious(s) ==
    /\ EarlyChecks(s)
    /\ ~GetStakingTimePanics(s.del)
    /\ LateChecks(s.del)
    /\ IsStakeExpansion(s.del)
    /\ StakeExpValidateBasic(s.del)

(* The signer is called for s.                                              *)
ReachesSigner(s) ==
    /\ EarlyChecks(s)
    /\ ~GetStakingTimePanics(s.del)
    /\ LateChecks(s.del)
    /\ IsStakeExpansion(s.del) =>
            /\ BuildStkExpSigningRequest(s.del)
            /\ ~GetStakingTimePanics(Info[s.del].prev)

(* The process panics on s: its own staking time at step 4, or the previous *)
(* delegation's when the previous script path is built in step 9.           *)
Panics(s) ==
    /\ EarlyChecks(s)
    /\ \/ GetStakingTimePanics(s.del)
       \/ /\ QueriesPrevious(s)
          /\ Info[s.del].prevTx
          /\ GetStakingTimePanics(Info[s.del].prev)

----------------------------------------------------------------------------
(* What the committee asks of a member, stated without the code's order of  *)
(* checks: the delegations this member's signature may ever appear on.      *)
TermsAgree(d) ==
    /\ Own \in ParamsOf(d).committee
    /\ Info[d].prev # NoDel => Own \in Param[PrevVersion(d)].committee
    /\ Info[d].undelegation /\ Info[d].stakingTx /\ Info[d].unbondingTx
    /\ Info[d].stakingTime \in ParamsOf(d).minStakingTime .. ParamsOf(d).maxStakingTime
    /\ Info[d].totalSat \in ParamsOf(d).minStakingValue .. ParamsOf(d).maxStakingValue
    /\ Info[d].unbondingOut + ParamsOf(d).unbondingFee = Info[d].stakingOut

Deserves(d) ==
    /\ TermsAgree(d)
    /\ Info[d].unbondingTime = ParamsOf(d).unbondingTime
=============================================================================
