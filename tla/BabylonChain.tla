---------------------------- MODULE BabylonChain ----------------------------
(***************************************************************************)
(* The Babylon chain as the emulator uses it (external: not code of this   *)
(* repository). Delegations are created, collect the signatures of the     *)
(* committee, leave the pending list at quorum and expire. A transaction   *)
(* of MsgAddCovenantSigs messages is atomic: every message is recorded or, *)
(* when one fails, none is and the error names the first failing index.    *)
(* A transaction whose fate the client does not know stays in `mempool`    *)
(* and is executed or dropped later.                                       *)
(***************************************************************************)
EXTENDS CovenantRules, Sequences

CONSTANT MaxInFlight     \* bound on transactions of unknown fate

ASSUME ChainAssumption == MaxInFlight \in Nat

VARIABLES
    status,     \* status[d]: the delegation's state on chain
    sigs,       \* sigs[d]: members whose signatures d carries
    mempool     \* transactions (sequences of messages) of unknown fate

chainVars == <<status, sigs, mempool>>

Status == {"absent", "pending", "verified", "expired"}

(* A MsgAddCovenantSigs for delegation del; `good` iff its signatures       *)
(* verify (see SignerService for how the signer can produce others).        *)
Message == [del : Del, good : BOOLEAN]

Carried(tx) == {tx[i].del : i \in DOMAIN tx}

ChainTypeOK ==
    /\ status \in [Del -> Status]
    /\ sigs \in [Del -> SUBSET Member]
    /\ mempool \subseteq Seq(Message)

ChainInit ==
    /\ status = [d \in Del |-> "absent"]
    /\ sigs = [d \in Del |-> {}]
    /\ mempool = {}

Pending == {d \in Del : status[d] = "pending"}

----------------------------------------------------------------------------
(* Message execution. The three errors the client distinguishes:            *)
(* ErrDuplicatedCovenantSig, ErrInvalidCovenantPK and ErrInvalidCovenantSig *)
(* (the last one also for a delegation that is no longer open).             *)

IsDuplicate(tx, i) ==
    \/ Own \in sigs[tx[i].del]
    \/ \E j \in 1 .. i - 1 : tx[j].del = tx[i].del

IsInvalid(m) ==
    \/ ~m.good
    \/ ~IsKeyInCommittee(m.del)
    \/ status[m.del] \in {"absent", "expired"}

FailsAt(tx, i) == IsDuplicate(tx, i) \/ IsInvalid(tx[i])

FirstFailure(tx, i) ==
    /\ i \in 1 .. Len(tx)
    /\ FailsAt(tx, i)
    /\ \A j \in 1 .. i - 1 : ~FailsAt(tx, j)

Executes(tx) == \A i \in 1 .. Len(tx) : ~FailsAt(tx, i)

(* newSigs is recorded; a pending delegation that reaches its quorum with a *)
(* new signature is verified and no longer listed as pending.               *)
Record(newSigs) ==
    /\ sigs' = newSigs
    /\ status' = [d \in Del |->
                    IF /\ status[d] = "pending"
                       /\ newSigs[d] # sigs[d]
                       /\ Cardinality(newSigs[d]) >= ParamsOf(d).quorum
                    THEN "verified" ELSE status[d]]

Execute(tx) ==
    Record([d \in Del |-> IF d \in Carried(tx) THEN sigs[d] \cup {Own}
                                               ELSE sigs[d]])

----------------------------------------------------------------------------
(* The environment's steps *)

CreateDelegation(d) ==
    /\ status[d] = "absent"
    /\ IsStakeExpansion(d) => status[Info[d].prev] # "absent"
    /\ status' = [status EXCEPT ![d] = "pending"]
    /\ UNCHANGED <<sigs, mempool>>

OtherMemberSigns(d, m) ==
    /\ m \in ParamsOf(d).committee \ (sigs[d] \cup {Own})
    /\ status[d] \in {"pending", "verified"}
    /\ Record([sigs EXCEPT ![d] = @ \cup {m}])
    /\ UNCHANGED mempool

Expire(d) ==
    /\ status[d] \in {"pending", "verified"}
    /\ status' = [status EXCEPT ![d] = "expired"]
    /\ UNCHANGED <<sigs, mempool>>

(* A transaction of unknown fate is included late, or is never included.    *)
LandLate(tx) ==
    /\ tx \in mempool
    /\ Executes(tx)
    /\ mempool' = mempool \ {tx}
    /\ Execute(tx)

DropLate(tx) ==
    /\ tx \in mempool
    /\ mempool' = mempool \ {tx}
    /\ UNCHANGED <<status, sigs>>

ChainStep ==
    \/ \E d \in Del : CreateDelegation(d) \/ Expire(d)
    \/ \E d \in Del, m \in Member : OtherMemberSigns(d, m)
    \/ \E tx \in mempool : LandLate(tx) \/ DropLate(tx)
=============================================================================
