----------------------- MODULE CovenantEmulatorProofs -----------------------
(***************************************************************************)
(* Proofs about CovenantEmulator for every set of delegations, committee,  *)
(* parameters, limits and bounds. The inductive invariant IInv adds to the *)
(* properties what the phases of the loop keep true of its local state.    *)
(***************************************************************************)
EXTENDS CovenantEmulator, FiniteSetTheorems, TLAPS

(* d passed the filter and the parameters it needs are cached.              *)
Accepted(d) ==
    /\ IsKeyInCommittee(d)
    /\ IsStakeExpansion(d) => ValidateStakeExpansion(d)
    /\ VersionsRead(d) \subseteq cache

QueueInv == \A i \in 1 .. Len(dels) : Accepted(dels[i].del)

(* Every delegation of the current batch is queued, batches exist only      *)
(* while signing, and an attempt always has a message left to send.         *)
CountInv ==
    /\ left <= Len(dels)
    /\ phase # "sign" => left = 0
    /\ phase = "send" => attempts > 0 /\ attempts <= Len(msgs)

IInv == TypeOK /\ QueueInv /\ CountInv /\ SignsOnlyDeserved

----------------------------------------------------------------------------
(* Facts about one delegation *)

(* The parts of a delegation's record the proofs use have their types.      *)
LEMMA InfoType ==
    ASSUME NEW d \in Del
    PROVE  /\ Info[d].version \in Version
           /\ Info[d].prev \in Del \cup {NoDel}
           /\ Info[d].unbondingTime \in Nat /\ Info[d].stakingTime \in Nat
           /\ Info[d].totalSat \in Nat
           /\ Info[d].stakingOut \in Nat /\ Info[d].unbondingOut \in Nat
           /\ IsStakeExpansion(d) => Info[d].prev \in Del
BY RulesAssumption DEF DelegationInfo, IsStakeExpansion

(* So have the parameters it is checked against.                            *)
LEMMA ParamType ==
    ASSUME NEW d \in Del
    PROVE  /\ ParamsOf(d).minStakingTime \in Nat
           /\ ParamsOf(d).maxStakingTime \in Nat
           /\ ParamsOf(d).minStakingValue \in Nat
           /\ ParamsOf(d).maxStakingValue \in Nat
           /\ ParamsOf(d).unbondingFee \in Nat
<1>1. Param[Info[d].version] \in StakingParams
  BY InfoType, RulesAssumption
<1> QED
  BY <1>1 DEF ParamsOf, StakingParams

(* The filter reads existing versions only.                                 *)
LEMMA VersionsReadType ==
    ASSUME NEW d \in Del
    PROVE  VersionsRead(d) \subseteq Version
<1>1. Info[d].version \in Version
  BY InfoType
<1>2. IsStakeExpansion(d) => PrevVersion(d) \in Version
  BY InfoType DEF PrevVersion
<1> QED
  BY <1>1, <1>2 DEF VersionsRead

(* A delegation that passed the filter and for which AddCovenantSignatures  *)
(* reaches the signer deserves the signature.                               *)
LEMMA SignedIsDeserved ==
    ASSUME NEW s \in Delegation, Accepted(s.del), ReachesSigner(s)
    PROVE  Deserves(s.del)
<1> DEFINE d == s.del
<1>1. d \in Del
  BY DEF Delegation
<1>2. /\ Own \in ParamsOf(d).committee
      /\ Info[d].prev # NoDel => Own \in Param[PrevVersion(d)].committee
  BY DEF Accepted, IsKeyInCommittee, IsStakeExpansion,
         ValidateStakeExpansion, ParamsOf, PrevVersion
<1>3. /\ Info[d].undelegation /\ Info[d].stakingTx /\ Info[d].unbondingTx
      /\ Info[d].unbondingTime = ParamsOf(d).unbondingTime
  BY DEF ReachesSigner, EarlyChecks, LateChecks, DecodeDelegationTransactions,
         DecodeUndelegationTransactions
<1>4. /\ Info[d].stakingTime \in ParamsOf(d).minStakingTime .. ParamsOf(d).maxStakingTime
      /\ Info[d].totalSat \in ParamsOf(d).minStakingValue .. ParamsOf(d).maxStakingValue
      /\ Info[d].unbondingOut + ParamsOf(d).unbondingFee = Info[d].stakingOut
  BY <1>1, InfoType, ParamType
  DEF ReachesSigner, LateChecks, StakingTimeInRange, StakingValueInRange, UnbondingFeeOK
<1> QED
  BY <1>2, <1>3, <1>4 DEF Deserves, TermsAgree

----------------------------------------------------------------------------
(* The steps of the chain *)

(* Cardinality of what a page can hold.                                     *)
LEMMA PageFinite ==
    ASSUME NEW key
    PROVE  PageOf(key) \subseteq Del /\ Cardinality(PageOf(key)) \in Nat
<1>1. PageOf(key) \subseteq Del
  BY DEF PageOf, From, Pending
<1>2. IsFiniteSet(PageOf(key))
  BY <1>1, FS_Subset, RulesAssumption
<1> QED
  BY <1>1, <1>2, FS_CardinalityType

(* Recording signatures keeps the chain's variables in their types.         *)
LEMMA RecordType ==
    ASSUME ChainTypeOK, NEW newSigs \in [Del -> SUBSET Member], Record(newSigs)
    PROVE  status' \in [Del -> Status] /\ sigs' \in [Del -> SUBSET Member]
BY DEF ChainTypeOK, Record, Status

(* Executing a transaction adds this member's signature to the delegations  *)
(* it carries and to no other.                                              *)
LEMMA ExecuteEffect ==
    ASSUME ChainTypeOK, NEW tx, Execute(tx)
    PROVE  /\ status' \in [Del -> Status] /\ sigs' \in [Del -> SUBSET Member]
           /\ \A d \in Del : Own \in sigs'[d] => Own \in sigs[d] \/ d \in Carried(tx)
<1> DEFINE newSigs == [d \in Del |-> IF d \in Carried(tx) THEN sigs[d] \cup {Own}
                                                         ELSE sigs[d]]
<1>1. newSigs \in [Del -> SUBSET Member]
  BY RulesAssumption DEF ChainTypeOK
<1>2. Record(newSigs)
  BY DEF Execute
<1>3. status' \in [Del -> Status] /\ sigs' \in [Del -> SUBSET Member]
  BY <1>1, <1>2, RecordType
<1>4. sigs' = newSigs
  BY <1>2 DEF Record
<1>5. \A d \in Del : Own \in newSigs[d] => Own \in sigs[d] \/ d \in Carried(tx)
  OBVIOUS
<1> QED
  BY <1>3, <1>4, <1>5

(* The chain moves on its own without disturbing the invariant.             *)
LEMMA EnvironmentStep ==
    ASSUME IInv, Environment
    PROVE  IInv'
<1> USE DEF IInv
<1>0. UNCHANGED <<phase, queryVars, submitVars, loopVars>>
  BY DEF Environment
<1>1. QueueInv' /\ CountInv'
  BY <1>0 DEF QueueInv, CountInv, Accepted, queryVars, submitVars, loopVars
<1>2. ASSUME ChainTypeOK'
      PROVE  TypeOK'
  BY <1>0, <1>2 DEF TypeOK, QueryTypeOK, SubmitTypeOK, queryVars, submitVars, loopVars
<1>3. ASSUME \A d \in Del : Own \in sigs'[d] => Own \in sigs[d] \/ Deserves(d),
             mempool' \subseteq mempool
      PROVE  SignsOnlyDeserved'
  BY <1>0, <1>3 DEF SignsOnlyDeserved, submitVars, Carried
<1>4. ASSUME NEW d \in Del, CreateDelegation(d) \/ Expire(d)
      PROVE  IInv'
  <2>1. ChainTypeOK'
    BY <1>4 DEF TypeOK, ChainTypeOK, CreateDelegation, Expire, Status
  <2>2. sigs' = sigs /\ mempool' = mempool
    BY <1>4 DEF CreateDelegation, Expire
  <2> QED
    BY <1>1, <1>2, <1>3, <2>1, <2>2
<1>5. ASSUME NEW d \in Del, NEW m \in Member, OtherMemberSigns(d, m)
      PROVE  IInv'
  <2> DEFINE newSigs == [sigs EXCEPT ![d] = @ \cup {m}]
  <2>1. newSigs \in [Del -> SUBSET Member] /\ Record(newSigs) /\ mempool' = mempool
    BY <1>5 DEF TypeOK, ChainTypeOK, OtherMemberSigns
  <2>2. ChainTypeOK'
    BY <2>1, RecordType DEF TypeOK, ChainTypeOK
  <2>3. sigs' = newSigs
    BY <2>1 DEF Record
  <2>4. m # Own
    BY <1>5 DEF OtherMemberSigns
  <2>5. \A e \in Del : Own \in sigs'[e] => Own \in sigs[e]
    BY <2>3, <2>4 DEF TypeOK, ChainTypeOK
  <2> QED
    BY <1>1, <1>2, <1>3, <2>1, <2>2, <2>5
<1>6. ASSUME NEW tx \in mempool, LandLate(tx) \/ DropLate(tx)
      PROVE  IInv'
  <2>1. mempool' = mempool \ {tx}
    BY <1>6 DEF LandLate, DropLate
  <2>2. CASE LandLate(tx)
    <3>1. Execute(tx)
      BY <2>2 DEF LandLate
    <3>2. ChainTypeOK'
      BY <2>1, <3>1, ExecuteEffect DEF TypeOK, ChainTypeOK
    <3>3. \A d \in Carried(tx) : Deserves(d)
      BY <1>6 DEF SignsOnlyDeserved
    <3>4. \A d \in Del : Own \in sigs'[d] => Own \in sigs[d] \/ Deserves(d)
      BY <3>1, <3>3, ExecuteEffect DEF TypeOK
    <3> QED
      BY <1>1, <1>2, <1>3, <2>1, <3>2, <3>4
  <2>3. CASE DropLate(tx)
    <3>1. ChainTypeOK' /\ sigs' = sigs
      BY <2>1, <2>3 DEF DropLate, TypeOK, ChainTypeOK
    <3> QED
      BY <1>1, <1>2, <1>3, <2>1, <3>1
  <2> QED
    BY <1>6, <2>2, <2>3
<1> QED
  BY <1>4, <1>5, <1>6 DEF Environment, ChainStep

----------------------------------------------------------------------------
(* The steps of the query *)

(* A step that leaves the chain and the submission alone keeps what was     *)
(* signed deserved.                                                         *)
LEMMA NothingSigned ==
    ASSUME SignsOnlyDeserved, UNCHANGED <<chainVars, submitVars>>
    PROVE  SignsOnlyDeserved'
BY DEF SignsOnlyDeserved, chainVars, submitVars, Carried

(* Appending an accepted delegation to a queue of accepted delegations,     *)
(* with a cache that only grew.                                             *)
LEMMA QueueGrows ==
    ASSUME QueueInv, dels \in Seq(Delegation), NEW s \in Delegation,
           dels' = Append(dels, s), cache \subseteq cache', Accepted(s.del)'
    PROVE  QueueInv'
<1>1. \A i \in 1 .. Len(dels) : dels'[i] = dels[i]
  OBVIOUS
<1>2. Len(dels') = Len(dels) + 1 /\ dels'[Len(dels) + 1] = s
  OBVIOUS
<1>3. \A i \in 1 .. Len(dels) : Accepted(dels[i].del)'
  BY <1>1 DEF QueueInv, Accepted
<1> QED
  BY <1>1, <1>2, <1>3 DEF QueueInv, Accepted

(* Leaving the queue alone while the cache grows.                           *)
LEMMA QueueKept ==
    ASSUME QueueInv, dels' = dels, cache \subseteq cache'
    PROVE  QueueInv'
BY DEF QueueInv, Accepted

(* The ticker starts a query with an empty queue.                           *)
LEMMA TickStep ==
    ASSUME IInv, Tick
    PROVE  IInv'
<1> USE DEF IInv
<1>1. TypeOK'
  BY DEF Tick, StartQuery, TypeOK, ChainTypeOK, QueryTypeOK, SubmitTypeOK,
         chainVars, loopVars, Phase, Outcome
<1>2. QueueInv'
  BY DEF Tick, StartQuery, QueueInv
<1>3. CountInv'
  BY DEF Tick, StartQuery, CountInv, loopVars, TypeOK
<1>4. SignsOnlyDeserved'
  BY DEF Tick, SignsOnlyDeserved, chainVars, Carried
<1> QED
  BY <1>1, <1>2, <1>3, <1>4

(* Every step of the paged query keeps the invariant; the acceptance of a   *)
(* delegation is the step that establishes Accepted for it.                 *)
LEMMA QueryStepInv ==
    ASSUME IInv, Query
    PROVE  IInv'
<1> USE DEF IInv
<1>0. UNCHANGED <<chainVars, submitVars, loopVars>>
  BY DEF Query
<1>1. SignsOnlyDeserved'
  BY <1>0, NothingSigned
<1>2. ASSUME QueryTypeOK' PROVE TypeOK'
  BY <1>0, <1>2 DEF TypeOK, ChainTypeOK, SubmitTypeOK, chainVars, submitVars, loopVars
<1>3. ASSUME phase \in {"fetch", "filter"},
             phase' \in {"idle", "fetch", "filter", "batch"},
             QueryTypeOK'
      PROVE  CountInv'
  BY <1>0, <1>3 DEF CountInv, loopVars, submitVars, TypeOK, QueryTypeOK
<1>4. CASE FetchPage
  <2>1. \A d \in PageOf(pageKey) : [del |-> d, sigs |-> sigs[d]] \in Delegation
    BY PageFinite DEF TypeOK, ChainTypeOK, Delegation
  <2>2. nextKey' \in Nat
    <3>1. PICK k \in {0} \cup {KeyOf(d) : d \in Del} : nextKey' = k
      BY <1>4 DEF FetchPage
    <3>2. \A d \in Del : KeyOf(d) \in Nat
      BY RulesAssumption DEF KeyOf
    <3> QED
      BY <3>1, <3>2
  <2>3. pageLen' \in Nat
    BY <1>4, PageFinite DEF FetchPage
  <2>4. QueryTypeOK'
    BY <1>4, <2>1, <2>2, <2>3 DEF FetchPage, TypeOK, QueryTypeOK, Phase
  <2>5. QueueInv'
    BY <1>4, QueueKept DEF FetchPage
  <2> QED
    BY <1>1, <1>2, <1>3, <1>4, <2>4, <2>5 DEF FetchPage
<1>5. CASE FetchFails
  <2>1. QueryTypeOK'
    BY <1>5 DEF FetchFails, GiveUp, TypeOK, QueryTypeOK, Phase
  <2>2. QueueInv'
    BY <1>5 DEF FetchFails, GiveUp, QueueInv
  <2> QED
    BY <1>1, <1>2, <1>3, <1>5, <2>1, <2>2 DEF FetchFails, GiveUp
<1>6. ASSUME NEW s \in page, FilterAccept(s)
      PROVE  IInv'
  <2>1. s \in Delegation /\ s.del \in Del /\ dels \in Seq(Delegation)
    BY DEF TypeOK, QueryTypeOK, Delegation
  <2>2. cache' = cache \cup VersionsRead(s.del)
    BY <1>6 DEF FilterAccept, Got
  <2>3. cache' \subseteq Version
    BY <2>1, <2>2, VersionsReadType DEF TypeOK, QueryTypeOK
  <2>4. dels' = Append(dels, s)
    BY <1>6 DEF FilterAccept
  <2>5. /\ phase = "filter" /\ phase' \in {"filter", "batch"}
        /\ page' \subseteq page
        /\ pageKey' \in Nat /\ pageLen' \in Nat /\ nextKey' \in Nat
    BY <1>6 DEF FilterAccept, Filtering, Return, TypeOK, QueryTypeOK
  <2>6. QueryTypeOK'
    BY <2>1, <2>3, <2>4, <2>5 DEF TypeOK, QueryTypeOK, Phase
  <2>7. Accepted(s.del)'
    BY <1>6, <2>2 DEF FilterAccept, AcceptDelegationToSign, Accepted
  <2>8. QueueInv'
    BY <2>1, <2>2, <2>4, <2>7, QueueGrows
  <2> QED
    BY <1>1, <1>2, <1>3, <2>5, <2>6, <2>8
<1>7. ASSUME NEW s \in page, FilterReject(s)
      PROVE  IInv'
  <2>1. s.del \in Del
    BY DEF TypeOK, QueryTypeOK, Delegation
  <2>2. cache' = cache \/ cache' = cache \cup VersionsRead(s.del)
    BY <1>7 DEF FilterReject, Got
  <2>3. cache' \subseteq Version
    BY <2>1, <2>2, VersionsReadType DEF TypeOK, QueryTypeOK
  <2>4. QueryTypeOK' /\ phase' = phase /\ phase = "filter" /\ dels' = dels
    BY <1>7, <2>3 DEF FilterReject, Filtering, TypeOK, QueryTypeOK
  <2>5. QueueInv'
    BY <2>2, <2>4, QueueKept
  <2> QED
    BY <1>1, <1>2, <1>3, <2>4, <2>5
<1>8. ASSUME NEW s \in page, FilterFails(s)
      PROVE  IInv'
  <2>1. s.del \in Del
    BY DEF TypeOK, QueryTypeOK, Delegation
  <2>2. cache' = cache \/ cache' = cache \cup {Info[s.del].version}
    BY <1>8 DEF FilterFails, Got
  <2>3. cache' \subseteq Version
    BY <2>1, <2>2, InfoType DEF TypeOK, QueryTypeOK
  <2>4. GiveUp /\ phase = "filter"
    BY <1>8 DEF FilterFails, Filtering
  <2>5. QueryTypeOK'
    BY <2>3, <2>4 DEF GiveUp, TypeOK, QueryTypeOK, Phase
  <2>6. QueueInv'
    BY <2>4 DEF GiveUp, QueueInv
  <2> QED
    BY <1>1, <1>2, <1>3, <2>4, <2>5, <2>6 DEF GiveUp
<1>9. CASE EndPage
  <2>1. QueryTypeOK'
    BY <1>9 DEF EndPage, Return, TypeOK, QueryTypeOK, Phase
  <2>2. dels' = dels /\ cache' = cache /\ phase = "filter"
        /\ phase' \in {"batch", "fetch"}
    BY <1>9 DEF EndPage, Return
  <2>3. QueueInv'
    BY <2>2, QueueKept
  <2> QED
    BY <1>1, <1>2, <1>3, <2>1, <2>2, <2>3
<1> QED
  BY <1>4, <1>5, <1>6, <1>7, <1>8, <1>9 DEF Query, QueryStep

----------------------------------------------------------------------------
(* The steps of AddCovenantSignatures *)

(* The queue loses its first elements.                                      *)
LEMMA QueueShrinks ==
    ASSUME QueueInv, dels \in Seq(Delegation), NEW n \in Nat,
           n \in 1 .. Len(dels) + 1, dels' = SubSeq(dels, n, Len(dels)),
           cache \subseteq cache'
    PROVE  QueueInv' /\ dels' \in Seq(Delegation) /\ Len(dels') = Len(dels) + 1 - n
<1>1. dels' \in Seq(Delegation) /\ Len(dels') = Len(dels) + 1 - n
  OBVIOUS
<1>2. \A i \in 1 .. Len(dels') :
        i + n - 1 \in 1 .. Len(dels) /\ dels'[i] = dels[i + n - 1]
  OBVIOUS
<1> QED
  BY <1>1, <1>2 DEF QueueInv, Accepted

(* The head of a batch that is being handled was accepted.                  *)
LEMMA HeadAccepted ==
    ASSUME IInv, phase = "sign", left > 0
    PROVE  /\ dels # <<>> /\ Head(dels) = dels[1] /\ 1 \in 1 .. Len(dels)
           /\ Head(dels) \in Delegation /\ Head(dels).del \in Del
           /\ Accepted(Head(dels).del)
<1>1. dels \in Seq(Delegation) /\ left \in Nat /\ left <= Len(dels)
  BY DEF IInv, TypeOK, QueryTypeOK, CountInv
<1>2. Len(dels) > 0 /\ Head(dels) = dels[1] /\ dels # <<>> /\ 1 \in 1 .. Len(dels)
  BY <1>1
<1>3. Head(dels) \in Delegation
  BY <1>1, <1>2
<1>4. Accepted(dels[1].del)
  BY <1>2 DEF IInv, QueueInv
<1> QED
  BY <1>2, <1>3, <1>4 DEF Delegation

(* The lookup of the parameters of the batch's next delegation hits.        *)
LEMMA LookupHits ==
    ASSUME IInv, phase = "sign", left > 0
    PROVE  Info[Head(dels).del].version \in cache
BY HeadAccepted DEF Accepted, VersionsRead

(* One delegation of the batch is handled; what it adds to the signatures   *)
(* of the batch is deserved.                                                *)
LEMMA HandledStep ==
    ASSUME IInv, NEW s, Handling(s), Handled,
           covSigs' \in Seq(Message),
           \A d \in Carried(covSigs') : d \in Carried(covSigs) \/ Deserves(d)
    PROVE  IInv'
<1> USE DEF IInv
<1>1. /\ phase = "sign" /\ left > 0 /\ left \in Nat /\ left <= Len(dels)
      /\ dels \in Seq(Delegation) /\ s = Head(dels)
  BY DEF Handling, TypeOK, QueryTypeOK, CountInv
<1>2. cache' = cache
  BY <1>1, LookupHits DEF Handling, Got
<1>3. dels # <<>> /\ dels' = Tail(dels) /\ left' = left - 1
  BY <1>1 DEF Handled
<1>4. dels' = SubSeq(dels, 2, Len(dels)) /\ 2 \in 1 .. Len(dels) + 1
  BY <1>1, <1>3
<1>5. QueueInv' /\ dels' \in Seq(Delegation) /\ Len(dels') = Len(dels) - 1
  <2>1. 2 \in Nat /\ cache \subseteq cache' /\ QueueInv
    BY <1>2
  <2>2. /\ QueueInv' /\ dels' \in Seq(Delegation)
        /\ Len(dels') = Len(dels) + 1 - 2
    BY ONLY <1>1, <1>4, <2>1, QueueShrinks
  <2> QED
    BY <1>1, <2>2
<1>6. TypeOK'
  BY <1>1, <1>2, <1>3, <1>5
  DEF Handled, TypeOK, ChainTypeOK, QueryTypeOK, SubmitTypeOK, chainVars
<1>7. CountInv'
  BY <1>1, <1>3, <1>5 DEF Handled, CountInv
<1>8. SignsOnlyDeserved'
  <2>1. sigs' = sigs /\ mempool' = mempool /\ msgs' = msgs
    BY DEF Handled, chainVars
  <2>2. \A d \in Carried(covSigs) : Deserves(d)
    BY DEF SignsOnlyDeserved
  <2>3. \A d \in Carried(covSigs') : Deserves(d)
    BY <2>2
  <2>4. \A d \in Carried(covSigs)' : Deserves(d)
    BY <2>3 DEF Carried
  <2> QED
    BY <2>1, <2>3 DEF SignsOnlyDeserved, Carried
<1> QED
  BY <1>5, <1>6, <1>7, <1>8

(* Every step between two batches and within a batch keeps the invariant;   *)
(* a signature is only ever made for an accepted, checked delegation.       *)
LEMMA SignStepInv ==
    ASSUME IInv, SignStep
    PROVE  IInv'
<1> USE DEF IInv
<1>1. CASE NoMoreBatches
  <2>1. TypeOK'
    BY <1>1 DEF NoMoreBatches, TypeOK, ChainTypeOK, QueryTypeOK, SubmitTypeOK,
                chainVars, queryVars, submitVars, loopVars, Phase
  <2>2. QueueInv'
    BY <1>1, QueueKept DEF NoMoreBatches, queryVars
  <2>3. CountInv'
    BY <1>1 DEF NoMoreBatches, CountInv, queryVars, submitVars, loopVars
  <2>4. SignsOnlyDeserved'
    BY <1>1, NothingSigned DEF NoMoreBatches
  <2> QED
    BY <2>1, <2>2, <2>3, <2>4
<1>2. CASE StartBatch
  <2>1. TypeOK'
    BY <1>2, EmulatorAssumption
    DEF StartBatch, TypeOK, ChainTypeOK, QueryTypeOK, SubmitTypeOK,
        chainVars, queryVars, Phase, Outcome
  <2>2. QueueInv'
    BY <1>2, QueueKept DEF StartBatch, queryVars
  <2>3. CountInv'
    BY <1>2, EmulatorAssumption
    DEF StartBatch, CountInv, queryVars, TypeOK, QueryTypeOK
  <2>4. SignsOnlyDeserved'
    BY <1>2 DEF StartBatch, SignsOnlyDeserved, chainVars, Carried
  <2> QED
    BY <2>1, <2>2, <2>3, <2>4
<1>3. ASSUME NEW s \in Queued, SkipDelegation(s) \/ SignFails(s)
      PROVE  IInv'
  <2>1. Handling(s) /\ Handled /\ covSigs' = covSigs
    BY <1>3 DEF SkipDelegation, SignFails
  <2> QED
    BY <2>1, HandledStep DEF TypeOK, SubmitTypeOK
<1>4. ASSUME NEW s \in Queued, NEW good \in BOOLEAN, SignDelegation(s, good)
      PROVE  IInv'
  <2> DEFINE m == [del |-> s.del, good |-> good]
  <2>1. /\ Handling(s) /\ Handled /\ ReachesSigner(s)
        /\ covSigs' = Append(covSigs, m)
    BY <1>4 DEF SignDelegation
  <2>2. s = Head(dels) /\ phase = "sign" /\ left > 0
    BY <2>1 DEF Handling
  <2>3. s \in Delegation /\ s.del \in Del /\ Deserves(s.del)
    BY <2>1, <2>2, HeadAccepted, SignedIsDeserved
  <2>4. m \in Message /\ m.del = s.del
    BY <2>3 DEF Message
  <2>5. covSigs \in Seq(Message) /\ covSigs' \in Seq(Message)
    BY <2>1, <2>4 DEF TypeOK, SubmitTypeOK
  <2>6. ASSUME NEW d \in Carried(covSigs')
        PROVE  d \in Carried(covSigs) \/ Deserves(d)
    <3>1. PICK i \in 1 .. Len(covSigs) + 1 : d = covSigs'[i].del
      BY <2>1, <2>4, <2>5, <2>6 DEF Carried
    <3>2. CASE i \in 1 .. Len(covSigs)
      BY <2>1, <2>5, <3>1, <3>2 DEF Carried
    <3>3. CASE i = Len(covSigs) + 1
      BY <2>1, <2>3, <2>4, <2>5, <3>1, <3>3
    <3> QED
      BY <2>5, <3>2, <3>3
  <2> QED
    BY <2>1, <2>5, <2>6, HandledStep
<1>5. CASE EndBatchUnsent
  <2>1. /\ phase = "sign" /\ left \in Nat /\ left <= Len(dels)
        /\ dels \in Seq(Delegation)
        /\ dels' = SubSeq(dels, left + 1, Len(dels)) /\ cache' = cache
    BY <1>5 DEF EndBatchUnsent, TypeOK, QueryTypeOK, CountInv
  <2>2. QueueInv' /\ dels' \in Seq(Delegation) /\ Len(dels') = Len(dels) - left
    <3>1. left + 1 \in Nat /\ left + 1 \in 1 .. Len(dels) + 1
      BY <2>1
    <3>2. /\ QueueInv' /\ dels' \in Seq(Delegation)
          /\ Len(dels') = Len(dels) + 1 - (left + 1)
      BY <2>1, <3>1, QueueShrinks
    <3> QED
      BY <2>1, <3>2
  <2>3. TypeOK'
    BY <1>5, <2>2 DEF EndBatchUnsent, TypeOK, ChainTypeOK, QueryTypeOK, SubmitTypeOK,
                      chainVars, Phase, Outcome
  <2>4. CountInv'
    BY <1>5, <2>1, <2>2 DEF EndBatchUnsent, CountInv
  <2>5. SignsOnlyDeserved'
    BY <1>5 DEF EndBatchUnsent, SignsOnlyDeserved, chainVars, Carried
  <2> QED
    BY <2>2, <2>3, <2>4, <2>5
<1>6. CASE BeginSubmit
  <2>1. /\ covSigs \in Seq(Message) /\ Len(covSigs) \in Nat /\ Len(covSigs) > 0
        /\ msgs' = covSigs /\ covSigs' = covSigs
        /\ attempts' = BatchRetries(Len(covSigs))
    BY <1>6 DEF BeginSubmit, SubmitCovenantSigs, TypeOK, SubmitTypeOK
  <2>2. attempts' \in Nat /\ attempts' > 0 /\ attempts' <= Len(covSigs)
    BY <2>1, SubmissionAssumption DEF BatchRetries
  <2>3. TypeOK'
    BY <1>6, <2>1, <2>2
    DEF BeginSubmit, SubmitCovenantSigs, TypeOK, ChainTypeOK, QueryTypeOK,
        SubmitTypeOK, chainVars, queryVars, loopVars, Phase, Outcome
  <2>4. QueueInv'
    BY <1>6, QueueKept DEF BeginSubmit, queryVars
  <2>5. CountInv'
    BY <1>6, <2>1, <2>2 DEF BeginSubmit, CountInv, queryVars, loopVars
  <2>6. SignsOnlyDeserved'
    BY <1>6, <2>1
    DEF BeginSubmit, SubmitCovenantSigs, SignsOnlyDeserved, chainVars, Carried
  <2> QED
    BY <2>3, <2>4, <2>5, <2>6
<1> QED
  BY <1>1, <1>2, <1>3, <1>4, <1>5, <1>6 DEF SignStep

----------------------------------------------------------------------------
(* The steps of SubmitCovenantSigs *)

(* Removing a message leaves a sequence of the remaining ones.              *)
LEMMA RemoveMsgFacts ==
    ASSUME NEW tx \in Seq(Message), NEW i \in 1 .. Len(tx)
    PROVE  /\ RemoveMsgAtIndex(tx, i) \in Seq(Message)
           /\ Len(RemoveMsgAtIndex(tx, i)) = Len(tx) - 1
           /\ Carried(RemoveMsgAtIndex(tx, i)) \subseteq Carried(tx)
<1> DEFINE r == RemoveMsgAtIndex(tx, i)
<1>1. Len(tx) - 1 \in Nat
  OBVIOUS
<1>2. \A k \in 1 .. Len(tx) - 1 :
        (IF k < i THEN tx[k] ELSE tx[k + 1]) \in Message
  OBVIOUS
<1>3. r \in [1 .. Len(tx) - 1 -> Message]
  BY <1>2 DEF RemoveMsgAtIndex
<1>4. r \in Seq(Message) /\ Len(r) = Len(tx) - 1
  BY <1>1, <1>3
<1>5. \A k \in 1 .. Len(tx) - 1 : \E j \in 1 .. Len(tx) : r[k] = tx[j]
  BY DEF RemoveMsgAtIndex
<1>6. DOMAIN r = 1 .. Len(tx) - 1 /\ DOMAIN tx = 1 .. Len(tx)
  BY <1>3
<1>7. Carried(r) \subseteq Carried(tx)
  BY <1>5, <1>6 DEF Carried
<1> QED
  BY <1>4, <1>7

(* The empty list is a list of messages, and of delegations.                *)
LEMMA EmptyLists == <<>> \in Seq(Message) /\ <<>> \in Seq(Delegation)
OBVIOUS

(* A submission that has ended leaves well-typed variables.                 *)
LEMMA FinishType ==
    ASSUME SubmitTypeOK, NEW res \in Outcome, Finish(res), covSigs' = covSigs
    PROVE  SubmitTypeOK'
<1>1. msgs' \in Seq(Message)
  BY EmptyLists DEF Finish
<1>2. attempts' \in Nat
  BY DEF Finish
<1>3. dupSeen' \in BOOLEAN
  BY DEF Finish
<1> QED
  BY <1>1, <1>2, <1>3 DEF Finish, SubmitTypeOK

(* Every answer to a submission keeps the invariant.                        *)
LEMMA SendStep ==
    ASSUME IInv, Send
    PROVE  IInv'
<1> USE DEF IInv
<1>0. /\ phase = "send" /\ UNCHANGED <<queryVars, loopVars>>
      /\ msgs \in Seq(Message) /\ attempts \in Nat /\ covSigs' = covSigs
      /\ phase' \in {"send", "batch"}
  BY DEF Send, SendIncluded, SendFails, SendRefusedLast, SendRefusedRetry,
         SendUnconfirmed, TypeOK, SubmitTypeOK, submitVars
<1>1. QueueInv'
  BY <1>0, QueueKept DEF queryVars
<1>2. ASSUME ChainTypeOK', SubmitTypeOK'
      PROVE  TypeOK'
  BY <1>0, <1>2 DEF TypeOK, QueryTypeOK, queryVars, loopVars, Phase
<1>3. ASSUME phase' = "send" => attempts' > 0 /\ attempts' <= Len(msgs')
      PROVE  CountInv'
  BY <1>0, <1>3 DEF CountInv, queryVars, loopVars
<1>4. Carried(<<>>) = {}
  BY DEF Carried
<1>5. ASSUME NEW res \in Outcome, Finish(res), phase' = "batch",
             UNCHANGED chainVars
      PROVE  IInv'
  <2>1. TypeOK'
    <3>1. SubmitTypeOK'
      BY <1>0, <1>5, FinishType DEF TypeOK
    <3>2. ChainTypeOK'
      BY <1>5 DEF TypeOK, ChainTypeOK, chainVars
    <3> QED
      BY <1>2, <3>1, <3>2
  <2>2. SignsOnlyDeserved'
    BY <1>0, <1>5 DEF Finish, SignsOnlyDeserved, chainVars, Carried
  <2> QED
    BY <1>1, <1>3, <1>5, <2>1, <2>2
<1>6. CASE SendIncluded /\ phase' = "batch"
  <2>1. Execute(msgs) /\ Finish("ok") /\ mempool' = mempool
    BY <1>6 DEF SendIncluded
  <2>2. ChainTypeOK'
    BY <2>1, ExecuteEffect DEF TypeOK, ChainTypeOK
  <2>3. SubmitTypeOK'
    BY <1>0, <2>1, FinishType DEF TypeOK, Outcome
  <2>4. \A d \in Carried(msgs) : Deserves(d)
    BY DEF SignsOnlyDeserved
  <2>5. \A d \in Del : Own \in sigs'[d] => Deserves(d)
    BY <2>1, <2>4, ExecuteEffect DEF TypeOK, SignsOnlyDeserved
  <2>6. SignsOnlyDeserved'
    BY <1>0, <2>1, <2>5 DEF Finish, SignsOnlyDeserved, Carried
  <2> QED
    BY <1>1, <1>2, <1>3, <1>6, <2>2, <2>3, <2>6
<1>7. CASE SendFails /\ phase' = "batch"
  BY <1>5, <1>7 DEF SendFails, Outcome
<1>8. ASSUME NEW i \in 1 .. Len(msgs), SendRefusedLast(i), phase' = "batch"
      PROVE  IInv'
  BY <1>5, <1>8 DEF SendRefusedLast, Outcome
<1>9. CASE SendUnconfirmed /\ phase' = phase
  <2>1. /\ mempool' = mempool \cup {msgs} /\ UNCHANGED submitVars
        /\ status' = status /\ sigs' = sigs
    BY <1>9 DEF SendUnconfirmed
  <2>2. TypeOK'
    BY <1>0, <1>2, <2>1 DEF TypeOK, ChainTypeOK, SubmitTypeOK, submitVars
  <2>3. CountInv'
    BY <1>0, <1>3, <2>1 DEF CountInv, submitVars
  <2>4. SignsOnlyDeserved'
    BY <2>1 DEF SignsOnlyDeserved, submitVars, Carried
  <2> QED
    BY <1>1, <2>2, <2>3, <2>4
<1>10. ASSUME NEW i \in 1 .. Len(msgs), SendRefusedRetry(i), phase' = phase
       PROVE  IInv'
  <2>1. /\ attempts > 1 /\ attempts <= Len(msgs)
        /\ attempts' = attempts - 1 /\ msgs' = RemoveMsgAtIndex(msgs, i)
        /\ outcome' = outcome /\ UNCHANGED chainVars
        /\ dupSeen' \in BOOLEAN
    BY <1>0, <1>10 DEF SendRefusedRetry, CountInv
  <2>2. /\ msgs' \in Seq(Message) /\ Len(msgs') = Len(msgs) - 1
        /\ Carried(RemoveMsgAtIndex(msgs, i)) \subseteq Carried(msgs)
    BY <1>0, <2>1, RemoveMsgFacts
  <2>3. TypeOK'
    BY <1>0, <1>2, <2>1, <2>2 DEF TypeOK, ChainTypeOK, SubmitTypeOK, chainVars
  <2>4. CountInv'
    BY <1>0, <1>3, <2>1, <2>2
  <2>5. Carried(msgs)' = Carried(RemoveMsgAtIndex(msgs, i))
    BY <2>1 DEF Carried
  <2>6. \A d \in Carried(msgs)' : Deserves(d)
    BY <2>2, <2>5 DEF SignsOnlyDeserved
  <2>7. SignsOnlyDeserved'
    BY <1>0, <2>1, <2>6 DEF SignsOnlyDeserved, chainVars, Carried
  <2> QED
    BY <1>1, <2>3, <2>4, <2>7
<1> QED
  BY <1>6, <1>7, <1>8, <1>9, <1>10 DEF Send

----------------------------------------------------------------------------
(* The life cycle *)

(* Stopping, exiting and restarting touch nothing but the phase and quit.   *)
LEMMA StopStep ==
    ASSUME IInv, Stop \/ ExitLoop \/ Restart
    PROVE  IInv'
<1> USE DEF IInv
<1>1. /\ UNCHANGED <<chainVars, queryVars, submitVars, left, crashes>>
      /\ quit' \in BOOLEAN
      /\ phase' = phase \/ (phase \in {"idle", "down"} /\ phase' \in {"idle", "exited"})
  BY DEF Stop, ExitLoop, Restart, loopVars, TypeOK
<1>2. TypeOK'
  BY <1>1 DEF TypeOK, ChainTypeOK, QueryTypeOK, SubmitTypeOK,
              chainVars, queryVars, submitVars, Phase
<1>3. QueueInv'
  BY <1>1, QueueKept DEF queryVars
<1>4. CountInv'
  BY <1>1 DEF CountInv, queryVars, submitVars
<1>5. SignsOnlyDeserved'
  BY <1>1, NothingSigned
<1> QED
  BY <1>2, <1>3, <1>4, <1>5

(* A crash at any moment leaves a state from which the daemon can resume.   *)
LEMMA DieStep ==
    ASSUME IInv, Die
    PROVE  IInv'
<1> USE DEF IInv
<1>1. TypeOK'
  <2>1. ChainTypeOK'
    BY DEF Die, TypeOK, ChainTypeOK, chainVars
  <2>2. QueryTypeOK'
    <3>1. dels' \in Seq(Delegation)
      BY EmptyLists DEF Die
    <3> QED
      BY <3>1 DEF Die, QueryTypeOK, Phase
  <2>3. SubmitTypeOK'
    <3>1. covSigs' \in Seq(Message) /\ msgs' \in Seq(Message)
      BY EmptyLists DEF Die
    <3> QED
      BY <3>1 DEF Die, SubmitTypeOK, Outcome
  <2>4. left' \in Nat /\ crashes' \in Nat
    BY DEF Die, TypeOK
  <2>5. quit' \in BOOLEAN
    BY DEF Die
  <2> QED
    BY <2>1, <2>2, <2>3, <2>4, <2>5 DEF TypeOK
<1>2. QueueInv' /\ CountInv'
  BY DEF Die, QueueInv, CountInv
<1>3. SignsOnlyDeserved'
  BY DEF Die, SignsOnlyDeserved, chainVars, Carried
<1> QED
  BY <1>1, <1>2, <1>3

----------------------------------------------------------------------------
(* The theorems *)

(* The initial state satisfies the invariant.                               *)
LEMMA InitInv == Init => IInv
<1> SUFFICES ASSUME Init PROVE IInv
  OBVIOUS
<1>1. TypeOK
  <2>1. ChainTypeOK
    BY DEF Init, ChainInit, ChainTypeOK, Status
  <2>2. QueryTypeOK
    <3>1. dels \in Seq(Delegation)
      BY EmptyLists DEF Init, QueryInit
    <3> QED
      BY <3>1 DEF Init, QueryInit, QueryTypeOK, Phase
  <2>3. SubmitTypeOK
    <3>1. covSigs \in Seq(Message) /\ msgs \in Seq(Message)
      BY EmptyLists DEF Init, SubmitInit
    <3> QED
      BY <3>1 DEF Init, SubmitInit, SubmitTypeOK, Outcome
  <2> QED
    BY <2>1, <2>2, <2>3 DEF Init, TypeOK
<1>2. QueueInv /\ CountInv
  BY DEF Init, QueryInit, QueueInv, CountInv
<1>3. SignsOnlyDeserved
  BY DEF Init, ChainInit, SubmitInit, SignsOnlyDeserved, Carried
<1> QED
  BY <1>1, <1>2, <1>3 DEF IInv

(* Every step, and every stuttering step, keeps it.                         *)
LEMMA NextInv == IInv /\ [Next]_vars => IInv'
<1> SUFFICES ASSUME IInv, [Next]_vars PROVE IInv'
  OBVIOUS
<1>1. CASE Environment
  BY <1>1, EnvironmentStep
<1>2. CASE Tick
  BY <1>2, TickStep
<1>3. CASE Query
  BY <1>3, QueryStepInv
<1>4. CASE SignStep
  BY <1>4, SignStepInv
<1>5. CASE Send
  BY <1>5, SendStep
<1>6. CASE Stop \/ ExitLoop \/ Restart
  BY <1>6, StopStep
<1>7. CASE Crash \/ Panic
  BY <1>7, DieStep DEF Crash, Panic
<1>8. CASE UNCHANGED vars
  BY <1>8 DEF vars, chainVars, queryVars, submitVars, loopVars, IInv, TypeOK,
              ChainTypeOK, QueryTypeOK, SubmitTypeOK, QueueInv, Accepted,
              CountInv, SignsOnlyDeserved, Carried
<1> QED
  BY <1>1, <1>2, <1>3, <1>4, <1>5, <1>6, <1>7, <1>8 DEF Next

(* IInv holds in every reachable state, for every instance.                 *)
THEOREM Invariance == Spec => []IInv
BY InitInv, NextInv, PTL DEF Spec

(* Every variable of the daemon and of the chain has its type.              *)
THEOREM TypeCorrect == Spec => []TypeOK
<1>1. IInv => TypeOK
  BY DEF IInv
<1> QED
  BY <1>1, Invariance, PTL

(* The member's signature is only made for, sent for and recorded on        *)
(* delegations that deserve it.                                             *)
THEOREM OnlyDeserved == Spec => []SignsOnlyDeserved
<1>1. IInv => SignsOnlyDeserved
  BY DEF IInv
<1> QED
  BY <1>1, Invariance, PTL

(* The parameter lookup of AddCovenantSignatures never fails, so no batch   *)
(* loses its signatures at the early return.                                *)
THEOREM BatchNeverAborted == Spec => []CacheCoversBatch
<1>1. IInv => CacheCoversBatch
  <2> SUFFICES ASSUME IInv PROVE CacheCoversBatch
    OBVIOUS
  <2>1. \A i \in 1 .. Len(dels) : VersionsRead(dels[i].del) \subseteq cache
    BY DEF IInv, QueueInv, Accepted
  <2>2. phase = "sign" => ~ParamsLookupFails
    BY LookupHits DEF ParamsLookupFails
  <2> QED
    BY <2>1, <2>2 DEF CacheCoversBatch
<1> QED
  BY <1>1, Invariance, PTL

(* The resending loop never sends an empty transaction.                     *)
THEOREM NoEmptySend == Spec => []NeverSendsEmpty
<1>1. IInv => NeverSendsEmpty
  BY DEF IInv, CountInv, TypeOK, SubmitTypeOK, NeverSendsEmpty
<1> QED
  BY <1>1, Invariance, PTL
=============================================================================
