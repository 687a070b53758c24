---------------------- MODULE CovenantRefinementProofs ----------------------
(***************************************************************************)
(* The daemon on its chain implements CovenantMember. Only two kinds of    *)
(* step touch what the abstract state is made of: those of the chain, and  *)
(* the inclusion of a transaction the daemon sent or had sent earlier.     *)
(***************************************************************************)
EXTENDS CovenantEmulatorProofs

OwnSigned == {d \in Del : Own \in sigs[d]}

(* A step that changes neither the delegations' states nor the signatures   *)
(* is invisible to the abstract specification.                              *)
LEMMA Invisible ==
    ASSUME status' = status, sigs' = sigs
    PROVE  UNCHANGED CM!vars
BY DEF CM!vars

(* The initial states correspond.                                           *)
LEMMA MemberInit == Init => CM!Init
<1> SUFFICES ASSUME Init PROVE CM!Init
  OBVIOUS
<1>1. status = [d \in Del |-> "absent"] /\ \A d \in Del : sigs[d] = {}
  BY DEF Init, ChainInit
<1> QED
  BY <1>1 DEF CM!Init

(* A transaction that executes is the abstract member signing everything    *)
(* the transaction carries: all of it is open and none of it signed, and    *)
(* IInv says that all of it deserves the signature.                         *)
LEMMA ExecuteIsSign ==
    ASSUME ChainTypeOK, NEW tx \in Seq(Message), Executes(tx), Execute(tx),
           \A d \in Carried(tx) : Deserves(d)
    PROVE  [CM!Next]_(CM!vars)
<1> DEFINE S == Carried(tx)
           Deserving == {d \in Del : Deserves(d)}
           newSigs == [d \in Del |-> IF d \in S THEN sigs[d] \cup {Own} ELSE sigs[d]]
           Q == {d \in S : Cardinality(newSigs[d]) >= ParamsOf(d).quorum}
<1>1. S \subseteq Del
  <2>1. \A i \in DOMAIN tx : tx[i] \in Message
    OBVIOUS
  <2>2. \A i \in DOMAIN tx : tx[i].del \in Del
    BY <2>1 DEF Message
  <2> QED
    BY <2>2 DEF Carried
<1>2. \A d \in S : Own \notin sigs[d] /\ status[d] \in {"pending", "verified"}
  <2> SUFFICES ASSUME NEW d \in S
               PROVE  Own \notin sigs[d] /\ status[d] \in {"pending", "verified"}
    OBVIOUS
  <2>1. PICK i \in 1 .. Len(tx) : d = tx[i].del
    BY DEF Carried
  <2>2. ~IsDuplicate(tx, i) /\ ~IsInvalid(tx[i])
    BY <2>1 DEF Executes, FailsAt
  <2>3. status[d] \in Status
    BY <1>1 DEF ChainTypeOK
  <2> QED
    BY <2>1, <2>2, <2>3 DEF IsDuplicate, IsInvalid, Status
<1>3. /\ sigs' = newSigs
      /\ status' = [d \in Del |-> IF /\ status[d] = "pending"
                                     /\ newSigs[d] # sigs[d]
                                     /\ Cardinality(newSigs[d]) >= ParamsOf(d).quorum
                                  THEN "verified" ELSE status[d]]
  BY DEF Execute, Record
<1>4. \A d \in Del : newSigs[d] # sigs[d] <=> d \in S
  BY <1>2
<1>5. status' = [d \in Del |-> IF d \in Q /\ status[d] = "pending"
                                 THEN "verified" ELSE status[d]]
  BY <1>1, <1>3, <1>4
<1>6. OwnSigned' = OwnSigned \cup S
  BY <1>1, <1>3 DEF OwnSigned
<1>7. CASE S = {}
  <2>1. sigs' = sigs
    BY <1>3, <1>7 DEF ChainTypeOK
  <2>2. status' = status
    BY <1>5, <1>7 DEF ChainTypeOK
  <2> QED
    BY <2>1, <2>2, Invisible
<1>8. CASE S # {}
  <2>1. S \in SUBSET Deserving /\ S \subseteq Deserving \ OwnSigned
    BY <1>1, <1>2 DEF OwnSigned
  <2>2. Q \in SUBSET S
    OBVIOUS
  <2>3. CM!Sign(S)
    BY <1>2, <1>5, <1>6, <1>8, <2>1, <2>2 DEF CM!Sign, OwnSigned
  <2> QED
    BY <2>1, <2>3 DEF CM!Next
<1> QED
  BY <1>7, <1>8

(* Another member's signature completes a quorum or changes nothing of what *)
(* the abstract state shows.                                                *)
LEMMA OtherMemberIsVerify ==
    ASSUME ChainTypeOK, NEW d \in Del, NEW m \in Member, OtherMemberSigns(d, m)
    PROVE  [CM!Next]_(CM!vars)
<1> DEFINE newSigs == [sigs EXCEPT ![d] = @ \cup {m}]
<1>1. /\ sigs' = newSigs /\ m # Own
      /\ status' = [e \in Del |-> IF /\ status[e] = "pending"
                                     /\ newSigs[e] # sigs[e]
                                     /\ Cardinality(newSigs[e]) >= ParamsOf(e).quorum
                                  THEN "verified" ELSE status[e]]
  BY DEF OtherMemberSigns, Record
<1>2. \A e \in Del \ {d} : newSigs[e] = sigs[e]
  BY DEF ChainTypeOK
<1>3. \A e \in Del : Own \in newSigs[e] <=> Own \in sigs[e]
  BY <1>1, <1>2 DEF ChainTypeOK
<1>4. OwnSigned' = OwnSigned
  BY <1>1, <1>3 DEF OwnSigned
<1>5. \A e \in Del \ {d} : status'[e] = status[e]
  BY <1>1, <1>2
<1>6. CASE status'[d] = status[d]
  <2>1. status' = status
    BY <1>1, <1>5, <1>6 DEF ChainTypeOK
  <2> QED
    BY <1>4, <2>1 DEF CM!vars, OwnSigned
<1>7. CASE status'[d] # status[d]
  <2>1. status[d] = "pending" /\ status'[d] = "verified"
    BY <1>1, <1>7
  <2>2. status' = [status EXCEPT ![d] = "verified"]
    BY <1>1, <1>5, <2>1 DEF ChainTypeOK
  <2>3. CM!Verify(d)
    BY <1>4, <2>1, <2>2 DEF CM!Verify, OwnSigned
  <2> QED
    BY <2>3 DEF CM!Next
<1> QED
  BY <1>6, <1>7

(* Every step of the chain is an abstract step.                             *)
LEMMA EnvironmentIsMember ==
    ASSUME IInv, Environment
    PROVE  [CM!Next]_(CM!vars)
<1> USE DEF IInv
<1>1. ASSUME NEW d \in Del, CreateDelegation(d) \/ Expire(d)
      PROVE  [CM!Next]_(CM!vars)
  <2>1. CM!Create(d) \/ CM!Expire(d)
    BY <1>1 DEF CreateDelegation, Expire, CM!Create, CM!Expire
  <2> QED
    BY <2>1 DEF CM!Next
<1>2. ASSUME NEW d \in Del, NEW m \in Member, OtherMemberSigns(d, m)
      PROVE  [CM!Next]_(CM!vars)
  BY <1>2, OtherMemberIsVerify DEF TypeOK
<1>3. ASSUME NEW tx \in mempool, LandLate(tx)
      PROVE  [CM!Next]_(CM!vars)
  <2>1. tx \in Seq(Message) /\ \A d \in Carried(tx) : Deserves(d)
    BY <1>3 DEF TypeOK, ChainTypeOK, SignsOnlyDeserved
  <2>2. Executes(tx) /\ Execute(tx)
    BY <1>3 DEF LandLate
  <2> QED
    BY <2>1, <2>2, ExecuteIsSign DEF TypeOK
<1>4. ASSUME NEW tx \in mempool, DropLate(tx)
      PROVE  [CM!Next]_(CM!vars)
  BY <1>4, Invisible DEF DropLate
<1> QED
  BY <1>1, <1>2, <1>3, <1>4 DEF Environment, ChainStep

(* So is every answer to a submission.                                      *)
LEMMA SendIsMember ==
    ASSUME IInv, Send
    PROVE  [CM!Next]_(CM!vars)
<1>1. CASE SendIncluded
  <2>1. msgs \in Seq(Message) /\ \A d \in Carried(msgs) : Deserves(d)
    BY DEF IInv, TypeOK, SubmitTypeOK, SignsOnlyDeserved
  <2>2. Executes(msgs) /\ Execute(msgs)
    BY <1>1 DEF SendIncluded
  <2> QED
    BY <2>1, <2>2, ExecuteIsSign DEF IInv, TypeOK
<1>2. CASE ~SendIncluded
  <2>1. status' = status /\ sigs' = sigs
    BY <1>2 DEF Send, SendFails, SendRefusedLast, SendRefusedRetry, SendUnconfirmed, chainVars
  <2> QED
    BY <2>1, Invisible
<1> QED
  BY <1>1, <1>2

(* Every step of the system is a step of the abstract member or a stutter.  *)
LEMMA MemberStep == IInv /\ [Next]_vars => [CM!Next]_(CM!vars)
<1> SUFFICES ASSUME IInv, [Next]_vars PROVE [CM!Next]_(CM!vars)
  OBVIOUS
<1>1. CASE Environment
  BY <1>1, EnvironmentIsMember
<1>2. CASE Send
  BY <1>2, SendIsMember
<1>3. CASE Tick \/ Query \/ SignStep
  <2>1. UNCHANGED chainVars
    BY <1>3 DEF Tick, Query, SignStep, NoMoreBatches, StartBatch, SkipDelegation,
                SignFails, SignDelegation, Handled, EndBatchUnsent, BeginSubmit,
                SubmitCovenantSigs
  <2> QED
    BY <2>1, Invisible DEF chainVars
<1>4. CASE Stop \/ ExitLoop \/ Crash \/ Panic \/ Restart \/ UNCHANGED vars
  <2>1. UNCHANGED chainVars
    BY <1>4 DEF Stop, ExitLoop, Crash, Panic, Die, Restart, vars
  <2> QED
    BY <2>1, Invisible DEF chainVars
<1> QED
  BY <1>1, <1>2, <1>3, <1>4 DEF Next

(* For every instance, the daemon, its crashes, retries and late            *)
(* transactions included, implements the member's promise: it signs a       *)
(* delegation at most once, only while it is open and deserves it.          *)
THEOREM Refinement == Spec => MemberSpec
BY MemberInit, MemberStep, Invariance, PTL DEF Spec, MemberSpec, CM!Spec
=============================================================================
