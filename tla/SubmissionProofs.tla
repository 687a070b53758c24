-------------------------- MODULE SubmissionProofs --------------------------
(***************************************************************************)
(* What the resending loop of SubmitCovenantSigs guarantees about a batch, *)
(* and what the metrics of the daemon say about it, for every batch size   *)
(* and every number of delegations.                                        *)
(***************************************************************************)
EXTENDS EmulatorMetrics, CovenantEmulatorProofs

(* The attempts are not fewer than the messages of a batch. With fewer,     *)
(* success may be reported for a signature that was never sent.             *)
EnoughAttempts ==
    MaxRetiresBatchRemovingMsgs = 0 \/ MaxRetiresBatchRemovingMsgs >= SigsBatchSize

(* Everything the daemon has in hand came from the chain's list.            *)
KnownInv ==
    /\ \A s \in page : status[s.del] # "absent"
    /\ \A i \in 1 .. Len(dels) : status[dels[i].del] # "absent"
    /\ \A i \in 1 .. Len(covSigs) : status[covSigs[i].del] # "absent"

(* A batch under way has no outcome yet, is no larger than configured, and  *)
(* has an attempt for every message.                                        *)
AttemptInv ==
    /\ phase \in {"sign", "send"} => outcome = "none"
    /\ phase = "sign" => Len(covSigs) + left <= SigsBatchSize
    /\ EnoughAttempts /\ phase = "send" => attempts = Len(msgs)

SubmissionInv ==
    /\ KnownInv
    /\ AttemptInv
    /\ DroppedOnlyIfRefused
    /\ EnoughAttempts => SuccessMeansSettled

----------------------------------------------------------------------------
(* What the chain never takes back                                          *)

(* Executing a transaction withdraws no signature and reopens nothing.      *)
LEMMA ExecuteKeeps ==
    ASSUME ChainTypeOK, NEW tx, Execute(tx), NEW d \in Del
    PROVE  /\ Own \in sigs[d] => Own \in sigs'[d]
           /\ d \in Carried(tx) => Own \in sigs'[d]
           /\ status[d] # "absent" => status'[d] # "absent"
           /\ status[d] = "expired" => status'[d] = "expired"
<1>1. /\ sigs' = [e \in Del |-> IF e \in Carried(tx) THEN sigs[e] \cup {Own}
                                                    ELSE sigs[e]]
      /\ status'[d] \in {status[d], "verified"}
      /\ status'[d] = "verified" /\ status[d] # "verified" => status[d] = "pending"
  BY DEF Execute, Record
<1> QED
  BY <1>1

(* No step of the chain or of the daemon does.                              *)
LEMMA ChainKeeps ==
    ASSUME TypeOK, [Next]_vars, NEW d \in Del
    PROVE  /\ Own \in sigs[d] => Own \in sigs'[d]
           /\ status[d] # "absent" => status'[d] # "absent"
           /\ status[d] = "expired" => status'[d] = "expired"
<1> USE DEF TypeOK
<1>1. CASE Environment
  <2>1. ASSUME NEW e \in Del, CreateDelegation(e) \/ Expire(e)
        PROVE  /\ sigs' = sigs
               /\ status[d] # "absent" => status'[d] # "absent"
               /\ status[d] = "expired" => status'[d] = "expired"
    BY <2>1 DEF CreateDelegation, Expire, ChainTypeOK
  <2>2. ASSUME NEW e \in Del, NEW m \in Member, OtherMemberSigns(e, m)
        PROVE  /\ sigs' = [sigs EXCEPT ![e] = @ \cup {m}]
               /\ status'[d] \in {status[d], "verified"}
               /\ status'[d] = "verified" /\ status[d] # "verified"
                    => status[d] = "pending"
    BY <2>2 DEF OtherMemberSigns, Record, ChainTypeOK
  <2>3. ASSUME NEW tx \in mempool, LandLate(tx)
        PROVE  Execute(tx)
    BY <2>3 DEF LandLate
  <2>4. ASSUME NEW tx \in mempool, DropLate(tx)
        PROVE  UNCHANGED <<status, sigs>>
    BY <2>4 DEF DropLate
  <2> QED
    BY <1>1, <2>1, <2>2, <2>3, <2>4, ExecuteKeeps DEF Environment, ChainStep, ChainTypeOK
<1>2. CASE Send
  BY <1>2, ExecuteKeeps DEF Send, SendIncluded, SendFails, SendRefusedLast,
       SendRefusedRetry, SendUnconfirmed, chainVars
<1>3. ASSUME UNCHANGED chainVars
      PROVE  UNCHANGED <<status, sigs>>
  BY <1>3 DEF chainVars
<1>4. CASE Tick \/ Query \/ SignStep \/ Stop \/ ExitLoop \/ Crash \/ Panic \/ Restart
  <2>1. UNCHANGED chainVars
    BY <1>4 DEF Tick, Query, SignStep, NoMoreBatches, StartBatch, SkipDelegation,
         SignFails, SignDelegation, Handled, EndBatchUnsent, BeginSubmit,
         SubmitCovenantSigs, Stop, ExitLoop, Crash, Panic, Die, Restart
  <2> QED
    BY <1>3, <2>1
<1>5. CASE UNCHANGED vars
  BY <1>3, <1>5 DEF vars
<1> QED
  BY <1>1, <1>2, <1>4, <1>5 DEF Next

(* What is settled stays settled.                                           *)
LEMMA SettledStays ==
    ASSUME TypeOK, [Next]_vars, NEW m \in Message,
           status[m.del] # "absent", Settled(m)
    PROVE  Settled(m)'
<1>1. m.del \in Del
  BY DEF Message
<1> QED
  BY <1>1, ChainKeeps DEF Settled, IsInvalid

----------------------------------------------------------------------------
(* What the daemon has in hand                                              *)

(* A delegation comes onto a page from the chain's list, into the queue     *)
(* from the page, and into the batch from the queue.                        *)
LEMMA WhereFrom ==
    ASSUME IInv, [Next]_vars
    PROVE  /\ \A s \in page' : s \in page \/ s.del \in Pending
           /\ \A i \in 1 .. Len(dels') :
                \/ \E j \in 1 .. Len(dels) : dels'[i] = dels[j]
                \/ dels'[i] \in page
           /\ \A i \in 1 .. Len(covSigs') :
                \/ \E j \in 1 .. Len(covSigs) : covSigs'[i] = covSigs[j]
                \/ \E j \in 1 .. Len(dels) : covSigs'[i].del = dels[j].del
<1> DEFINE Pages == \A s \in page' : s \in page \/ s.del \in Pending
<1> DEFINE Queue == \A i \in 1 .. Len(dels') :
                        \/ \E j \in 1 .. Len(dels) : dels'[i] = dels[j]
                        \/ dels'[i] \in page
<1> DEFINE Batch == \A i \in 1 .. Len(covSigs') :
                        \/ \E j \in 1 .. Len(covSigs) : covSigs'[i] = covSigs[j]
                        \/ \E j \in 1 .. Len(dels) : covSigs'[i].del = dels[j].del
<1>0. /\ dels \in Seq(Delegation) /\ covSigs \in Seq(Message)
      /\ left \in Nat /\ left <= Len(dels)
  BY DEF IInv, TypeOK, QueryTypeOK, SubmitTypeOK, CountInv
<1>1. ASSUME page' \subseteq page, dels' \in {dels, <<>>}, covSigs' \in {covSigs, <<>>}
      PROVE  Pages /\ Queue /\ Batch
  BY <1>0, <1>1
<1>2. CASE Environment \/ Tick \/ Send \/ Stop \/ ExitLoop \/ Crash \/ Panic \/ Restart
  BY <1>1, <1>2 DEF Environment, Tick, StartQuery, Send, SendIncluded, SendFails,
       SendRefusedLast, SendRefusedRetry, SendUnconfirmed, Stop, ExitLoop, Crash,
       Panic, Die, Restart, queryVars, submitVars
<1>3. CASE Query
  <2>0. covSigs' = covSigs
    BY <1>3 DEF Query, submitVars
  <2>1. CASE FetchPage
    <3>1. \A d \in PageOf(pageKey) : d \in Pending
      BY DEF PageOf, From
    <3> QED
      BY <1>0, <2>0, <2>1, <3>1 DEF FetchPage
  <2>2. ASSUME NEW s \in page, FilterAccept(s)
        PROVE  Pages /\ Queue /\ Batch
    <3>1. dels' = Append(dels, s) /\ page' \subseteq page
      BY <2>2 DEF FilterAccept, Return
    <3>2. s \in Delegation
      BY DEF IInv, TypeOK, QueryTypeOK
    <3>3. Queue
      <4> SUFFICES ASSUME NEW i \in 1 .. Len(dels')
                   PROVE  \/ \E j \in 1 .. Len(dels) : dels'[i] = dels[j]
                          \/ dels'[i] \in page
        OBVIOUS
      <4>1. \/ i \in 1 .. Len(dels) /\ dels'[i] = dels[i]
            \/ dels'[i] = s
        BY <1>0, <3>1, <3>2
      <4> QED
        BY <4>1
    <3> QED
      BY <1>0, <2>0, <3>1, <3>3
  <2>3. ASSUME NEW s \in page, FilterReject(s) \/ FilterFails(s)
        PROVE  Pages /\ Queue /\ Batch
    BY <1>1, <2>0, <2>3 DEF FilterReject, FilterFails, GiveUp
  <2>4. CASE FetchFails \/ EndPage
    BY <1>1, <2>0, <2>4 DEF FetchFails, EndPage, GiveUp, Return
  <2> QED
    BY <1>3, <2>1, <2>2, <2>3, <2>4 DEF Query, QueryStep
<1>4. CASE SignStep
  <2>1. CASE NoMoreBatches \/ StartBatch \/ BeginSubmit
    BY <1>1, <2>1 DEF NoMoreBatches, StartBatch, BeginSubmit, SubmitCovenantSigs,
         queryVars, submitVars
  <2>2. ASSUME NEW s \in Queued, Handling(s), Handled
        PROVE  Pages /\ Queue
    <3>1. dels # <<>> /\ dels' = Tail(dels) /\ page' = page
      BY <1>0, <2>2 DEF Handling, Handled
    <3>2. \A i \in 1 .. Len(dels') : i + 1 \in 1 .. Len(dels) /\ dels'[i] = dels[i + 1]
      BY <1>0, <3>1
    <3> QED
      BY <3>1, <3>2
  <2>3. ASSUME NEW s \in Queued, SkipDelegation(s) \/ SignFails(s)
        PROVE  Pages /\ Queue /\ Batch
    BY <1>0, <2>2, <2>3 DEF SkipDelegation, SignFails
  <2>4. ASSUME NEW s \in Queued, NEW good \in BOOLEAN, SignDelegation(s, good)
        PROVE  Pages /\ Queue /\ Batch
    <3> DEFINE m == [del |-> s.del, good |-> good]
    <3>1. Handling(s) /\ Handled /\ covSigs' = Append(covSigs, m)
      BY <2>4 DEF SignDelegation
    <3>2. PICK j \in 1 .. Len(dels) : s = dels[j]
      BY DEF Queued
    <3>3. m \in Message /\ m.del = s.del
      <4>1. s \in Delegation
        BY <1>0, <3>2
      <4> QED
        BY <4>1 DEF Message, Delegation
    <3>4. Batch
      <4> SUFFICES ASSUME NEW i \in 1 .. Len(covSigs')
                   PROVE  \/ \E k \in 1 .. Len(covSigs) : covSigs'[i] = covSigs[k]
                          \/ \E k \in 1 .. Len(dels) : covSigs'[i].del = dels[k].del
        OBVIOUS
      <4>1. \/ i \in 1 .. Len(covSigs) /\ covSigs'[i] = covSigs[i]
            \/ covSigs'[i] = m
        BY <1>0, <3>1, <3>3
      <4> QED
        BY <3>2, <3>3, <4>1
    <3> QED
      BY <2>2, <3>1, <3>4
  <2>5. CASE EndBatchUnsent
    <3>1. /\ dels' = SubSeq(dels, left + 1, Len(dels)) /\ page' = page
          /\ covSigs' = <<>>
      BY <2>5 DEF EndBatchUnsent
    <3>2. \A i \in 1 .. Len(dels') :
            i + left \in 1 .. Len(dels) /\ dels'[i] = dels[i + left]
      BY <1>0, <3>1
    <3>3. Pages /\ Batch
      <4>1. 1 .. Len(covSigs') = {}
        BY <3>1
      <4> QED
        BY <3>1, <4>1
    <3>4. Queue
      <4> SUFFICES ASSUME NEW i \in 1 .. Len(dels')
                   PROVE  \E j \in 1 .. Len(dels) : dels'[i] = dels[j]
        OBVIOUS
      <4> QED
        BY <3>2
    <3> QED
      BY <3>3, <3>4
  <2> QED
    BY <1>4, <2>1, <2>3, <2>4, <2>5 DEF SignStep
<1>5. CASE UNCHANGED vars
  BY <1>1, <1>5 DEF vars, queryVars, submitVars
<1> QED
  BY <1>2, <1>3, <1>4, <1>5 DEF Next

(* So nothing the chain has not listed is ever in hand.                     *)
LEMMA KnownStep ==
    ASSUME IInv, KnownInv, [Next]_vars
    PROVE  KnownInv'
<1>0. /\ TypeOK /\ page \subseteq Delegation
      /\ dels \in Seq(Delegation) /\ covSigs \in Seq(Message)
  BY DEF IInv, TypeOK, QueryTypeOK, SubmitTypeOK
<1>a. /\ \A s \in Delegation : s.del \in Del
      /\ \A m \in Message : m.del \in Del
  BY DEF Delegation, Message
<1>b. /\ \A i \in 1 .. Len(dels) : dels[i] \in Delegation
      /\ \A i \in 1 .. Len(covSigs) : covSigs[i] \in Message
  BY <1>0
<1>1. /\ \A s \in page : s.del \in Del /\ status[s.del] # "absent"
      /\ \A i \in 1 .. Len(dels) : dels[i].del \in Del /\ status[dels[i].del] # "absent"
      /\ \A i \in 1 .. Len(covSigs) :
            covSigs[i].del \in Del /\ status[covSigs[i].del] # "absent"
  BY <1>0, <1>a, <1>b DEF KnownInv
<1>2. \A d \in Del : status[d] # "absent" => status'[d] # "absent"
  BY <1>0, ChainKeeps
<1>3. \A d \in Pending : d \in Del /\ status[d] # "absent"
  BY DEF Pending
<1>4. \A s \in page' : s.del \in Del /\ status[s.del] # "absent"
  BY <1>1, <1>3, WhereFrom
<1>5. \A i \in 1 .. Len(dels') : dels'[i].del \in Del /\ status[dels'[i].del] # "absent"
  BY <1>1, WhereFrom
<1>6. \A i \in 1 .. Len(covSigs') :
            covSigs'[i].del \in Del /\ status[covSigs'[i].del] # "absent"
  BY <1>1, WhereFrom
<1> QED
  BY <1>2, <1>4, <1>5, <1>6 DEF KnownInv

----------------------------------------------------------------------------
(* The resending loop                                                       *)

(* With enough attempts there is one for every message of a batch.          *)
LEMMA RetriesForAll ==
    ASSUME EnoughAttempts, NEW n \in Nat, n <= SigsBatchSize
    PROVE  BatchRetries(n) = n
BY SubmissionAssumption, EmulatorAssumption DEF EnoughAttempts, BatchRetries

(* Signing keeps the batch within its size; every refusal uses up one       *)
(* attempt and one message.                                                 *)
LEMMA AttemptStep ==
    ASSUME IInv, AttemptInv, [Next]_vars
    PROVE  AttemptInv'
<1>0. /\ covSigs \in Seq(Message) /\ msgs \in Seq(Message)
      /\ left \in Nat /\ attempts \in Nat /\ SigsBatchSize \in Nat \ {0}
      /\ dels \in Seq(Delegation)
  BY EmulatorAssumption DEF IInv, TypeOK, QueryTypeOK, SubmitTypeOK
<1>1. ASSUME phase' \notin {"sign", "send"}
      PROVE  AttemptInv'
  BY <1>1 DEF AttemptInv
<1>2. ASSUME UNCHANGED <<phase, outcome, covSigs, left, attempts, msgs>>
      PROVE  AttemptInv'
  BY <1>2 DEF AttemptInv, EnoughAttempts
<1>3. CASE Environment \/ Stop \/ UNCHANGED vars
  BY <1>2, <1>3 DEF Environment, Stop, vars, submitVars, loopVars
<1>4. CASE Tick \/ Query \/ ExitLoop \/ Crash \/ Panic \/ Restart
  <2>1. CASE Query
    BY <1>1, <2>1 DEF Query, QueryStep, FetchPage, FetchFails, FilterAccept,
         FilterReject, FilterFails, Filtering, EndPage, GiveUp, Return
  <2> QED
    BY <1>1, <1>4, <2>1 DEF Tick, StartQuery, ExitLoop, Crash, Panic, Die, Restart
<1>5. CASE SignStep
  <2>1. CASE NoMoreBatches \/ EndBatchUnsent
    BY <1>1, <2>1 DEF NoMoreBatches, EndBatchUnsent
  <2>2. CASE StartBatch
    BY <1>0, <2>2 DEF StartBatch, AttemptInv
  <2>3. ASSUME NEW s \in Queued, SkipDelegation(s) \/ SignFails(s)
        PROVE  AttemptInv'
    BY <1>0, <2>3 DEF SkipDelegation, SignFails, Handling, Handled, AttemptInv
  <2>4. ASSUME NEW s \in Queued, NEW good \in BOOLEAN, SignDelegation(s, good)
        PROVE  AttemptInv'
    <3>1. /\ covSigs' = Append(covSigs, [del |-> s.del, good |-> good])
          /\ Handling(s) /\ Handled
      BY <2>4 DEF SignDelegation
    <3>2. Len(covSigs') = Len(covSigs) + 1
      BY <1>0, <3>1
    <3> QED
      BY <1>0, <3>1, <3>2 DEF Handling, Handled, AttemptInv
  <2>5. CASE BeginSubmit
    <3>1. /\ phase = "sign" /\ left = 0 /\ phase' = "send" /\ outcome' = "none"
          /\ msgs' = covSigs /\ attempts' = BatchRetries(Len(covSigs))
      BY <2>5 DEF BeginSubmit, SubmitCovenantSigs
    <3>2. Len(covSigs) \in Nat /\ Len(covSigs) <= SigsBatchSize
      BY <1>0, <3>1 DEF AttemptInv
    <3>3. EnoughAttempts => attempts' = Len(msgs')
      BY <3>1, <3>2, RetriesForAll
    <3> QED
      BY <3>1, <3>3 DEF AttemptInv, EnoughAttempts
  <2> QED
    BY <1>5, <2>1, <2>2, <2>3, <2>4, <2>5 DEF SignStep
<1>6. CASE Send
  <2>0. phase = "send"
    BY <1>6 DEF Send
  <2>1. CASE phase' = "batch"
    BY <1>1, <2>1
  <2>2. CASE SendUnconfirmed /\ phase' = phase
    BY <2>0, <2>2 DEF SendUnconfirmed, submitVars, AttemptInv, EnoughAttempts
  <2>3. ASSUME NEW i \in 1 .. Len(msgs), SendRefusedRetry(i), phase' = phase
        PROVE  AttemptInv'
    <3>1. Len(msgs') = Len(msgs) - 1 /\ attempts' = attempts - 1 /\ outcome' = outcome
      BY <1>0, <2>3, RemoveMsgFacts DEF SendRefusedRetry
    <3> QED
      BY <1>0, <2>0, <2>3, <3>1 DEF AttemptInv, EnoughAttempts
  <2> QED
    BY <1>6, <2>1, <2>2, <2>3 DEF Send
<1> QED
  BY <1>3, <1>4, <1>5, <1>6 DEF Next

(* The chain names message i. It is settled, or an earlier message of the   *)
(* same transaction does the same for its delegation.                       *)
LEMMA RefusedIsSettled ==
    ASSUME NEW tx \in Seq(Message), NEW i \in 1 .. Len(tx), FirstFailure(tx, i)
    PROVE  Settled(tx[i]) \/ \E j \in 1 .. i - 1 : tx[j] = tx[i]
<1> SUFFICES ASSUME ~Settled(tx[i])
             PROVE  \E j \in 1 .. i - 1 : tx[j] = tx[i]
  OBVIOUS
<1>1. tx[i].good /\ Own \notin sigs[tx[i].del]
  BY DEF Settled, IsInvalid
<1>2. PICK j \in 1 .. i - 1 : tx[j].del = tx[i].del
  BY <1>1 DEF FirstFailure, FailsAt, IsDuplicate, Settled
<1>3. tx[j].good
  BY <1>2 DEF FirstFailure, FailsAt, IsInvalid
<1>4. j \in 1 .. Len(tx) /\ tx[i] \in Message /\ tx[j] \in Message
  BY <1>2
<1>5. tx[i].good = tx[j].good
  BY <1>1, <1>3, <1>4, Zenon DEF Message
<1>6. tx[j] = tx[i]
  BY <1>2, <1>4, <1>5 DEF Message
<1> QED
  BY <1>2, <1>6

(* Every message but the removed one is still there.                        *)
LEMMA RemoveKeepsOthers ==
    ASSUME NEW tx \in Seq(Message), NEW i \in 1 .. Len(tx),
           NEW k \in 1 .. Len(tx), k # i
    PROVE  \E j \in 1 .. Len(RemoveMsgAtIndex(tx, i)) : RemoveMsgAtIndex(tx, i)[j] = tx[k]
<1> DEFINE r == RemoveMsgAtIndex(tx, i)
<1>1. Len(r) = Len(tx) - 1
  BY RemoveMsgFacts
<1>2. CASE k < i
  <2>1. k \in 1 .. Len(tx) - 1 /\ r[k] = tx[k]
    BY <1>2 DEF RemoveMsgAtIndex
  <2> QED
    BY <1>1, <2>1
<1>3. CASE k > i
  <2>1. k - 1 \in 1 .. Len(tx) - 1 /\ r[k - 1] = tx[k]
    BY <1>3 DEF RemoveMsgAtIndex
  <2> QED
    BY <1>1, <2>1
<1> QED
  BY <1>2, <1>3

(* A settled message of the batch stays settled.                            *)
LEMMA BatchStaysSettled ==
    ASSUME TypeOK, KnownInv, [Next]_vars, covSigs' = covSigs,
           NEW i \in 1 .. Len(covSigs), Settled(covSigs[i])
    PROVE  Settled(covSigs[i])'
<1>1. PICK m \in Message : m = covSigs[i]
  BY DEF TypeOK, SubmitTypeOK
<1>2. status[m.del] # "absent" /\ Settled(m)
  BY <1>1 DEF KnownInv
<1>3. Settled(m)'
  BY <1>2, SettledStays
<1>4. covSigs'[i] = m
  BY <1>1
<1> QED
  BY <1>3, <1>4 DEF Settled, IsInvalid

(* Nothing but what the chain refused for good leaves the resend.           *)
LEMMA DroppedStep ==
    ASSUME IInv, KnownInv, DroppedOnlyIfRefused, [Next]_vars
    PROVE  DroppedOnlyIfRefused'
<1>0. /\ TypeOK /\ covSigs \in Seq(Message) /\ msgs \in Seq(Message)
  BY DEF IInv, TypeOK, SubmitTypeOK
<1>1. CASE phase' # "send"
  BY <1>1 DEF DroppedOnlyIfRefused
<1>2. CASE phase = "send" /\ UNCHANGED <<phase, covSigs, msgs>>
  <2> SUFFICES ASSUME NEW i \in 1 .. Len(covSigs)
               PROVE  \/ \E j \in 1 .. Len(msgs) : msgs[j] = covSigs[i]
                      \/ Settled(covSigs[i])'
    BY <1>2 DEF DroppedOnlyIfRefused
  <2>1. CASE Settled(covSigs[i])
    BY <1>0, <1>2, <2>1, BatchStaysSettled
  <2> QED
    BY <1>2, <2>1 DEF DroppedOnlyIfRefused
<1>3. CASE BeginSubmit
  BY <1>3 DEF BeginSubmit, SubmitCovenantSigs, DroppedOnlyIfRefused
<1>4. ASSUME NEW i \in 1 .. Len(msgs), SendRefusedRetry(i), phase = "send"
      PROVE  DroppedOnlyIfRefused'
  <2>1. /\ FirstFailure(msgs, i) /\ msgs' = RemoveMsgAtIndex(msgs, i)
        /\ covSigs' = covSigs
    BY <1>4 DEF SendRefusedRetry
  <2> SUFFICES ASSUME NEW k \in 1 .. Len(covSigs)
               PROVE  \/ \E j \in 1 .. Len(msgs') : msgs'[j] = covSigs[k]
                      \/ Settled(covSigs[k])'
    BY <2>1 DEF DroppedOnlyIfRefused
  <2>2. CASE Settled(covSigs[k])
    BY <1>0, <2>1, <2>2, BatchStaysSettled
  <2>3. ASSUME ~Settled(covSigs[k])
        PROVE  \E j \in 1 .. Len(msgs') : msgs'[j] = covSigs[k]
    <3>1. PICK j \in 1 .. Len(msgs) : msgs[j] = covSigs[k]
      BY <1>4, <2>3 DEF DroppedOnlyIfRefused
    <3>2. \E l \in 1 .. Len(msgs) : l # i /\ msgs[l] = covSigs[k]
      <4>1. CASE j # i
        BY <3>1, <4>1
      <4>2. CASE j = i
        <5>1. ~Settled(msgs[i])
          BY <2>3, <3>1, <4>2
        <5>2. PICK l \in 1 .. i - 1 : msgs[l] = msgs[i]
          BY <1>0, <2>1, <5>1, RefusedIsSettled
        <5> QED
          BY <1>0, <3>1, <4>2, <5>2
      <4> QED
        BY <4>1, <4>2
    <3>3. PICK l \in 1 .. Len(msgs) : l # i /\ msgs[l] = covSigs[k]
      BY <3>2
    <3> QED
      BY <1>0, <2>1, <3>3, RemoveKeepsOthers
  <2> QED
    BY <2>2, <2>3
<1>5. \/ phase' # "send"
      \/ phase = "send" /\ UNCHANGED <<phase, covSigs, msgs>>
      \/ BeginSubmit
      \/ phase = "send" /\ \E i \in 1 .. Len(msgs) : SendRefusedRetry(i)
  <2>1. CASE Environment \/ Stop \/ UNCHANGED vars
    BY <2>1 DEF Environment, Stop, vars, submitVars
  <2>2. CASE Tick \/ ExitLoop \/ Crash \/ Panic \/ Restart
    BY <2>2 DEF Tick, StartQuery, ExitLoop, Crash, Panic, Die, Restart
  <2>3. CASE Query
    BY <2>3 DEF Query, QueryStep, FetchPage, FetchFails, FilterAccept,
         FilterReject, FilterFails, Filtering, EndPage, GiveUp, Return
  <2>4. CASE SignStep
    BY <2>4 DEF SignStep, NoMoreBatches, StartBatch, SkipDelegation, SignFails,
         SignDelegation, Handling, Handled, EndBatchUnsent
  <2>5. CASE Send
    BY <2>5 DEF Send, SendUnconfirmed, submitVars
  <2> QED
    BY <2>1, <2>2, <2>3, <2>4, <2>5 DEF Next
<1> QED
  BY <1>1, <1>2, <1>3, <1>4, <1>5

(* The submission is reported a success by the inclusion of its last        *)
(* transaction or by the refusal of its last message.                       *)
LEMMA WhenSuccess ==
    ASSUME IInv, AttemptInv, [Next]_vars, outcome' = "ok"
    PROVE  \/ outcome = "ok" /\ covSigs' = covSigs
           \/ /\ phase = "send" /\ covSigs' = covSigs
              /\ SendIncluded \/ \E i \in 1 .. Len(msgs) : SendRefusedLast(i)
<1>1. CASE Environment \/ Stop \/ ExitLoop \/ Restart \/ Query \/ UNCHANGED vars
  BY <1>1 DEF Environment, Stop, ExitLoop, Restart, Query, vars, submitVars
<1>2. CASE Tick \/ Crash \/ Panic
  BY <1>2 DEF Tick, Crash, Panic, Die
<1>3. CASE SignStep
  BY <1>3 DEF SignStep, NoMoreBatches, StartBatch, SkipDelegation, SignFails,
       SignDelegation, Handling, Handled, EndBatchUnsent, BeginSubmit,
       SubmitCovenantSigs, submitVars, AttemptInv
<1>4. CASE Send
  BY <1>4 DEF Send, SendIncluded, SendFails, SendRefusedLast, SendRefusedRetry,
       SendUnconfirmed, Finish, submitVars, AttemptInv
<1> QED
  BY <1>1, <1>2, <1>3, <1>4 DEF Next

(* When the attempts suffice, either leaves nothing of the batch undone.    *)
LEMMA SuccessStep ==
    ASSUME IInv, SubmissionInv, EnoughAttempts, [Next]_vars
    PROVE  SuccessMeansSettled'
<1> USE DEF SubmissionInv
<1>0. /\ TypeOK /\ covSigs \in Seq(Message) /\ msgs \in Seq(Message)
  BY DEF IInv, TypeOK, SubmitTypeOK
<1> SUFFICES ASSUME outcome' = "ok", NEW k \in 1 .. Len(covSigs')
             PROVE  Settled(covSigs[k])'
  BY DEF SuccessMeansSettled
<1>1. CASE outcome = "ok" /\ covSigs' = covSigs
  BY <1>0, <1>1, BatchStaysSettled DEF SuccessMeansSettled
<1>2. CASE phase = "send" /\ covSigs' = covSigs
  <2>1. CASE Settled(covSigs[k])
    BY <1>0, <1>2, <2>1, BatchStaysSettled
  <2>2. ASSUME ~Settled(covSigs[k]), SendIncluded
        PROVE  Settled(covSigs[k])'
    <3>1. PICK j \in 1 .. Len(msgs) : msgs[j] = covSigs[k]
      BY <1>2, <2>2 DEF DroppedOnlyIfRefused
    <3>2. covSigs[k].del \in Carried(msgs) /\ covSigs[k].del \in Del
      <4>1. covSigs[k] \in Message /\ DOMAIN msgs = 1 .. Len(msgs)
        BY <1>0, <1>2
      <4> QED
        BY <3>1, <4>1 DEF Carried, Message
    <3>3. Own \in sigs'[covSigs[k].del]
      BY <1>0, <2>2, <3>2, ExecuteKeeps DEF SendIncluded, TypeOK
    <3> QED
      BY <1>2, <3>3 DEF Settled
  <2>3. ASSUME ~Settled(covSigs[k]), NEW i \in 1 .. Len(msgs), SendRefusedLast(i)
        PROVE  FALSE
    <3>a. attempts = 1 /\ FirstFailure(msgs, i)
      BY <2>3 DEF SendRefusedLast
    <3>b. Len(msgs) = 1 /\ i = 1
      <4>1. attempts = Len(msgs)
        BY <1>2 DEF AttemptInv
      <4>2. i \in 1 .. 1
        BY ONLY <2>3, <3>a, <4>1
      <4> QED
        BY ONLY <3>a, <4>1, <4>2
    <3>1. Len(msgs) = 1 /\ i = 1 /\ FirstFailure(msgs, 1)
      BY <3>a, <3>b
    <3>2. PICK j \in 1 .. Len(msgs) : msgs[j] = covSigs[k]
      BY <1>2, <2>3 DEF DroppedOnlyIfRefused
    <3>3. msgs[1] = covSigs[k] /\ 1 \in 1 .. Len(msgs) /\ 1 .. 1 - 1 = {}
      BY <3>1, <3>2
    <3>4. Settled(msgs[1])
      BY <1>0, <3>1, <3>3, RefusedIsSettled
    <3> QED
      BY <2>3, <3>3, <3>4
  <2>4. SendIncluded \/ (\E i \in 1 .. Len(msgs) : SendRefusedLast(i)) \/ outcome = "ok"
    BY WhenSuccess
  <2> QED
    BY <1>1, <1>2, <2>1, <2>2, <2>3, <2>4
<1> QED
  BY <1>1, <1>2, WhenSuccess

(* Every step keeps the invariant of the submission.                        *)
LEMMA SubmissionNext == IInv /\ SubmissionInv /\ [Next]_vars => SubmissionInv'
<1> SUFFICES ASSUME IInv, SubmissionInv, [Next]_vars PROVE SubmissionInv'
  OBVIOUS
<1>1. KnownInv' /\ AttemptInv' /\ DroppedOnlyIfRefused'
  BY KnownStep, AttemptStep, DroppedStep DEF SubmissionInv
<1>2. EnoughAttempts => SuccessMeansSettled'
  BY SuccessStep
<1> QED
  BY <1>1, <1>2 DEF SubmissionInv, EnoughAttempts

(* It holds before anything is submitted.                                   *)
LEMMA SubmissionStart == Init => SubmissionInv
BY DEF Init, QueryInit, SubmitInit, SubmissionInv, KnownInv, AttemptInv,
       DroppedOnlyIfRefused, SuccessMeansSettled

(* SubmissionInv holds in every reachable state.                            *)
THEOREM SubmissionInvariance == Spec => []SubmissionInv
BY SubmissionStart, SubmissionNext, Invariance, PTL DEF Spec

(* Only messages the chain refused for good are left out of a resend,       *)
(* whatever the batch size and the retry setting.                           *)
THEOREM OnlyRefusedDropped == Spec => []DroppedOnlyIfRefused
<1>1. SubmissionInv => DroppedOnlyIfRefused
  BY DEF SubmissionInv
<1> QED
  BY <1>1, SubmissionInvariance, PTL

(* With MaxRetiresBatchRemovingMsgs at its default of zero, or not below    *)
(* the batch size, a submission is reported a success only when every       *)
(* signature of the batch is on chain or was refused for good.              *)
THEOREM SuccessIsComplete ==
    ASSUME EnoughAttempts
    PROVE  Spec => []SuccessMeansSettled
<1>1. SubmissionInv => SuccessMeansSettled
  BY DEF SubmissionInv
<1> QED
  BY <1>1, SubmissionInvariance, PTL

----------------------------------------------------------------------------
(* The metrics                                                              *)

InHand == IF phase = "send" THEN Carried(covSigs) ELSE {}

(* A set A no larger than the counters accounts for every signature that is *)
(* out there and not part of the submission under way.                      *)
CoverInv ==
    crashes = 0 =>
        \E A \in SUBSET Del : /\ Cardinality(A) <= submitted + failed
                              /\ OutThere \subseteq A \cup InHand

(* Both times of a call of the signer are known once a batch has a          *)
(* signature.                                                               *)
TimerInv ==
    /\ phase \in {"sign", "send"} /\ covSigs # <<>>
            => {"signStart", "signFinish"} \subseteq timer
    /\ SubmissionCompletesTimer

MetricsInv ==
    /\ submitted \in Nat /\ failed \in Nat
    /\ phase = "send" => Carried(msgs) \subseteq Carried(covSigs)
    /\ CoverInv
    /\ TimerInv

(* A list of messages carries no more delegations than it has messages.     *)
LEMMA CarriedFacts ==
    ASSUME NEW tx \in Seq(Message)
    PROVE  /\ Carried(tx) \subseteq Del /\ IsFiniteSet(Carried(tx))
           /\ Cardinality(Carried(tx)) \in Nat /\ Cardinality(Carried(tx)) <= Len(tx)
<1> DEFINE f == [i \in 1 .. Len(tx) |-> tx[i].del]
<1>1. DOMAIN tx = 1 .. Len(tx) /\ Len(tx) \in Nat
  OBVIOUS
<1>2. f \in Surjection(1 .. Len(tx), Carried(tx))
  BY <1>1 DEF Surjection, Carried
<1>3. IsFiniteSet(1 .. Len(tx)) /\ Cardinality(1 .. Len(tx)) = Len(tx)
  BY <1>1, FS_Interval
<1>4. IsFiniteSet(Carried(tx)) /\ Cardinality(Carried(tx)) <= Cardinality(1 .. Len(tx))
  BY <1>2, <1>3, FS_Surjection
<1>5. Carried(tx) \subseteq Del
  <2>1. \A i \in 1 .. Len(tx) : tx[i] \in Message
    OBVIOUS
  <2>2. \A m \in Message : m.del \in Del
    BY DEF Message
  <2> QED
    BY <1>1, <2>1, <2>2 DEF Carried
<1> QED
  BY <1>3, <1>4, <1>5, FS_CardinalityType

(* What leaves the daemon in a step is part of the submission under way.    *)
LEMMA OutThereStep ==
    ASSUME IInv, [Next]_vars,
           phase = "send" => Carried(msgs) \subseteq Carried(covSigs)
    PROVE  OutThere' \subseteq OutThere \cup InHand
<1>0. TypeOK /\ ChainTypeOK
  BY DEF IInv, TypeOK
<1>1. ASSUME \A d \in Del : Own \in sigs'[d] => d \in OutThere \cup InHand,
             \A tx \in mempool' : tx \in mempool \/ Carried(tx) \subseteq InHand
      PROVE  OutThere' \subseteq OutThere \cup InHand
  BY <1>1 DEF OutThere, Carried
<1>2. /\ \A d \in Del : Own \in sigs[d] => d \in OutThere
      /\ \A tx \in mempool : Carried(tx) \subseteq OutThere
  BY DEF OutThere
<1>3. CASE Environment
  <2>1. ASSUME NEW e \in Del, CreateDelegation(e) \/ Expire(e)
        PROVE  UNCHANGED <<sigs, mempool>>
    BY <2>1 DEF CreateDelegation, Expire
  <2>2. ASSUME NEW e \in Del, NEW m \in Member, OtherMemberSigns(e, m)
        PROVE  mempool' = mempool /\ \A d \in Del : Own \in sigs'[d] => Own \in sigs[d]
    BY <1>0, <2>2 DEF OtherMemberSigns, Record, ChainTypeOK
  <2>3. ASSUME NEW tx \in mempool, LandLate(tx)
        PROVE  /\ mempool' \subseteq mempool
               /\ \A d \in Del : Own \in sigs'[d] => d \in OutThere
    BY <1>0, <1>2, <2>3, ExecuteEffect DEF LandLate
  <2>4. ASSUME NEW tx \in mempool, DropLate(tx)
        PROVE  mempool' \subseteq mempool /\ sigs' = sigs
    BY <2>4 DEF DropLate
  <2> QED
    BY <1>1, <1>2, <1>3, <2>1, <2>2, <2>3, <2>4 DEF Environment, ChainStep
<1>4. CASE Send
  <2>0. Carried(msgs) \subseteq InHand
    BY <1>4 DEF Send, InHand
  <2>1. CASE SendIncluded
    BY <1>0, <1>1, <1>2, <2>0, <2>1, ExecuteEffect DEF SendIncluded
  <2>2. CASE SendUnconfirmed
    BY <1>1, <1>2, <2>0, <2>2 DEF SendUnconfirmed
  <2>3. CASE UNCHANGED chainVars
    BY <1>1, <1>2, <2>3 DEF chainVars
  <2> QED
    BY <1>4, <2>1, <2>2, <2>3 DEF Send, SendFails, SendRefusedLast, SendRefusedRetry
<1>5. CASE Tick \/ Query \/ SignStep \/ Stop \/ ExitLoop \/ Crash \/ Panic \/ Restart
           \/ UNCHANGED vars
  <2>1. UNCHANGED chainVars
    BY <1>5 DEF Tick, Query, SignStep, NoMoreBatches, StartBatch, SkipDelegation,
         SignFails, SignDelegation, Handled, EndBatchUnsent, BeginSubmit,
         SubmitCovenantSigs, Stop, ExitLoop, Crash, Panic, Die, Restart, vars
  <2> QED
    BY <1>1, <1>2, <2>1 DEF chainVars
<1> QED
  BY <1>3, <1>4, <1>5 DEF Next

(* How the phase of a submission goes on.                                   *)
LEMMA PhaseStep ==
    ASSUME IInv, [Next]_vars
    PROVE  /\ phase = "send" => phase' \in {"send", "batch", "down"}
           /\ phase' = "send" => phase \in {"sign", "send"}
           /\ phase' = "sign" => phase \in {"batch", "sign"}
           /\ phase \in {"sign", "send"} /\ phase' = "send" => covSigs' = covSigs
           /\ phase = "batch" /\ phase' = "sign" => covSigs' = <<>>
           /\ phase = "sign" /\ phase' = "sign" =>
                \/ covSigs' = covSigs
                \/ Len(covSigs') > Len(covSigs)
           /\ Dies \/ crashes' = crashes
           /\ Dies => crashes' = crashes + 1
<1>0. covSigs \in Seq(Message)
  BY DEF IInv, TypeOK, SubmitTypeOK
<1>1. CASE Environment \/ Stop \/ UNCHANGED vars
  BY <1>1 DEF Environment, Stop, vars, submitVars, loopVars, Dies
<1>2. CASE Tick \/ ExitLoop \/ Restart
  BY <1>2 DEF Tick, StartQuery, ExitLoop, Restart, loopVars, submitVars, Dies
<1>3. CASE Crash \/ Panic
  BY <1>3 DEF Crash, Panic, Die, Dies
<1>4. CASE Query
  BY <1>4 DEF Query, QueryStep, FetchPage, FetchFails, FilterAccept,
       FilterReject, FilterFails, Filtering, EndPage, GiveUp, Return, loopVars, Dies
<1>5. CASE SignStep
  <2>1. CASE NoMoreBatches \/ StartBatch \/ EndBatchUnsent \/ BeginSubmit
    BY <2>1 DEF NoMoreBatches, StartBatch, EndBatchUnsent, BeginSubmit,
         SubmitCovenantSigs, loopVars, submitVars, Dies
  <2>2. ASSUME NEW s \in Queued, SkipDelegation(s) \/ SignFails(s)
        PROVE  phase = "sign" /\ phase' = "sign" /\ covSigs' = covSigs /\ crashes' = crashes
    BY <2>2 DEF SkipDelegation, SignFails, Handling, Handled
  <2>3. ASSUME NEW s \in Queued, NEW good \in BOOLEAN, SignDelegation(s, good)
        PROVE  /\ phase = "sign" /\ phase' = "sign" /\ crashes' = crashes
               /\ Len(covSigs') = Len(covSigs) + 1
    BY <1>0, <2>3 DEF SignDelegation, Handling, Handled
  <2>4. Len(covSigs) \in Nat
    BY <1>0
  <2> QED
    BY <1>5, <2>1, <2>2, <2>3, <2>4 DEF SignStep, Dies
<1>6. CASE Send
  BY <1>6 DEF Send, SendIncluded, SendFails, SendRefusedLast, SendRefusedRetry,
       SendUnconfirmed, submitVars, loopVars, Dies
<1> QED
  BY <1>1, <1>2, <1>3, <1>4, <1>5, <1>6 DEF Next

(* What a step records in the counters and in the time keeper.              *)
LEMMA RecordEffect ==
    ASSUME RecordMetrics
    PROVE  /\ Dies => Lost
           /\ ~Dies /\ phase = "send" => RecordSubmission
           /\ ~Dies /\ phase # "send" =>
                /\ UNCHANGED <<submitted, failed>>
                /\ timer \subseteq timer'
                /\ "submission" \in timer' => "submission" \in timer
           /\ ~Dies /\ phase = "sign" /\ Signs => {"signStart", "signFinish"} \subseteq timer'
<1>1. CASE Dies
  BY <1>1 DEF RecordMetrics
<1>2. CASE ~Dies /\ phase = "send"
  BY <1>2 DEF RecordMetrics
<1>3. CASE ~Dies /\ phase \in {"idle", "fetch", "filter"}
  BY <1>3 DEF RecordMetrics, RecordPending
<1>4. CASE ~Dies /\ phase = "sign" /\ Signs
  <2>1. RecordSigned
    BY <1>4 DEF RecordMetrics, CallFails
  <2>2. /\ UNCHANGED <<submitted, failed>>
        /\ timer' = timer \cup {"signStart", "signFinish"}
    BY <2>1 DEF RecordSigned
  <2> QED
    BY <1>4, <2>2
<1>5. CASE ~Dies /\ phase = "sign" /\ ~Signs /\ CallFails
  BY <1>5 DEF RecordMetrics, RecordCallFailed
<1>6. CASE ~Dies /\ phase = "sign" /\ ~Signs /\ ~CallFails
  BY <1>6 DEF RecordMetrics, metricsVars
<1>7. CASE ~Dies /\ phase \notin {"idle", "fetch", "filter", "sign", "send"}
  BY <1>7 DEF RecordMetrics, metricsVars
<1> QED
  BY <1>1, <1>2, <1>3, <1>4, <1>5, <1>6, <1>7

(* A set that accounts for everything before the step and for what is in    *)
(* hand accounts for everything after it.                                   *)
LEMMA CoverStep ==
    ASSUME IInv, MetricsInv, Next, RecordMetrics
    PROVE  CoverInv' /\ submitted' \in Nat /\ failed' \in Nat
<1>0. covSigs \in Seq(Message) /\ crashes \in Nat /\ Len(covSigs) \in Nat
      /\ submitted \in Nat /\ failed \in Nat
  BY DEF IInv, TypeOK, SubmitTypeOK, MetricsInv
<1>1. CASE Dies
  <2>1. crashes' # 0
    BY <1>0, <1>1, PhaseStep
  <2> QED
    BY <1>1, <2>1, RecordEffect DEF Lost, CoverInv
<1>2. CASE ~Dies
  <2>1. crashes' = crashes
    BY <1>2, PhaseStep
  <2>2. OutThere' \subseteq OutThere \cup InHand
    BY OutThereStep DEF MetricsInv
  <2>3. CASE phase = "send" /\ phase' = "batch"
    <3>1. submitted' \in Nat /\ failed' \in Nat
          /\ submitted' + failed' = submitted + failed + Len(covSigs)
      BY <1>0, <1>2, <2>3, RecordEffect DEF RecordSubmission
    <3>2. ASSUME crashes' = 0
          PROVE  \E A \in SUBSET Del : /\ Cardinality(A) <= submitted' + failed'
                                       /\ OutThere' \subseteq A
      <4>1. PICK A \in SUBSET Del : /\ Cardinality(A) <= submitted + failed
                                    /\ OutThere \subseteq A \cup InHand
        BY <2>1, <3>2 DEF MetricsInv, CoverInv
      <4> DEFINE B == A \cup Carried(covSigs)
      <4>2. InHand = Carried(covSigs)
        BY <2>3 DEF InHand
      <4>3. /\ Carried(covSigs) \subseteq Del /\ IsFiniteSet(Carried(covSigs))
            /\ Cardinality(Carried(covSigs)) \in Nat
            /\ Cardinality(Carried(covSigs)) <= Len(covSigs)
        BY <1>0, CarriedFacts
      <4>4. IsFiniteSet(A) /\ Cardinality(A) \in Nat
        BY FS_Subset, FS_CardinalityType, RulesAssumption
      <4>5. Cardinality(B) <= Cardinality(A) + Cardinality(Carried(covSigs))
        <5>1. /\ Cardinality(B) = Cardinality(A) + Cardinality(Carried(covSigs))
                                   - Cardinality(A \cap Carried(covSigs))
          BY <4>3, <4>4, FS_Union
        <5>2. Cardinality(A \cap Carried(covSigs)) \in Nat
          BY <4>4, FS_Intersection, FS_CardinalityType
        <5> QED
          BY <4>3, <4>4, <5>1, <5>2
      <4>6. Cardinality(B) \in Nat
        BY <4>3, <4>4, FS_Union, FS_CardinalityType
      <4>7. Cardinality(B) <= submitted' + failed'
        BY <1>0, <3>1, <4>1, <4>3, <4>4, <4>5, <4>6
      <4>8. B \in SUBSET Del /\ OutThere' \subseteq B
        BY <2>2, <4>1, <4>2, <4>3
      <4> QED
        BY <4>7, <4>8
    <3>3. InHand' = {}
      BY <2>3 DEF InHand
    <3>4. CoverInv'
      BY <3>2, <3>3 DEF CoverInv
    <3> QED
      BY <3>1, <3>4
  <2>4. CASE ~(phase = "send" /\ phase' = "batch")
    <3>1. UNCHANGED <<submitted, failed>>
      BY <1>2, <2>4, RecordEffect DEF RecordSubmission
    <3>2. InHand \subseteq InHand'
      <4>1. phase = "send" => phase' = "send" /\ covSigs' = covSigs
        BY <1>2, <2>4, PhaseStep DEF Dies
      <4> QED
        BY <4>1 DEF InHand, Carried
    <3>3. CoverInv'
      BY <2>1, <2>2, <3>1, <3>2 DEF MetricsInv, CoverInv
    <3> QED
      BY <1>0, <3>1, <3>3
  <2> QED
    BY <2>3, <2>4
<1> QED
  BY <1>1, <1>2

(* A batch with a signature has both times, and so has one that was         *)
(* submitted.                                                               *)
LEMMA TimerStep ==
    ASSUME IInv, MetricsInv, Next, RecordMetrics
    PROVE  TimerInv'
<1>0. covSigs \in Seq(Message)
  BY DEF IInv, TypeOK, SubmitTypeOK
<1>1. CASE Dies
  BY <1>1, RecordEffect DEF Dies, Lost, TimerInv, SubmissionCompletesTimer
<1>2. CASE ~Dies /\ phase = "send"
  <2>1. timer \subseteq timer'
    BY <1>2, RecordEffect DEF RecordSubmission
  <2>2. covSigs # <<>>
    <3>1. msgs \in Seq(Message) /\ Len(msgs) > 0
      BY <1>2 DEF IInv, CountInv, TypeOK, SubmitTypeOK
    <3>2. msgs[1].del \in Carried(msgs)
      BY <3>1 DEF Carried
    <3>3. Carried(<<>>) = {}
      BY DEF Carried
    <3>4. msgs[1].del \in Carried(covSigs)
      BY <1>2, <3>2 DEF MetricsInv
    <3> QED
      BY <3>3, <3>4
  <2>3. {"signStart", "signFinish"} \subseteq timer
    BY <1>2, <2>2 DEF MetricsInv, TimerInv
  <2> QED
    BY <2>1, <2>3 DEF TimerInv, SubmissionCompletesTimer
<1>3. CASE ~Dies /\ phase # "send"
  <2>1. timer \subseteq timer' /\ ("submission" \in timer' => "submission" \in timer)
    BY <1>3, RecordEffect
  <2>2. SubmissionCompletesTimer'
    BY <2>1 DEF MetricsInv, TimerInv, SubmissionCompletesTimer
  <2>3. ASSUME phase' \in {"sign", "send"}, covSigs' # <<>>
        PROVE  {"signStart", "signFinish"} \subseteq timer'
    <3>1. phase = "sign" /\ (covSigs' = covSigs \/ Signs)
      BY <1>3, <2>3, PhaseStep DEF Signs
    <3>2. CASE Signs
      BY <1>3, <3>1, <3>2, RecordEffect
    <3>3. CASE covSigs' = covSigs
      BY <2>1, <2>3, <3>1, <3>3 DEF MetricsInv, TimerInv
    <3> QED
      BY <3>1, <3>2, <3>3
  <2> QED
    BY <2>2, <2>3 DEF TimerInv
<1> QED
  BY <1>1, <1>2, <1>3

(* A submission sends nothing that is not in its batch.                     *)
LEMMA SentIsSigned ==
    ASSUME IInv, [Next]_vars, phase = "send" => Carried(msgs) \subseteq Carried(covSigs),
           phase' = "send"
    PROVE  Carried(msgs') \subseteq Carried(covSigs')
<1>0. msgs \in Seq(Message)
  BY DEF IInv, TypeOK, SubmitTypeOK
<1>1. CASE Environment \/ Stop \/ UNCHANGED vars
  BY <1>1 DEF Environment, Stop, vars, submitVars
<1>2. CASE Tick \/ ExitLoop \/ Crash \/ Panic \/ Restart
  BY <1>2 DEF Tick, StartQuery, ExitLoop, Crash, Panic, Die, Restart
<1>3. CASE Query
  BY <1>3 DEF Query, QueryStep, FetchPage, FetchFails, FilterAccept,
       FilterReject, FilterFails, Filtering, EndPage, GiveUp, Return
<1>4. CASE SignStep
  BY <1>4 DEF SignStep, NoMoreBatches, StartBatch, SkipDelegation, SignFails,
       SignDelegation, Handling, Handled, EndBatchUnsent, BeginSubmit, SubmitCovenantSigs
<1>5. CASE Send
  <2>1. ASSUME NEW i \in 1 .. Len(msgs), SendRefusedRetry(i)
        PROVE  Carried(msgs') \subseteq Carried(msgs) /\ covSigs' = covSigs
    BY <1>0, <2>1, RemoveMsgFacts DEF SendRefusedRetry
  <2>2. CASE SendUnconfirmed
    BY <1>5, <2>2 DEF Send, SendUnconfirmed, submitVars
  <2> QED
    BY <1>5, <2>1, <2>2 DEF Send
<1> QED
  BY <1>1, <1>2, <1>3, <1>4, <1>5 DEF Next

(* Every step of the metered daemon is a step of the daemon.                *)
LEMMA MeteredIsNext == [MeteredNext]_meteredVars => [Next]_vars
BY DEF MeteredNext, MeteredStep, UpdatePrometheusMetrics, meteredVars

(* The invariant of the metrics is kept by every step.                      *)
LEMMA MetricsNext == IInv /\ MetricsInv /\ [MeteredNext]_meteredVars => MetricsInv'
<1> SUFFICES ASSUME IInv, MetricsInv, [MeteredNext]_meteredVars PROVE MetricsInv'
  OBVIOUS
<1>1. CASE MeteredStep
  <2>1. Next /\ RecordMetrics
    BY <1>1 DEF MeteredStep
  <2>2. phase' = "send" => Carried(msgs') \subseteq Carried(covSigs')
    BY <2>1, SentIsSigned DEF MetricsInv
  <2>3. (phase = "send" => Carried(msgs) \subseteq Carried(covSigs))'
    BY <2>2 DEF Carried
  <2> QED
    BY <2>1, <2>3, CoverStep, TimerStep DEF MetricsInv
<1>2. CASE UpdatePrometheusMetrics \/ UNCHANGED meteredVars
  <2>1. UNCHANGED <<vars, submitted, failed, timer>>
    BY <1>2 DEF UpdatePrometheusMetrics, meteredVars, metricsVars
  <2>2. UNCHANGED <<phase, sigs, mempool, covSigs, msgs, crashes>>
    BY <2>1 DEF vars, chainVars, submitVars, loopVars
  <2>3. TimerInv'
    BY <2>1, <2>2 DEF MetricsInv, TimerInv, SubmissionCompletesTimer
  <2>4. OutThere' = OutThere /\ InHand' = InHand
    BY <2>2 DEF OutThere, InHand, Carried
  <2>5. CoverInv'
    BY <2>1, <2>2, <2>4 DEF MetricsInv, CoverInv
  <2>6. (phase = "send" => Carried(msgs) \subseteq Carried(covSigs))'
    BY <2>2 DEF MetricsInv, Carried
  <2> QED
    BY <2>1, <2>3, <2>5, <2>6 DEF MetricsInv
<1> QED
  BY <1>1, <1>2 DEF MeteredNext

(* It holds when the daemon starts.                                         *)
LEMMA MetricsStart == MeteredInit => MetricsInv
<1> SUFFICES ASSUME MeteredInit PROVE MetricsInv
  OBVIOUS
<1>1. /\ sigs = [d \in Del |-> {}] /\ mempool = {} /\ phase = "idle"
      /\ submitted = 0 /\ failed = 0 /\ timer = {}
  BY DEF MeteredInit, Init, ChainInit, NoMetrics
<1>2. OutThere = {}
  BY <1>1 DEF OutThere
<1>3. {} \in SUBSET Del /\ Cardinality({}) = 0
  BY FS_EmptySet
<1> QED
  BY <1>1, <1>2, <1>3 DEF MetricsInv, CoverInv, TimerInv, SubmissionCompletesTimer

(* MetricsInv holds in every reachable state of the metered daemon.         *)
THEOREM MetricsInvariance == MeteredSpec => [](IInv /\ MetricsInv)
<1>1. MeteredInit => IInv /\ MetricsInv
  BY InitInv, MetricsStart DEF MeteredInit
<1>2. IInv /\ MetricsInv /\ [MeteredNext]_meteredVars => IInv' /\ MetricsInv'
  BY NextInv, MeteredIsNext, MetricsNext
<1> QED
  BY <1>1, <1>2, PTL DEF MeteredSpec

(* As long as the process has not died, the counters of submitted and       *)
(* failed delegations, with the submission under way, are never below the   *)
(* number of delegations this member has signed on chain or in flight.      *)
THEOREM CountersCover == MeteredSpec => []CountersCoverSignatures
<1>1. IInv /\ MetricsInv => CountersCoverSignatures
  <2> SUFFICES ASSUME IInv, MetricsInv, crashes = 0
               PROVE  Cardinality(OutThere) <=
                        submitted + failed + (IF phase = "send" THEN Len(covSigs) ELSE 0)
    BY DEF CountersCoverSignatures
  <2>0. /\ covSigs \in Seq(Message) /\ submitted \in Nat /\ failed \in Nat
        /\ Len(covSigs) \in Nat
    BY DEF IInv, TypeOK, SubmitTypeOK, MetricsInv
  <2>1. PICK A \in SUBSET Del : /\ Cardinality(A) <= submitted + failed
                                /\ OutThere \subseteq A \cup InHand
    BY DEF MetricsInv, CoverInv
  <2>2. IsFiniteSet(A) /\ Cardinality(A) \in Nat
    BY FS_Subset, FS_CardinalityType, RulesAssumption
  <2>3. /\ IsFiniteSet(InHand) /\ Cardinality(InHand) \in Nat
        /\ Cardinality(InHand) <= (IF phase = "send" THEN Len(covSigs) ELSE 0)
    BY <2>0, CarriedFacts, FS_EmptySet DEF InHand
  <2>4. /\ IsFiniteSet(A \cup InHand)
        /\ Cardinality(A \cup InHand)
              = Cardinality(A) + Cardinality(InHand) - Cardinality(A \cap InHand)
    BY <2>2, <2>3, FS_Union
  <2>5. Cardinality(A \cap InHand) \in Nat /\ Cardinality(A \cup InHand) \in Nat
    BY <2>2, <2>4, FS_Intersection, FS_CardinalityType
  <2>6. Cardinality(OutThere) <= Cardinality(A \cup InHand) /\ Cardinality(OutThere) \in Nat
    BY <2>1, <2>4, FS_Subset, FS_CardinalityType
  <2>7. ASSUME NEW n \in Nat, Cardinality(InHand) <= n
        PROVE  Cardinality(OutThere) <= submitted + failed + n
    BY <2>0, <2>1, <2>2, <2>3, <2>4, <2>5, <2>6, <2>7
  <2> QED
    BY <2>0, <2>3, <2>7
<1> QED
  BY <1>1, MetricsInvariance, PTL

(* The metrics loop never waits for a time that a successful submission     *)
(* did not set.                                                             *)
THEOREM TimerComplete == MeteredSpec => []SubmissionCompletesTimer
<1>1. MetricsInv => SubmissionCompletesTimer
  BY DEF MetricsInv, TimerInv
<1> QED
  BY <1>1, MetricsInvariance, PTL
=============================================================================
