------------------------ MODULE SignerServiceProofs ------------------------
(***************************************************************************)
(* Proofs about SignerService for every set of requests. The inductive     *)
(* invariant ties the retriever's mutex to the one handler that is zeroing *)
(* the key, and the state of a key object's memory to the reference.       *)
(***************************************************************************)
EXTENDS SignerService, FiniteSetTheorems, TLAPS

(* The mutex is held across steps by the handler that zeroes, and by no     *)
(* other; meanwhile, and only then, the current key is partly erased.       *)
MutexInv ==
    /\ \A r \in Req : pc[r] = "zeroing" <=> mutex = r
    /\ mutex # None => keyRef # None
    /\ keyRef # None => key[keyRef] = IF mutex = None THEN "intact" ELSE "zeroing"
    /\ \A o \in Req : key[o] = "zeroing" => keyRef = o

(* A handler that signs holds a key object.                                 *)
HeldInv == \A r \in Req : pc[r] = "signing" => held[r] # None

KeyInv == MutexInv /\ HeldInv /\ LockErases /\ HeldIsCurrentOrErased

(* A request is answered, or its handler has panicked, when it has ended.   *)
AnswerInv == \A r \in Req : pc[r] # "done" => answer[r] = "none"

SInv == SignerTypeOK /\ KeyInv /\ AnswerInv /\ CountersBalance

----------------------------------------------------------------------------
(* Counting the signing requests that are not counted yet, or never will be *)

(* One more signing request is received.                                    *)
LEMMA OneMore ==
    ASSUME NEW r \in Req, r \notin Uncounted, Uncounted' = Uncounted \cup {r}
    PROVE  /\ Cardinality(Uncounted) \in Nat
           /\ Cardinality(Uncounted') = Cardinality(Uncounted) + 1
<1>1. IsFiniteSet(Uncounted)
  BY FS_Subset, SignerAssumption DEF Uncounted
<1> QED
  BY <1>1, FS_AddElement, FS_CardinalityType

(* One signing request is counted as succeeded or failed.                   *)
LEMMA OneLess ==
    ASSUME NEW r \in Uncounted, Uncounted' = Uncounted \ {r}
    PROVE  /\ Cardinality(Uncounted) \in Nat
           /\ Cardinality(Uncounted') = Cardinality(Uncounted) - 1
<1>1. IsFiniteSet(Uncounted)
  BY FS_Subset, SignerAssumption DEF Uncounted
<1> QED
  BY <1>1, FS_RemoveElement, FS_CardinalityType

(* A step in which no request enters or leaves and nothing is counted.      *)
LEMMA SameCount ==
    ASSUME CountersBalance, UNCHANGED counters, Uncounted' = Uncounted
    PROVE  CountersBalance'
BY DEF CountersBalance, counters

(* A handler that goes on, and stays on the same side of the count.         *)
LEMMA SameUncounted ==
    ASSUME SignerTypeOK, AnswerInv, NEW r \in Req, NEW l, Goto(r, l), pc[r] # "done",
           r \in Uncounted <=> Kind[r] = "sign" /\ l \in {"retriever", "signing"}
    PROVE  Uncounted' = Uncounted
<1>1. \A q \in Req : q # r => pc'[q] = pc[q]
  BY DEF SignerTypeOK, Goto
<1>2. pc'[r] = l /\ answer' = answer /\ answer[r] = "none"
  BY DEF SignerTypeOK, Goto, AnswerInv
<1> QED
  BY <1>1, <1>2 DEF Uncounted

(* A handler that ends with an answer, to a signing request or another.     *)
LEMMA DoneUncounted ==
    ASSUME SignerTypeOK, NEW r \in Req, NEW a, a # "panicked", Done(r, a)
    PROVE  Uncounted' = Uncounted \ {r}
<1>1. \A q \in Req : q # r => pc'[q] = pc[q] /\ answer'[q] = answer[q]
  BY DEF SignerTypeOK, Done
<1>2. pc'[r] = "done" /\ answer'[r] = a
  BY DEF SignerTypeOK, Done
<1> QED
  BY <1>1, <1>2 DEF Uncounted

(* Handlers go on without an answer, and end with one.                      *)
LEMMA AnswersStay ==
    ASSUME SignerTypeOK, AnswerInv, NEW r \in Req, NEW a, NEW l,
           Done(r, a) \/ (Goto(r, l) /\ pc[r] # "done")
    PROVE  AnswerInv'
<1>1. \A q \in Req : q # r => pc'[q] = pc[q] /\ answer'[q] = answer[q]
  BY DEF SignerTypeOK, Done, Goto
<1>2. pc'[r] = "done" \/ (pc[r] # "done" /\ answer'[r] = answer[r])
  BY DEF SignerTypeOK, Done, Goto
<1> QED
  BY <1>1, <1>2 DEF AnswerInv

(* The arithmetic of one request that moves to the counted ones.            *)
LEMMA MovedToCounted ==
    ASSUME NEW s \in Nat, NEW f \in Nat, NEW s2 \in Nat, NEW f2 \in Nat,
           NEW n \in Nat, NEW n2 \in Int,
           s2 + f2 = s + f + 1, n2 = n - 1
    PROVE  s2 + f2 + n2 = s + f + n
OBVIOUS

(* IncFailedSigningRequests and IncSuccessfulSigningRequests are called     *)
(* once for a signing request, by the handler that ends.                    *)
LEMMA EndCounted ==
    ASSUME SignerTypeOK, CountersBalance, NEW r \in Req, NEW a, a # "panicked",
           Done(r, a), pc[r] \in {"retriever", "signing"}, received' = received,
           succeeded' + failed' =
             succeeded + failed + (IF Kind[r] = "sign" THEN 1 ELSE 0),
           succeeded' \in Nat, failed' \in Nat
    PROVE  CountersBalance'
<1>1. Uncounted' = Uncounted \ {r}
  BY DoneUncounted
<1>2. received \in Nat /\ succeeded \in Nat /\ failed \in Nat
  BY DEF SignerTypeOK
<1>3. CASE Kind[r] = "sign"
  <2>1. r \in Uncounted
    BY <1>3 DEF Uncounted
  <2>2. /\ Cardinality(Uncounted) \in Nat
        /\ Cardinality(Uncounted') = Cardinality(Uncounted) - 1
    BY <1>1, <2>1, OneLess
  <2>3. succeeded' + failed' = succeeded + failed + 1
    BY <1>3
  <2>4. succeeded' \in Nat /\ failed' \in Nat /\ received' = received
    OBVIOUS
  <2>5. received = succeeded + failed + Cardinality(Uncounted)
    BY DEF CountersBalance
  <2>6. succeeded' + failed' + Cardinality(Uncounted') =
          succeeded + failed + Cardinality(Uncounted)
    <3>1. PICK n \in Nat : n = Cardinality(Uncounted)
      BY <2>2
    <3>2. PICK s \in Nat : s = succeeded
      BY <1>2
    <3>3. PICK f \in Nat : f = failed
      BY <1>2
    <3>4. PICK s2 \in Nat : s2 = succeeded'
      BY <2>4
    <3>5. PICK f2 \in Nat : f2 = failed'
      BY <2>4
    <3>6. s2 + f2 = s + f + 1
      BY <2>3, <3>2, <3>3, <3>4, <3>5
    <3>7. s2 + f2 + (n - 1) = s + f + n
      BY <3>6, MovedToCounted
    <3> QED
      BY <2>2, <3>1, <3>2, <3>3, <3>4, <3>5, <3>7
  <2> QED
    BY <2>4, <2>5, <2>6 DEF CountersBalance
<1>4. CASE Kind[r] # "sign"
  <2>1. Uncounted' = Uncounted
    BY <1>1, <1>4 DEF Uncounted
  <2>2. Cardinality(Uncounted') = Cardinality(Uncounted)
    BY <2>1
  <2> QED
    BY <1>2, <1>4, <2>2 DEF CountersBalance
<1> QED
  BY <1>3, <1>4

----------------------------------------------------------------------------
(* One lemma per step of a handler *)

(* A refused request touches no key and is not counted.                     *)
LEMMA RejectStep ==
    ASSUME SInv, NEW r \in Req, Reject(r)
    PROVE  SInv'
<1> USE DEF SInv
<1>1. SignerTypeOK'
  BY DEF Reject, Done, SignerTypeOK, PC, Answer, counters
<1>2. KeyInv'
  BY DEF Reject, Done, SignerTypeOK, KeyInv, MutexInv, HeldInv, LockErases,
         HeldIsCurrentOrErased
<1>3. r \notin Uncounted
  BY DEF Reject, Uncounted, AnswerInv
<1>4. CountersBalance'
  <2>1. Uncounted' = Uncounted
    BY <1>3, DoneUncounted DEF Reject
  <2> QED
    BY <2>1, SameCount DEF Reject
<1>5. AnswerInv'
  BY AnswersStay DEF Reject
<1> QED
  BY <1>1, <1>2, <1>4, <1>5

(* An admitted request is counted when its handler starts.                  *)
LEMMA ReceiveStep ==
    ASSUME SInv, NEW r \in Req, Receive(r)
    PROVE  SInv'
<1> USE DEF SInv
<1>1. SignerTypeOK'
  BY DEF Receive, Goto, SignerTypeOK, PC
<1>2. KeyInv'
  BY DEF Receive, Goto, SignerTypeOK, KeyInv, MutexInv, HeldInv, LockErases,
         HeldIsCurrentOrErased
<1>3. /\ r \notin Uncounted /\ pc[r] # "done" /\ Goto(r, "retriever")
      /\ pc' = [pc EXCEPT ![r] = "retriever"] /\ answer' = answer
  BY DEF Receive, Goto, Uncounted, AnswerInv
<1>6. AnswerInv'
  BY <1>3, AnswersStay
<1>4. CASE Kind[r] = "sign"
  <2>1. \A q \in Req : q # r => pc'[q] = pc[q]
    BY <1>3 DEF SignerTypeOK
  <2>2. pc'[r] = "retriever"
    BY <1>3 DEF SignerTypeOK
  <2>3. Uncounted' = Uncounted \cup {r}
    BY <1>3, <1>4, <2>1, <2>2 DEF Uncounted
  <2>4. received' = received + 1 /\ succeeded' = succeeded /\ failed' = failed
    BY <1>4 DEF Receive
  <2>5. /\ Cardinality(Uncounted) \in Nat
        /\ Cardinality(Uncounted') = Cardinality(Uncounted) + 1
    BY <1>3, <2>3, OneMore
  <2>6. CountersBalance'
    BY <2>4, <2>5 DEF CountersBalance, SignerTypeOK
  <2> QED
    BY <1>1, <1>2, <1>6, <2>6
<1>5. CASE Kind[r] # "sign"
  <2>1. Uncounted' = Uncounted
    BY <1>3, <1>5, SameUncounted
  <2>2. UNCHANGED counters
    BY <1>5 DEF Receive, counters
  <2> QED
    BY <1>1, <1>2, <1>6, <2>1, <2>2, SameCount
<1> QED
  BY <1>4, <1>5

(* PrivKey hands out the current key object, or the request fails.          *)
LEMMA PrivKeyStep ==
    ASSUME SInv, NEW r \in Req, PrivKey(r)
    PROVE  SInv'
<1> USE DEF SInv
<1>0. /\ pc[r] = "retriever" /\ mutex = None
      /\ UNCHANGED <<keyRef, key, mutex, torn, gauge>>
  BY DEF PrivKey, Enter
<1>1. CASE keyRef = None
  <2>1. Fails(r) /\ UNCHANGED <<held, todo>>
    BY <1>1 DEF PrivKey
  <2>2. SignerTypeOK'
    BY <1>0, <2>1 DEF Fails, Done, SignerTypeOK, PC, Answer
  <2>3. KeyInv'
    BY <1>0, <2>1 DEF Fails, Done, SignerTypeOK, KeyInv, MutexInv, HeldInv,
                      LockErases, HeldIsCurrentOrErased
  <2>4. CountersBalance'
    <3>1. /\ Done(r, "error") /\ received' = received /\ succeeded' = succeeded
          /\ failed' = IF Kind[r] = "sign" THEN failed + 1 ELSE failed
      BY <2>1 DEF Fails
    <3>2. /\ succeeded' + failed' =
               succeeded + failed + (IF Kind[r] = "sign" THEN 1 ELSE 0)
          /\ succeeded' \in Nat /\ failed' \in Nat
      BY <3>1 DEF SignerTypeOK
    <3> QED
      BY <1>0, <3>1, <3>2, EndCounted
  <2>5. AnswerInv'
    BY <2>1, AnswersStay DEF Fails
  <2> QED
    BY <2>2, <2>3, <2>4, <2>5
<1>2. CASE keyRef # None
  <2>1. /\ Goto(r, "signing") /\ UNCHANGED counters
        /\ held' = [held EXCEPT ![r] = keyRef]
        /\ todo' = [todo EXCEPT ![r] = IF Kind[r] = "sign" THEN SigCount[r] ELSE 1]
    BY <1>2 DEF PrivKey
  <2>2. SignerTypeOK'
    BY <1>0, <2>1, SignerAssumption DEF Goto, SignerTypeOK, PC, counters
  <2>3. KeyInv'
    BY <1>0, <1>2, <2>1 DEF Goto, SignerTypeOK, KeyInv, MutexInv, HeldInv,
                            LockErases, HeldIsCurrentOrErased
  <2>4. Uncounted' = Uncounted
    <3>1. r \in Uncounted <=> Kind[r] = "sign"
      BY <1>0 DEF Uncounted, AnswerInv
    <3> QED
      BY <1>0, <2>1, <3>1, SameUncounted
  <2>5. AnswerInv'
    BY <1>0, <2>1, AnswersStay
  <2> QED
    BY <2>1, <2>2, <2>3, <2>4, <2>5, SameCount
<1> QED
  BY <1>1, <1>2

(* Using the key object changes nothing but the request itself.             *)
LEMMA UseKeyStep ==
    ASSUME SInv, NEW r \in Req, UseKey(r)
    PROVE  SInv'
<1> USE DEF SInv
<1>0. /\ pc[r] = "signing" /\ todo[r] > 0 /\ torn' \subseteq Req
      /\ UNCHANGED <<keyRef, key, mutex, held, gauge>>
      /\ \/ Fails(r) /\ UNCHANGED todo
         \/ /\ todo' = [todo EXCEPT ![r] = @ - 1]
            /\ UNCHANGED <<pc, answer, counters>>
  BY DEF UseKey, SignerTypeOK
<1>1. CASE Fails(r) /\ UNCHANGED todo
  <2>1. SignerTypeOK'
    BY <1>0, <1>1 DEF Fails, Done, SignerTypeOK, PC, Answer
  <2>2. KeyInv'
    BY <1>0, <1>1 DEF Fails, Done, SignerTypeOK, KeyInv, MutexInv, HeldInv,
                      LockErases, HeldIsCurrentOrErased
  <2>3. CountersBalance'
    <3>1. /\ Done(r, "error") /\ received' = received /\ succeeded' = succeeded
          /\ failed' = IF Kind[r] = "sign" THEN failed + 1 ELSE failed
      BY <1>1 DEF Fails
    <3>2. /\ succeeded' + failed' =
               succeeded + failed + (IF Kind[r] = "sign" THEN 1 ELSE 0)
          /\ succeeded' \in Nat /\ failed' \in Nat
      BY <3>1 DEF SignerTypeOK
    <3> QED
      BY <1>0, <3>1, <3>2, EndCounted
  <2>4. AnswerInv'
    BY <1>1, AnswersStay DEF Fails
  <2> QED
    BY <2>1, <2>2, <2>3, <2>4
<1>2. CASE todo' = [todo EXCEPT ![r] = @ - 1] /\ UNCHANGED <<pc, answer, counters>>
  <2>1. SignerTypeOK'
    BY <1>0, <1>2 DEF SignerTypeOK, counters
  <2>2. KeyInv'
    BY <1>0, <1>2 DEF KeyInv, MutexInv, HeldInv, LockErases, HeldIsCurrentOrErased
  <2>3. Uncounted' = Uncounted
    BY <1>2 DEF Uncounted
  <2>4. AnswerInv'
    BY <1>2 DEF AnswerInv
  <2> QED
    BY <1>2, <2>1, <2>2, <2>3, <2>4, SameCount
<1> QED
  BY <1>0, <1>1, <1>2

(* A handler that panics is not counted, and stays among the uncounted.     *)
LEMMA PanicStep ==
    ASSUME SInv, NEW r \in Req, Panics(r)
    PROVE  SInv'
<1> USE DEF SInv
<1>0. /\ pc[r] = "signing" /\ r \in BadIndex /\ Done(r, "panicked")
      /\ UNCHANGED <<keyRef, key, mutex, held, todo, torn, gauge, counters>>
  BY DEF Panics, AtBadIndex
<1>1. SignerTypeOK'
  BY <1>0 DEF Done, SignerTypeOK, PC, Answer, counters
<1>2. KeyInv'
  BY <1>0 DEF Done, SignerTypeOK, KeyInv, MutexInv, HeldInv, LockErases,
              HeldIsCurrentOrErased
<1>3. Uncounted' = Uncounted
  <2>1. \A q \in Req : q # r => pc'[q] = pc[q] /\ answer'[q] = answer[q]
    BY <1>0 DEF SignerTypeOK, Done
  <2>2. answer'[r] = "panicked" /\ Kind[r] = "sign"
    BY <1>0, SignerAssumption DEF SignerTypeOK, Done
  <2> QED
    BY <1>0, <2>1, <2>2 DEF Uncounted
<1>4. CountersBalance'
  BY <1>0, <1>3, SameCount
<1>5. AnswerInv'
  BY <1>0, AnswersStay
<1> QED
  BY <1>1, <1>2, <1>4, <1>5

(* A response ends a signing request and counts it once.                    *)
LEMMA RespondStep ==
    ASSUME SInv, NEW r \in Req, Respond(r)
    PROVE  SInv'
<1> USE DEF SInv
<1>1. SignerTypeOK'
  BY DEF Respond, Done, SignerTypeOK, PC, Answer
<1>2. KeyInv'
  BY DEF Respond, Done, SignerTypeOK, KeyInv, MutexInv, HeldInv, LockErases,
         HeldIsCurrentOrErased
<1>3. CountersBalance'
  <2>1. /\ pc[r] = "signing" /\ Done(r, "ok") /\ received' = received
        /\ failed' = failed
        /\ succeeded' = IF Kind[r] = "sign" THEN succeeded + 1 ELSE succeeded
    BY DEF Respond
  <2>2. /\ succeeded' + failed' =
             succeeded + failed + (IF Kind[r] = "sign" THEN 1 ELSE 0)
        /\ succeeded' \in Nat /\ failed' \in Nat
    BY <2>1 DEF SignerTypeOK
  <2> QED
    BY <2>1, <2>2, EndCounted
<1>4. AnswerInv'
  BY AnswersStay DEF Respond
<1> QED
  BY <1>1, <1>2, <1>3, <1>4

(* Unlock loads a key only when there is none.                              *)
LEMMA UnlockStep ==
    ASSUME SInv, NEW r \in Req, Unlock(r)
    PROVE  SInv'
<1> USE DEF SInv
<1>0. /\ pc[r] = "retriever" /\ Kind[r] = "unlock" /\ mutex = None
      /\ UNCHANGED <<mutex, held, todo, torn, gauge, counters>>
  BY DEF Unlock, Enter
<1>1. \/ Goto(r, "metric") /\ UNCHANGED <<keyRef, key>>
      \/ Done(r, "error") /\ UNCHANGED <<keyRef, key>>
      \/ /\ keyRef = None /\ keyRef' = r /\ key' = [key EXCEPT ![r] = "intact"]
         /\ Goto(r, "metric")
  BY DEF Unlock
<1>2. SignerTypeOK'
  BY <1>0, <1>1 DEF Goto, Done, SignerTypeOK, PC, Answer, counters
<1>3. KeyInv'
  <2>1. CASE UNCHANGED <<keyRef, key>>
    BY <1>0, <1>1, <2>1 DEF Goto, Done, SignerTypeOK, KeyInv, MutexInv, HeldInv,
                            LockErases, HeldIsCurrentOrErased
  <2>2. CASE /\ keyRef = None /\ keyRef' = r /\ key' = [key EXCEPT ![r] = "intact"]
             /\ Goto(r, "metric")
    <3>1. /\ \A o \in Req : o # r => key'[o] = key[o] /\ key[o] # "intact"
          /\ \A o \in Req : key[o] # "zeroing"
          /\ key'[r] = "intact"
      BY <2>2, SignerAssumption DEF SignerTypeOK, KeyInv, MutexInv, LockErases
    <3>2. \A q \in Req : q # r => pc'[q] = pc[q]
      BY <2>2 DEF Goto, SignerTypeOK
    <3>3. pc'[r] = "metric"
      BY <2>2 DEF Goto, SignerTypeOK
    <3>4. MutexInv' /\ LockErases' /\ HeldInv'
      BY <1>0, <2>2, <3>1, <3>2, <3>3, SignerAssumption
      DEF SignerTypeOK, KeyInv, MutexInv, HeldInv, LockErases
    <3>5. HeldIsCurrentOrErased'
      BY <1>0, <2>2, <3>1, <3>2, <3>3
      DEF SignerTypeOK, KeyInv, HeldInv, HeldIsCurrentOrErased
    <3> QED
      BY <3>4, <3>5 DEF KeyInv
  <2> QED
    BY <1>1, <2>1, <2>2
<1>4. CountersBalance' /\ AnswerInv'
  <2>1. r \notin Uncounted
    BY <1>0 DEF Uncounted
  <2>2. CASE Goto(r, "metric")
    BY <1>0, <2>1, <2>2, SameUncounted, SameCount, AnswersStay
  <2>3. CASE Done(r, "error")
    <3>1. Uncounted' = Uncounted
      BY <2>1, <2>3, DoneUncounted
    <3> QED
      BY <1>0, <2>3, <3>1, SameCount, AnswersStay
  <2> QED
    BY <1>1, <2>2, <2>3
<1> QED
  BY <1>2, <1>3, <1>4

(* Lock takes the mutex and starts to erase the current key.                *)
LEMMA LockBeginStep ==
    ASSUME SInv, NEW r \in Req, LockBegin(r)
    PROVE  SInv'
<1> USE DEF SInv
<1>0. /\ pc[r] = "retriever" /\ Kind[r] = "lock" /\ mutex = None
      /\ UNCHANGED <<keyRef, held, todo, torn, gauge, counters>>
  BY DEF LockBegin, Enter
<1>1. \/ Goto(r, "metric") /\ UNCHANGED <<mutex, key>>
      \/ /\ keyRef # None /\ Goto(r, "zeroing") /\ mutex' = r
         /\ key' = [key EXCEPT ![keyRef] = "zeroing"]
  BY DEF LockBegin
<1>2. SignerTypeOK'
  BY <1>0, <1>1 DEF Goto, SignerTypeOK, PC, counters
<1>3. KeyInv'
  <2>1. CASE Goto(r, "metric") /\ UNCHANGED <<mutex, key>>
    BY <1>0, <2>1 DEF Goto, SignerTypeOK, KeyInv, MutexInv, HeldInv, LockErases,
                      HeldIsCurrentOrErased
  <2>2. CASE /\ keyRef # None /\ Goto(r, "zeroing") /\ mutex' = r
             /\ key' = [key EXCEPT ![keyRef] = "zeroing"]
    <3>1. /\ \A q \in Req : q # r => pc'[q] = pc[q] /\ pc[q] # "zeroing"
          /\ pc'[r] = "zeroing"
      BY <1>0, <2>2, SignerAssumption DEF Goto, SignerTypeOK, KeyInv, MutexInv
    <3>2. /\ \A o \in Req : o # keyRef => key'[o] = key[o] /\ key[o] # "intact"
          /\ key'[keyRef] = "zeroing" /\ keyRef \in Req
      BY <2>2 DEF SignerTypeOK, KeyInv, LockErases
    <3>3. MutexInv'
      BY <1>0, <2>2, <3>1, <3>2, SignerAssumption DEF KeyInv, MutexInv
    <3>4. HeldInv' /\ LockErases'
      BY <1>0, <3>1, <3>2 DEF KeyInv, HeldInv, LockErases
    <3>5. HeldIsCurrentOrErased'
      BY <1>0, <3>1, <3>2 DEF SignerTypeOK, KeyInv, HeldInv, HeldIsCurrentOrErased
    <3> QED
      BY <3>3, <3>4, <3>5 DEF KeyInv
  <2> QED
    BY <1>1, <2>1, <2>2
<1>4. CountersBalance' /\ AnswerInv'
  <2>1. r \notin Uncounted
    BY <1>0 DEF Uncounted
  <2>2. PICK l \in {"metric", "zeroing"} : Goto(r, l)
    BY <1>1
  <2>3. Uncounted' = Uncounted
    BY <1>0, <2>1, <2>2, SameUncounted
  <2> QED
    BY <1>0, <2>2, <2>3, SameCount, AnswersStay
<1> QED
  BY <1>2, <1>3, <1>4

(* Lock leaves the erased object without a reference to it.                 *)
LEMMA LockEndStep ==
    ASSUME SInv, NEW r \in Req, LockEnd(r)
    PROVE  SInv'
<1> USE DEF SInv
<1>0. /\ pc[r] = "zeroing" /\ pc' = [pc EXCEPT ![r] = "metric"]
      /\ Goto(r, "metric") /\ key' = [key EXCEPT ![keyRef] = "zero"]
      /\ keyRef' = None /\ mutex' = None
      /\ UNCHANGED <<answer, held, todo, torn, gauge, counters>>
  BY DEF LockEnd, Goto
<1>1. mutex = r /\ keyRef \in Req
  BY <1>0, SignerAssumption DEF KeyInv, MutexInv, SignerTypeOK
<1>2. SignerTypeOK'
  BY <1>0 DEF SignerTypeOK, PC, counters
<1>3. /\ \A q \in Req : q # r => pc'[q] = pc[q] /\ pc[q] # "zeroing"
      /\ pc'[r] = "metric"
  BY <1>0, <1>1 DEF SignerTypeOK, KeyInv, MutexInv
<1>4. /\ \A o \in Req : o # keyRef => key'[o] = key[o] /\ key[o] # "zeroing"
      /\ \A o \in Req : key[o] # "intact"
      /\ key'[keyRef] = "zero"
  BY <1>0, <1>1, SignerAssumption DEF SignerTypeOK, KeyInv, MutexInv, LockErases
<1>5. MutexInv'
  BY <1>0, <1>1, <1>3, <1>4, SignerAssumption DEF MutexInv
<1>6. HeldInv' /\ LockErases'
  BY <1>0, <1>3, <1>4 DEF KeyInv, HeldInv, LockErases
<1>7. HeldIsCurrentOrErased'
  BY <1>0, <1>1, <1>3, <1>4 DEF SignerTypeOK, KeyInv, HeldInv, HeldIsCurrentOrErased
<1>8. CountersBalance' /\ AnswerInv'
  <2>1. r \notin Uncounted
    BY <1>0 DEF Uncounted, AnswerInv
  <2>2. Uncounted' = Uncounted
    BY <1>0, <2>1, SameUncounted
  <2> QED
    BY <1>0, <2>2, SameCount, AnswersStay
<1> QED
  BY <1>2, <1>5, <1>6, <1>7, <1>8 DEF KeyInv

(* Setting the gauge ends a lock or unlock request.                         *)
LEMMA SetGaugeStep ==
    ASSUME SInv, NEW r \in Req, SetGauge(r)
    PROVE  SInv'
<1> USE DEF SInv
<1>1. SignerTypeOK'
  BY DEF SetGauge, Done, SignerTypeOK, PC, Answer, counters
<1>2. KeyInv'
  BY DEF SetGauge, Done, SignerTypeOK, KeyInv, MutexInv, HeldInv, LockErases,
         HeldIsCurrentOrErased
<1>3. r \notin Uncounted
  BY DEF SetGauge, Uncounted, AnswerInv
<1>4. CountersBalance'
  <2>1. Uncounted' = Uncounted
    BY <1>3, DoneUncounted DEF SetGauge
  <2> QED
    BY <2>1, SameCount DEF SetGauge
<1>5. AnswerInv'
  BY AnswersStay DEF SetGauge
<1> QED
  BY <1>1, <1>2, <1>4, <1>5

----------------------------------------------------------------------------
(* The theorems *)

(* The locked service satisfies the invariant.                              *)
LEMMA SignerInitInv == Init => SInv
<1> SUFFICES ASSUME Init PROVE SInv
  OBVIOUS
<1>1. SignerTypeOK
  BY DEF Init, SignerTypeOK, PC, Answer
<1>2. KeyInv
  BY SignerAssumption DEF Init, KeyInv, MutexInv, HeldInv, LockErases, HeldIsCurrentOrErased
<1>3. CountersBalance
  <2>1. Uncounted = {}
    BY DEF Init, Uncounted
  <2> QED
    BY <2>1, FS_EmptySet DEF Init, CountersBalance
<1>4. AnswerInv
  BY DEF Init, AnswerInv
<1> QED
  BY <1>1, <1>2, <1>3, <1>4 DEF SInv

(* Every step of every handler keeps it.                                    *)
LEMMA SignerNextInv == SInv /\ [Next]_vars => SInv'
<1> SUFFICES ASSUME SInv, [Next]_vars PROVE SInv'
  OBVIOUS
<1>1. ASSUME NEW r \in Req, Reject(r) \/ Receive(r)
      PROVE  SInv'
  BY <1>1, RejectStep, ReceiveStep
<1>2. ASSUME NEW r \in Req, Handler(r)
      PROVE  SInv'
  BY <1>2, PrivKeyStep, UseKeyStep, PanicStep, RespondStep, UnlockStep,
     LockBeginStep, LockEndStep, SetGaugeStep DEF Handler
<1>3. CASE UNCHANGED vars
  <2>1. Uncounted' = Uncounted
    BY <1>3 DEF vars, Uncounted
  <2> QED
    BY <1>3, <2>1 DEF vars, counters, SInv, AnswerInv, SignerTypeOK, KeyInv, MutexInv, HeldInv,
                      LockErases, HeldIsCurrentOrErased, CountersBalance
<1> QED
  BY <1>1, <1>2, <1>3 DEF Next

(* SInv holds in every reachable state, for every set of requests.          *)
THEOREM SignerInvariance == Spec => []SInv
BY SignerInitInv, SignerNextInv, PTL DEF Spec

(* Program counters, keys and counters keep their types, for every set of   *)
(* requests.                                                                *)
THEOREM SignerTypeCorrect == Spec => []SignerTypeOK
<1>1. SInv => SignerTypeOK
  BY DEF SInv
<1> QED
  BY <1>1, SignerInvariance, PTL

(* Once Lock has run no handler can sign with the erased key object any     *)
(* more, however many requests race with it.                                *)
THEOREM LockErasesAlways == Spec => []LockErases
<1>1. SInv => LockErases
  BY DEF SInv, KeyInv
<1> QED
  BY <1>1, SignerInvariance, PTL

(* All signatures of one response come from one load of the key.            *)
THEOREM OneKeyPerResponse == Spec => []HeldIsCurrentOrErased
<1>1. SInv => HeldIsCurrentOrErased
  BY DEF SInv, KeyInv
<1> QED
  BY <1>1, SignerInvariance, PTL

(* Every signing request received is counted once as succeeded or failed,   *)
(* or still worked on, or one whose handler panicked at an index out of     *)
(* range; nothing else makes the three counters differ.                     *)
THEOREM CountersAlwaysBalance == Spec => []CountersBalance
<1>1. SInv => CountersBalance
  BY DEF SInv
<1> QED
  BY <1>1, SignerInvariance, PTL

----------------------------------------------------------------------------
(* When the gauge can be trusted                                            *)

(* An operator waits for the answer of a Lock or Unlock before the next.    *)
Administering == {r \in Req : Kind[r] \in {"lock", "unlock"} /\ pc[r] \notin {"new", "done"}}
OneAtATime == \A r, q \in Administering : r = q

(* The gauge is behind the key only while a handler is about to set it to   *)
(* what the key is.                                                         *)
GaugeInv ==
    /\ \A r \in Req : pc[r] = "zeroing" => Kind[r] = "lock"
    /\ \A r \in Req : pc[r] = "metric" =>
        Kind[r] = IF keyRef # None THEN "unlock" ELSE "lock"
    /\ (\A r \in Req : pc[r] \notin {"zeroing", "metric"}) =>
        (gauge = 1 <=> keyRef # None)

(* While an operator's handler is between its steps nobody else turns the   *)
(* key.                                                                     *)
LEMMA GaugeStep ==
    ASSUME SInv, GaugeInv, OneAtATime, [Next]_vars
    PROVE  GaugeInv'
<1> USE DEF SInv
<1>0. ASSUME NEW r \in Req, NEW l \in PC \ {"zeroing", "metric"},
             pc[r] \notin {"zeroing", "metric"}, pc' = [pc EXCEPT ![r] = l],
             UNCHANGED <<keyRef, gauge>>
      PROVE  GaugeInv'
  BY <1>0 DEF GaugeInv, SignerTypeOK
<1>1. ASSUME NEW r \in Req, Reject(r) \/ Receive(r) \/ PrivKey(r) \/ Panics(r) \/ Respond(r)
      PROVE  GaugeInv'
  BY <1>0, <1>1 DEF Reject, Receive, PrivKey, Panics, Respond, Enter, Done, Goto, Fails, PC
<1>2. ASSUME NEW r \in Req, UseKey(r) PROVE GaugeInv'
  <2>1. UNCHANGED <<keyRef, gauge>> /\ pc[r] = "signing"
    BY <1>2 DEF UseKey
  <2>2. CASE pc' = pc
    BY <2>1, <2>2 DEF GaugeInv
  <2>3. CASE pc' = [pc EXCEPT ![r] = "done"]
    BY <1>0, <2>1, <2>3 DEF PC
  <2> QED
    BY <1>2, <2>2, <2>3 DEF UseKey, Fails, Done
<1>3. ASSUME NEW r \in Req, pc[r] \in {"retriever", "zeroing", "metric"},
             Kind[r] \in {"lock", "unlock"}, NEW q \in Req, q # r
      PROVE  pc[q] \notin {"zeroing", "metric"}
  <2>1. pc[q] \in {"zeroing", "metric"} => Kind[q] \in {"lock", "unlock"}
    BY <1>3 DEF GaugeInv
  <2> QED
    BY <1>3, <2>1 DEF OneAtATime, Administering
<1>4. ASSUME NEW r \in Req, Unlock(r) PROVE GaugeInv'
  <2>1. /\ pc[r] = "retriever" /\ Kind[r] = "unlock" /\ gauge' = gauge
        /\ \A q \in Req : q # r => pc[q] \notin {"zeroing", "metric"}
    BY <1>3, <1>4 DEF Unlock, Enter
  <2>2. CASE pc' = [pc EXCEPT ![r] = "metric"] /\ keyRef' # None
    BY <2>1, <2>2 DEF GaugeInv, SignerTypeOK
  <2>3. CASE pc' = [pc EXCEPT ![r] = "done"] /\ keyRef' = keyRef
    BY <1>0, <2>1, <2>3 DEF PC
  <2> QED
    BY <1>4, <2>2, <2>3, SignerAssumption DEF Unlock, Goto, Done
<1>5. ASSUME NEW r \in Req, LockBegin(r) PROVE GaugeInv'
  <2>1. /\ pc[r] = "retriever" /\ Kind[r] = "lock" /\ UNCHANGED <<keyRef, gauge>>
        /\ \A q \in Req : q # r => pc[q] \notin {"zeroing", "metric"}
    BY <1>3, <1>5 DEF LockBegin, Enter
  <2>2. CASE pc' = [pc EXCEPT ![r] = "metric"] /\ keyRef = None
    BY <2>1, <2>2 DEF GaugeInv, SignerTypeOK
  <2>3. CASE pc' = [pc EXCEPT ![r] = "zeroing"]
    BY <2>1, <2>3 DEF GaugeInv, SignerTypeOK
  <2> QED
    BY <1>5, <2>2, <2>3 DEF LockBegin, Goto
<1>6. ASSUME NEW r \in Req, LockEnd(r) PROVE GaugeInv'
  <2>1. /\ pc[r] = "zeroing" /\ pc' = [pc EXCEPT ![r] = "metric"]
        /\ keyRef' = None /\ gauge' = gauge /\ Kind[r] = "lock"
    BY <1>6 DEF LockEnd, Goto, GaugeInv
  <2>2. \A q \in Req : q # r => pc[q] \notin {"zeroing", "metric"}
    BY <1>3, <2>1
  <2> QED
    BY <2>1, <2>2 DEF GaugeInv, SignerTypeOK
<1>7. ASSUME NEW r \in Req, SetGauge(r) PROVE GaugeInv'
  <2>1. /\ pc[r] = "metric" /\ pc' = [pc EXCEPT ![r] = "done"] /\ keyRef' = keyRef
        /\ gauge' = IF Kind[r] = "unlock" THEN 1 ELSE 0
        /\ Kind[r] = IF keyRef # None THEN "unlock" ELSE "lock"
    BY <1>7 DEF SetGauge, Done, GaugeInv
  <2>2. \A q \in Req : q # r => pc[q] \notin {"zeroing", "metric"}
    BY <1>3, <2>1
  <2> QED
    BY <2>1, <2>2 DEF GaugeInv, SignerTypeOK
<1>8. CASE UNCHANGED vars
  BY <1>8 DEF vars, GaugeInv
<1> QED
  BY <1>1, <1>2, <1>4, <1>5, <1>6, <1>7, <1>8 DEF Next, Handler

(* signer_unlock_status is right whenever no Lock or Unlock is in progress, *)
(* if operators never run two of them at the same time: nothing but such an *)
(* overlap makes it wrong.                                                  *)
THEOREM SerialGauge == Spec /\ []OneAtATime => []GaugeMatchesKey
<1>1. Init => GaugeInv
  BY DEF Init, GaugeInv
<1>2. SInv /\ GaugeInv /\ OneAtATime /\ [Next]_vars => GaugeInv'
  BY GaugeStep
<1>3. GaugeInv => GaugeMatchesKey
  BY SignerAssumption DEF GaugeInv, GaugeMatchesKey
<1> QED
  BY <1>1, <1>2, <1>3, SignerInvariance, PTL DEF Spec
=============================================================================
