-------------------------- MODULE SigningCallProofs --------------------------
(***************************************************************************)
(* Proofs about the calls of the remote signer, for every set of requests, *)
(* callers and deployments: the detailed protocol implements the oracle    *)
(* the emulator relies on, and what a signing request carries arrives.     *)
(***************************************************************************)
EXTENDS SigningCall, WireFormat, TLAPS

(* The mutex is held by the Lock that zeroes the current key, handlers hold *)
(* keys that were loaded, and every route keeps to its own steps.           *)
RetrieverInv ==
    /\ mutex # None => keyRef # None
    /\ keyRef # None => key[keyRef] # "unused"
    /\ \A o \in Req : key[o] = "zeroing" => o = keyRef /\ mutex # None
    /\ \A r \in Req :
        /\ pc[r] = "signing" => /\ Kind[r] \in {"sign", "pubkey"}
                                /\ held[r] \in Req /\ key[held[r]] # "unused"
        /\ pc[r] = "zeroing" => mutex = r /\ Kind[r] = "lock"
        /\ pc[r] = "metric" => Kind[r] \in {"unlock", "lock"}

(* A request that was not sent has not arrived, a call that has not         *)
(* returned has no result, and only a handler tears a signature.            *)
CallerInv ==
    \A r \in Req : /\ call[r] = "idle" => pc[r] = "new"
                   /\ call[r] # "returned" => result[r] = "none"
                   /\ pc[r] = "new" => r \notin torn

(* The state of the signer a successful call depends on or brings about.    *)
Effect(r) == IF Kind[r] = "lock" THEN "locked" ELSE "unlocked"

Effective(r) ==
    pc[r] \in {"signing", "metric"} \/ (pc[r] = "done" /\ answer[r] = "ok")

(* A caller that is waiting has seen the state its handler has relied on.   *)
SeenInv ==
    \A r \in Req : call[r] = "waiting" =>
        /\ SignerState \in seen[r]
        /\ Effective(r) => Effect(r) \in seen[r]
        /\ r \in torn \ blank => "erasing" \in seen[r]

CInv ==
    /\ CallTypeOK
    /\ RetrieverInv
    /\ CallerInv
    /\ SeenInv
    /\ OperatorCallsTakeEffect

----------------------------------------------------------------------------
(* The steps of the signer                                                  *)

(* What a step of a handler of the signer does to r and to the state of the *)
(* signer; no other request notices.                                        *)
SignerStep(r) ==
    /\ Signer!SignerTypeOK' /\ RetrieverInv'
    /\ pc' = [pc EXCEPT ![r] = pc'[r]] /\ answer' = [answer EXCEPT ![r] = answer'[r]]
    /\ pc'[r] # "new"
    /\ torn' \in {torn, torn \cup {r}}
    /\ Effective(r)' => Effective(r) \/ SignerState' = Effect(r)
    /\ r \in torn' \ torn => \/ SignerState' = "erasing"
                             \/ /\ pc[r] = "signing" /\ Kind[r] = "pubkey"
                                /\ todo[r] > 0 /\ key[held[r]] = "zero"
    /\ SignerState' = "unlocked" => SignerState \in {"locked", "unlocked"}
    /\ SignerState' = "erasing" => SignerState \in {"unlocked", "erasing"}

(* The state of the signer is one of three.                                 *)
LEMMA StateType == SignerState \in {"locked", "unlocked", "erasing"}
BY DEF SignerState

(* A request arrives behind the middlewares or is refused by them.          *)
LEMMA ArrivesStep ==
    ASSUME CInv, NEW r \in Req, Signer!Receive(r) \/ Refusal!Reject(r)
    PROVE  SignerStep(r)
<1> USE DEF CInv, CallTypeOK
<1>1. CASE Signer!Receive(r)
  <2>1. /\ pc[r] = "new" /\ pc' = [pc EXCEPT ![r] = "retriever"] /\ answer' = answer
        /\ UNCHANGED <<keyRef, key, mutex, held, todo, torn, gauge, succeeded, failed>>
        /\ received' \in {received, received + 1}
    BY <1>1 DEF Signer!Receive, Signer!Goto
  <2>2. Signer!SignerTypeOK'
    BY <2>1 DEF Signer!SignerTypeOK, Signer!PC
  <2>3. RetrieverInv'
    BY <2>1 DEF RetrieverInv, Signer!SignerTypeOK
  <2> QED
    BY <2>1, <2>2, <2>3 DEF SignerStep, Effective, SignerState, Signer!SignerTypeOK
<1>2. CASE Refusal!Reject(r)
  <2>1. /\ pc[r] = "new" /\ pc' = [pc EXCEPT ![r] = "done"]
        /\ answer' = [answer EXCEPT ![r] = "rejected"]
        /\ UNCHANGED <<keyRef, key, mutex, held, todo, torn, gauge,
                       received, succeeded, failed>>
    BY <1>2 DEF Refusal!Reject, Refusal!Done, Refusal!counters
  <2>2. Signer!SignerTypeOK'
    BY <2>1 DEF Signer!SignerTypeOK, Signer!PC, Signer!Answer
  <2>3. RetrieverInv'
    BY <2>1 DEF RetrieverInv, Signer!SignerTypeOK
  <2> QED
    BY <2>1, <2>2, <2>3 DEF SignerStep, Effective, SignerState, Signer!SignerTypeOK
<1> QED
  BY <1>1, <1>2

(* A handler gets the current key, or fails.                                *)
LEMMA PrivKeyCall ==
    ASSUME CInv, NEW r \in Req, Signer!PrivKey(r)
    PROVE  SignerStep(r)
<1> USE DEF CInv, CallTypeOK
<1>0. /\ pc[r] = "retriever" /\ mutex = None /\ Kind[r] \in {"sign", "pubkey"}
      /\ UNCHANGED <<keyRef, key, mutex, torn, gauge>>
  BY DEF Signer!PrivKey, Signer!Enter
<1>1. CASE keyRef = None
  <2>1. /\ pc' = [pc EXCEPT ![r] = "done"] /\ answer' = [answer EXCEPT ![r] = "error"]
        /\ UNCHANGED <<held, todo, received, succeeded>>
        /\ failed' \in {failed, failed + 1}
    BY <1>1 DEF Signer!PrivKey, Signer!Fails, Signer!Done
  <2>2. Signer!SignerTypeOK'
    BY <1>0, <2>1 DEF Signer!SignerTypeOK, Signer!PC, Signer!Answer
  <2>3. RetrieverInv'
    BY <1>0, <2>1 DEF RetrieverInv, Signer!SignerTypeOK
  <2> QED
    BY <1>0, <2>1, <2>2, <2>3 DEF SignerStep, Effective, SignerState, Signer!SignerTypeOK
<1>2. CASE keyRef # None
  <2>1. /\ pc' = [pc EXCEPT ![r] = "signing"] /\ answer' = answer
        /\ held' = [held EXCEPT ![r] = keyRef]
        /\ todo' = [todo EXCEPT ![r] = IF Kind[r] = "sign" THEN SigCount[r] ELSE 1]
        /\ UNCHANGED <<received, succeeded, failed>>
    BY <1>2 DEF Signer!PrivKey, Signer!Goto, Signer!counters
  <2>2. Signer!SignerTypeOK'
    BY <1>0, <2>1, CallAssumption DEF Signer!SignerTypeOK, Signer!PC
  <2>3. RetrieverInv'
    BY <1>0, <1>2, <2>1 DEF RetrieverInv, Signer!SignerTypeOK
  <2>4. SignerState' = Effect(r)
    BY <1>0, <1>2 DEF SignerState, Effect
  <2> QED
    BY <1>0, <2>1, <2>2, <2>3, <2>4 DEF SignerStep, SignerState, Signer!SignerTypeOK
<1> QED
  BY <1>1, <1>2

(* A handler makes one signature, or derives the public key, with the key   *)
(* object it holds. What it gets is bad only while the key is being erased, *)
(* or, for a public key, when it is erased.                                 *)
LEMMA UseKeyCall ==
    ASSUME CInv, NEW r \in Req, Signer!UseKey(r)
    PROVE  SignerStep(r)
<1> USE DEF CInv, CallTypeOK
<1>0. /\ pc[r] = "signing" /\ todo[r] > 0
      /\ UNCHANGED <<keyRef, key, mutex, held, gauge>>
  BY DEF Signer!UseKey
<1>1. PICK o \in Signer!Outcomes(r) :
        /\ IF o = "error"
              THEN Signer!Fails(r) /\ UNCHANGED todo
              ELSE /\ todo' = [todo EXCEPT ![r] = @ - 1]
                   /\ UNCHANGED <<pc, answer, Signer!counters>>
        /\ torn' = IF o = "bad" THEN torn \cup {r} ELSE torn
  BY DEF Signer!UseKey
<1>2. SignerState' = SignerState
  BY <1>0 DEF SignerState
<1>3. o = "bad" => \/ SignerState' = "erasing"
                   \/ Kind[r] = "pubkey" /\ key[held[r]] = "zero"
  <2>1. /\ Kind[r] \in {"sign", "pubkey"} /\ held[r] \in Req
        /\ key[held[r]] \in {"intact", "zeroing", "zero"}
        /\ key[held[r]] = "zeroing" => mutex # None
    BY <1>0 DEF RetrieverInv, Signer!SignerTypeOK
  <2> QED
    BY <1>0, <2>1 DEF Signer!Outcomes, SignerState
<1>4. CASE o = "error"
  <2>1. /\ pc' = [pc EXCEPT ![r] = "done"] /\ answer' = [answer EXCEPT ![r] = "error"]
        /\ UNCHANGED <<todo, torn, received, succeeded>>
        /\ failed' \in {failed, failed + 1}
    BY <1>1, <1>4 DEF Signer!Fails, Signer!Done
  <2>2. Signer!SignerTypeOK'
    BY <1>0, <2>1 DEF Signer!SignerTypeOK, Signer!PC, Signer!Answer
  <2>3. RetrieverInv'
    BY <1>0, <2>1 DEF RetrieverInv, Signer!SignerTypeOK
  <2> QED
    BY <1>0, <1>2, <2>1, <2>2, <2>3, StateType DEF SignerStep, Effective, Signer!SignerTypeOK
<1>5. CASE o # "error"
  <2>1. /\ todo' = [todo EXCEPT ![r] = @ - 1]
        /\ UNCHANGED <<pc, answer, received, succeeded, failed>>
    BY <1>1, <1>5 DEF Signer!counters
  <2>2. torn' \subseteq Req
    BY <1>1 DEF Signer!SignerTypeOK
  <2>3. Signer!SignerTypeOK'
    BY <1>0, <2>1, <2>2 DEF Signer!SignerTypeOK
  <2>4. RetrieverInv'
    BY <1>0, <2>1 DEF RetrieverInv
  <2>5. torn' \in {torn, torn \cup {r}} /\ (r \in torn' \ torn => o = "bad")
    BY <1>1
  <2> QED
    BY <1>0, <1>2, <1>3, <2>1, <2>3, <2>4, <2>5, StateType
    DEF SignerStep, Effective, Signer!SignerTypeOK
<1> QED
  BY <1>4, <1>5

(* A handler panics on an index out of range.                               *)
LEMMA PanicCall ==
    ASSUME CInv, NEW r \in Req, Signer!Panics(r)
    PROVE  SignerStep(r)
<1> USE DEF CInv, CallTypeOK
<1>1. /\ pc[r] = "signing" /\ pc' = [pc EXCEPT ![r] = "done"]
      /\ answer' = [answer EXCEPT ![r] = "panicked"]
      /\ UNCHANGED <<keyRef, key, mutex, held, todo, torn, gauge,
                     received, succeeded, failed>>
  BY DEF Signer!Panics, Signer!Done, Signer!counters
<1>2. Signer!SignerTypeOK'
  BY <1>1 DEF Signer!SignerTypeOK, Signer!PC, Signer!Answer
<1>3. RetrieverInv'
  BY <1>1 DEF RetrieverInv, Signer!SignerTypeOK
<1> QED
  BY <1>1, <1>2, <1>3 DEF SignerStep, Effective, SignerState, Signer!SignerTypeOK

(* The answer to a signing or public key request goes out.                  *)
LEMMA RespondCall ==
    ASSUME CInv, NEW r \in Req, Signer!Respond(r)
    PROVE  SignerStep(r)
<1> USE DEF CInv, CallTypeOK
<1>1. /\ pc[r] = "signing" /\ pc' = [pc EXCEPT ![r] = "done"]
      /\ answer' = [answer EXCEPT ![r] = "ok"]
      /\ succeeded' \in {succeeded, succeeded + 1}
      /\ UNCHANGED <<keyRef, key, mutex, held, todo, torn, gauge, received, failed>>
  BY DEF Signer!Respond, Signer!Done
<1>2. Signer!SignerTypeOK'
  BY <1>1 DEF Signer!SignerTypeOK, Signer!PC, Signer!Answer
<1>3. RetrieverInv'
  BY <1>1 DEF RetrieverInv, Signer!SignerTypeOK
<1> QED
  BY <1>1, <1>2, <1>3 DEF SignerStep, Effective, SignerState, Signer!SignerTypeOK

(* Unlock loads the key, finds it loaded or is given a wrong passphrase.    *)
LEMMA UnlockCall ==
    ASSUME CInv, NEW r \in Req, Signer!Unlock(r)
    PROVE  SignerStep(r)
<1> USE DEF CInv, CallTypeOK
<1>0. /\ pc[r] = "retriever" /\ mutex = None /\ Kind[r] = "unlock"
      /\ UNCHANGED <<mutex, held, todo, torn, gauge, received, succeeded, failed>>
  BY DEF Signer!Unlock, Signer!Enter, Signer!counters
<1>1. CASE keyRef # None
  <2>1. /\ pc' = [pc EXCEPT ![r] = "metric"]
        /\ UNCHANGED <<answer, keyRef, key>>
    BY <1>1 DEF Signer!Unlock, Signer!Goto
  <2>2. Signer!SignerTypeOK'
    BY <1>0, <2>1 DEF Signer!SignerTypeOK, Signer!PC
  <2>3. RetrieverInv'
    BY <1>0, <2>1 DEF RetrieverInv, Signer!SignerTypeOK
  <2>4. SignerState' = Effect(r) /\ SignerState = "unlocked"
    BY <1>0, <1>1, <2>1 DEF SignerState, Effect
  <2> QED
    BY <1>0, <2>1, <2>2, <2>3, <2>4 DEF SignerStep, Effect, Signer!SignerTypeOK
<1>2. CASE keyRef = None /\ PassOK[r]
  <2>1. /\ pc' = [pc EXCEPT ![r] = "metric"] /\ answer' = answer
        /\ keyRef' = r /\ key' = [key EXCEPT ![r] = "intact"]
    BY <1>2 DEF Signer!Unlock, Signer!Goto
  <2>2. Signer!SignerTypeOK'
    BY <1>0, <2>1 DEF Signer!SignerTypeOK, Signer!PC
  <2>3. RetrieverInv'
    BY <1>0, <1>2, <2>1 DEF RetrieverInv, Signer!SignerTypeOK
  <2>4. SignerState' = Effect(r) /\ SignerState = "locked" /\ Effect(r) = "unlocked"
    BY <1>0, <1>2, <2>1, CallAssumption DEF SignerState, Effect
  <2> QED
    BY <1>0, <2>1, <2>2, <2>3, <2>4 DEF SignerStep, Signer!SignerTypeOK
<1>3. CASE keyRef = None /\ ~PassOK[r]
  <2>1. /\ pc' = [pc EXCEPT ![r] = "done"] /\ answer' = [answer EXCEPT ![r] = "error"]
        /\ UNCHANGED <<keyRef, key>>
    BY <1>3 DEF Signer!Unlock, Signer!Done
  <2>2. Signer!SignerTypeOK'
    BY <1>0, <2>1 DEF Signer!SignerTypeOK, Signer!PC, Signer!Answer
  <2>3. RetrieverInv'
    BY <1>0, <2>1 DEF RetrieverInv, Signer!SignerTypeOK
  <2> QED
    BY <1>0, <2>1, <2>2, <2>3 DEF SignerStep, Effective, SignerState, Signer!SignerTypeOK
<1> QED
  BY <1>1, <1>2, <1>3

(* Lock begins to zero the key, or finds the signer locked.                 *)
LEMMA LockBeginCall ==
    ASSUME CInv, NEW r \in Req, Signer!LockBegin(r)
    PROVE  SignerStep(r)
<1> USE DEF CInv, CallTypeOK
<1>0. /\ pc[r] = "retriever" /\ mutex = None /\ Kind[r] = "lock"
      /\ UNCHANGED <<keyRef, held, todo, torn, gauge, received, succeeded, failed>>
  BY DEF Signer!LockBegin, Signer!Enter, Signer!counters
<1>1. CASE keyRef = None
  <2>1. pc' = [pc EXCEPT ![r] = "metric"] /\ UNCHANGED <<answer, mutex, key>>
    BY <1>1 DEF Signer!LockBegin, Signer!Goto
  <2>2. Signer!SignerTypeOK'
    BY <1>0, <2>1 DEF Signer!SignerTypeOK, Signer!PC
  <2>3. RetrieverInv'
    BY <1>0, <2>1 DEF RetrieverInv, Signer!SignerTypeOK
  <2>4. SignerState' = Effect(r) /\ SignerState' = "locked"
    BY <1>0, <1>1, <2>1 DEF SignerState, Effect
  <2> QED
    BY <1>0, <2>1, <2>2, <2>3, <2>4 DEF SignerStep, Signer!SignerTypeOK
<1>2. CASE keyRef # None
  <2>1. /\ pc' = [pc EXCEPT ![r] = "zeroing"] /\ answer' = answer
        /\ mutex' = r /\ key' = [key EXCEPT ![keyRef] = "zeroing"]
    BY <1>2 DEF Signer!LockBegin, Signer!Goto
  <2>2. Signer!SignerTypeOK'
    BY <1>0, <2>1 DEF Signer!SignerTypeOK, Signer!PC
  <2>3. RetrieverInv'
    BY <1>0, <1>2, <2>1, CallAssumption DEF RetrieverInv, Signer!SignerTypeOK
  <2>4. SignerState' = "erasing" /\ SignerState = "unlocked"
    BY <1>0, <1>2, <2>1, CallAssumption DEF SignerState
  <2>5. ~Effective(r)'
    BY <2>1 DEF Effective, Signer!SignerTypeOK
  <2> QED
    BY <1>0, <2>1, <2>2, <2>3, <2>4, <2>5 DEF SignerStep, Signer!SignerTypeOK
<1> QED
  BY <1>1, <1>2

(* Lock has zeroed the key: it drops the reference and leaves the mutex.    *)
LEMMA LockEndCall ==
    ASSUME CInv, NEW r \in Req, Signer!LockEnd(r)
    PROVE  SignerStep(r)
<1> USE DEF CInv, CallTypeOK
<1>1. /\ pc[r] = "zeroing" /\ pc' = [pc EXCEPT ![r] = "metric"] /\ answer' = answer
      /\ key' = [key EXCEPT ![keyRef] = "zero"] /\ keyRef' = None /\ mutex' = None
      /\ UNCHANGED <<held, todo, torn, gauge, received, succeeded, failed>>
  BY DEF Signer!LockEnd, Signer!Goto, Signer!counters
<1>2. /\ Kind[r] = "lock" /\ mutex = r
      /\ \A q \in Req : pc[q] = "zeroing" => q = r
  BY <1>1 DEF RetrieverInv
<1>3. keyRef \in Req
  BY <1>2, CallAssumption DEF RetrieverInv, Signer!SignerTypeOK
<1>4. Signer!SignerTypeOK'
  BY <1>1 DEF Signer!SignerTypeOK, Signer!PC
<1>5. RetrieverInv'
  BY <1>1, <1>2, <1>3 DEF RetrieverInv, Signer!SignerTypeOK
<1>6. SignerState' = Effect(r) /\ SignerState' = "locked"
  BY <1>1, <1>2 DEF SignerState, Effect
<1> QED
  BY <1>1, <1>4, <1>5, <1>6 DEF SignerStep, Signer!SignerTypeOK

(* The handler of Lock or Unlock sets the gauge and answers.                *)
LEMMA SetGaugeCall ==
    ASSUME CInv, NEW r \in Req, Signer!SetGauge(r)
    PROVE  SignerStep(r)
<1> USE DEF CInv, CallTypeOK
<1>1. /\ pc[r] = "metric" /\ pc' = [pc EXCEPT ![r] = "done"]
      /\ answer' = [answer EXCEPT ![r] = "ok"] /\ gauge' \in {0, 1}
      /\ UNCHANGED <<keyRef, key, mutex, held, todo, torn, received, succeeded, failed>>
  BY DEF Signer!SetGauge, Signer!Done, Signer!counters
<1>2. Signer!SignerTypeOK'
  BY <1>1 DEF Signer!SignerTypeOK, Signer!PC, Signer!Answer
<1>3. RetrieverInv'
  BY <1>1 DEF RetrieverInv, Signer!SignerTypeOK
<1> QED
  BY <1>1, <1>2, <1>3 DEF SignerStep, Effective, SignerState, Signer!SignerTypeOK

(* Every step of a handler.                                                 *)
LEMMA HandlerStep ==
    ASSUME CInv, NEW r \in Req, Signer!Handler(r)
    PROVE  SignerStep(r)
BY PrivKeyCall, UseKeyCall, PanicCall, RespondCall, UnlockCall, LockBeginCall,
   LockEndCall, SetGaugeCall DEF Signer!Handler

(* A handler is at work on a request that has arrived.                      *)
LEMMA HandlerArrived ==
    ASSUME NEW r \in Req, Signer!Handler(r)
    PROVE  pc[r] # "new"
BY DEF Signer!Handler, Signer!PrivKey, Signer!UseKey, Signer!Panics, Signer!Respond, Signer!Unlock,
       Signer!LockBegin, Signer!LockEnd, Signer!SetGauge, Signer!Enter

----------------------------------------------------------------------------
(* The steps of the calls                                                   *)

(* A step of the signer keeps the invariant if the callers see the state it *)
(* leaves and blank answers are known.                                      *)
LEMMA ObservedStep ==
    ASSUME CInv, NEW r \in Req, SignerStep(r), call[r] # "idle", Observe,
           UNCHANGED <<deployment, call, result, lost, restarts>>,
           blank \subseteq blank', blank' \subseteq Req,
           r \in torn' \ torn => SignerState' = "erasing" \/ r \in blank'
    PROVE  CInv'
<1> USE DEF CInv
<1>1. seen' = [q \in Req |-> IF call[q] = "waiting" THEN seen[q] \cup {SignerState'}
                                                    ELSE seen[q]]
  BY DEF Observe
<1>2. SignerState' \in {"locked", "unlocked", "erasing"}
  BY DEF SignerState
<1>3. CallTypeOK'
  BY <1>1, <1>2 DEF CallTypeOK, SignerStep
<1>4. RetrieverInv'
  BY DEF SignerStep
<1>5. CallerInv'
  BY DEF CallerInv, SignerStep, CallTypeOK, Signer!SignerTypeOK
<1>6. SeenInv'
  <2> SUFFICES ASSUME NEW q \in Req, call[q] = "waiting"
               PROVE  /\ SignerState' \in seen'[q]
                      /\ Effective(q)' => Effect(q) \in seen'[q]
                      /\ q \in torn' \ blank' => "erasing" \in seen'[q]
    BY DEF SeenInv, Effect
  <2>1. seen'[q] = seen[q] \cup {SignerState'}
    BY <1>1
  <2>2. /\ Effective(q) => Effect(q) \in seen[q]
        /\ q \in torn \ blank => "erasing" \in seen[q]
    BY DEF SeenInv
  <2>3. Effective(q)' => Effective(q) \/ SignerState' = Effect(q)
    <3>1. CASE q = r
      BY <3>1 DEF SignerStep
    <3>2. CASE q # r
      BY <3>2 DEF SignerStep, Effective, CallTypeOK, Signer!SignerTypeOK
    <3> QED  BY <3>1, <3>2
  <2>4. q \in torn' \ blank' => q \in torn \ blank \/ SignerState' = "erasing"
    BY DEF SignerStep
  <2> QED
    BY <2>1, <2>2, <2>3, <2>4
<1>7. OperatorCallsTakeEffect'
  <2> SUFFICES ASSUME NEW q \in Req, result[q] = "good"
               PROVE  /\ Kind[q] = "unlock" => "unlocked" \in seen'[q]
                      /\ Kind[q] = "lock" => "locked" \in seen'[q]
    BY DEF OperatorCallsTakeEffect
  <2> QED
    BY <1>1 DEF OperatorCallsTakeEffect
<1> QED
  BY <1>3, <1>4, <1>5, <1>6, <1>7

(* A caller sends its request.                                              *)
LEMMA BeginStep ==
    ASSUME CInv, NEW r \in Req, Begin(r)
    PROVE  CInv'
<1> USE DEF CInv
<1>1. /\ call[r] = "idle" /\ call' = [call EXCEPT ![r] = "waiting"]
      /\ seen' = [seen EXCEPT ![r] = {SignerState}]
      /\ UNCHANGED <<deployment, result, lost, blank, restarts>>
      /\ UNCHANGED <<pc, answer, keyRef, key, mutex, held, todo, torn, gauge,
                     received, succeeded, failed>>
  BY DEF Begin, signerVars
<1>2. SignerState' = SignerState /\ \A q \in Req : Effective(q)' = Effective(q)
  BY <1>1 DEF SignerState, Effective
<1>3. CallTypeOK'
  BY <1>1, StateType DEF CallTypeOK, Signer!SignerTypeOK
<1>4. RetrieverInv'
  BY <1>1 DEF RetrieverInv
<1>5. CallerInv'
  BY <1>1 DEF CallerInv, CallTypeOK
<1>6. SeenInv'
  <2> SUFFICES ASSUME NEW q \in Req, call'[q] = "waiting"
               PROVE  /\ SignerState \in seen'[q]
                      /\ Effective(q) => Effect(q) \in seen'[q]
                      /\ q \in torn \ blank => "erasing" \in seen'[q]
    BY <1>1, <1>2 DEF SeenInv, Effect
  <2>1. CASE q = r
    <3>1. pc[r] = "new" /\ r \notin torn
      BY <1>1 DEF CallerInv
    <3> QED
      BY <1>1, <2>1, <3>1 DEF Effective, CallTypeOK
  <2>2. CASE q # r
    BY <1>1, <2>2 DEF SeenInv, CallTypeOK
  <2> QED
    BY <2>1, <2>2
<1>7. OperatorCallsTakeEffect'
  <2>1. result[r] = "none"
    BY <1>1 DEF CallerInv
  <2> QED
    BY <1>1, <2>1 DEF OperatorCallsTakeEffect, CallTypeOK
<1> QED
  BY <1>3, <1>4, <1>5, <1>6, <1>7

(* A call returns what it has seen the grounds of.                          *)
LEMMA ReturnsStep ==
    ASSUME CInv, NEW r \in Req, NEW x \in {"good", "bad", "error"}, Returns(r, x),
           x = "good" => Effect(r) \in seen[r]
    PROVE  CInv'
<1> USE DEF CInv
<1>1. /\ call[r] = "waiting" /\ call' = [call EXCEPT ![r] = "returned"]
      /\ result' = [result EXCEPT ![r] = x]
      /\ UNCHANGED <<deployment, lost, blank, restarts, seen>>
      /\ UNCHANGED <<pc, answer, keyRef, key, mutex, held, todo, torn, gauge,
                     received, succeeded, failed>>
  BY DEF Returns, signerVars
<1>2. CallTypeOK'
  BY <1>1 DEF CallTypeOK, Signer!SignerTypeOK
<1>3. RetrieverInv'
  BY <1>1 DEF RetrieverInv
<1>4. CallerInv'
  BY <1>1 DEF CallerInv, CallTypeOK
<1>5. SeenInv'
  BY <1>1 DEF SeenInv, CallTypeOK, SignerState, Effective, Effect
<1>6. OperatorCallsTakeEffect'
  BY <1>1 DEF OperatorCallsTakeEffect, CallTypeOK, Effect
<1> QED
  BY <1>2, <1>3, <1>4, <1>5, <1>6

(* What an answer is turned into has been seen by the call.                 *)
LEMMA AnswerSeen ==
    ASSUME CInv, NEW r \in Req, Answered(r)
    PROVE  /\ Returns(r, ClientResult(r))
           /\ ClientResult(r) \in {"good", "bad", "error"}
           /\ ClientResult(r) # "error" => Effect(r) \in seen[r]
           /\ ClientResult(r) = "bad" => "erasing" \in seen[r]
<1>1. pc[r] = "done" /\ call[r] = "waiting" /\ Returns(r, ClientResult(r))
  BY DEF Answered, Returns
<1>2. /\ answer[r] = "ok" => Effect(r) \in seen[r]
      /\ r \in torn \ blank => "erasing" \in seen[r]
  BY <1>1 DEF CInv, SeenInv, Effective
<1> QED
  BY <1>1, <1>2 DEF ClientResult

(* The rest of an exchange is lost.                                         *)
LEMMA LoseStep ==
    ASSUME CInv, NEW r \in Req, Lose(r)
    PROVE  CInv'
<1> USE DEF CInv
<1>1. /\ lost' = lost \cup {r}
      /\ UNCHANGED <<deployment, call, result, blank, restarts, seen>>
      /\ UNCHANGED <<pc, answer, keyRef, key, mutex, held, todo, torn, gauge,
                     received, succeeded, failed>>
  BY DEF Lose, signerVars
<1>2. CallTypeOK'
  BY <1>1 DEF CallTypeOK, Signer!SignerTypeOK
<1>3. RetrieverInv' /\ CallerInv' /\ OperatorCallsTakeEffect'
  BY <1>1 DEF RetrieverInv, CallerInv, OperatorCallsTakeEffect
<1>4. SeenInv'
  BY <1>1 DEF SeenInv, SignerState, Effective, Effect
<1> QED
  BY <1>2, <1>3, <1>4

(* A request arrives, in time or late.                                      *)
LEMMA DeliverStep ==
    ASSUME CInv, NEW r \in Req, Deliver(r)
    PROVE  CInv' /\ SignerStep(r)
<1>1. /\ call[r] # "idle" /\ Observe
      /\ UNCHANGED <<deployment, call, result, lost, blank, restarts>>
      /\ Signer!Receive(r) \/ Refusal!Reject(r)
  BY DEF Deliver
<1>2. SignerStep(r) /\ torn' = torn
  BY <1>1, ArrivesStep DEF Signer!Receive, Refusal!Reject
<1>3. blank' \subseteq Req
  BY <1>1 DEF CInv, CallTypeOK
<1> QED
  BY <1>1, <1>2, <1>3, ObservedStep

(* A handler makes a step.                                                  *)
LEMMA HandleStep ==
    ASSUME CInv, NEW r \in Req, Handle(r)
    PROVE  CInv' /\ SignerStep(r)
<1>1. /\ Signer!Handler(r) /\ Observe
      /\ blank' = IF /\ pc[r] = "signing" /\ Kind[r] = "pubkey"
                     /\ todo[r] > 0 /\ key[held[r]] = "zero"
                  THEN blank \cup {r} ELSE blank
      /\ UNCHANGED <<deployment, call, result, lost, restarts>>
  BY DEF Handle
<1>2. SignerStep(r)
  BY <1>1, HandlerStep
<1>3. call[r] # "idle"
  BY <1>1, HandlerArrived DEF CInv, CallerInv
<1>4. /\ blank \subseteq blank' /\ blank' \subseteq Req
      /\ r \in torn' \ torn => SignerState' = "erasing" \/ r \in blank'
  BY <1>1, <1>2 DEF CInv, CallTypeOK, SignerStep
<1> QED
  BY <1>1, <1>2, <1>3, <1>4, ObservedStep

(* The signer is restarted: it is locked, and its handlers are gone.        *)
LEMMA RestartStep ==
    ASSUME CInv, Restart
    PROVE  CInv' /\ SignerState' = "locked"
<1> USE DEF CInv
<1>1. /\ restarts' = restarts + 1 /\ restarts < MaxRestarts
      /\ pc' = [r \in Req |-> IF pc[r] = "new" THEN "new" ELSE "done"]
      /\ answer' = [r \in Req |-> IF pc[r] \in {"new", "done"} THEN answer[r]
                                                               ELSE "error"]
      /\ keyRef' = None /\ mutex' = None
      /\ key' = [o \in Req |-> IF key[o] = "unused" THEN "unused" ELSE "zero"]
      /\ gauge' = 0 /\ received' = 0 /\ succeeded' = 0 /\ failed' = 0
      /\ UNCHANGED <<held, todo, torn, deployment, call, result, lost, blank>>
  BY DEF Restart
<1>2. SignerState' = "locked"
  BY <1>1 DEF SignerState
<1>3. seen' = [r \in Req |-> IF call[r] = "waiting" THEN seen[r] \cup {"locked"}
                                                    ELSE seen[r]]
  BY <1>2 DEF Restart, Observe
<1>4. Signer!SignerTypeOK'
  BY <1>1 DEF CallTypeOK, Signer!SignerTypeOK, Signer!PC, Signer!Answer
<1>5. CallTypeOK'
  BY <1>1, <1>3, <1>4, CallAssumption DEF CallTypeOK
<1>6. RetrieverInv'
  BY <1>1 DEF RetrieverInv
<1>7. CallerInv'
  BY <1>1 DEF CallerInv
<1>8. SeenInv'
  <2> SUFFICES ASSUME NEW r \in Req, call[r] = "waiting"
               PROVE  /\ "locked" \in seen'[r]
                      /\ Effective(r)' => Effect(r) \in seen'[r]
                      /\ r \in torn \ blank => "erasing" \in seen'[r]
    BY <1>1, <1>2 DEF SeenInv, Effect
  <2>1. seen'[r] = seen[r] \cup {"locked"}
    BY <1>3
  <2>2. Effective(r)' => Effective(r)
    BY <1>1 DEF Effective
  <2> QED
    BY <2>1, <2>2 DEF SeenInv
<1>9. OperatorCallsTakeEffect'
  BY <1>1, <1>3 DEF OperatorCallsTakeEffect
<1> QED
  BY <1>2, <1>5, <1>6, <1>7, <1>8, <1>9

(* The signer starts locked and nobody has called it.                       *)
LEMMA CallInitInv == CallInit => CInv
<1> SUFFICES ASSUME CallInit PROVE CInv
  OBVIOUS
<1> USE DEF CallInit, Signer!Init
<1>1. Signer!SignerTypeOK
  BY DEF Signer!SignerTypeOK, Signer!PC, Signer!Answer
<1>2. CallTypeOK
  BY <1>1, CallAssumption DEF CallTypeOK
<1>3. RetrieverInv
  BY DEF RetrieverInv
<1>4. CallerInv /\ SeenInv /\ OperatorCallsTakeEffect
  BY DEF CallerInv, SeenInv, OperatorCallsTakeEffect
<1> QED
  BY <1>2, <1>3, <1>4 DEF CInv

(* Every step keeps the invariant.                                          *)
LEMMA CallNextInv == CInv /\ [CallNext]_callVars => CInv'
<1> SUFFICES ASSUME CInv, [CallNext]_callVars PROVE CInv'
  OBVIOUS
<1>1. CASE Restart
  BY <1>1, RestartStep
<1>2. ASSUME NEW r \in Req, CallStep(r) PROVE CInv'
  <2>1. CASE Begin(r)
    BY <2>1, BeginStep
  <2>2. CASE Answered(r)
    BY <2>2, AnswerSeen, ReturnsStep
  <2>3. CASE Timeout(r) \/ ConnectionFails(r)
    BY <2>3, ReturnsStep DEF Timeout, ConnectionFails
  <2>4. CASE Lose(r)
    BY <2>4, LoseStep
  <2>5. CASE Deliver(r)
    BY <2>5, DeliverStep
  <2>6. CASE Handle(r)
    BY <2>6, HandleStep
  <2> QED
    BY <1>2, <2>1, <2>2, <2>3, <2>4, <2>5, <2>6 DEF CallStep
<1>3. CASE UNCHANGED callVars
  <2>1. UNCHANGED clientVars /\ UNCHANGED signerVars
    BY <1>3 DEF callVars
  <2>2. CallTypeOK'
    BY <2>1 DEF CInv, CallTypeOK, Signer!SignerTypeOK, clientVars, signerVars
  <2>3. RetrieverInv' /\ CallerInv' /\ OperatorCallsTakeEffect'
    BY <2>1 DEF CInv, RetrieverInv, CallerInv, OperatorCallsTakeEffect, clientVars, signerVars
  <2>4. SeenInv'
    BY <2>1 DEF CInv, SeenInv, SignerState, Effective, Effect, clientVars, signerVars
  <2> QED
    BY <2>2, <2>3, <2>4 DEF CInv
<1> QED
  BY <1>1, <1>2, <1>3 DEF CallNext

(* The invariant holds throughout, whatever the callers, the deployment,    *)
(* the losses, the timeouts and the restarts.                               *)
THEOREM CallInvariance == CallSpec => []CInv
BY CallInitInv, CallNextInv, PTL DEF CallSpec

(* The calls are type correct.                                              *)
THEOREM CallTypeCorrect == CallSpec => []CallTypeOK
<1>1. CInv => CallTypeOK
  BY DEF CInv
<1> QED
  BY <1>1, CallInvariance, PTL

(* Unlock and Lock are never answered with success ahead of their effect.   *)
THEOREM OperatorsInformed == CallSpec => []OperatorCallsTakeEffect
<1>1. CInv => OperatorCallsTakeEffect
  BY DEF CInv
<1> QED
  BY <1>1, CallInvariance, PTL

----------------------------------------------------------------------------
(* The oracle                                                               *)

(* A step that callers see and that touches no call is a turn of the        *)
(* oracle's signer, or nothing if the state of the signer stays.            *)
LEMMA TurnStep ==
    ASSUME CInv, Observe, UNCHANGED <<call, result>>,
           SignerState' = "unlocked" => SignerState \in {"locked", "unlocked"},
           SignerState' = "erasing" => SignerState \in {"unlocked", "erasing"}
    PROVE  Oracle!Turn \/ UNCHANGED Oracle!oracleVars
<1>1. SignerState' \in {"locked", "unlocked", "erasing"}
  BY DEF SignerState
<1>2. \A c \in Asked : seen'[c] = IF call[c] = "waiting"
                                  THEN seen[c] \cup {SignerState'} ELSE seen[c]
  BY DEF Observe, Asked
<1>3. [c \in Asked |-> seen[c]]' =
        [c \in Asked |-> IF [d \in Asked |-> call[d]][c] = "waiting"
                         THEN [d \in Asked |-> seen[d]][c] \cup {SignerState'}
                         ELSE [d \in Asked |-> seen[d]][c]]
  BY <1>2
<1>4. /\ UNCHANGED [c \in Asked |-> call[c]]
      /\ UNCHANGED [c \in Asked |-> result[c]]
  OBVIOUS
<1>5. CASE SignerState' # SignerState
  BY <1>1, <1>3, <1>4, <1>5 DEF Oracle!Turn, Oracle!SignerState
<1>6. CASE SignerState' = SignerState
  <2>1. \A c \in Asked : seen'[c] = seen[c]
    BY <1>2, <1>6 DEF CInv, SeenInv, Asked
  <2>2. UNCHANGED [c \in Asked |-> seen[c]]
    BY <2>1
  <2> QED
    BY <1>4, <1>6, <2>2 DEF Oracle!oracleVars
<1> QED
  BY <1>5, <1>6

(* A call begins: one of the oracle's, unless it is an operator's.          *)
LEMMA BeginRefines ==
    ASSUME CInv, NEW r \in Req, Begin(r)
    PROVE  (r \in Asked /\ Oracle!Begin(r)) \/ UNCHANGED Oracle!oracleVars
<1>1. /\ call[r] = "idle" /\ call' = [call EXCEPT ![r] = "waiting"]
      /\ seen' = [seen EXCEPT ![r] = {SignerState}] /\ result' = result
      /\ UNCHANGED <<mutex, keyRef>>
  BY DEF Begin, signerVars
<1>2. SignerState' = SignerState
  BY <1>1 DEF SignerState
<1>3. CASE r \in Asked
  <2>1. /\ [c \in Asked |-> call[c]]' = [[c \in Asked |-> call[c]] EXCEPT ![r] = "waiting"]
        /\ [c \in Asked |-> seen[c]]' =
             [[c \in Asked |-> seen[c]] EXCEPT ![r] = {SignerState}]
        /\ [c \in Asked |-> call[c]][r] = "idle"
        /\ UNCHANGED [c \in Asked |-> result[c]]
    BY <1>1, <1>3 DEF CInv, CallTypeOK, Asked
  <2> QED
    BY <1>2, <1>3, <2>1 DEF Oracle!Begin
<1>4. CASE r \notin Asked
  <2>1. \A c \in Asked : call'[c] = call[c] /\ seen'[c] = seen[c]
    BY <1>1, <1>4 DEF CInv, CallTypeOK, Asked
  <2>2. /\ UNCHANGED [c \in Asked |-> call[c]] /\ UNCHANGED [c \in Asked |-> seen[c]]
        /\ UNCHANGED [c \in Asked |-> result[c]]
    BY <1>1, <2>1
  <2> QED
    BY <1>2, <2>2 DEF Oracle!oracleVars
<1> QED
  BY <1>3, <1>4

(* A call returns: an end the oracle allows, unless it is an operator's.    *)
LEMMA ReturnsRefines ==
    ASSUME CInv, NEW r \in Req, NEW x \in {"good", "bad", "error"}, Returns(r, x),
           x # "error" => Effect(r) \in seen[r],
           x = "bad" => "erasing" \in seen[r]
    PROVE  (r \in Asked /\ Oracle!End(r)) \/ UNCHANGED Oracle!oracleVars
<1>1. /\ call[r] = "waiting" /\ call' = [call EXCEPT ![r] = "returned"]
      /\ result' = [result EXCEPT ![r] = x] /\ seen' = seen
      /\ UNCHANGED <<mutex, keyRef>>
  BY DEF Returns, signerVars
<1>2. SignerState' = SignerState
  BY <1>1 DEF SignerState
<1>3. CASE r \in Asked
  <2>1. /\ [c \in Asked |-> call[c]]' = [[c \in Asked |-> call[c]] EXCEPT ![r] = "returned"]
        /\ [c \in Asked |-> result[c]]' = [[c \in Asked |-> result[c]] EXCEPT ![r] = x]
        /\ [c \in Asked |-> call[c]][r] = "waiting"
        /\ [c \in Asked |-> seen[c]][r] = seen[r]
        /\ UNCHANGED [c \in Asked |-> seen[c]]
    BY <1>1, <1>3 DEF CInv, CallTypeOK, Asked
  <2>2. Effect(r) = "unlocked"
    BY <1>3 DEF Effect, Asked
  <2>3. /\ x = "good" => "unlocked" \in [c \in Asked |-> seen[c]][r]
        /\ x = "bad" => {"unlocked", "erasing"} \subseteq [c \in Asked |-> seen[c]][r]
    BY <2>1, <2>2
  <2> QED
    BY <1>2, <1>3, <2>1, <2>3 DEF Oracle!End
<1>4. CASE r \notin Asked
  <2>1. \A c \in Asked : call'[c] = call[c] /\ result'[c] = result[c]
    BY <1>1, <1>4 DEF CInv, CallTypeOK, Asked
  <2>2. /\ UNCHANGED [c \in Asked |-> call[c]] /\ UNCHANGED [c \in Asked |-> seen[c]]
        /\ UNCHANGED [c \in Asked |-> result[c]]
    BY <1>1, <2>1
  <2> QED
    BY <1>2, <2>2 DEF Oracle!oracleVars
<1> QED
  BY <1>3, <1>4

(* Every step of the calls is a step of the oracle or none.                 *)
LEMMA CallNextRefines ==
    CInv /\ [CallNext]_callVars => [Oracle!OracleNext]_(Oracle!oracleVars)
<1> SUFFICES ASSUME CInv, [CallNext]_callVars
             PROVE  Oracle!OracleNext \/ UNCHANGED Oracle!oracleVars
  OBVIOUS
<1>1. CASE Restart
  <2>1. Observe /\ UNCHANGED <<call, result>> /\ SignerState' = "locked"
    BY <1>1, RestartStep DEF Restart
  <2> QED
    BY <2>1, TurnStep DEF Oracle!OracleNext
<1>2. ASSUME NEW r \in Req, CallStep(r)
      PROVE  Oracle!OracleNext \/ UNCHANGED Oracle!oracleVars
  <2>1. CASE Begin(r)
    BY <2>1, BeginRefines DEF Oracle!OracleNext
  <2>2. CASE Answered(r)
    BY <2>2, AnswerSeen, ReturnsRefines DEF Oracle!OracleNext
  <2>3. CASE Timeout(r) \/ ConnectionFails(r)
    BY <2>3, ReturnsRefines DEF Timeout, ConnectionFails, Oracle!OracleNext
  <2>4. CASE Lose(r)
    BY <2>4 DEF Lose, signerVars, SignerState, Oracle!oracleVars
  <2>5. CASE Deliver(r)
    <3>1. Observe /\ UNCHANGED <<call, result>> /\ SignerStep(r)
      BY <2>5, DeliverStep DEF Deliver
    <3> QED
      BY <3>1, TurnStep DEF SignerStep, Oracle!OracleNext
  <2>6. CASE Handle(r)
    <3>1. Observe /\ UNCHANGED <<call, result>> /\ SignerStep(r)
      BY <2>6, HandleStep DEF Handle
    <3> QED
      BY <3>1, TurnStep DEF SignerStep, Oracle!OracleNext
  <2> QED
    BY <1>2, <2>1, <2>2, <2>3, <2>4, <2>5, <2>6 DEF CallStep
<1>3. CASE UNCHANGED callVars
  BY <1>3 DEF callVars, signerVars, clientVars, SignerState, Oracle!oracleVars
<1> QED
  BY <1>1, <1>2, <1>3 DEF CallNext

(* The calls implement the oracle the emulator relies on, for every set of  *)
(* requests: with concurrent Lock and Unlock, lost exchanges, timeouts that *)
(* race a late answer, and restarts of the signer, a signing or public key  *)
(* call still returns once, succeeds only if the signer was unlocked during *)
(* it and is bad only if the key was erased during it.                      *)
THEOREM CallsImplementOracle == CallSpec => OracleSpec
<1>1. CallInit => Oracle!OracleInit
  <2> SUFFICES ASSUME CallInit PROVE Oracle!OracleInit
    OBVIOUS
  <2>1. SignerState = "locked"
    BY DEF CallInit, Signer!Init, SignerState
  <2>2. /\ [c \in Asked |-> call[c]] = [c \in Asked |-> "idle"]
        /\ [c \in Asked |-> result[c]] = [c \in Asked |-> "none"]
        /\ [c \in Asked |-> seen[c]] = [c \in Asked |-> {}]
    BY DEF CallInit, Asked
  <2> QED
    BY <2>1, <2>2 DEF Oracle!OracleInit
<1> QED
  BY <1>1, CallNextRefines, CallInvariance, PTL
  DEF CallSpec, OracleSpec, Oracle!OracleSpec

----------------------------------------------------------------------------
(* What a request carries                                                   *)

(* The forms request r takes on its way.                                    *)
Copied(r) == covenantRequestToSignerRequest(r)
Wired(r) == ToSignTransactionRequest(Copied(r))
Served(r) == ParseSigningRequest(Wired(r))
Signed(r) == SignTransactions(Served(r))
Sent(r) == ToResponse(Signed(r))
Got(r) == ToParsedSigningResponse(Sent(r))
Message(r) == MsgAddCovenantSigs(r, signerResponseToCovenantResponse(Got(r)))

(* At every stage the value is that form of the request it started as, what *)
(* went past a parser was accepted by it, and what was refused was not.     *)
StageInv ==
    /\ stage # "none" => request \in Requests
    /\ stage = "request" => data = request
    /\ stage = "parsedRequest" => data = Copied(request)
    /\ stage = "wireRequest" => data = Wired(request)
    /\ stage = "serverRequest" => data = Served(request)
    /\ stage = "signed" => data = Signed(request)
    /\ stage = "wireResponse" => data = Sent(request)
    /\ stage = "parsedResponse" => data = Got(request)
    /\ stage = "message" => data = Message(request)
    /\ stage \in {"serverRequest", "signed", "wireResponse", "parsedResponse", "message"}
        => ParseSigningRequestOK(Wired(request))
    /\ stage \in {"parsedResponse", "message"} => ToParsedSigningResponseOK(Sent(request))
    /\ stage = "refused" => \/ ~ParseSigningRequestOK(Wired(request))
                            \/ ~ToParsedSigningResponseOK(Sent(request))

(* Every step takes a request from one form to the next.                    *)
LEMMA StageStep == StageInv /\ [WireNext]_wireVars => StageInv'
<1> SUFFICES ASSUME StageInv, [WireNext]_wireVars PROVE StageInv'
  OBVIOUS
<1>1. ASSUME NEW r \in Requests, Build(r) PROVE StageInv'
  BY <1>1 DEF Build, StageInv
<1>2. CASE Copy
  BY <1>2 DEF Copy, Move, StageInv, Copied
<1>3. CASE Marshal
  BY <1>3 DEF Marshal, Move, StageInv, Wired
<1>4. CASE Parse
  <2>1. CASE ParseSigningRequestOK(data)
    BY <1>4, <2>1 DEF Parse, Move, StageInv, Served
  <2>2. CASE ~ParseSigningRequestOK(data)
    BY <1>4, <2>2 DEF Parse, Move, StageInv
  <2> QED
    BY <2>1, <2>2
<1>5. CASE Sign
  BY <1>5 DEF Sign, Move, StageInv, Signed
<1>6. CASE SignFails
  BY <1>6 DEF SignFails, Move, StageInv
<1>7. CASE Respond
  BY <1>7 DEF Respond, Move, StageInv, Sent
<1>8. CASE ParseResponse
  <2>1. CASE ToParsedSigningResponseOK(data)
    BY <1>8, <2>1 DEF ParseResponse, Move, StageInv, Got
  <2>2. CASE ~ToParsedSigningResponseOK(data)
    BY <1>8, <2>2 DEF ParseResponse, Move, StageInv
  <2> QED
    BY <2>1, <2>2
<1>9. CASE Submit
  BY <1>9 DEF Submit, Move, StageInv, Message
<1>10. CASE UNCHANGED wireVars
  BY <1>10 DEF wireVars, StageInv
<1> QED
  BY <1>1, <1>2, <1>3, <1>4, <1>5, <1>6, <1>7, <1>8, <1>9, <1>10 DEF WireNext

(* Every value on the way is a form of its request.                         *)
THEOREM StageInvariance == WireSpec => []StageInv
<1>1. WireInit => StageInv
  BY DEF WireInit, StageInv
<1> QED
  BY <1>1, StageStep, PTL DEF WireSpec

(* The texts of a list of finality providers decode to the list.            *)
LEMMA ListOfTexts ==
    ASSUME NEW r \in Requests
    PROVE  LET ts == Texts(r.FpEncKeys)
           IN  [i \in DOMAIN ts |-> Decode(ts[i])] = r.FpEncKeys
<1> DEFINE k == r.FpEncKeys
           ts == Texts(k)
<1>1. k \in Seq({k[i] : i \in DOMAIN k})
  BY WireAssumption
<1>2. k = [i \in DOMAIN k |-> k[i]]
  BY <1>1
<1>3. DOMAIN ts = DOMAIN k /\ \A i \in DOMAIN k : Decode(ts[i]) = k[i]
  BY DEF Texts, Text, Decode
<1> HIDE DEF ts, k
<1>4. [i \in DOMAIN ts |-> Decode(ts[i])] = [i \in DOMAIN k |-> k[i]]
  BY <1>3
<1> QED
  BY <1>2, <1>4 DEF ts, k

(* Parsing inverts marshalling: the signer works on the request the         *)
(* emulator's client was given, field by field.                             *)
LEMMA RequestRoundTrip ==
    ASSUME NEW r \in Requests
    PROVE  Served(r) = Copied(r)
<1> DEFINE p == Copied(r)
           w == Wired(r)
<1> USE DEF Text, Decode
<1>1. p.FpEncKeys = r.FpEncKeys
  BY DEF Copied, covenantRequestToSignerRequest
<1>2. [i \in DOMAIN w.FpEncKeys |-> Decode(w.FpEncKeys[i])] = p.FpEncKeys
  <2>1. w.FpEncKeys = Texts(p.FpEncKeys)
    BY DEF Wired, ToSignTransactionRequest
  <2> QED
    BY <1>1, <2>1, ListOfTexts
<1>3. Served(r).StakeExp = p.StakeExp
  <2>1. CASE r.StakeExp = Nil
    BY <2>1 DEF Served, ParseSigningRequest, Wired, ToSignTransactionRequest, Copied,
                covenantRequestToSignerRequest
  <2>2. CASE r.StakeExp # Nil
    <3>1. p.StakeExp # Nil /\ w.StakeExpansion # Nil
      BY <2>2, WireAssumption DEF Copied, Wired
    <3>2. p.StakeExp =
            [PreviousActiveStakeTx |-> r.StakeExp.PreviousActiveStakeTx,
             PreviousStakingOutputIdx |-> r.StakeExp.PreviousStakingOutputIdx,
             OtherFundingOutput |-> r.StakeExp.OtherFundingOutput,
             PreviousActiveStakeUnbondingScript |->
               r.StakeExp.PreviousActiveStakeUnbondingPkScriptPath]
      BY <2>2 DEF Copied, covenantRequestToSignerRequest,
         covenantRequestToSignerRequestStkExp
    <3>3. w.StakeExpansion =
            [PreviousActiveStakeTxHex |-> Text(p.StakeExp.PreviousActiveStakeTx),
             OtherFundingOutputHex |-> Text(p.StakeExp.OtherFundingOutput),
             PrevStakingOutputIdx |-> p.StakeExp.PreviousStakingOutputIdx,
             PreviousActiveStakeUnbondingScriptHex |->
               Text(p.StakeExp.PreviousActiveStakeUnbondingScript)]
      BY <3>1 DEF Wired, ToSignTransactionRequest
    <3>4. Served(r).StakeExp =
            [PreviousActiveStakeTx |-> p.StakeExp.PreviousActiveStakeTx,
             OtherFundingOutput |-> p.StakeExp.OtherFundingOutput,
             PreviousStakingOutputIdx |-> p.StakeExp.PreviousStakingOutputIdx,
             PreviousActiveStakeUnbondingScript |->
               p.StakeExp.PreviousActiveStakeUnbondingScript]
      BY <3>1, <3>3 DEF Served, ParseSigningRequest
    <3> QED
      BY <3>2, <3>4
  <2> QED
    BY <2>1, <2>2
<1>4. Served(r) =
        [StakingTx |-> p.StakingTx, SlashingTx |-> p.SlashingTx,
         UnbondingTx |-> p.UnbondingTx, SlashUnbondingTx |-> p.SlashUnbondingTx,
         StakingOutputIdx |-> p.StakingOutputIdx,
         SlashingScript |-> p.SlashingScript, UnbondingScript |-> p.UnbondingScript,
         UnbondingSlashingScript |-> p.UnbondingSlashingScript,
         FpEncKeys |-> p.FpEncKeys, StakeExp |-> p.StakeExp]
  BY <1>2, <1>3 DEF Served, ParseSigningRequest, Wired, ToSignTransactionRequest
<1> QED
  BY <1>4 DEF Copied, covenantRequestToSignerRequest

(* What the signer signs, in the words of the request.                      *)
LEMMA SignedRequest ==
    ASSUME NEW r \in Requests
    PROVE  /\ Signed(r).SlashAdaptorSigs = [i \in DOMAIN r.FpEncKeys |->
                Sig(r.SlashingTx, r.StakingTx, r.StakingOutputIdx,
                    r.SlashingPkScriptPath, r.FpEncKeys[i])]
           /\ Signed(r).SlashUnbondingAdaptorSigs = [i \in DOMAIN r.FpEncKeys |->
                Sig(r.SlashUnbondingTx, r.UnbondingTx, 0,
                    r.UnbondingTxSlashingPkScriptPath, r.FpEncKeys[i])]
           /\ Signed(r).UnbondingSig =
                Sig(r.UnbondingTx, r.StakingTx, r.StakingOutputIdx,
                    r.StakingTxUnbondingPkScriptPath, Nil)
           /\ r.StakeExp = Nil => Signed(r).StakeExpSig = Nil
           /\ r.StakeExp # Nil =>
                /\ Signed(r).StakeExpSig =
                     Sig(r.StakingTx, <<r.StakeExp.PreviousActiveStakeTx,
                                        r.StakeExp.OtherFundingOutput>>,
                         r.StakeExp.PreviousStakingOutputIdx,
                         r.StakeExp.PreviousActiveStakeUnbondingPkScriptPath, Nil)
                /\ Signed(r).StakeExpSig \notin {Nil, Empty}
<1> DEFINE p == Copied(r)
<1>1. Signed(r) = SignTransactions(p)
  BY RequestRoundTrip DEF Signed
<1>2. /\ p.StakingTx = r.StakingTx /\ p.SlashingTx = r.SlashingTx
      /\ p.UnbondingTx = r.UnbondingTx /\ p.SlashUnbondingTx = r.SlashUnbondingTx
      /\ p.StakingOutputIdx = r.StakingOutputIdx
      /\ p.SlashingScript = r.SlashingPkScriptPath
      /\ p.UnbondingScript = r.StakingTxUnbondingPkScriptPath
      /\ p.UnbondingSlashingScript = r.UnbondingTxSlashingPkScriptPath
      /\ p.FpEncKeys = r.FpEncKeys
  BY DEF Copied, covenantRequestToSignerRequest
<1>3. CASE r.StakeExp = Nil
  <2>1. p.StakeExp = Nil
    BY <1>3 DEF Copied, covenantRequestToSignerRequest
  <2> HIDE DEF p
  <2> QED
    BY <1>1, <1>2, <1>3, <2>1
    DEF SignTransactions, slashSig, slashUnbondingSig, unbondSig
<1>4. CASE r.StakeExp # Nil
  <2>1. /\ p.StakeExp.PreviousActiveStakeTx = r.StakeExp.PreviousActiveStakeTx
        /\ p.StakeExp.OtherFundingOutput = r.StakeExp.OtherFundingOutput
        /\ p.StakeExp.PreviousStakingOutputIdx = r.StakeExp.PreviousStakingOutputIdx
        /\ p.StakeExp.PreviousActiveStakeUnbondingScript =
             r.StakeExp.PreviousActiveStakeUnbondingPkScriptPath
    BY <1>4 DEF Copied, covenantRequestToSignerRequest,
       covenantRequestToSignerRequestStkExp
  <2>2. p.StakeExp # Nil /\ stkExpSig(p) \notin {Nil, Empty}
    BY <1>4, WireAssumption DEF Copied
  <2> HIDE DEF p
  <2>3. SignTransactions(p).StakeExpSig = stkExpSig(p)
    BY <2>2 DEF SignTransactions
  <2>4. stkExpSig(p) =
          Sig(r.StakingTx, <<r.StakeExp.PreviousActiveStakeTx,
                             r.StakeExp.OtherFundingOutput>>,
              r.StakeExp.PreviousStakingOutputIdx,
              r.StakeExp.PreviousActiveStakeUnbondingPkScriptPath, Nil)
    BY <1>2, <2>1 DEF stkExpSig
  <2> QED
    BY <1>1, <1>2, <1>4, <2>2, <2>3, <2>4
    DEF SignTransactions, slashSig, slashUnbondingSig, unbondSig
<1> QED
  BY <1>3, <1>4

(* The client reads the signatures the signer made.                         *)
LEMMA ResponseRoundTrip ==
    ASSUME NEW r \in Requests
    PROVE  /\ Got(r).SlashAdaptorSigs = Signed(r).SlashAdaptorSigs
           /\ Got(r).SlashUnbondingAdaptorSigs = Signed(r).SlashUnbondingAdaptorSigs
           /\ Got(r).UnbondingSig = Signed(r).UnbondingSig
           /\ Got(r).StakeExpSig = Signed(r).StakeExpSig
<1> DEFINE z == Signed(r)
           w == Sent(r)
<1>1. /\ w.SlashingTransactionsAdaptorSignatures = Texts(z.SlashAdaptorSigs)
      /\ w.UnbondingTransactionSignature = Text(z.UnbondingSig)
      /\ w.SlashUnbondingTransactionsAdaptorSignatures =
           Texts(z.SlashUnbondingAdaptorSigs)
      /\ w.StakeExpansionTransactionSignature =
           IF z.StakeExpSig = Nil THEN NoText ELSE Text(z.StakeExpSig)
  BY DEF Sent, ToResponse
<1>2. z.StakeExpSig = Nil \/ z.StakeExpSig # Empty
  BY SignedRequest
<1>3. /\ [i \in DOMAIN Texts(z.SlashAdaptorSigs) |->
            Decode(Texts(z.SlashAdaptorSigs)[i])] = z.SlashAdaptorSigs
      /\ [i \in DOMAIN Texts(z.SlashUnbondingAdaptorSigs) |->
            Decode(Texts(z.SlashUnbondingAdaptorSigs)[i])] = z.SlashUnbondingAdaptorSigs
  BY SignedRequest DEF Texts, Text, Decode
<1> HIDE DEF z, w
<1>4. Got(r).StakeExpSig = z.StakeExpSig
  BY <1>1, <1>2 DEF Got, ToParsedSigningResponse, NoText, Text, Decode, w
<1>5. Got(r).UnbondingSig = z.UnbondingSig
  BY <1>1 DEF Got, ToParsedSigningResponse, Text, Decode, w
<1>6. /\ Got(r).SlashAdaptorSigs = z.SlashAdaptorSigs
      /\ Got(r).SlashUnbondingAdaptorSigs = z.SlashUnbondingAdaptorSigs
  BY <1>1, <1>3 DEF Got, ToParsedSigningResponse, w
<1> QED
  BY <1>4, <1>5, <1>6 DEF z

(* The message that is submitted carries, for every request, the signatures *)
(* that request asks for: no copy between the seven forms exchanges fields. *)
THEOREM MessageFaithful == WireSpec => []MessageMatchesRequest
<1>1. StageInv => MessageMatchesRequest
  <2> SUFFICES ASSUME StageInv, stage = "message" PROVE MessageMatchesRequest
    BY DEF MessageMatchesRequest
  <2>1. request \in Requests /\ data = Message(request)
    BY DEF StageInv
  <2>2. /\ data.StakingTxHash = request.StakingTx
        /\ data.SlashingTxSigs = Got(request).SlashAdaptorSigs
        /\ data.SlashingUnbondingTxSigs = Got(request).SlashUnbondingAdaptorSigs
        /\ data.UnbondingTxSig = Got(request).UnbondingSig
        /\ data.StakeExpansionTxSig = Got(request).StakeExpSig
    BY <2>1 DEF Message, MsgAddCovenantSigs, signerResponseToCovenantResponse
  <2> QED
    BY <2>1, <2>2, SignedRequest, ResponseRoundTrip DEF MessageMatchesRequest
<1> QED
  BY <1>1, StageInvariance, PTL

(* The two parsers between them accept the complete requests and no other.  *)
LEMMA ParsersAgree ==
    ASSUME NEW r \in Requests
    PROVE  Complete(r) <=> /\ ParseSigningRequestOK(Wired(r))
                           /\ ToParsedSigningResponseOK(Sent(r))
<1> DEFINE w == Wired(r)
<1>1. ASSUME NEW b PROVE /\ HexOK(Text(b)) <=> b # Junk
                         /\ ObjectOK(Text(b)) <=> b \notin {Empty, Junk}
  BY DEF ObjectOK, HexOK, NoText, Text
<1>2. /\ w.StakingTxHex = Text(r.StakingTx) /\ w.SlashingTxHex = Text(r.SlashingTx)
      /\ w.UnbondingTxHex = Text(r.UnbondingTx)
      /\ w.SlashUnbondingTxHex = Text(r.SlashUnbondingTx)
      /\ w.SlashingScriptHex = Text(r.SlashingPkScriptPath)
      /\ w.UnbondingScriptHex = Text(r.StakingTxUnbondingPkScriptPath)
      /\ w.UnbondingSlashingScriptHex = Text(r.UnbondingTxSlashingPkScriptPath)
      /\ w.FpEncKeys = Texts(r.FpEncKeys)
  BY DEF Wired, ToSignTransactionRequest, Copied, covenantRequestToSignerRequest
<1>3. (\A t \in {w.StakingTxHex, w.SlashingTxHex, w.UnbondingTxHex,
                 w.SlashUnbondingTxHex, w.SlashingScriptHex,
                 w.UnbondingScriptHex, w.UnbondingSlashingScriptHex} : ObjectOK(t))
      <=> \A f \in {"StakingTx", "SlashingTx", "UnbondingTx", "SlashUnbondingTx",
                    "SlashingPkScriptPath", "StakingTxUnbondingPkScriptPath",
                    "UnbondingTxSlashingPkScriptPath"} : r[f] \notin {Empty, Junk}
  <2> HIDE DEF w
  <2> QED  BY <1>1, <1>2
<1>4. (\A i \in DOMAIN w.FpEncKeys : ObjectOK(w.FpEncKeys[i]))
      <=> \A i \in DOMAIN r.FpEncKeys : r.FpEncKeys[i] \notin {Empty, Junk}
  <2>1. /\ DOMAIN w.FpEncKeys = DOMAIN r.FpEncKeys
        /\ \A i \in DOMAIN r.FpEncKeys : w.FpEncKeys[i] = Text(r.FpEncKeys[i])
    BY <1>2 DEF Texts
  <2> HIDE DEF w
  <2> QED  BY <1>1, <2>1
<1>5. ToParsedSigningResponseOK(Sent(r)) <=> r.FpEncKeys # <<>>
  <2>1. /\ DOMAIN Sent(r).SlashingTransactionsAdaptorSignatures = DOMAIN r.FpEncKeys
        /\ DOMAIN Sent(r).SlashUnbondingTransactionsAdaptorSignatures = DOMAIN r.FpEncKeys
        /\ Sent(r).SlashingTransactionsAdaptorSignatures = Texts(Signed(r).SlashAdaptorSigs)
        /\ Sent(r).SlashUnbondingTransactionsAdaptorSignatures =
             Texts(Signed(r).SlashUnbondingAdaptorSigs)
    BY SignedRequest DEF Sent, ToResponse, Texts
  <2>2. r.FpEncKeys = <<>> <=> DOMAIN r.FpEncKeys = {}
    <3> DEFINE k == r.FpEncKeys
    <3>1. k \in Seq({k[i] : i \in DOMAIN k})
      BY WireAssumption
    <3>2. DOMAIN k = 1 .. Len(k) /\ Len(k) \in Nat /\ (k = <<>> <=> Len(k) = 0)
      BY <3>1
    <3> HIDE DEF k
    <3>3. 1 .. Len(k) = {} <=> Len(k) = 0
      BY <3>2
    <3> QED
      BY <3>2, <3>3 DEF k
  <2>3. ASSUME NEW f PROVE Texts(f) = <<>> <=> DOMAIN f = {}
    BY DEF Texts
  <2> QED
    BY <2>1, <2>2, <2>3 DEF ToParsedSigningResponseOK, Texts
<1>6. CASE r.StakeExp = Nil
  <2>1. w.StakeExpansion = Nil
    BY <1>6 DEF Wired, ToSignTransactionRequest, Copied, covenantRequestToSignerRequest
  <2> HIDE DEF w
  <2> QED
    BY <1>3, <1>4, <1>5, <1>6, <2>1 DEF Complete, ParseSigningRequestOK, w
<1>7. CASE r.StakeExp # Nil
  <2>1. Copied(r).StakeExp # Nil /\ w.StakeExpansion # Nil
    BY <1>7, WireAssumption DEF Copied, Wired
  <2>2. /\ w.StakeExpansion.PreviousActiveStakeTxHex =
             Text(r.StakeExp.PreviousActiveStakeTx)
        /\ w.StakeExpansion.OtherFundingOutputHex = Text(r.StakeExp.OtherFundingOutput)
        /\ w.StakeExpansion.PreviousActiveStakeUnbondingScriptHex =
             Text(r.StakeExp.PreviousActiveStakeUnbondingPkScriptPath)
    BY <1>7, <2>1 DEF Wired, ToSignTransactionRequest, Copied,
       covenantRequestToSignerRequest, covenantRequestToSignerRequestStkExp
  <2> HIDE DEF w
  <2> QED
    BY <1>1, <1>3, <1>4, <1>5, <1>7, <2>1, <2>2 DEF Complete, ParseSigningRequestOK, w
<1> QED
  BY <1>6, <1>7

(* A complete request is refused nowhere on the way, and no incomplete one  *)
(* becomes a message.                                                       *)
THEOREM ParsersAcceptComplete == WireSpec => []CompleteRequestsPass
<1>1. StageInv => CompleteRequestsPass
  BY ParsersAgree DEF StageInv, CompleteRequestsPass
<1> QED
  BY <1>1, StageInvariance, PTL

=============================================================================
