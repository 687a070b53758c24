--------------------------- MODULE SignerService ---------------------------
(***************************************************************************)
(* The covenant signer: HTTP handlers that run concurrently, one per       *)
(* request, over the key retriever. The mutex of KeyringRetriever guards   *)
(* the reference to the private key, not the key: PrivKey hands out the    *)
(* shared object, a handler signs with it after the mutex is released, and *)
(* Lock zeroes it in place. A read that overlaps the zeroing is a data     *)
(* race: it may give a proper signature, a bad one or an error.            *)
(*                                                                         *)
(* A key object is named after the unlock request that loaded it.          *)
(***************************************************************************)
EXTENDS Integers, FiniteSets

CONSTANTS
    Req,        \* requests
    None,       \* no request / no key
    Kind,       \* Kind[r]: the route r was sent to
    Admitted,   \* Admitted[r]: HMAC and content length pass, payload parses
    PassOK,     \* PassOK[r]: the passphrase of unlock request r is right
    SigCount,   \* SigCount[r]: signatures r needs, two per finality
                \* provider, one for unbonding, one for an expansion
    BadIndex    \* requests for an expansion whose PreviousStakingOutputIdx is
                \* no output of the previous staking transaction

ASSUME SignerAssumption ==
    /\ IsFiniteSet(Req)
    /\ None \notin Req
    /\ Kind \in [Req -> {"sign", "pubkey", "unlock", "lock"}]
    /\ Admitted \in [Req -> BOOLEAN]
    /\ PassOK \in [Req -> BOOLEAN]
    /\ SigCount \in [Req -> Nat]
    /\ BadIndex \subseteq {r \in Req : Kind[r] = "sign" /\ SigCount[r] > 0}

VARIABLES
    pc,         \* pc[r]: where the handler of r stands
    answer,     \* answer[r]: what r was answered, or how its handler ended
    keyRef,     \* btcecPrivKey: the current key object, or None
    key,        \* key[o]: the memory of key object o
    mutex,      \* the request inside the retriever across steps, or None
    held,       \* held[r]: the key object r signs with
    todo,       \* todo[r]: signatures r still has to make
    torn,       \* requests that got a bad signature or public key
    gauge,      \* signer_unlock_status
    received, succeeded, failed     \* the signing request counters

vars == <<pc, answer, keyRef, key, mutex, held, todo, torn, gauge,
          received, succeeded, failed>>

counters == <<received, succeeded, failed>>

PC == {"new", "retriever", "zeroing", "signing", "metric", "done"}
Answer == {"none", "ok", "error", "rejected", "panicked"}

SignerTypeOK ==
    /\ pc \in [Req -> PC]
    /\ answer \in [Req -> Answer]
    /\ keyRef \in Req \cup {None}
    /\ key \in [Req -> {"unused", "intact", "zeroing", "zero"}]
    /\ mutex \in Req \cup {None}
    /\ held \in [Req -> Req \cup {None}]
    /\ todo \in [Req -> Nat]
    /\ torn \subseteq Req
    /\ gauge \in {0, 1}
    /\ received \in Nat /\ succeeded \in Nat /\ failed \in Nat

(* The service starts locked.                                               *)
Init ==
    /\ pc = [r \in Req |-> "new"]
    /\ answer = [r \in Req |-> "none"]
    /\ keyRef = None
    /\ key = [r \in Req |-> "unused"]
    /\ mutex = None
    /\ held = [r \in Req |-> None]
    /\ todo = [r \in Req |-> 0]
    /\ torn = {}
    /\ gauge = 0
    /\ received = 0 /\ succeeded = 0 /\ failed = 0

Done(r, a) ==
    /\ pc' = [pc EXCEPT ![r] = "done"]
    /\ answer' = [answer EXCEPT ![r] = a]

Goto(r, l) == pc' = [pc EXCEPT ![r] = l] /\ UNCHANGED answer

----------------------------------------------------------------------------
(* The middlewares and the decoding of the payload.                         *)

Reject(r) ==
    /\ pc[r] = "new"
    /\ ~Admitted[r]
    /\ Done(r, "rejected")
    /\ UNCHANGED <<keyRef, key, mutex, held, todo, torn, gauge, counters>>

Receive(r) ==
    /\ pc[r] = "new"
    /\ Admitted[r]
    /\ Goto(r, "retriever")
    /\ received' = IF Kind[r] = "sign" THEN received + 1 ELSE received
    /\ UNCHANGED <<keyRef, key, mutex, held, todo, torn, gauge, succeeded, failed>>

----------------------------------------------------------------------------
(* Signing and the public key *)

Enter(r, k) == pc[r] = "retriever" /\ Kind[r] = k /\ mutex = None

(* Mutant: an early return leaves the failed request uncounted.             *)
FailsUncounted(r) ==
    /\ Done(r, "error")
    /\ UNCHANGED counters

(* IncFailedSigningRequests is only for signing requests.                   *)
Fails(r) ==
    /\ Done(r, "error")
    /\ failed' = IF Kind[r] = "sign" THEN failed + 1 ELSE failed
    /\ UNCHANGED <<received, succeeded>>

PrivKey(r) ==
    /\ Enter(r, "sign") \/ Enter(r, "pubkey")
    /\ IF keyRef = None
          THEN Fails(r) /\ UNCHANGED <<held, todo>>
          ELSE /\ Goto(r, "signing")
               /\ held' = [held EXCEPT ![r] = keyRef]
               /\ todo' = [todo EXCEPT ![r] = IF Kind[r] = "sign"
                                                THEN SigCount[r] ELSE 1]
               /\ UNCHANGED counters
    /\ UNCHANGED <<keyRef, key, mutex, torn, gauge>>

(* What an operation on the key object can give, by the state of its        *)
(* memory. Signing also fails with an intact key, when the transactions of  *)
(* the request do not fit together. A zero key is refused when signing, but *)
(* has a public key.                                                        *)
Outcomes(r) ==
    CASE key[held[r]] = "intact"  ->
            IF Kind[r] = "sign" THEN {"good", "error"} ELSE {"good"}
      [] key[held[r]] = "zeroing" -> {"good", "bad", "error"}
      [] OTHER -> IF Kind[r] = "sign" THEN {"error"} ELSE {"bad"}

(* The signature of the expansion is the last, and the first thing it does  *)
(* is to look up the output it spends.                                      *)
AtBadIndex(r) == r \in BadIndex /\ todo[r] = 1

(* Mutant: the loop makes one signature too many.                           *)
UseKeyOnceMore(r) ==
    /\ pc[r] = "signing"
    /\ \E o \in Outcomes(r) :
        /\ IF o = "error"
              THEN Fails(r) /\ UNCHANGED todo
              ELSE /\ todo' = [todo EXCEPT ![r] = @ - 1]
                   /\ UNCHANGED <<pc, answer, counters>>
        /\ torn' = IF o = "bad" THEN torn \cup {r} ELSE torn
    /\ UNCHANGED <<keyRef, key, mutex, held, gauge>>

UseKey(r) ==
    /\ pc[r] = "signing"
    /\ todo[r] > 0
    /\ ~AtBadIndex(r)
    /\ \E o \in Outcomes(r) :
        /\ IF o = "error"
              THEN Fails(r) /\ UNCHANGED todo
              ELSE /\ todo' = [todo EXCEPT ![r] = @ - 1]
                   /\ UNCHANGED <<pc, answer, counters>>
        /\ torn' = IF o = "bad" THEN torn \cup {r} ELSE torn
    /\ UNCHANGED <<keyRef, key, mutex, held, gauge>>

(* The output is looked up without a check: the handler panics. net/http    *)
(* recovers, and closes the connection; neither counter is incremented.     *)
Panics(r) ==
    /\ pc[r] = "signing"
    /\ AtBadIndex(r)
    /\ Done(r, "panicked")
    /\ UNCHANGED <<keyRef, key, mutex, held, todo, torn, gauge, counters>>

Respond(r) ==
    /\ pc[r] = "signing"
    /\ todo[r] = 0
    /\ Done(r, "ok")
    /\ succeeded' = IF Kind[r] = "sign" THEN succeeded + 1 ELSE succeeded
    /\ UNCHANGED <<keyRef, key, mutex, held, todo, torn, gauge, received, failed>>

----------------------------------------------------------------------------
(* Unlock and Lock. The gauge is set after the retriever's mutex is free.   *)

(* Mutant: Unlock does not look whether a key is already loaded.            *)
UnlockAgain(r) ==
    /\ Enter(r, "unlock")
    /\ IF PassOK[r]
          THEN /\ keyRef' = r
               /\ key' = [key EXCEPT ![r] = "intact"]
               /\ Goto(r, "metric")
          ELSE Done(r, "error") /\ UNCHANGED <<keyRef, key>>
    /\ UNCHANGED <<mutex, held, todo, torn, gauge, counters>>

Unlock(r) ==
    /\ Enter(r, "unlock")
    /\ IF keyRef # None
          THEN Goto(r, "metric") /\ UNCHANGED <<keyRef, key>>
          ELSE IF PassOK[r]
                  THEN /\ keyRef' = r
                       /\ key' = [key EXCEPT ![r] = "intact"]
                       /\ Goto(r, "metric")
                  ELSE Done(r, "error") /\ UNCHANGED <<keyRef, key>>
    /\ UNCHANGED <<mutex, held, todo, torn, gauge, counters>>

(* Mutant: Lock drops the reference without zeroing the key.                *)
LockForgetsOnly(r) ==
    /\ Enter(r, "lock")
    /\ Goto(r, "metric")
    /\ keyRef' = None
    /\ UNCHANGED <<key, mutex, held, todo, torn, gauge, counters>>

(* Lock starts to zero the key, unless it is already locked.                *)
LockBegin(r) ==
    /\ Enter(r, "lock")
    /\ IF keyRef = None
          THEN Goto(r, "metric") /\ UNCHANGED <<mutex, key>>
          ELSE /\ Goto(r, "zeroing")
               /\ mutex' = r
               /\ key' = [key EXCEPT ![keyRef] = "zeroing"]
    /\ UNCHANGED <<keyRef, held, todo, torn, gauge, counters>>

(* Mutant: Lock returns without releasing the mutex.                        *)
LockEndKeepsMutex(r) ==
    /\ pc[r] = "zeroing"
    /\ Goto(r, "metric")
    /\ key' = [key EXCEPT ![keyRef] = "zero"]
    /\ keyRef' = None
    /\ UNCHANGED <<mutex, held, todo, torn, gauge, counters>>

(* Mutant: Lock zeroes the key and keeps the reference to it.               *)
LockEndKeepsKey(r) ==
    /\ pc[r] = "zeroing"
    /\ Goto(r, "metric")
    /\ key' = [key EXCEPT ![keyRef] = "zero"]
    /\ mutex' = None
    /\ UNCHANGED <<keyRef, held, todo, torn, gauge, counters>>

LockEnd(r) ==
    /\ pc[r] = "zeroing"
    /\ Goto(r, "metric")
    /\ key' = [key EXCEPT ![keyRef] = "zero"]
    /\ keyRef' = None
    /\ mutex' = None
    /\ UNCHANGED <<held, todo, torn, gauge, counters>>

SetGauge(r) ==
    /\ pc[r] = "metric"
    /\ Done(r, "ok")
    /\ gauge' = IF Kind[r] = "unlock" THEN 1 ELSE 0
    /\ UNCHANGED <<keyRef, key, mutex, held, todo, torn, counters>>

----------------------------------------------------------------------------

Handler(r) ==
    \/ PrivKey(r) \/ UseKey(r) \/ Panics(r) \/ Respond(r)
    \/ Unlock(r) \/ LockBegin(r) \/ LockEnd(r) \/ SetGauge(r)

Next == \E r \in Req : Reject(r) \/ Receive(r) \/ Handler(r)

Spec == Init /\ [][Next]_vars

(* The server runs every handler it has started.                            *)
FairSpec == Spec /\ \A r \in Req : WF_vars(Handler(r))

----------------------------------------------------------------------------

(* The only key object in memory that is not erased is the current one:     *)
(* once Lock has run, a handler that still holds the old object can no      *)
(* longer make a proper signature with it, whatever Unlock loads meanwhile. *)
(* (The bytes Unlock read the key from are not part of the object, and are  *)
(* not erased.)                                                             *)
LockErases == \A o \in Req : key[o] = "intact" => keyRef = o /\ mutex = None

(* Received signing requests that are counted in neither of the other two:  *)
(* the ones being worked on, and the ones whose handler panicked.           *)
Uncounted == {r \in Req : /\ Kind[r] = "sign"
                          /\ pc[r] \in {"retriever", "signing"} \/ answer[r] = "panicked"}

(* A signing request counted as received is counted as succeeded or failed  *)
(* exactly once when its handler returns; what is missing between the three *)
(* counters are the handlers at work and the ones that panicked, one each.  *)
CountersBalance == received = succeeded + failed + Cardinality(Uncounted)

(* Signatures of one response come from one load of the key: as long as the *)
(* key a handler holds is not being erased, it is the current one.          *)
HeldIsCurrentOrErased ==
    \A r \in Req : pc[r] = "signing" =>
        held[r] = keyRef \/ key[held[r]] = "zero"

(* With no Lock or Unlock in progress, signer_unlock_status is "1 for       *)
(* unlocked, 0 for locked".                                                 *)
GaugeMatchesKey ==
    (\A r \in Req : Kind[r] \in {"lock", "unlock"} => pc[r] \in {"new", "done"})
        => (gauge = 1 <=> keyRef # None)

(* The handler of every admitted request ends, with an answer or by a       *)
(* panic: none waits forever for the retriever.                             *)
EveryRequestAnswered ==
    \A r \in Req : pc[r] = "retriever" ~> pc[r] = "done"
=============================================================================
