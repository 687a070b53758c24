---------------------------- MODULE SigningCall ----------------------------
(***************************************************************************)
(* The calls of the remote signer, from both ends: the client of           *)
(* signerservice, used by the starting and signing daemon and by the       *)
(* operator, over an unreliable connection to SignerService. The client    *)
(* gives up after its timeout; the handler does not look at the request's  *)
(* context and works on. The signer may be killed and restarted: it comes  *)
(* back locked, with the handlers and counters of before gone.             *)
(***************************************************************************)
EXTENDS Integers, Sequences, FiniteSets

CONSTANTS
    Req, None, Kind, PassOK, SigCount, BadIndex,    \* as in SignerService
    Deployments,    \* how the three programs may be configured, see deployment
    NoKey,          \* the empty HMAC key
    Program,        \* the daemon's calls in their order: the health check,
                    \* the public key, then signing
    HasTimeout,     \* remotesigner: timeout is not 0
    MaxRestarts     \* bound on the restarts of the signer

ASSUME CallAssumption ==
    /\ None \notin Req
    /\ Kind \in [Req -> {"sign", "pubkey", "unlock", "lock"}]
    /\ PassOK \in [Req -> BOOLEAN]
    /\ SigCount \in [Req -> Nat]
    /\ BadIndex \subseteq {r \in Req : Kind[r] = "sign" /\ SigCount[r] > 0}
    /\ \A d \in Deployments :
        DOMAIN d.clientKey = Req /\ d.wellFormed \in [Req -> BOOLEAN]
    /\ Program \in Seq(Req) /\ Len(Program) >= 2
    /\ \A i \in 1 .. Len(Program) :
        Kind[Program[i]] = IF i <= 2 THEN "pubkey" ELSE "sign"
    /\ HasTimeout \in BOOLEAN
    /\ MaxRestarts \in Nat

VARIABLES
    pc, answer, keyRef, key, mutex, held, todo, torn, gauge,
    received, succeeded, failed,        \* as in SignerService
    deployment, \* never changes: clientKey[r] is the HMAC key of the caller
                \* of r, serverKey the signer's, and wellFormed[r] says that
                \* the body is within max-content-length and parses
    call,       \* call[r]: "idle", "waiting" or "returned" to the caller
    result,     \* result[r]: what the client's function returned
    lost,       \* requests of which the rest of the exchange is lost
    blank,      \* answers with the public key of a zeroed key
    restarts,   \* restarts of the signer so far
    seen        \* history: the states of the signer during each call

signerVars == <<pc, answer, keyRef, key, mutex, held, todo, torn, gauge,
                received, succeeded, failed>>
clientVars == <<deployment, call, result, lost, blank, restarts, seen>>
callVars == <<signerVars, clientVars>>

(* The client adds the HMAC of the body if it has a key; the server skips   *)
(* the check if it has none, and else wants the HMAC its own key gives.     *)
GenerateHMAC(k, r) == IF k = NoKey THEN NoKey ELSE <<k, r>>
ValidateHMAC(r, header) ==
    \/ deployment.serverKey = NoKey
    \/ header # NoKey /\ header = GenerateHMAC(deployment.serverKey, r)

Admits(r) ==
    /\ ValidateHMAC(r, GenerateHMAC(deployment.clientKey[r], r))
    /\ deployment.wellFormed[r]

(* The signer behind its middlewares, and the answer of the middlewares.    *)
Signer == INSTANCE SignerService WITH Admitted <- [r \in Req |-> TRUE]
Refusal == INSTANCE SignerService WITH Admitted <- [r \in Req |-> FALSE]

SignerState == IF mutex # None THEN "erasing"
               ELSE IF keyRef # None THEN "unlocked" ELSE "locked"

(* History: every call under way sees the state the signer is in.           *)
Observe == seen' = [r \in Req |-> IF call[r] = "waiting"
                                  THEN seen[r] \cup {SignerState'} ELSE seen[r]]

CallTypeOK ==
    /\ Signer!SignerTypeOK
    /\ deployment \in Deployments
    /\ call \in [Req -> {"idle", "waiting", "returned"}]
    /\ result \in [Req -> {"none", "good", "bad", "error"}]
    /\ lost \subseteq Req /\ blank \subseteq Req
    /\ restarts \in 0 .. MaxRestarts
    /\ seen \in [Req -> SUBSET {"locked", "unlocked", "erasing"}]

CallInit ==
    /\ Signer!Init
    /\ deployment \in Deployments
    /\ call = [r \in Req |-> "idle"]
    /\ result = [r \in Req |-> "none"]
    /\ lost = {} /\ blank = {}
    /\ restarts = 0
    /\ seen = [r \in Req |-> {}]

----------------------------------------------------------------------------
(* The callers                                                              *)

(* The daemon makes one call at a time. It does not start unless both of    *)
(* its public key calls succeed, and with a wrong key it finds itself in no *)
(* committee and has nothing to sign.                                       *)
DaemonMayCall(i) ==
    /\ \A j \in 1 .. i - 1 : call[Program[j]] = "returned"
    /\ \A j \in 1 .. i - 1 : j <= 2 => result[Program[j]] # "error"
    /\ i > 2 => result[Program[2]] = "good"

MayCall(r) == \A i \in 1 .. Len(Program) : Program[i] = r => DaemonMayCall(i)

Begin(r) ==
    /\ call[r] = "idle"
    /\ MayCall(r)
    /\ call' = [call EXCEPT ![r] = "waiting"]
    /\ seen' = [seen EXCEPT ![r] = {SignerState}]
    /\ UNCHANGED <<signerVars, deployment, result, lost, blank, restarts>>

Returns(r, x) ==
    /\ call[r] = "waiting"
    /\ call' = [call EXCEPT ![r] = "returned"]
    /\ result' = [result EXCEPT ![r] = x]
    /\ UNCHANGED <<signerVars, deployment, lost, blank, restarts, seen>>

(* Mutant: the status of the answer is not looked at.                       *)
AnyStatusIsSuccess(r) == IF r \in torn THEN "bad" ELSE "good"

(* What the client makes of the answer. A status other than OK is an error; *)
(* so is a public key that is no point, as that of a zeroed key is.         *)
ClientResult(r) ==
    CASE answer[r] # "ok" \/ r \in blank -> "error"
      [] answer[r] = "ok" /\ r \in torn \ blank -> "bad"
      [] OTHER -> "good"

Answered(r) ==
    /\ pc[r] = "done" /\ r \notin lost
    /\ Returns(r, ClientResult(r))

Timeout(r) == HasTimeout /\ Returns(r, "error")

(* The signer cannot be reached, or the connection breaks.                  *)
ConnectionFails(r) == Returns(r, "error")

----------------------------------------------------------------------------
(* The connection and the signer                                            *)

Lose(r) ==
    /\ call[r] = "waiting" /\ r \notin lost
    /\ lost' = lost \cup {r}
    /\ UNCHANGED <<signerVars, deployment, call, result, blank, restarts, seen>>

(* A request that was sent arrives, also after its caller has given up.     *)
Deliver(r) ==
    /\ call[r] # "idle" /\ r \notin lost
    /\ \/ Admits(r) /\ Signer!Receive(r)
       \/ ~Admits(r) /\ Refusal!Reject(r)
    /\ Observe
    /\ UNCHANGED <<deployment, call, result, lost, blank, restarts>>

Handle(r) ==
    /\ Signer!Handler(r)
    /\ blank' = IF /\ pc[r] = "signing" /\ Kind[r] = "pubkey"
                   /\ todo[r] > 0 /\ key[held[r]] = "zero"
                THEN blank \cup {r} ELSE blank
    /\ Observe
    /\ UNCHANGED <<deployment, call, result, lost, restarts>>

(* The signer is killed and started again. The exchanges of the handlers    *)
(* that were running end with an error.                                     *)
Restart ==
    /\ restarts < MaxRestarts
    /\ restarts' = restarts + 1
    /\ pc' = [r \in Req |-> IF pc[r] = "new" THEN "new" ELSE "done"]
    /\ answer' = [r \in Req |-> IF pc[r] \in {"new", "done"} THEN answer[r]
                                                             ELSE "error"]
    /\ keyRef' = None
    /\ mutex' = None
    /\ key' = [o \in Req |-> IF key[o] = "unused" THEN "unused" ELSE "zero"]
    /\ gauge' = 0
    /\ received' = 0 /\ succeeded' = 0 /\ failed' = 0
    /\ Observe
    /\ UNCHANGED <<held, todo, torn, deployment, call, result, lost, blank>>

----------------------------------------------------------------------------

CallStep(r) ==
    \/ Begin(r) \/ Answered(r) \/ Timeout(r) \/ ConnectionFails(r)
    \/ Lose(r) \/ Deliver(r) \/ Handle(r)

CallNext == Restart \/ \E r \in Req : CallStep(r)

CallSpec == CallInit /\ [][CallNext]_callVars

Asked == {r \in Req : Kind[r] \in {"sign", "pubkey"}}

Oracle == INSTANCE SigningOracle WITH
    Call <- Asked,
    signer <- SignerState,
    call <- [c \in Asked |-> call[c]],
    result <- [c \in Asked |-> result[c]],
    seen <- [c \in Asked |-> seen[c]]

(* What the emulator's model assumes of a signing or public key call: it    *)
(* returns once, late answers change nothing, it succeeds only if the       *)
(* signer was unlocked during the call, and its signatures or public key    *)
(* are unusable only if a Lock erased the key during the call. In           *)
(* particular the public key that NewEmulator keeps for the life of the     *)
(* daemon is wrong only if the signer was locked at that very moment.       *)
OracleSpec == Oracle!OracleSpec

(* An operator's Unlock that returns without an error was followed, before  *)
(* it returned, by a moment at which the signer was unlocked, and a Lock by *)
(* one at which it was locked: neither is answered ahead of its effect.     *)
OperatorCallsTakeEffect ==
    \A r \in Req : result[r] = "good" =>
        /\ Kind[r] = "unlock" => "unlocked" \in seen[r]
        /\ Kind[r] = "lock" => "locked" \in seen[r]
=============================================================================
