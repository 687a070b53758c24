--------------------------- MODULE SigningOracle ---------------------------
(***************************************************************************)
(* What the emulator may rely on when it calls the remote signer: a call   *)
(* returns at most once. It may fail at any time; it succeeds only if the  *)
(* signer was unlocked at some moment of the call; and what it returns is  *)
(* unusable only if the key was unlocked and then erased during the call.  *)
(***************************************************************************)
CONSTANT Call

VARIABLES
    signer,     \* "locked", "unlocked" or "erasing"
    call,       \* call[c]: "idle", "waiting" or "returned"
    result,     \* result[c]: what c returned
    seen        \* seen[c]: the states of the signer during c, so far

oracleVars == <<signer, call, result, seen>>

SignerState == {"locked", "unlocked", "erasing"}

OracleInit ==
    /\ signer = "locked"
    /\ call = [c \in Call |-> "idle"]
    /\ result = [c \in Call |-> "none"]
    /\ seen = [c \in Call |-> {}]

Begin(c) ==
    /\ call[c] = "idle"
    /\ call' = [call EXCEPT ![c] = "waiting"]
    /\ seen' = [seen EXCEPT ![c] = {signer}]
    /\ UNCHANGED <<signer, result>>

(* The operator unlocks and locks the signer, or it restarts. A key is      *)
(* erased only if one was unlocked.                                         *)
Turn ==
    /\ signer' \in SignerState \ {signer}
    /\ signer' = "unlocked" => signer = "locked"
    /\ signer' = "erasing" => signer = "unlocked"
    /\ seen' = [c \in Call |-> IF call[c] = "waiting" THEN seen[c] \cup {signer'}
                                                      ELSE seen[c]]
    /\ UNCHANGED <<call, result>>

End(c) ==
    /\ call[c] = "waiting"
    /\ call' = [call EXCEPT ![c] = "returned"]
    /\ \E x \in {"good", "bad", "error"} :
        /\ x = "good" => "unlocked" \in seen[c]
        /\ x = "bad" => {"unlocked", "erasing"} \subseteq seen[c]
        /\ result' = [result EXCEPT ![c] = x]
    /\ UNCHANGED <<signer, seen>>

OracleNext == Turn \/ \E c \in Call : Begin(c) \/ End(c)

OracleSpec == OracleInit /\ [][OracleNext]_oracleVars
=============================================================================
