-------------------------- MODULE BatchSubmission --------------------------
(***************************************************************************)
(* SubmitCovenantSigs: one batch of covenant signatures is sent as one     *)
(* transaction; a message the chain names as the failing one is removed    *)
(* and the rest is sent again, up to BatchRetries attempts.                *)
(*                                                                         *)
(* One step is one answer of the client library's ReliablySendMsgs. That   *)
(* library retries by itself, so a transaction may be in flight            *)
(* (Unconfirmed) while the call that sent it has not returned, and an      *)
(* error may be reported for a transaction that still lands.               *)
(***************************************************************************)
EXTENDS BabylonChain

(* Mutant: the message after the failing one is removed.                    *)
RemoveMsgAfterIndex(s, i) ==
    [k \in 1 .. Len(s) - 1 |-> IF k <= i THEN s[k] ELSE s[k + 1]]

(* 1-based. An index out of range removes nothing; the chain reports none.  *)
RemoveMsgAtIndex(s, i) ==
    IF i \in 1 .. Len(s)
       THEN [k \in 1 .. Len(s) - 1 |-> IF k < i THEN s[k] ELSE s[k + 1]]
       ELSE s

CONSTANT MaxRetiresBatchRemovingMsgs    \* config; 0: the batch's length

ASSUME SubmissionAssumption == MaxRetiresBatchRemovingMsgs \in Nat

VARIABLES
    covSigs,    \* covenantSigs of the batch being processed
    msgs,       \* messages still to be sent
    attempts,   \* iterations of the resending loop left
    dupSeen,    \* the joined error contains ErrDuplicatedCovenantSig
    outcome     \* result of AddCovenantSignatures on the latest batch

submitVars == <<covSigs, msgs, attempts, dupSeen, outcome>>

Outcome == {"none", "ok", "error"}

SubmitTypeOK ==
    /\ covSigs \in Seq(Message)
    /\ msgs \in Seq(Message)
    /\ attempts \in Nat
    /\ dupSeen \in BOOLEAN
    /\ outcome \in Outcome

SubmitInit ==
    /\ covSigs = <<>> /\ msgs = <<>>
    /\ attempts = 0
    /\ dupSeen = FALSE
    /\ outcome = "none"

(* Mutant: one attempt more than there are messages.                        *)
BatchRetriesOneMore(n) ==
    IF MaxRetiresBatchRemovingMsgs = 0 \/ MaxRetiresBatchRemovingMsgs > n
       THEN n + 1 ELSE MaxRetiresBatchRemovingMsgs

BatchRetries(n) ==
    IF MaxRetiresBatchRemovingMsgs = 0 \/ MaxRetiresBatchRemovingMsgs > n
       THEN n ELSE MaxRetiresBatchRemovingMsgs

Finish(res) ==
    /\ outcome' = res
    /\ msgs' = <<>> /\ attempts' = 0 /\ dupSeen' = FALSE

----------------------------------------------------------------------------
(* SubmitCovenantSigs builds the messages (BatchRetries of an empty list is *)
(* no attempt at all: that case is CovenantEmulator!EndBatchUnsent).        *)
SubmitCovenantSigs ==
    /\ covSigs # <<>>
    /\ msgs' = covSigs
    /\ attempts' = BatchRetries(Len(covSigs))
    /\ dupSeen' = FALSE
    /\ outcome' = "none"
    /\ UNCHANGED <<covSigs, chainVars>>

(* The transaction is included and the client learns it.                    *)
SendIncluded ==
    /\ attempts > 0
    /\ Executes(msgs)
    /\ Execute(msgs)
    /\ Finish("ok")
    /\ UNCHANGED <<covSigs, mempool>>

(* The chain refuses message i; it is removed and the rest is tried again   *)
(* while attempts are left.                                                 *)
SendRefusedRetry(i) ==
    /\ attempts > 1
    /\ FirstFailure(msgs, i)
    /\ dupSeen' = (dupSeen \/ IsDuplicate(msgs, i))
    /\ msgs' = RemoveMsgAtIndex(msgs, i)
    /\ attempts' = attempts - 1
    /\ UNCHANGED <<outcome, covSigs, chainVars>>

(* The chain refuses message i on the last attempt: the batch counts as     *)
(* submitted iff some attempt failed on a duplicate.                        *)
SendRefusedLast(i) ==
    /\ attempts = 1
    /\ FirstFailure(msgs, i)
    /\ Finish(IF dupSeen \/ IsDuplicate(msgs, i) THEN "ok" ELSE "error")
    /\ UNCHANGED <<covSigs, chainVars>>

(* Mutant: the joined error, with the earlier duplicates in it, is looked   *)
(* at on every way out of the loop.                                         *)
SendFailsJoined ==
    /\ attempts > 0
    /\ Finish(IF dupSeen THEN "ok" ELSE "error")
    /\ UNCHANGED <<covSigs, chainVars>>

(* An error that names no message ends the submission.                      *)
SendFails ==
    /\ attempts > 0
    /\ Finish("error")
    /\ UNCHANGED <<covSigs, chainVars>>

(* The transaction was broadcast but no result came back (yet).             *)
SendUnconfirmed ==
    /\ attempts > 0
    /\ msgs # <<>>
    /\ msgs \notin mempool
    /\ Cardinality(mempool) < MaxInFlight
    /\ mempool' = mempool \cup {msgs}
    /\ UNCHANGED <<status, sigs, submitVars>>

=============================================================================
