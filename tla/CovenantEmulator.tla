-------------------------- MODULE CovenantEmulator --------------------------
(***************************************************************************)
(* The covenant emulator daemon: the signature submission loop that        *)
(* queries pending delegations (PendingQuery), checks and signs them batch *)
(* by batch, and submits every batch (BatchSubmission) to a chain that     *)
(* moves on its own (BabylonChain); Stop, crashes and restarts.            *)
(***************************************************************************)
EXTENDS PendingQuery, BatchSubmission

CONSTANTS
    SigsBatchSize,  \* config: signatures per transaction
    MaxCrashes      \* bound on the crashes (kill or panic) in a behaviour

(* A batch size of zero makes delegationsToBatches loop forever; the model  *)
(* starts from the configurations the loop can run with.                    *)
ASSUME EmulatorAssumption ==
    /\ SigsBatchSize \in Nat \ {0}
    /\ MaxCrashes \in Nat

VARIABLES
    left,       \* delegations of the current batch not yet handled
    quit,       \* Stop closed the quit channel
    crashes     \* crashes so far

loopVars == <<left, quit, crashes>>
vars == <<chainVars, phase, queryVars, submitVars, loopVars>>

TypeOK ==
    /\ ChainTypeOK /\ QueryTypeOK /\ SubmitTypeOK
    /\ left \in Nat
    /\ quit \in BOOLEAN
    /\ crashes \in Nat

(* The signer's answers enter as the choice of SignDelegation/SignFails.    *)
Init ==
    /\ ChainInit /\ QueryInit /\ SubmitInit
    /\ phase = "idle"
    /\ left = 0
    /\ quit = FALSE
    /\ crashes = 0

Environment == ChainStep /\ UNCHANGED <<phase, queryVars, submitVars, loopVars>>

----------------------------------------------------------------------------
(* The query *)

(* The ticker fires. What the previous round left in local variables is     *)
(* gone.                                                                    *)
Tick ==
    /\ StartQuery
    /\ covSigs' = <<>>
    /\ outcome' = "none"
    /\ UNCHANGED <<chainVars, msgs, attempts, dupSeen, loopVars>>

Query == QueryStep /\ UNCHANGED <<chainVars, submitVars, loopVars>>

----------------------------------------------------------------------------
(* AddCovenantSignatures, for one batch of delegationsToBatches at a time.  *)
(* dels holds the delegations not yet handled; the batch is its first left. *)

NoMoreBatches ==
    /\ phase = "batch"
    /\ dels = <<>>
    /\ phase' = "idle"
    /\ UNCHANGED <<chainVars, queryVars, submitVars, loopVars>>

StartBatch ==
    /\ phase = "batch"
    /\ dels # <<>>
    /\ phase' = "sign"
    /\ left' = IF Len(dels) < SigsBatchSize THEN Len(dels) ELSE SigsBatchSize
    /\ covSigs' = <<>>
    /\ outcome' = "none"
    /\ UNCHANGED <<chainVars, queryVars, msgs, attempts, dupSeen, quit, crashes>>

Queued == {dels[i] : i \in 1 .. Len(dels)}

(* Mutant: the end of the batch is not looked at.                           *)
HandlingPastEnd(s) ==
    /\ phase = "sign"
    /\ s = Head(dels)
    /\ IF Info[s.del].undelegation THEN Got({Info[s.del].version})
                                   ELSE UNCHANGED cache

(* s is the next delegation of the batch, and the staking parameters it is  *)
(* checked against were found in the cache or fetched.                      *)
Handling(s) ==
    /\ phase = "sign"
    /\ left > 0
    /\ s = Head(dels)
    /\ IF Info[s.del].undelegation THEN Got({Info[s.del].version})
                                   ELSE UNCHANGED cache

Handled ==
    /\ dels' = Tail(dels)
    /\ left' = left - 1
    /\ UNCHANGED <<chainVars, phase, pageKey, page, pageLen, nextKey,
                   msgs, attempts, dupSeen, outcome, quit, crashes>>

(* Mutant: a failed check returns an error instead of continuing.           *)
SkipAbortsBatch(s) ==
    /\ Handling(s)
    /\ ~ReachesSigner(s) /\ ~Panics(s)
    /\ dels' = SubSeq(dels, left + 1, Len(dels))
    /\ left' = 0
    /\ covSigs' = <<>>
    /\ outcome' = "error"
    /\ phase' = "batch"
    /\ UNCHANGED <<chainVars, pageKey, page, pageLen, nextKey,
                   msgs, attempts, dupSeen, quit, crashes>>

(* Mutant: a failed check is retried at once, without going on.             *)
SkipNeverAdvances(s) ==
    /\ Handling(s)
    /\ ~ReachesSigner(s) /\ ~Panics(s)
    /\ UNCHANGED <<chainVars, phase, pageKey, page, pageLen, nextKey, dels,
                   submitVars, loopVars>>

(* The delegation fails a check.                                            *)
SkipDelegation(s) ==
    /\ Handling(s)
    /\ ~ReachesSigner(s) /\ ~Panics(s)
    /\ UNCHANGED covSigs
    /\ Handled

(* The query of an expansion's previous delegation fails, or the signer     *)
(* answers with an error.                                                   *)
SignFails(s) ==
    /\ Handling(s)
    /\ QueriesPrevious(s) \/ ReachesSigner(s)
    /\ UNCHANGED covSigs
    /\ Handled

(* The signer returns signatures; they may be unusable (good = FALSE) when  *)
(* its key was being locked during the call.                                *)
SignDelegation(s, good) ==
    /\ Handling(s)
    /\ ReachesSigner(s)
    /\ covSigs' = Append(covSigs, [del |-> s.del, good |-> good])
    /\ Handled

(* paramCache.Get fails for the next delegation of the batch.               *)
ParamsLookupFails ==
    /\ left > 0
    /\ Info[Head(dels).del].undelegation
    /\ Info[Head(dels).del].version \notin cache

(* AddCovenantSignatures returns an error without having sent anything: the *)
(* parameter lookup failed (and the signatures collected for the batch so   *)
(* far are lost), or every delegation of the batch was skipped and the      *)
(* submission of an empty list fails.                                       *)
EndBatchUnsent ==
    /\ phase = "sign"
    /\ ParamsLookupFails \/ (left = 0 /\ covSigs = <<>>)
    /\ dels' = SubSeq(dels, left + 1, Len(dels))
    /\ left' = 0
    /\ covSigs' = <<>>
    /\ outcome' = "error"
    /\ phase' = "batch"
    /\ UNCHANGED <<chainVars, pageKey, page, pageLen, nextKey, cache,
                   msgs, attempts, dupSeen, quit, crashes>>

(* Every delegation of the batch is handled.                                *)
BeginSubmit ==
    /\ phase = "sign"
    /\ left = 0
    /\ SubmitCovenantSigs
    /\ phase' = "send"
    /\ UNCHANGED <<queryVars, loopVars>>

Send ==
    /\ phase = "send"
    /\ \/ /\ \/ SendIncluded
             \/ SendFails
             \/ \E i \in 1 .. Len(msgs) : SendRefusedLast(i)
          /\ phase' = "batch"
       \/ /\ \/ SendUnconfirmed
             \/ \E i \in 1 .. Len(msgs) : SendRefusedRetry(i)
          /\ UNCHANGED phase
    /\ UNCHANGED <<queryVars, loopVars>>

SignStep ==
    \/ NoMoreBatches
    \/ StartBatch
    \/ \E s \in Queued : \/ SkipDelegation(s)
                         \/ SignFails(s)
                         \/ \E good \in BOOLEAN : SignDelegation(s, good)
    \/ EndBatchUnsent
    \/ BeginSubmit

----------------------------------------------------------------------------
(* Life cycle. quit is only looked at while the loop waits for the ticker,  *)
(* and select may still prefer a ticker event that is ready.                *)

Stop ==
    /\ phase # "down"
    /\ ~quit
    /\ quit' = TRUE
    /\ UNCHANGED <<chainVars, phase, queryVars, submitVars, left, crashes>>

ExitLoop ==
    /\ phase = "idle"
    /\ quit
    /\ phase' = "exited"
    /\ UNCHANGED <<chainVars, queryVars, submitVars, loopVars>>

(* Everything the process holds in memory is gone; the chain and its        *)
(* mempool are not.                                                         *)
Die ==
    /\ phase' = "down"
    /\ pageKey' = 0 /\ page' = {} /\ pageLen' = 0 /\ nextKey' = 0
    /\ dels' = <<>>
    /\ cache' = {}
    /\ covSigs' = <<>> /\ msgs' = <<>> /\ attempts' = 0
    /\ dupSeen' = FALSE /\ outcome' = "none"
    /\ left' = 0
    /\ quit' = FALSE
    /\ crashes' = crashes + 1
    /\ UNCHANGED chainVars

Crash ==
    /\ phase # "down"
    /\ crashes < MaxCrashes
    /\ Die

(* GetStakingTime panics while the batch is checked.                        *)
Panic ==
    /\ crashes < MaxCrashes
    /\ phase = "sign"
    /\ left > 0
    /\ Panics(Head(dels))
    /\ Die

(* NewEmulator and Start.                                                   *)
Restart ==
    /\ phase = "down"
    /\ phase' = "idle"
    /\ UNCHANGED <<chainVars, queryVars, submitVars, loopVars>>

----------------------------------------------------------------------------

Next ==
    \/ Environment
    \/ Tick
    \/ Query
    \/ SignStep
    \/ Send
    \/ Stop
    \/ ExitLoop
    \/ Crash
    \/ Panic
    \/ Restart

Spec == Init /\ [][Next]_vars

----------------------------------------------------------------------------
(* Safety *)

(* This member's signature is made for, sent for and recorded on no other   *)
(* delegations than those it may sign: its key is in the committee of the   *)
(* delegation's parameters (and, for a stake expansion, of the previous     *)
(* delegation's), and every term agrees with those parameters. Stale pages, *)
(* late transactions, restarts and retries do not matter.                   *)
SignsOnlyDeserved ==
    /\ \A d \in Del : Own \in sigs[d] => Deserves(d)
    /\ \A tx \in mempool \cup {covSigs, msgs} :
            \A d \in Carried(tx) : Deserves(d)

(* Every parameter version a queued delegation needs was cached when the    *)
(* filter accepted it, so the lookup in AddCovenantSignatures, whose error  *)
(* would throw away the signatures of the whole batch, never fails.         *)
CacheCoversBatch ==
    /\ \A i \in 1 .. Len(dels) : VersionsRead(dels[i].del) \subseteq cache
    /\ phase = "sign" => ~ParamsLookupFails

(* The resending loop never sends an empty transaction: it runs out of      *)
(* attempts no later than out of messages.                                  *)
NeverSendsEmpty == phase = "send" => attempts \in 1 .. Len(msgs)

(* The chain will never take m (again).                                     *)
Settled(m) == Own \in sigs[m.del] \/ IsInvalid(m)

(* Only messages the chain itself refused for good are left out of a        *)
(* resend: whatever of the batch is no longer to be sent is already         *)
(* recorded or can never be.                                                *)
DroppedOnlyIfRefused ==
    phase = "send" =>
        \A i \in 1 .. Len(covSigs) :
            \/ \E j \in 1 .. Len(msgs) : msgs[j] = covSigs[i]
            \/ Settled(covSigs[i])

(* AddCovenantSignatures returns no error only when nothing of the batch is *)
(* left to be done: each of its signatures is on chain or was refused for   *)
(* good.                                                                    *)
SuccessMeansSettled ==
    outcome = "ok" => \A i \in 1 .. Len(covSigs) : Settled(covSigs[i])

----------------------------------------------------------------------------
(* Liveness *)

SendReturns ==
    /\ phase = "send"
    /\ \/ SendIncluded
       \/ SendFails
       \/ \E i \in 1 .. Len(msgs) : SendRefusedLast(i) \/ SendRefusedRetry(i)

(* Every call returns, the loop never pauses between two calls, the ticker  *)
(* keeps firing and the operator restarts a crashed daemon.                 *)
CallsReturn ==
    /\ WF_vars(Tick)
    /\ WF_vars(Query)
    /\ WF_vars(SignStep)
    /\ WF_vars(Send /\ SendReturns)
    /\ WF_vars(Restart)

(* A remote call that is made again and again does not fail every time.     *)
CallsSucceed ==
    /\ SF_vars(Query /\ FetchPage)
    /\ \A d \in Del :
        /\ SF_vars(Query /\ \E s \in page :
                        s.del = d /\ (FilterAccept(s) \/ FilterReject(s)))
        /\ SF_vars(\E s \in Queued : s.del = d /\ SignDelegation(s, TRUE))
    /\ SF_vars(Send /\ SendIncluded)
    /\ SF_vars(Send /\ \E i \in 1 .. Len(msgs) :
                        SendRefusedLast(i) \/ SendRefusedRetry(i))

(* select picks at random among the channels that are ready.                *)
SelectIsFair == SF_vars(ExitLoop)

FairSpec == Spec /\ CallsReturn /\ CallsSucceed /\ SelectIsFair

(* A pending delegation this member may sign is signed by it, whatever      *)
(* invalid delegations, refused messages, lost answers and crashes come in  *)
(* between, unless it leaves the pending list first or the daemon is        *)
(* stopped.                                                                 *)
EventuallySigned ==
    \A d \in Del :
        Deserves(d) =>
            (status[d] = "pending" ~>
                Own \in sigs[d] \/ status[d] # "pending" \/ quit)

(* Stop, which waits for the loop, returns (or the process dies first).     *)
StopCompletes == quit ~> (phase = "exited" \/ ~quit)

----------------------------------------------------------------------------
(* Refinement *)

CM == INSTANCE CovenantMember
        WITH Deserving <- {d \in Del : Deserves(d)},
             state <- status,
             signed <- {d \in Del : Own \in sigs[d]}

(* The daemon and the chain together implement the committee member's       *)
(* promise: signed at most once, only when open, only when deserved, never  *)
(* withdrawn.                                                               *)
MemberSpec == CM!Spec
=============================================================================
