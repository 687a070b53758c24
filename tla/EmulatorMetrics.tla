-------------------------- MODULE EmulatorMetrics --------------------------
(***************************************************************************)
(* The daemon of CovenantEmulator with the metrics it keeps: the counters  *)
(* of submitted and of failed delegations, the gauge of pending ones, and  *)
(* the time keeper that the submission loop writes and the metrics loop    *)
(* exports. Of a time only matters whether it has been recorded. All of it *)
(* lives in the process and starts from zero after a crash.                *)
(***************************************************************************)
EXTENDS CovenantEmulator

CONSTANT MaxRounds      \* bound on the ticker's events, so on the counters

ASSUME MetricsAssumption == MaxRounds \in Nat

VARIABLES
    submitted,      \* ce_total_sign_delegations_submitted
    failed,         \* ce_total_failed_sign_delegations
    pendingGauge,   \* ce_current_pending_delegations
    timer,          \* the times in metricsTimeKeeper that are set
    exported,       \* the seconds_since gauges have been set
    rounds          \* ticker events so far

metricsVars == <<submitted, failed, pendingGauge, timer, exported>>
meteredVars == <<vars, metricsVars, rounds>>

NoMetrics ==
    /\ submitted = 0 /\ failed = 0 /\ pendingGauge = 0
    /\ timer = {} /\ exported = FALSE

MeteredInit == Init /\ NoMetrics /\ rounds = 0

----------------------------------------------------------------------------
(* What the submission loop records                                         *)

(* A query that succeeds returns the delegations the gauge then shows.      *)
RecordPending ==
    /\ pendingGauge' = IF phase' = "batch" THEN Len(dels') ELSE pendingGauge
    /\ UNCHANGED <<submitted, failed, timer, exported>>

(* Emulator.SignTransactions: a start for every call of the signer, a       *)
(* finish for those that succeed.                                           *)
RecordCallFailed ==
    /\ timer' \in {timer, timer \cup {"signStart"}}
    /\ UNCHANGED <<submitted, failed, pendingGauge, exported>>

(* Mutant: the finish of a call is not recorded.                            *)
RecordStartOnly ==
    /\ timer' = timer \cup {"signStart"}
    /\ UNCHANGED <<submitted, failed, pendingGauge, exported>>

RecordSigned ==
    /\ timer' = timer \cup {"signStart", "signFinish"}
    /\ UNCHANGED <<submitted, failed, pendingGauge, exported>>

(* Mutant: the batch that failed is not counted.                            *)
RecordSuccessOnly ==
    /\ IF phase' = "batch" /\ outcome' = "ok"
          THEN /\ submitted' = submitted + Len(covSigs)
               /\ timer' = timer \cup {"submission"}
          ELSE UNCHANGED <<submitted, timer>>
    /\ UNCHANGED <<failed, pendingGauge, exported>>

(* The end of AddCovenantSignatures, once the submission returns.           *)
RecordSubmission ==
    /\ IF phase' = "batch"
          THEN IF outcome' = "ok"
                  THEN /\ submitted' = submitted + Len(covSigs)
                       /\ timer' = timer \cup {"submission"}
                       /\ UNCHANGED failed
                  ELSE /\ failed' = failed + Len(covSigs)
                       /\ UNCHANGED <<submitted, timer>>
          ELSE UNCHANGED <<submitted, failed, timer>>
    /\ UNCHANGED <<pendingGauge, exported>>

----------------------------------------------------------------------------
(* Every step of CovenantEmulator, with what the code records in it         *)

Dies == phase # "down" /\ phase' = "down"

Lost ==
    /\ submitted' = 0 /\ failed' = 0 /\ pendingGauge' = 0
    /\ timer' = {} /\ exported' = FALSE

Signs == Len(covSigs') > Len(covSigs)

(* The next delegation is done with, although nothing kept it from the      *)
(* signer.                                                                  *)
CallFails ==
    /\ phase' = "sign" /\ dels' # dels
    /\ ~Signs /\ ReachesSigner(Head(dels))

(* A batch of which nothing was signed adds zero to the failed ones.        *)
RecordMetrics ==
    CASE Dies -> Lost
      [] ~Dies /\ phase \in {"idle", "fetch", "filter"} -> RecordPending
      [] ~Dies /\ phase = "sign" /\ Signs -> RecordSigned
      [] ~Dies /\ phase = "sign" /\ CallFails -> RecordCallFailed
      [] ~Dies /\ phase = "send" -> RecordSubmission
      [] OTHER -> UNCHANGED metricsVars

MeteredStep ==
    /\ Next
    /\ RecordMetrics
    /\ rounds' = IF phase = "idle" /\ phase' \in {"fetch", "batch"}
                    THEN rounds + 1 ELSE rounds
    /\ rounds' <= MaxRounds

(* metricsUpdateLoop: nothing is exported before all three times are known. *)
UpdatePrometheusMetrics ==
    /\ phase # "down"
    /\ {"signStart", "signFinish", "submission"} \subseteq timer
    /\ exported' = TRUE
    /\ UNCHANGED <<vars, submitted, failed, pendingGauge, timer, rounds>>

MeteredNext == MeteredStep \/ UpdatePrometheusMetrics

MeteredSpec == MeteredInit /\ [][MeteredNext]_meteredVars

----------------------------------------------------------------------------

(* Signatures of this member on the chain, or on their way to it.           *)
OutThere ==
    {d \in Del : Own \in sigs[d]} \cup UNION {Carried(tx) : tx \in mempool}

(* The counters account for every signature that has left a process that    *)
(* did not die: those on the chain and those still in flight, whether their *)
(* submission was reported as a success, as a failure (and the transaction  *)
(* landed later), or has not returned yet.                                  *)
CountersCoverSignatures ==
    crashes = 0 =>
        Cardinality(OutThere) <=
            submitted + failed + (IF phase = "send" THEN Len(covSigs) ELSE 0)

(* "only start updating metrics after the first submission is finished":    *)
(* a submission that succeeded leaves nothing for the metrics loop to wait  *)
(* for, since a batch with no signature never succeeds.                     *)
SubmissionCompletesTimer ==
    "submission" \in timer => {"signStart", "signFinish"} \subseteq timer
=============================================================================
