----------------------------- MODULE WireFormat -----------------------------
(***************************************************************************)
(* What one signing request goes through: the emulator's SigningRequest is *)
(* copied into the signer's request, put on the wire in hex, parsed and    *)
(* signed by the signer; the signatures go back over the wire and end in a *)
(* MsgAddCovenantSigs. Fields of equal type are copied by name at seven    *)
(* places, and every conversion has its own idea of what is empty.         *)
(*                                                                         *)
(* Byte strings are model values. Empty is the byte string of length zero; *)
(* Junk stands for a value whose text no decoder accepts (only a caller    *)
(* other than the emulator's client sends one).                            *)
(***************************************************************************)
EXTENDS Integers, Sequences

CONSTANTS
    Requests,   \* the signing requests callers make
    Empty,      \* the empty byte string
    Junk,       \* an undecodable value
    Nil         \* the nil pointer

VARIABLES
    stage,      \* the form the request has reached
    request,    \* the SigningRequest it started as
    data        \* the value in the form of the stage

wireVars == <<stage, request, data>>

Stage == {"none", "request", "parsedRequest", "wireRequest", "serverRequest",
          "signed", "wireResponse", "parsedResponse", "message",
          "refused", "unsigned"}

(* A signature is named by what it signs: the transaction, the transaction  *)
(* output it spends, the script it is made for and, for an adaptor          *)
(* signature, the finality provider's encryption key.                       *)
Sig(tx, spends, idx, script, fp) ==
    [tx |-> tx, spends |-> spends, idx |-> idx, script |-> script, fp |-> fp]

----------------------------------------------------------------------------
(* Copies between the structures of the emulator and of the signer          *)

covenantRequestToSignerRequestStkExp(e) ==
    [PreviousActiveStakeTx |-> e.PreviousActiveStakeTx,
     PreviousStakingOutputIdx |-> e.PreviousStakingOutputIdx,
     OtherFundingOutput |-> e.OtherFundingOutput,
     PreviousActiveStakeUnbondingScript |-> e.PreviousActiveStakeUnbondingPkScriptPath]

(* Mutant: the two scripts of the staking output are swapped.               *)
SwapsScripts(r) ==
    [StakingTx |-> r.StakingTx, SlashingTx |-> r.SlashingTx,
     UnbondingTx |-> r.UnbondingTx, SlashUnbondingTx |-> r.SlashUnbondingTx,
     StakingOutputIdx |-> r.StakingOutputIdx,
     SlashingScript |-> r.StakingTxUnbondingPkScriptPath,
     UnbondingScript |-> r.SlashingPkScriptPath,
     UnbondingSlashingScript |-> r.UnbondingTxSlashingPkScriptPath,
     FpEncKeys |-> r.FpEncKeys,
     StakeExp |->
        IF r.StakeExp = Nil THEN Nil
        ELSE covenantRequestToSignerRequestStkExp(r.StakeExp)]

covenantRequestToSignerRequest(r) ==
    [StakingTx |-> r.StakingTx, SlashingTx |-> r.SlashingTx,
     UnbondingTx |-> r.UnbondingTx, SlashUnbondingTx |-> r.SlashUnbondingTx,
     StakingOutputIdx |-> r.StakingOutputIdx,
     SlashingScript |-> r.SlashingPkScriptPath,
     UnbondingScript |-> r.StakingTxUnbondingPkScriptPath,
     UnbondingSlashingScript |-> r.UnbondingTxSlashingPkScriptPath,
     FpEncKeys |-> r.FpEncKeys,
     StakeExp |->
        IF r.StakeExp = Nil THEN Nil
        ELSE covenantRequestToSignerRequestStkExp(r.StakeExp)]

signerResponseToCovenantResponse(p) ==
    [SlashSigs |-> p.SlashAdaptorSigs, UnbondingSig |-> p.UnbondingSig,
     SlashUnbondingSigs |-> p.SlashUnbondingAdaptorSigs,
     StkExtSig |-> p.StakeExpSig]

----------------------------------------------------------------------------
(* The wire: bytes as hexadecimal text. No bytes are the empty text, which  *)
(* is also what a field that was left out decodes from.                     *)

Text(b) == [hex |-> b]
NoText == Text(Empty)
Texts(s) == [i \in DOMAIN s |-> Text(s[i])]
HexOK(t) == t.hex # Junk
Decode(t) == t.hex

(* The text is that of a transaction, an output, a key or a signature.      *)
ObjectOK(t) == HexOK(t) /\ t # NoText

ToSignTransactionRequest(p) ==
    [StakingTxHex |-> Text(p.StakingTx), SlashingTxHex |-> Text(p.SlashingTx),
     UnbondingTxHex |-> Text(p.UnbondingTx),
     SlashUnbondingTxHex |-> Text(p.SlashUnbondingTx),
     StakingOutputIdx |-> p.StakingOutputIdx,
     SlashingScriptHex |-> Text(p.SlashingScript),
     UnbondingScriptHex |-> Text(p.UnbondingScript),
     UnbondingSlashingScriptHex |-> Text(p.UnbondingSlashingScript),
     FpEncKeys |-> Texts(p.FpEncKeys),
     StakeExpansion |->
        IF p.StakeExp = Nil THEN Nil
        ELSE [PreviousActiveStakeTxHex |-> Text(p.StakeExp.PreviousActiveStakeTx),
              OtherFundingOutputHex |-> Text(p.StakeExp.OtherFundingOutput),
              PrevStakingOutputIdx |-> p.StakeExp.PreviousStakingOutputIdx,
              PreviousActiveStakeUnbondingScriptHex |->
                Text(p.StakeExp.PreviousActiveStakeUnbondingScript)]]

(* Mutant: the script of a request that is no expansion is asked for.       *)
ParsesExpansionsOnly(w) ==
    /\ \A t \in {w.StakingTxHex, w.SlashingTxHex, w.UnbondingTxHex,
                 w.SlashUnbondingTxHex, w.SlashingScriptHex,
                 w.UnbondingScriptHex, w.UnbondingSlashingScriptHex} : ObjectOK(t)
    /\ \A i \in DOMAIN w.FpEncKeys : ObjectOK(w.FpEncKeys[i])
    /\ w.StakeExpansion # Nil

(* The scripts of the delegation must not be empty; the unbonding script of *)
(* the previous delegation may.                                             *)
ParseSigningRequestOK(w) ==
    /\ \A t \in {w.StakingTxHex, w.SlashingTxHex, w.UnbondingTxHex,
                 w.SlashUnbondingTxHex, w.SlashingScriptHex,
                 w.UnbondingScriptHex, w.UnbondingSlashingScriptHex} : ObjectOK(t)
    /\ \A i \in DOMAIN w.FpEncKeys : ObjectOK(w.FpEncKeys[i])
    /\ w.StakeExpansion # Nil =>
        /\ ObjectOK(w.StakeExpansion.PreviousActiveStakeTxHex)
        /\ ObjectOK(w.StakeExpansion.OtherFundingOutputHex)
        /\ HexOK(w.StakeExpansion.PreviousActiveStakeUnbondingScriptHex)

ParseSigningRequest(w) ==
    [StakingTx |-> Decode(w.StakingTxHex), SlashingTx |-> Decode(w.SlashingTxHex),
     UnbondingTx |-> Decode(w.UnbondingTxHex),
     SlashUnbondingTx |-> Decode(w.SlashUnbondingTxHex),
     StakingOutputIdx |-> w.StakingOutputIdx,
     SlashingScript |-> Decode(w.SlashingScriptHex),
     UnbondingScript |-> Decode(w.UnbondingScriptHex),
     UnbondingSlashingScript |-> Decode(w.UnbondingSlashingScriptHex),
     FpEncKeys |-> [i \in DOMAIN w.FpEncKeys |-> Decode(w.FpEncKeys[i])],
     StakeExp |->
        IF w.StakeExpansion = Nil THEN Nil
        ELSE [PreviousActiveStakeTx |->
                Decode(w.StakeExpansion.PreviousActiveStakeTxHex),
              OtherFundingOutput |-> Decode(w.StakeExpansion.OtherFundingOutputHex),
              PreviousStakingOutputIdx |-> w.StakeExpansion.PrevStakingOutputIdx,
              PreviousActiveStakeUnbondingScript |->
                Decode(w.StakeExpansion.PreviousActiveStakeUnbondingScriptHex)]]

----------------------------------------------------------------------------
(* Signing: an adaptor signature of both slashing transactions for every    *)
(* finality provider, in the order of the keys.                             *)

slashSig(q, fp) ==
    Sig(q.SlashingTx, q.StakingTx, q.StakingOutputIdx, q.SlashingScript, fp)

(* The unbonding transaction has one output.                                *)
slashUnbondingSig(q, fp) ==
    Sig(q.SlashUnbondingTx, q.UnbondingTx, 0, q.UnbondingSlashingScript, fp)

unbondSig(q) ==
    Sig(q.UnbondingTx, q.StakingTx, q.StakingOutputIdx, q.UnbondingScript, Nil)

(* The expansion's staking transaction spends the previous staking output   *)
(* and a second one, which the signature covers.                            *)
stkExpSig(q) ==
    Sig(q.StakingTx,
        <<q.StakeExp.PreviousActiveStakeTx, q.StakeExp.OtherFundingOutput>>,
        q.StakeExp.PreviousStakingOutputIdx,
        q.StakeExp.PreviousActiveStakeUnbondingScript, Nil)

SignTransactions(q) ==
    [SlashAdaptorSigs |-> [i \in DOMAIN q.FpEncKeys |-> slashSig(q, q.FpEncKeys[i])],
     UnbondingSig |-> unbondSig(q),
     SlashUnbondingAdaptorSigs |->
        [i \in DOMAIN q.FpEncKeys |-> slashUnbondingSig(q, q.FpEncKeys[i])],
     StakeExpSig |-> IF q.StakeExp = Nil THEN Nil ELSE stkExpSig(q)]

----------------------------------------------------------------------------
(* The way back                                                             *)

ToResponse(p) ==
    [SlashingTransactionsAdaptorSignatures |-> Texts(p.SlashAdaptorSigs),
     UnbondingTransactionSignature |-> Text(p.UnbondingSig),
     SlashUnbondingTransactionsAdaptorSignatures |->
        Texts(p.SlashUnbondingAdaptorSigs),
     StakeExpansionTransactionSignature |->
        IF p.StakeExpSig = Nil THEN NoText ELSE Text(p.StakeExpSig)]

ToParsedSigningResponseOK(w) ==
    /\ w.SlashingTransactionsAdaptorSignatures # <<>>
    /\ w.SlashUnbondingTransactionsAdaptorSignatures # <<>>

ToParsedSigningResponse(w) ==
    LET Sigs(ts) == [i \in DOMAIN ts |-> Decode(ts[i])]
    IN [SlashAdaptorSigs |-> Sigs(w.SlashingTransactionsAdaptorSignatures),
        UnbondingSig |-> Decode(w.UnbondingTransactionSignature),
        SlashUnbondingAdaptorSigs |->
            Sigs(w.SlashUnbondingTransactionsAdaptorSignatures),
        StakeExpSig |-> IF w.StakeExpansionTransactionSignature = NoText THEN Nil
                        ELSE Decode(w.StakeExpansionTransactionSignature)]

(* CovenantSigs of the delegation, and from it the message.                 *)
MsgAddCovenantSigs(r, c) ==
    [StakingTxHash |-> r.StakingTx,
     SlashingTxSigs |-> c.SlashSigs, UnbondingTxSig |-> c.UnbondingSig,
     SlashingUnbondingTxSigs |-> c.SlashUnbondingSigs,
     StakeExpansionTxSig |-> c.StkExtSig]

----------------------------------------------------------------------------

(* A request lists its finality providers in a sequence, and the structures *)
(* made for an expansion are neither a nil pointer nor empty bytes.         *)
ASSUME WireAssumption ==
    \A r \in Requests :
        /\ r.FpEncKeys \in Seq({r.FpEncKeys[i] : i \in DOMAIN r.FpEncKeys})
        /\ r.StakeExp # Nil =>
            LET p == covenantRequestToSignerRequest(r)
            IN  /\ p.StakeExp # Nil
                /\ ToSignTransactionRequest(p).StakeExpansion # Nil
                /\ stkExpSig(p) \notin {Nil, Empty}

WireInit == stage = "none" /\ request = Nil /\ data = Nil

(* A caller has put a request together.                                     *)
Build(r) ==
    /\ stage = "none"
    /\ stage' = "request"
    /\ request' = r /\ data' = r

Move(from, to, value) ==
    /\ stage = from
    /\ stage' = to
    /\ data' = value
    /\ UNCHANGED request

Copy == Move("request", "parsedRequest", covenantRequestToSignerRequest(data))

Marshal == Move("parsedRequest", "wireRequest", ToSignTransactionRequest(data))

(* A request that does not parse is answered with a bad request.            *)
Parse ==
    /\ stage = "wireRequest"
    /\ IF ParseSigningRequestOK(data)
          THEN Move("wireRequest", "serverRequest", ParseSigningRequest(data))
          ELSE Move("wireRequest", "refused", Nil)

Sign == Move("serverRequest", "signed", SignTransactions(data))

(* The signer is locked, or one of the transactions cannot be signed. An    *)
(* index of the previous output beyond its transaction ends the handler     *)
(* with a panic, which the client sees as an error as well.                 *)
SignFails == Move("serverRequest", "unsigned", Nil)

Respond == Move("signed", "wireResponse", ToResponse(data))

ParseResponse ==
    /\ stage = "wireResponse"
    /\ IF ToParsedSigningResponseOK(data)
          THEN Move("wireResponse", "parsedResponse", ToParsedSigningResponse(data))
          ELSE Move("wireResponse", "refused", Nil)

Submit == Move("parsedResponse", "message",
    MsgAddCovenantSigs(request, signerResponseToCovenantResponse(data)))

WireNext ==
    \/ \E r \in Requests : Build(r)
    \/ Copy \/ Marshal \/ Parse \/ Sign \/ SignFails \/ Respond
    \/ ParseResponse \/ Submit

WireSpec == WireInit /\ [][WireNext]_wireVars

----------------------------------------------------------------------------

(* The message about a delegation carries, in the order of its finality     *)
(* providers, an adaptor signature for each of them of the slashing         *)
(* transaction and of the unbonding's slashing transaction, a signature of  *)
(* the unbonding transaction and, exactly for an expansion, one of the      *)
(* staking transaction, each made for the script and the output of its own  *)
(* transaction: no copy on the way exchanges two fields.                    *)
MessageMatchesRequest ==
    stage = "message" =>
    LET r == request
        fps == r.FpEncKeys
    IN  /\ data.StakingTxHash = r.StakingTx
        /\ data.SlashingTxSigs = [i \in DOMAIN fps |->
             Sig(r.SlashingTx, r.StakingTx, r.StakingOutputIdx,
                 r.SlashingPkScriptPath, fps[i])]
        /\ data.SlashingUnbondingTxSigs = [i \in DOMAIN fps |->
             Sig(r.SlashUnbondingTx, r.UnbondingTx, 0,
                 r.UnbondingTxSlashingPkScriptPath, fps[i])]
        /\ data.UnbondingTxSig =
             Sig(r.UnbondingTx, r.StakingTx, r.StakingOutputIdx,
                 r.StakingTxUnbondingPkScriptPath, Nil)
        /\ IF r.StakeExp = Nil THEN data.StakeExpansionTxSig = Nil
           ELSE data.StakeExpansionTxSig =
                Sig(r.StakingTx, <<r.StakeExp.PreviousActiveStakeTx,
                                   r.StakeExp.OtherFundingOutput>>,
                    r.StakeExp.PreviousStakingOutputIdx,
                    r.StakeExp.PreviousActiveStakeUnbondingPkScriptPath, Nil)

(* A request of the emulator names real transactions, the scripts it built  *)
(* and at least one finality provider.                                      *)
Complete(r) ==
    /\ \A f \in {"StakingTx", "SlashingTx", "UnbondingTx", "SlashUnbondingTx",
                 "SlashingPkScriptPath", "StakingTxUnbondingPkScriptPath",
                 "UnbondingTxSlashingPkScriptPath"} : r[f] \notin {Empty, Junk}
    /\ r.FpEncKeys # <<>>
    /\ \A i \in DOMAIN r.FpEncKeys : r.FpEncKeys[i] \notin {Empty, Junk}
    /\ r.StakeExp # Nil =>
        /\ r.StakeExp.PreviousActiveStakeTx \notin {Empty, Junk}
        /\ r.StakeExp.OtherFundingOutput \notin {Empty, Junk}
        /\ r.StakeExp.PreviousActiveStakeUnbondingPkScriptPath # Junk

(* What one side writes the other side accepts: a request that is refused   *)
(* on the way, by the signer's parser or by the client's, was incomplete,   *)
(* with or without an expansion, and one that becomes a message was not.    *)
CompleteRequestsPass ==
    /\ stage = "refused" => ~Complete(request)
    /\ stage = "message" => Complete(request)
=============================================================================
