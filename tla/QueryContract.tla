--------------------------- MODULE QueryContract ---------------------------
(***************************************************************************)
(* PendingQuery on its own, with a history of what was true on the chain   *)
(* while the query ran: what a caller of QueryPendingDelegations gets from *)
(* a walk over a list that changes under it.                               *)
(***************************************************************************)
EXTENDS PendingQuery

VARIABLES
    throughout,     \* history: pending ever since the query started
    sometime,       \* history: pending at some time since it started
    signedBefore    \* history: carried Own's signature when it started

history == <<throughout, sometime, signedBefore>>
contractVars == <<chainVars, phase, queryVars, history>>

Init ==
    /\ ChainInit /\ QueryInit
    /\ phase = "idle"
    /\ throughout = {} /\ sometime = {} /\ signedBefore = {}

OwnSigned == {d \in Del : Own \in sigs[d]}

Start ==
    /\ StartQuery
    /\ throughout' = Pending
    /\ sometime' = Pending
    /\ signedBefore' = OwnSigned
    /\ UNCHANGED chainVars

(* The history is about the query that runs.                                *)
Forget == throughout' = {} /\ sometime' = {} /\ signedBefore' = {}

Walk ==
    /\ QueryStep
    /\ IF phase' = "idle" THEN Forget ELSE UNCHANGED history
    /\ UNCHANGED chainVars

(* The submission loop takes the result and records its length as the gauge *)
(* ce_current_pending_delegations.                                          *)
Deliver ==
    /\ phase = "batch"
    /\ phase' = "idle"
    /\ dels' = <<>>
    /\ Forget
    /\ UNCHANGED <<chainVars, pageKey, page, pageLen, nextKey, cache>>

(* A transaction of an earlier round lands.                                 *)
EarlierTxLands(d) ==
    LET tx == <<[del |-> d, good |-> TRUE]>>
    IN  Executes(tx) /\ Execute(tx) /\ UNCHANGED mempool

ChainMoves ==
    /\ ChainStep \/ \E d \in Del : EarlierTxLands(d)
    /\ throughout' = throughout \cap Pending'
    /\ sometime' = IF phase = "idle" THEN {} ELSE sometime \cup Pending'
    /\ UNCHANGED <<phase, queryVars, signedBefore>>

Next == Start \/ Walk \/ Deliver \/ ChainMoves

Spec == Init /\ [][Next]_contractVars

----------------------------------------------------------------------------

(* Everything has its type, and a page is never larger than asked for.      *)
ContractTypeOK ==
    /\ ChainTypeOK /\ QueryTypeOK
    /\ pageLen <= pgLimit /\ Cardinality(page) <= pageLen
    /\ Len(dels) <= DelegationLimit

Returned == {dels[i].del : i \in 1 .. Len(dels)}

(* A query that returns fewer delegations than its limit missed none: every *)
(* delegation that was pending all the while, that this member still has to *)
(* sign and that the filter lets through is in the result, although the     *)
(* store changed between the pages.                                         *)
QueryComplete ==
    phase = "batch" /\ Len(dels) < DelegationLimit =>
        \A d \in throughout \ OwnSigned :
            AcceptDelegationToSign([del |-> d, sigs |-> sigs[d]]) => d \in Returned

(* What the query returns was pending while it ran, is asked of this member *)
(* and was not already signed by it when the query started.                 *)
QuerySound ==
    /\ Returned \subseteq sometime \ signedBefore
    /\ \A d \in Returned : IsKeyInCommittee(d)
=============================================================================
