--------------------------- MODULE CovenantMember ---------------------------
(***************************************************************************)
(* What one covenant committee member promises, without any mechanism: its *)
(* signature is added to a delegation at most once, only while the         *)
(* delegation is open, only to delegations that deserve it, and is never   *)
(* withdrawn. Several signatures may appear at once.                       *)
(***************************************************************************)
CONSTANTS Del, Deserving

VARIABLES
    state,      \* state[d]: the delegation's state on chain
    signed      \* delegations that carry this member's signature

vars == <<state, signed>>

Init ==
    /\ state = [d \in Del |-> "absent"]
    /\ signed = {}

Create(d) ==
    /\ state[d] = "absent"
    /\ state' = [state EXCEPT ![d] = "pending"]
    /\ UNCHANGED signed

Expire(d) ==
    /\ state[d] \in {"pending", "verified"}
    /\ state' = [state EXCEPT ![d] = "expired"]
    /\ UNCHANGED signed

(* Other members complete the quorum.                                       *)
Verify(d) ==
    /\ state[d] = "pending"
    /\ state' = [state EXCEPT ![d] = "verified"]
    /\ UNCHANGED signed

(* This member signs the delegations in S; those in Q reach their quorum.   *)
Sign(S) ==
    /\ S # {}
    /\ S \subseteq Deserving \ signed
    /\ \A d \in S : state[d] \in {"pending", "verified"}
    /\ signed' = signed \cup S
    /\ \E Q \in SUBSET S :
         state' = [d \in Del |-> IF d \in Q /\ state[d] = "pending"
                                    THEN "verified" ELSE state[d]]

Next ==
    \/ \E d \in Del : Create(d) \/ Expire(d) \/ Verify(d)
    \/ \E S \in SUBSET Deserving : Sign(S)

Spec == Init /\ [][Next]_vars
=============================================================================
