----------------------------- MODULE MCOperator -----------------------------
(* What an operator does by hand on the host of daemon and signer: prepares *)
(* the daemon's home directory (CovdHome), configures and starts the signer *)
(* (SignerProcess) and derives keys (KeyDerivation). The three share no     *)
(* variable; one moves while the others are where they began.               *)
EXTENDS CovdHome, SignerProcess, KeyDerivation

CONSTANT nan

(* Both kinds of backend and a key name besides the default one.            *)
MCBackends == {"test", "file"}
MCNames == {"", "covenant-key", "mine"}

(* Every signer configuration with these values: the entries the operator   *)
(* must write, and entries that are missing, kept, moved to the daemon's    *)
(* port or unusable.                                                        *)
MCEdits ==
    [keystoreType : {Absent, "cosmos", "hsm"}, backend : {"", "test"},
     keyName : {Absent, "covenant-key", "no-such-key"}, port : {Absent, 9791, 2113},
     metricsHost : {Absent, "name"}, metricsPort : {Absent, 1023, 2112, 2113}]

MCSignerKeys == {"covenant-key"}

(* Indexes of three bits: numbers on both sides of the hardened bound and   *)
(* of the end of the range, at a hardened and at a normal position.         *)
Elems == [number : 0 .. 9 \cup {nan}, h : BOOLEAN]
Zero(hardened) == [number |-> 0, h |-> hardened]
MCPaths ==
    {<<a, Zero(TRUE), Zero(TRUE), b, Zero(FALSE)>> : a, b \in Elems}
        \cup {<<Zero(TRUE), Zero(TRUE), Zero(TRUE), Zero(FALSE)>>}

----------------------------------------------------------------------------

OperatorVars == <<homeVars, processVars, derived>>

OperatorInit == HomeInit /\ ProcessInit /\ DerivationInit

OperatorNext ==
    \/ ProcessInit /\ DerivationInit /\ HomeNext /\ UNCHANGED <<processVars, derived>>
    \/ HomeInit /\ DerivationInit /\ ProcessNext /\ UNCHANGED <<homeVars, derived>>
    \/ HomeInit /\ ProcessInit /\ DerivationNext /\ UNCHANGED <<homeVars, processVars>>

OperatorSpec ==
    /\ OperatorInit /\ [][OperatorNext]_OperatorVars
    /\ ProcessFairness
=============================================================================
