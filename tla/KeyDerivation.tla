--------------------------- MODULE KeyDerivation ---------------------------
(***************************************************************************)
(* covenant-signer derive-child-key: a derivation path of five elements    *)
(* becomes the indexes of five BIP32 derivations. An element is a number   *)
(* with or without the postfix "h"; the text of a number that is no number *)
(* is NaN. Indexes from HardenedKeyStart on, half of the uint32 range,     *)
(* derive hardened keys. What the runs of the command derived is kept.     *)
(***************************************************************************)
EXTENDS Integers, Sequences, FiniteSets

CONSTANTS
    HardenedKeyStart,   \* 2^31 in the code
    NaN,                \* not a number
    Paths,              \* paths an operator may write
    MaxDerived          \* bound on the runs of the command

ASSUME DerivationAssumption ==
    /\ HardenedKeyStart \in Nat \ {0}
    /\ NaN \notin Int
    /\ Paths \subseteq Seq([number : Nat \cup {NaN}, h : BOOLEAN])
    /\ MaxDerived \in Nat

ExpectedDerivationDepth == 5
Uint32Size == 2 * HardenedKeyStart
Invalid == -1

VARIABLE derived        \* paths of earlier runs and the indexes they gave

(* strconv.ParseUint of 32 bits                                             *)
ParseUintOK(number) == number \in Nat /\ number < Uint32Size

(* Mutant: the sum is not checked for overflow.                             *)
ParseHardenedWraps(elem) ==
    IF elem.h /\ ParseUintOK(elem.number)
    THEN (HardenedKeyStart + elem.number) % Uint32Size
    ELSE Invalid

ParseHardened(elem) ==
    IF elem.h /\ ParseUintOK(elem.number) /\ elem.number < HardenedKeyStart
    THEN (HardenedKeyStart + elem.number) % Uint32Size
    ELSE Invalid

ParseNormal(elem) ==
    IF ~elem.h /\ ParseUintOK(elem.number) THEN elem.number ELSE Invalid

(* The indexes of a path, or Invalid ones among them.                       *)
Indexes(path) ==
    [i \in 1 .. ExpectedDerivationDepth |->
        IF i <= 3 THEN ParseHardened(path[i]) ELSE ParseNormal(path[i])]

ParsePathOK(path) ==
    /\ Len(path) = ExpectedDerivationDepth
    /\ \A i \in 1 .. ExpectedDerivationDepth : Indexes(path)[i] # Invalid

----------------------------------------------------------------------------

DerivationInit == derived = {}

(* The keys of Derive are taken to differ when the indexes do.              *)
DeriveChildKey(path) ==
    /\ Cardinality(derived) < MaxDerived
    /\ ParsePathOK(path)
    /\ derived' = derived \cup {[path |-> path, indexes |-> Indexes(path)]}

DerivationNext == \E path \in Paths : DeriveChildKey(path)

DerivationSpec == DerivationInit /\ [][DerivationNext]_derived

----------------------------------------------------------------------------

(* Two paths that are both accepted and differ derive different keys: no    *)
(* index wraps around, no postfix is lost, and the purpose, coin type and   *)
(* account levels are hardened whatever number is written.                  *)
DistinctPathsDistinctKeys ==
    \A d, e \in derived :
        /\ d.indexes = e.indexes => d.path = e.path
        /\ \A i \in 1 .. 3 : d.indexes[i] \in HardenedKeyStart .. Uint32Size - 1
=============================================================================
