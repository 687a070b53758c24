------------------------ MODULE QueryContractProofs ------------------------
(***************************************************************************)
(* What a caller of QueryPendingDelegations may rely on, for every store,  *)
(* page size and limit, while the list changes under the walk.             *)
(***************************************************************************)
EXTENDS QueryContract, FiniteSetTheorems, TLAPS

(* The filter's verdict on d, signatures aside.                             *)
Asked(d) ==
    /\ IsKeyInCommittee(d)
    /\ IsStakeExpansion(d) => ValidateStakeExpansion(d)

(* What the result must hold: pending all the while, asked of this member   *)
(* and not signed by it.                                                    *)
Wanted == {d \in throughout \ OwnSigned : Asked(d)}

OnPage == {s.del : s \in page}

(* The limits, and where the walk can stand.                                *)
WalkInv ==
    /\ ContractTypeOK
    /\ IsFiniteSet(page)
    /\ phase \in {"idle", "fetch", "filter", "batch"}
    /\ page # {} => phase = "filter"
    /\ phase = "idle" => dels = <<>>
    /\ phase \in {"fetch", "filter"} => Len(dels) < DelegationLimit

(* The history agrees with the chain, and the page with the history.        *)
HistoryInv ==
    /\ throughout \subseteq Pending
    /\ signedBefore \subseteq OwnSigned
    /\ phase # "idle" => Pending \subseteq sometime
    /\ \A s \in page : /\ s.del \in sometime
                       /\ s.sigs \subseteq sigs[s.del]
                       /\ s.del \in signedBefore => Own \in s.sigs
    /\ QuerySound

(* Nothing wanted lies behind the walk: what is before the page's first key *)
(* is in the result, what is before its last is in the result or waits on   *)
(* the page, and a short page has nothing after it.                         *)
CoverageInv ==
    /\ phase \in {"fetch", "filter"} =>
        \A d \in Wanted : KeyOf(d) < pageKey => d \in Returned
    /\ phase = "filter" =>
        \A d \in Wanted :
            KeyOf(d) >= pageKey /\ (nextKey = 0 \/ KeyOf(d) < nextKey)
                => d \in Returned \cup OnPage
    /\ phase = "filter" /\ pageLen # pgLimit => nextKey = 0
    /\ phase = "batch" /\ Len(dels) < DelegationLimit => Wanted \subseteq Returned

QInv == WalkInv /\ HistoryInv /\ CoverageInv

----------------------------------------------------------------------------
(* Pages                                                                    *)

(* The page size asked for.                                                 *)
LEMMA LimitType == pgLimit \in Nat
BY QueryAssumption DEF pgLimit

(* What the chain can put on a page is finite, and so is every part of it.  *)
LEMMA StoreFinite ==
    ASSUME NEW key, NEW T, T \subseteq From(key)
    PROVE  IsFiniteSet(T) /\ Cardinality(T) \in Nat /\ T \subseteq Del
<1>1. T \subseteq Del
  BY DEF From, Pending
<1>2. IsFiniteSet(T)
  BY <1>1, FS_Subset, RulesAssumption
<1> QED
  BY <1>1, <1>2, FS_CardinalityType

(* A smaller part of a finite set has fewer elements.                       *)
LEMMA PartIsSmaller ==
    ASSUME NEW S, IsFiniteSet(S), NEW T \in SUBSET S, NEW x \in S, x \notin T
    PROVE  Cardinality(T) < Cardinality(S)
<1>1. IsFiniteSet(T) /\ Cardinality(T) <= Cardinality(S) /\ Cardinality(T) # Cardinality(S)
  BY FS_Subset
<1> QED
  BY <1>1, FS_CardinalityType

(* A page holds no more than was asked for: its delegations have different  *)
(* ranks below the limit.                                                   *)
LEMMA PageBound ==
    ASSUME NEW key
    PROVE  Cardinality(PageOf(key)) \in Nat /\ Cardinality(PageOf(key)) <= pgLimit
<1> DEFINE Below(d) == {e \in From(key) : e < d}
<1> DEFINE rank == [d \in PageOf(key) |-> Cardinality(Below(d))]
<1>1. /\ PageOf(key) \subseteq From(key) /\ From(key) \subseteq Del
      /\ Cardinality(PageOf(key)) \in Nat
  BY StoreFinite DEF PageOf
<1>2. \A d \in Del : IsFiniteSet(Below(d)) /\ Cardinality(Below(d)) \in Nat
  BY StoreFinite
<1>3. rank \in [PageOf(key) -> 0 .. pgLimit - 1]
  BY <1>1, <1>2, LimitType DEF PageOf
<1>4. ASSUME NEW d \in PageOf(key), NEW e \in PageOf(key), d < e
      PROVE  Cardinality(Below(d)) < Cardinality(Below(e))
  <2>1. d \in Del /\ e \in Del /\ d \in Nat /\ e \in Nat
    BY <1>1, RulesAssumption
  <2>2. \A x \in From(key) : x \in Nat
    BY <1>1, RulesAssumption
  <2>3. Below(d) \subseteq Below(e) /\ d \in Below(e) /\ d \notin Below(d)
    BY <1>1, <1>4, <2>1, <2>2
  <2> HIDE DEF Below
  <2> QED
    BY <1>2, <2>1, <2>3, PartIsSmaller
<1>5. rank \in Injection(PageOf(key), 0 .. pgLimit - 1)
  <2>1. ASSUME NEW d \in PageOf(key), NEW e \in PageOf(key), rank[d] = rank[e]
        PROVE  d = e
    <3>1. d \in Nat /\ e \in Nat
      BY <1>1, RulesAssumption
    <3>2. ~(d < e) /\ ~(e < d)
      BY <1>1, <1>2, <1>4, <2>1
    <3> QED
      BY <3>1, <3>2
  <2> QED
    BY <1>3, <2>1 DEF Injection, IsInjective
<1>6. IsFiniteSet(0 .. pgLimit - 1) /\ Cardinality(0 .. pgLimit - 1) = pgLimit
  BY LimitType, FS_Interval
<1>7. Cardinality(PageOf(key)) <= Cardinality(0 .. pgLimit - 1)
  BY <1>5, <1>6, FS_Injection
<1> QED
  BY <1>1, <1>6, <1>7

(* A page that another one follows is full.                                 *)
LEMMA ShortPageIsLast ==
    ASSUME NEW key, NEW k, IsNextKey(key, k), Cardinality(PageOf(key)) # pgLimit
    PROVE  k = 0
<1> DEFINE rest == From(key) \ PageOf(key)
<1> SUFFICES ASSUME rest # {} PROVE FALSE
  BY DEF IsNextKey
<1>1. PICK d \in rest : \A e \in rest : d <= e
  BY DEF IsNextKey
<1> DEFINE Below == {e \in From(key) : e < d}
<1>2. From(key) \subseteq Del /\ \A e \in From(key) : e \in Nat
  BY StoreFinite, RulesAssumption
<1>3. Below \subseteq PageOf(key)
  BY <1>1, <1>2
<1>4. IsFiniteSet(PageOf(key)) /\ Cardinality(Below) \in Nat
  BY StoreFinite DEF PageOf
<1>5. Cardinality(Below) <= Cardinality(PageOf(key))
  BY <1>3, <1>4, FS_Subset
<1>6. ~(Cardinality(Below) < pgLimit)
  BY <1>1 DEF PageOf
<1> QED
  BY <1>4, <1>5, <1>6, PageBound, LimitType

(* Every delegation from the key on is on the page or not before the next   *)
(* key.                                                                     *)
LEMMA PageCovers ==
    ASSUME NEW key, NEW k, IsNextKey(key, k), NEW d \in From(key),
           k = 0 \/ KeyOf(d) < k
    PROVE  d \in PageOf(key)
<1> SUFFICES ASSUME d \notin PageOf(key) PROVE FALSE
  OBVIOUS
<1>1. PICK e \in From(key) : k = KeyOf(e) /\ e <= d
  BY DEF IsNextKey
<1>2. d \in Nat /\ e \in Nat
  BY StoreFinite, RulesAssumption
<1> QED
  BY <1>1, <1>2 DEF KeyOf

----------------------------------------------------------------------------
(* The chain's steps                                                        *)

(* Recording keeps the types and withdraws no signature.                    *)
LEMMA RecordKeeps ==
    ASSUME ChainTypeOK, NEW newSigs \in [Del -> SUBSET Member], Record(newSigs),
           \A d \in Del : sigs[d] \subseteq newSigs[d]
    PROVE  /\ status' \in [Del -> Status] /\ sigs' \in [Del -> SUBSET Member]
           /\ \A d \in Del : sigs[d] \subseteq sigs'[d]
BY DEF ChainTypeOK, Record, Status

(* So does the execution of a transaction.                                  *)
LEMMA ExecuteKeeps ==
    ASSUME ChainTypeOK, NEW tx, Execute(tx)
    PROVE  /\ status' \in [Del -> Status] /\ sigs' \in [Del -> SUBSET Member]
           /\ \A d \in Del : sigs[d] \subseteq sigs'[d]
<1> DEFINE newSigs == [d \in Del |-> IF d \in Carried(tx) THEN sigs[d] \cup {Own}
                                                         ELSE sigs[d]]
<1>1. newSigs \in [Del -> SUBSET Member]
  BY RulesAssumption DEF ChainTypeOK
<1>2. Record(newSigs) /\ \A d \in Del : sigs[d] \subseteq newSigs[d]
  BY DEF Execute
<1> HIDE DEF newSigs
<1> QED
  BY <1>1, <1>2, RecordKeeps

(* And so does every step of the chain.                                     *)
LEMMA ChainKeeps ==
    ASSUME ChainTypeOK, ChainMoves
    PROVE  ChainTypeOK' /\ \A d \in Del : sigs[d] \subseteq sigs'[d]
<1>1. ASSUME NEW d \in Del, CreateDelegation(d) \/ Expire(d)
      PROVE  ChainTypeOK' /\ sigs' = sigs
  BY <1>1 DEF CreateDelegation, Expire, ChainTypeOK, Status
<1>2. ASSUME NEW d \in Del, NEW m \in Member, OtherMemberSigns(d, m)
      PROVE  ChainTypeOK' /\ \A e \in Del : sigs[e] \subseteq sigs'[e]
  <2> DEFINE newSigs == [sigs EXCEPT ![d] = @ \cup {m}]
  <2>1. /\ newSigs \in [Del -> SUBSET Member] /\ Record(newSigs) /\ mempool' = mempool
        /\ \A e \in Del : sigs[e] \subseteq newSigs[e]
    BY <1>2 DEF OtherMemberSigns, ChainTypeOK
  <2> HIDE DEF newSigs
  <2> QED
    BY <2>1, RecordKeeps DEF ChainTypeOK
<1>3. ASSUME NEW tx \in mempool, LandLate(tx)
      PROVE  ChainTypeOK' /\ \A e \in Del : sigs[e] \subseteq sigs'[e]
  BY <1>3, ExecuteKeeps DEF LandLate, ChainTypeOK
<1>4. ASSUME NEW tx \in mempool, DropLate(tx)
      PROVE  ChainTypeOK' /\ sigs' = sigs
  BY <1>4 DEF DropLate, ChainTypeOK
<1>5. ASSUME NEW d \in Del, EarlierTxLands(d)
      PROVE  ChainTypeOK' /\ \A e \in Del : sigs[e] \subseteq sigs'[e]
  BY <1>5, ExecuteKeeps DEF EarlierTxLands, ChainTypeOK
<1> QED
  BY <1>1, <1>2, <1>3, <1>4, <1>5 DEF ChainMoves, ChainStep

(* While the chain moves, less and less is wanted of the walk.              *)
LEMMA ChainMovesStep ==
    ASSUME QInv, ChainMoves
    PROVE  QInv'
<1> USE DEF QInv
<1>0. /\ UNCHANGED <<phase, pageKey, page, pageLen, nextKey, dels, cache, signedBefore>>
      /\ throughout' = throughout \cap Pending'
      /\ sometime' = IF phase = "idle" THEN {} ELSE sometime \cup Pending'
  BY DEF ChainMoves, queryVars
<1>1. ChainTypeOK' /\ \A d \in Del : sigs[d] \subseteq sigs'[d]
  BY ChainKeeps DEF WalkInv, ContractTypeOK
<1>2. WalkInv'
  BY <1>0, <1>1 DEF WalkInv, ContractTypeOK, QueryTypeOK
<1>3. OwnSigned \subseteq OwnSigned'
  BY <1>1 DEF OwnSigned
<1>4. Returned' = Returned /\ OnPage' = OnPage /\ Wanted' \subseteq Wanted
  <2>1. Returned' = Returned /\ OnPage' = OnPage
    BY <1>0 DEF Returned, OnPage
  <2>2. Wanted' \subseteq Wanted
    BY <1>0, <1>3 DEF Wanted, Asked
  <2> QED
    BY <2>1, <2>2
<1>5. HistoryInv'
  <2>1. \A s \in page : s.del \in Del
    BY DEF WalkInv, ContractTypeOK, QueryTypeOK, Delegation
  <2>2. phase = "idle" => page = {} /\ Returned = {}
    BY DEF WalkInv, Returned
  <2>3. QuerySound'
    BY <1>0, <1>4, <2>2 DEF HistoryInv, QuerySound
  <2>4. \A s \in page : /\ s.del \in sometime'
                        /\ s.sigs \subseteq sigs'[s.del]
                        /\ s.del \in signedBefore => Own \in s.sigs
    BY <1>0, <1>1, <2>1, <2>2 DEF HistoryInv
  <2> QED
    BY <1>0, <1>3, <2>3, <2>4 DEF HistoryInv
<1>6. CoverageInv'
  BY <1>0, <1>4 DEF CoverageInv
<1> QED
  BY <1>2, <1>5, <1>6

----------------------------------------------------------------------------
(* The walk's steps                                                         *)

(* The filter reads existing versions only.                                 *)
LEMMA VersionsReadType ==
    ASSUME NEW d \in Del
    PROVE  Info[d].version \in Version /\ VersionsRead(d) \subseteq Version
<1>1. Info[d].version \in Version /\ (IsStakeExpansion(d) => Info[d].prev \in Del)
  BY RulesAssumption DEF DelegationInfo, IsStakeExpansion
<1>2. IsStakeExpansion(d) => PrevVersion(d) \in Version
  BY <1>1, RulesAssumption DEF DelegationInfo, PrevVersion
<1> QED
  BY <1>1, <1>2 DEF VersionsRead

(* No result, no page: nothing is claimed.                                  *)
LEMMA IdleStep ==
    ASSUME QInv, phase' = "idle", dels' = <<>>, page' = {},
           pageKey' \in Nat, nextKey' \in Nat, pageLen' \in Nat, pageLen' <= pgLimit,
           cache' \subseteq Version, Forget, UNCHANGED chainVars
    PROVE  QInv'
<1>1. WalkInv'
  <2>1. ChainTypeOK'
    BY DEF QInv, WalkInv, ContractTypeOK, ChainTypeOK, chainVars
  <2>2. QueryTypeOK'
    <3>1. dels' \in Seq(Delegation)
      OBVIOUS
    <3> QED
      BY <3>1 DEF QueryTypeOK, Phase
  <2>3. Cardinality(page') = 0 /\ IsFiniteSet(page') /\ Len(dels') = 0
    BY FS_EmptySet
  <2> QED
    BY <2>1, <2>2, <2>3, QueryAssumption DEF WalkInv, ContractTypeOK
<1>2. HistoryInv' /\ CoverageInv'
  BY DEF Forget, HistoryInv, CoverageInv, QuerySound, Returned
<1> QED
  BY <1>1, <1>2 DEF QInv

(* An error ends the query.                                                 *)
LEMMA GiveUpStep ==
    ASSUME QInv, GiveUp, Forget, cache' \subseteq Version, UNCHANGED chainVars
    PROVE  QInv'
BY IdleStep, LimitType DEF GiveUp

(* The query starts.                                                        *)
LEMMA StartStep ==
    ASSUME QInv, Start
    PROVE  QInv'
<1>0. /\ phase = "idle" /\ page = {} /\ pageKey' = 0 /\ dels' = <<>>
      /\ phase' = IF DelegationLimit = 0 THEN "batch" ELSE "fetch"
      /\ UNCHANGED <<page, pageLen, nextKey, cache>> /\ UNCHANGED chainVars
      /\ throughout' = Pending /\ sometime' = Pending /\ signedBefore' = OwnSigned
  BY DEF Start, StartQuery, QInv, WalkInv
<1>1. WalkInv'
  <2>1. ChainTypeOK'
    BY <1>0 DEF QInv, WalkInv, ContractTypeOK, ChainTypeOK, chainVars
  <2>2. Len(dels') = 0 /\ dels' \in Seq(Delegation)
    BY <1>0
  <2>3. QueryTypeOK'
    BY <1>0, <2>2 DEF QInv, WalkInv, ContractTypeOK, QueryTypeOK, Phase
  <2> QED
    BY <1>0, <2>1, <2>2, <2>3, QueryAssumption DEF QInv, WalkInv, ContractTypeOK
<1>2. Pending' = Pending /\ OwnSigned' = OwnSigned /\ Returned' = {}
  BY <1>0 DEF Pending, OwnSigned, Returned, chainVars
<1>3. HistoryInv'
  BY <1>0, <1>2 DEF HistoryInv, QuerySound
<1>4. CoverageInv'
  <2>1. \A d \in Wanted' : KeyOf(d) \in Nat
    BY <1>0, <1>2, RulesAssumption DEF Wanted, Pending, KeyOf
  <2>2. Len(dels') = 0
    BY <1>0
  <2> QED
    BY <1>0, <2>1, <2>2, QueryAssumption DEF CoverageInv
<1> QED
  BY <1>1, <1>3, <1>4 DEF QInv

(* The chain answers with a page.                                           *)
LEMMA FetchPageStep ==
    ASSUME QInv, FetchPage, UNCHANGED history, UNCHANGED chainVars
    PROVE  QInv'
<1> DEFINE P == PageOf(pageKey)
<1>0. /\ phase = "fetch" /\ phase' = "filter"
      /\ page' = {[del |-> d, sigs |-> sigs[d]] : d \in P}
      /\ pageLen' = Cardinality(P)
      /\ UNCHANGED <<pageKey, dels, cache>>
  BY DEF FetchPage
<1>k. PICK k \in {0} \cup {KeyOf(d) : d \in Del} : IsNextKey(pageKey, k) /\ nextKey' = k
  BY DEF FetchPage
<1>1. /\ P \subseteq From(pageKey) /\ P \subseteq Del /\ IsFiniteSet(P)
      /\ Cardinality(P) \in Nat /\ Cardinality(P) <= pgLimit
  BY StoreFinite, PageBound DEF PageOf
<1>2. nextKey' \in Nat
  BY <1>k, RulesAssumption DEF KeyOf
<1>3. IsFiniteSet(page') /\ Cardinality(page') <= pageLen'
  <2> DEFINE f == [d \in P |-> [del |-> d, sigs |-> sigs[d]]]
  <2>1. f \in Surjection(P, page')
    BY <1>0 DEF Surjection
  <2> QED
    BY <1>0, <1>1, <2>1, FS_Surjection
<1>4. WalkInv'
  <2>1. ChainTypeOK'
    BY DEF QInv, WalkInv, ContractTypeOK, ChainTypeOK, chainVars
  <2>2. page' \subseteq Delegation
    BY <1>0, <1>1 DEF QInv, WalkInv, ContractTypeOK, ChainTypeOK, Delegation
  <2>3. QueryTypeOK'
    BY <1>0, <1>1, <1>2, <2>2 DEF QInv, WalkInv, ContractTypeOK, QueryTypeOK, Phase
  <2> QED
    BY <1>0, <1>1, <1>3, <2>1, <2>3 DEF QInv, WalkInv, ContractTypeOK
<1>5. /\ Pending' = Pending /\ OwnSigned' = OwnSigned /\ Returned' = Returned
      /\ Wanted' = Wanted
  BY <1>0 DEF Pending, OwnSigned, Returned, Wanted, Asked, chainVars, history
<1>6. HistoryInv'
  <2>1. \A d \in P : d \in sometime /\ (d \in signedBefore => Own \in sigs[d])
    BY <1>0, <1>1 DEF QInv, HistoryInv, From, OwnSigned
  <2>2. QuerySound'
    BY <1>5 DEF QInv, HistoryInv, QuerySound, history
  <2> QED
    BY <1>0, <1>5, <2>1, <2>2 DEF QInv, HistoryInv, history, chainVars
<1>7. CoverageInv'
  <2>1. ASSUME NEW d \in Wanted, KeyOf(d) >= pageKey, nextKey' = 0 \/ KeyOf(d) < nextKey'
        PROVE  d \in OnPage'
    <3>1. d \in From(pageKey)
      <4>1. d \in throughout
        BY DEF Wanted
      <4>2. d \in Pending
        BY <4>1 DEF QInv, HistoryInv
      <4> QED
        BY <2>1, <4>2 DEF From
    <3>2. d \in P
      BY <1>k, <2>1, <3>1, PageCovers
    <3> DEFINE s == [del |-> d, sigs |-> sigs[d]]
    <3>3. s \in page' /\ s.del = d
      BY <1>0, <3>2
    <3> HIDE DEF s
    <3> QED
      BY <3>3 DEF OnPage
  <2>2. pageLen' # pgLimit => nextKey' = 0
    BY <1>0, <1>k, ShortPageIsLast
  <2> QED
    BY <1>0, <1>5, <2>1, <2>2 DEF QInv, CoverageInv
<1> QED
  BY <1>4, <1>6, <1>7 DEF QInv

(* The filter accepts the next delegation of the page.                      *)
LEMMA AcceptStep ==
    ASSUME QInv, NEW s \in page, FilterAccept(s), UNCHANGED history, UNCHANGED chainVars
    PROVE  QInv'
<1>0. /\ phase = "filter" /\ dels' = Append(dels, s)
      /\ AcceptDelegationToSign(s)
      /\ cache' = cache \cup VersionsRead(s.del)
      /\ IF Len(dels) + 1 = DelegationLimit
            THEN Return
            ELSE page' = page \ {s} /\ UNCHANGED <<phase, pageKey, pageLen, nextKey>>
  BY DEF FilterAccept, Filtering, Got
<1>1. /\ s \in Delegation /\ s.del \in Del /\ dels \in Seq(Delegation)
      /\ Len(dels) \in Nat /\ Len(dels) < DelegationLimit
  BY <1>0 DEF QInv, WalkInv, ContractTypeOK, QueryTypeOK, Delegation
<1>2. /\ dels' \in Seq(Delegation) /\ Len(dels') = Len(dels) + 1
  BY <1>0, <1>1
<1>3. Returned' = Returned \cup {s.del}
  <2>1. \A i \in 1 .. Len(dels) : dels'[i] = dels[i]
    BY <1>0, <1>1
  <2>2. dels'[Len(dels) + 1] = s
    BY <1>0, <1>1
  <2>3. 1 .. Len(dels') = (1 .. Len(dels)) \cup {Len(dels) + 1}
    BY <1>1, <1>2
  <2> QED
    BY <2>1, <2>2, <2>3 DEF Returned
<1>4. page' \subseteq page /\ page' \in {{}, page \ {s}} /\ phase' \in {"filter", "batch"}
      /\ (phase' = "batch" => page' = {} /\ Len(dels') = DelegationLimit)
      /\ (phase' = "filter" => /\ page' = page \ {s} /\ Len(dels') # DelegationLimit
                               /\ UNCHANGED <<pageKey, pageLen, nextKey>>)
  BY <1>0, <1>2 DEF Return
<1>5. WalkInv'
  <2>1. ChainTypeOK'
    BY DEF QInv, WalkInv, ContractTypeOK, ChainTypeOK, chainVars
  <2>2. cache' \subseteq Version
    BY <1>0, <1>1, VersionsReadType DEF QInv, WalkInv, ContractTypeOK, QueryTypeOK
  <2>3. pageKey' \in Nat /\ nextKey' \in Nat /\ pageLen' \in Nat /\ pageLen' <= pgLimit
    BY <1>0, LimitType DEF Return, QInv, WalkInv, ContractTypeOK, QueryTypeOK
  <2>4. QueryTypeOK'
    BY <1>2, <1>4, <2>2, <2>3 DEF QInv, WalkInv, ContractTypeOK, QueryTypeOK, Phase
  <2>5. IsFiniteSet(page') /\ Cardinality(page') <= pageLen'
    <3>1. CASE phase' = "batch"
      <4>1. page' = {}
        BY <1>4, <3>1
      <4>2. IsFiniteSet(page') /\ Cardinality(page') = 0
        BY <4>1, FS_EmptySet
      <4> QED
        BY <2>3, <4>2
    <3>2. CASE phase' = "filter"
      <4>1. IsFiniteSet(page) /\ Cardinality(page) <= pageLen
        BY DEF QInv, WalkInv, ContractTypeOK
      <4>2. /\ IsFiniteSet(page \ {s})
            /\ Cardinality(page \ {s}) <= Cardinality(page)
            /\ Cardinality(page \ {s}) \in Nat /\ Cardinality(page) \in Nat
        BY <4>1, FS_Subset, FS_CardinalityType
      <4> QED
        BY <1>4, <2>3, <3>2, <4>1, <4>2
    <3> QED
      BY <1>4, <3>1, <3>2
  <2>6. Len(dels') <= DelegationLimit
    BY <1>1, <1>2, QueryAssumption
  <2>7. phase' = "filter" => Len(dels') < DelegationLimit
    BY <1>2, <1>4, <2>6, QueryAssumption
  <2> QED
    BY <1>4, <2>1, <2>3, <2>4, <2>5, <2>6, <2>7 DEF WalkInv, ContractTypeOK
<1>6. /\ Pending' = Pending /\ OwnSigned' = OwnSigned /\ Wanted' = Wanted
  BY DEF Pending, OwnSigned, Wanted, Asked, chainVars, history
<1>7. HistoryInv'
  <2>1. s.del \in sometime \ signedBefore /\ IsKeyInCommittee(s.del)
    BY <1>0 DEF QInv, HistoryInv, AcceptDelegationToSign, AlreadySigned
  <2>2. QuerySound'
    BY <1>3, <2>1 DEF QInv, HistoryInv, QuerySound, history, IsKeyInCommittee
  <2> QED
    BY <1>0, <1>4, <1>6, <2>2 DEF QInv, HistoryInv, history, chainVars
<1>8. CoverageInv'
  <2>1. CASE phase' = "batch"
    BY <1>1, <1>4, <2>1 DEF CoverageInv
  <2>2. CASE phase' = "filter"
    <3>1. OnPage \subseteq OnPage' \cup {s.del}
      BY <1>4, <2>2 DEF OnPage
    <3> QED
      BY <1>0, <1>3, <1>4, <1>6, <2>2, <3>1 DEF QInv, CoverageInv
  <2> QED
    BY <1>4, <2>1, <2>2
<1> QED
  BY <1>5, <1>7, <1>8 DEF QInv

(* The filter rejects it: it is not wanted.                                 *)
LEMMA RejectStep ==
    ASSUME QInv, NEW s \in page, FilterReject(s), UNCHANGED history, UNCHANGED chainVars
    PROVE  QInv'
<1>0. /\ phase = "filter" /\ page' = page \ {s}
      /\ UNCHANGED <<phase, pageKey, pageLen, nextKey, dels>>
      /\ AlreadySigned(s) \/ ~AcceptDelegationToSign(s)
      /\ cache' = cache \/ cache' = cache \cup VersionsRead(s.del)
  BY DEF FilterReject, Filtering, Got
<1>1. s.del \in Del
  BY DEF QInv, WalkInv, ContractTypeOK, QueryTypeOK, Delegation
<1>2. WalkInv'
  <2>1. ChainTypeOK'
    BY DEF QInv, WalkInv, ContractTypeOK, ChainTypeOK, chainVars
  <2>2. cache' \subseteq Version
    BY <1>0, <1>1, VersionsReadType DEF QInv, WalkInv, ContractTypeOK, QueryTypeOK
  <2>3. QueryTypeOK'
    BY <1>0, <2>2 DEF QInv, WalkInv, ContractTypeOK, QueryTypeOK
  <2>4. IsFiniteSet(page') /\ Cardinality(page') <= pageLen'
    <3>1. IsFiniteSet(page) /\ Cardinality(page) <= pageLen /\ pageLen \in Nat
      BY DEF QInv, WalkInv, ContractTypeOK, QueryTypeOK
    <3>2. /\ IsFiniteSet(page \ {s})
          /\ Cardinality(page \ {s}) <= Cardinality(page)
          /\ Cardinality(page \ {s}) \in Nat /\ Cardinality(page) \in Nat
      BY <3>1, FS_Subset, FS_CardinalityType
    <3> QED
      BY <1>0, <3>1, <3>2
  <2> QED
    BY <1>0, <2>1, <2>3, <2>4 DEF QInv, WalkInv, ContractTypeOK
<1>3. /\ Pending' = Pending /\ OwnSigned' = OwnSigned /\ Wanted' = Wanted
      /\ Returned' = Returned
  BY <1>0 DEF Pending, OwnSigned, Wanted, Asked, Returned, chainVars, history
<1>4. HistoryInv'
  <2>1. QuerySound'
    BY <1>3 DEF QInv, HistoryInv, QuerySound, history
  <2> QED
    BY <1>0, <1>3, <2>1 DEF QInv, HistoryInv, history, chainVars
<1>5. s.del \notin Wanted
  <2>1. CASE AlreadySigned(s)
    BY <1>1, <2>1 DEF AlreadySigned, Wanted, OwnSigned, QInv, HistoryInv
  <2>2. CASE ~AlreadySigned(s)
    BY <1>0, <2>2 DEF AcceptDelegationToSign, Wanted, Asked
  <2> QED
    BY <2>1, <2>2
<1>6. CoverageInv'
  <2>1. OnPage \subseteq OnPage' \cup {s.del}
    BY <1>0 DEF OnPage
  <2> QED
    BY <1>0, <1>3, <1>5, <2>1 DEF QInv, CoverageInv
<1> QED
  BY <1>2, <1>4, <1>6 DEF QInv

(* The page is done: the result is complete or the walk goes on.            *)
LEMMA EndPageStep ==
    ASSUME QInv, EndPage, UNCHANGED history, UNCHANGED chainVars
    PROVE  QInv'
<1>0. /\ phase = "filter" /\ page = {} /\ page' = {} /\ UNCHANGED <<dels, cache>>
      /\ pageLen' \in {0, pageLen} /\ nextKey' \in {0, nextKey}
      /\ \/ pageLen # pgLimit /\ phase' = "batch" /\ pageKey' = 0
         \/ pageLen = pgLimit /\ phase' = "fetch" /\ pageKey' = nextKey
  BY DEF EndPage, Return
<1>1. WalkInv'
  <2>1. ChainTypeOK'
    BY DEF QInv, WalkInv, ContractTypeOK, ChainTypeOK, chainVars
  <2>2. QueryTypeOK' /\ pageLen' <= pgLimit
    BY <1>0, LimitType DEF QInv, WalkInv, ContractTypeOK, QueryTypeOK, Phase
  <2>3. IsFiniteSet(page') /\ Cardinality(page') <= pageLen'
    BY <1>0, <2>2, FS_EmptySet DEF QueryTypeOK
  <2> QED
    BY <1>0, <2>1, <2>2, <2>3 DEF QInv, WalkInv, ContractTypeOK
<1>2. /\ Pending' = Pending /\ OwnSigned' = OwnSigned /\ Wanted' = Wanted
      /\ Returned' = Returned /\ OnPage = {}
  BY <1>0 DEF Pending, OwnSigned, Wanted, Asked, Returned, OnPage, chainVars, history
<1>3. HistoryInv'
  <2>1. QuerySound'
    BY <1>2 DEF QInv, HistoryInv, QuerySound, history
  <2> QED
    BY <1>0, <1>2, <2>1 DEF QInv, HistoryInv, history, chainVars
<1>4. CoverageInv'
  <2>1. \A d \in Wanted : KeyOf(d) \in Nat
    BY RulesAssumption DEF Wanted, QInv, HistoryInv, Pending, KeyOf
  <2>2. pageKey \in Nat /\ nextKey \in Nat
    BY DEF QInv, WalkInv, ContractTypeOK, QueryTypeOK
  <2>3. \A d \in Wanted : nextKey = 0 \/ KeyOf(d) < nextKey => d \in Returned
    BY <1>0, <1>2, <2>1, <2>2 DEF QInv, CoverageInv
  <2>4. pageLen # pgLimit => nextKey = 0
    BY <1>0 DEF QInv, CoverageInv
  <2> QED
    BY <1>0, <1>2, <2>1, <2>3, <2>4 DEF CoverageInv
<1> QED
  BY <1>1, <1>3, <1>4 DEF QInv

----------------------------------------------------------------------------
(* The theorems                                                             *)

(* Before the first query nothing is claimed.                               *)
LEMMA QueryStarts == Init => QInv
<1> SUFFICES ASSUME Init PROVE QInv
  OBVIOUS
<1>1. WalkInv
  <2>1. ChainTypeOK
    BY DEF Init, ChainInit, ChainTypeOK, Status
  <2>2. dels \in Seq(Delegation) /\ Len(dels) = 0 /\ Cardinality(page) = 0 /\ IsFiniteSet(page)
    BY FS_EmptySet DEF Init, QueryInit
  <2> QED
    BY <2>1, <2>2, LimitType, QueryAssumption
    DEF Init, QueryInit, QueryTypeOK, Phase, WalkInv, ContractTypeOK
<1>2. HistoryInv /\ CoverageInv
  BY DEF Init, QueryInit, HistoryInv, CoverageInv, QuerySound, Returned
<1> QED
  BY <1>1, <1>2 DEF QInv

(* Every step keeps the invariant.                                          *)
LEMMA QueryNext == QInv /\ [Next]_contractVars => QInv'
<1> SUFFICES ASSUME QInv, [Next]_contractVars PROVE QInv'
  OBVIOUS
<1>0. cache \subseteq Version /\ page \subseteq Delegation
  BY DEF QInv, WalkInv, ContractTypeOK, QueryTypeOK
<1>1. CASE Start
  BY <1>1, StartStep
<1>2. CASE Walk
  <2>0. UNCHANGED chainVars /\ (phase' = "idle" => Forget)
        /\ (phase' # "idle" => UNCHANGED history)
    BY <1>2 DEF Walk
  <2>1. CASE FetchPage
    BY <2>0, <2>1, FetchPageStep DEF FetchPage
  <2>2. CASE FetchFails
    BY <1>0, <2>0, <2>2, GiveUpStep DEF FetchFails, GiveUp
  <2>3. ASSUME NEW s \in page, FilterAccept(s)
        PROVE  QInv'
    BY <2>0, <2>3, AcceptStep DEF FilterAccept, Filtering, Return
  <2>4. ASSUME NEW s \in page, FilterReject(s)
        PROVE  QInv'
    BY <2>0, <2>4, RejectStep DEF FilterReject, Filtering
  <2>5. ASSUME NEW s \in page, FilterFails(s)
        PROVE  QInv'
    <3>1. s.del \in Del
      BY <1>0 DEF Delegation
    <3>2. GiveUp /\ (cache' = cache \/ cache' = cache \cup {Info[s.del].version})
      BY <2>5 DEF FilterFails, Got
    <3> QED
      BY <1>0, <2>0, <3>1, <3>2, VersionsReadType, GiveUpStep DEF GiveUp
  <2>6. CASE EndPage
    BY <2>0, <2>6, EndPageStep DEF EndPage, Return
  <2> QED
    BY <1>2, <2>1, <2>2, <2>3, <2>4, <2>5, <2>6 DEF Walk, QueryStep
<1>3. CASE Deliver
  BY <1>0, <1>3, IdleStep DEF Deliver, QInv, WalkInv, ContractTypeOK, QueryTypeOK
<1>4. CASE ChainMoves
  BY <1>4, ChainMovesStep
<1>5. CASE UNCHANGED contractVars
  <2>1. UNCHANGED <<chainVars, phase, queryVars, history>>
    BY <1>5 DEF contractVars
  <2>2. WalkInv'
    BY <2>1 DEF QInv, WalkInv, ContractTypeOK, ChainTypeOK, QueryTypeOK, chainVars, queryVars
  <2>3. /\ Pending' = Pending /\ OwnSigned' = OwnSigned /\ Wanted' = Wanted
        /\ Returned' = Returned /\ OnPage' = OnPage
    BY <2>1 DEF Pending, OwnSigned, Wanted, Asked, Returned, OnPage,
         chainVars, queryVars, history
  <2>4. HistoryInv'
    BY <2>1, <2>3 DEF QInv, HistoryInv, QuerySound, chainVars, queryVars, history
  <2>5. CoverageInv'
    BY <2>1, <2>3 DEF QInv, CoverageInv, queryVars
  <2> QED
    BY <2>2, <2>4, <2>5 DEF QInv
<1> QED
  BY <1>1, <1>2, <1>3, <1>4, <1>5 DEF Next

(* QInv holds in every reachable state.                                     *)
THEOREM QueryInvariance == Spec => []QInv
BY QueryStarts, QueryNext, PTL DEF Spec

(* A page holds no more than was asked for and the result no more than the  *)
(* limit.                                                                   *)
THEOREM QueryTypeCorrect == Spec => []ContractTypeOK
<1>1. QInv => ContractTypeOK
  BY DEF QInv, WalkInv
<1> QED
  BY <1>1, QueryInvariance, PTL

(* A query that returns fewer delegations than its limit missed none that   *)
(* was pending all the while and still has to be signed.                    *)
THEOREM NothingMissed == Spec => []QueryComplete
<1>1. QInv => QueryComplete
  <2> SUFFICES ASSUME QInv, phase = "batch", Len(dels) < DelegationLimit,
                      NEW d \in throughout \ OwnSigned,
                      AcceptDelegationToSign([del |-> d, sigs |-> sigs[d]])
               PROVE  d \in Returned
    BY DEF QueryComplete
  <2>1. d \in Wanted
    BY DEF AcceptDelegationToSign, Wanted, Asked
  <2> QED
    BY <2>1 DEF QInv, CoverageInv
<1> QED
  BY <1>1, QueryInvariance, PTL

(* What a query returns was pending while it ran, is asked of this member   *)
(* and was not signed by it when the query started.                         *)
THEOREM NothingStale == Spec => []QuerySound
<1>1. QInv => QuerySound
  BY DEF QInv, HistoryInv
<1> QED
  BY <1>1, QueryInvariance, PTL
=============================================================================
