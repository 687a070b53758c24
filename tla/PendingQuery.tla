---------------------------- MODULE PendingQuery ----------------------------
(***************************************************************************)
(* QueryPendingDelegations with the emulator's filter: the paged walk over *)
(* the chain's pending delegations. The chain changes between two pages    *)
(* and while a page is being filtered; a page is a snapshot taken when the *)
(* chain answered. Every remote call may fail, and any failure gives up    *)
(* the whole query.                                                        *)
(*                                                                         *)
(* One FilterXxx step handles one delegation of the page. Its calls (the   *)
(* previous delegation of a stake expansion, the staking parameters) read  *)
(* data the chain never changes, so they are part of the step.             *)
(***************************************************************************)
EXTENDS BabylonChain

CONSTANTS
    DelegationLimit,        \* config: delegations handled per query
    MaxPaginationLimit      \* the largest page asked for

ASSUME QueryAssumption ==
    /\ DelegationLimit \in Nat
    /\ MaxPaginationLimit \in Nat \ {0}

VARIABLES
    phase,          \* where the submission loop stands
    pageKey,        \* pagination.Key of the next request; 0 is the nil key
    page,           \* delegations of the current page not yet filtered
    pageLen,        \* len(res.BtcDelegations) of the current page
    nextKey,        \* res.Pagination.NextKey of the current page
    dels,           \* delegations accepted, in order
    cache           \* versions held by CacheVersionedParams

queryVars == <<pageKey, page, pageLen, nextKey, dels, cache>>

Phase == {"idle", "fetch", "filter", "batch", "sign", "send",
          "exited", "down"}

(* Keys are positions in the store; a delegation's key is its name plus one *)
(* so that 0 is free for the nil key.                                       *)
KeyOf(d) == d + 1

pgLimit == IF MaxPaginationLimit < DelegationLimit
              THEN MaxPaginationLimit ELSE DelegationLimit

QueryTypeOK ==
    /\ phase \in Phase
    /\ pageKey \in Nat /\ nextKey \in Nat /\ pageLen \in Nat
    /\ page \subseteq Delegation
    /\ dels \in Seq(Delegation)
    /\ cache \subseteq Version

QueryInit ==
    /\ pageKey = 0 /\ nextKey = 0 /\ pageLen = 0
    /\ page = {}
    /\ dels = <<>>
    /\ cache = {}

----------------------------------------------------------------------------
(* One page of the chain's answer (external): the first pgLimit pending     *)
(* delegations from the key on, and the key of the next one or nil.         *)

From(key) == {d \in Pending : KeyOf(d) >= key}

PageOf(key) ==
    {d \in From(key) : Cardinality({e \in From(key) : e < d}) < pgLimit}

IsNextKey(key, k) ==
    LET rest == From(key) \ PageOf(key)
    IN  IF rest = {} THEN k = 0
        ELSE \E d \in rest : k = KeyOf(d) /\ \A e \in rest : d <= e

----------------------------------------------------------------------------
(* The query starts at the ticker's event; a limit of zero returns at once. *)
StartQuery ==
    /\ phase = "idle"
    /\ phase' = IF DelegationLimit = 0 THEN "batch" ELSE "fetch"
    /\ pageKey' = 0
    /\ dels' = <<>>
    /\ UNCHANGED <<page, pageLen, nextKey, cache>>

FetchPage ==
    /\ phase = "fetch"
    /\ phase' = "filter"
    /\ page' = {[del |-> d, sigs |-> sigs[d]] : d \in PageOf(pageKey)}
    /\ pageLen' = Cardinality(PageOf(pageKey))
    /\ \E k \in {0} \cup {KeyOf(d) : d \in Del} :
            IsNextKey(pageKey, k) /\ nextKey' = k
    /\ UNCHANGED <<pageKey, dels, cache>>

(* An error ends the query; nothing it collected survives.                  *)
GiveUp ==
    /\ phase' = "idle"
    /\ page' = {} /\ pageLen' = 0 /\ pageKey' = 0 /\ nextKey' = 0
    /\ dels' = <<>>

FetchFails ==
    /\ phase = "fetch"
    /\ GiveUp
    /\ UNCHANGED cache

(* The query returns the accepted delegations to the submission loop.       *)
Return ==
    /\ phase' = "batch"
    /\ page' = {} /\ pageLen' = 0 /\ pageKey' = 0 /\ nextKey' = 0

(* s is the next delegation of the page.                                    *)
Filtering(s) ==
    /\ phase = "filter"
    /\ s \in page
    /\ \A t \in page : s.del <= t.del

(* Mutant: the parameters that were fetched are not stored.                 *)
GotNotCached(vs) ==
    /\ \A v \in vs : v \in cache \/ ParamsUsable(v)
    /\ UNCHANGED cache

(* paramCache.Get of every version in vs succeeds.                          *)
Got(vs) ==
    /\ \A v \in vs : v \in cache \/ ParamsUsable(v)
    /\ cache' = cache \cup vs

(* The calls before the verdict succeed: conversion of the response, and    *)
(* for a stake expansion the query of the previous delegation.              *)
FilterCallsOK(s) ==
    /\ DelegationRespOK(s.del)
    /\ IsStakeExpansion(s.del) => DelegationRespOK(Info[s.del].prev)

(* Mutant: the limit is compared with the length before the append.         *)
FilterAcceptLate(s) ==
    /\ Filtering(s)
    /\ FilterCallsOK(s)
    /\ AcceptDelegationToSign(s)
    /\ IsStakeExpansion(s.del) => Info[s.del].prevTx
    /\ Got(VersionsRead(s.del))
    /\ dels' = Append(dels, s)
    /\ IF Len(dels) = DelegationLimit
          THEN Return
          ELSE /\ page' = page \ {s}
               /\ UNCHANGED <<phase, pageKey, pageLen, nextKey>>

FilterAccept(s) ==
    /\ Filtering(s)
    /\ FilterCallsOK(s)
    /\ AcceptDelegationToSign(s)
    /\ IsStakeExpansion(s.del) => Info[s.del].prevTx
    /\ Got(VersionsRead(s.del))
    /\ dels' = Append(dels, s)
    /\ IF Len(dels) + 1 = DelegationLimit
          THEN Return
          ELSE /\ page' = page \ {s}
               /\ UNCHANGED <<phase, pageKey, pageLen, nextKey>>

FilterReject(s) ==
    /\ Filtering(s)
    /\ FilterCallsOK(s)
    /\ \/ AlreadySigned(s) /\ UNCHANGED cache
       \/ /\ ~AlreadySigned(s)
          /\ ~AcceptDelegationToSign(s)
          /\ IsKeyInCommittee(s.del) => Info[s.del].prevTx
          /\ Got(VersionsRead(s.del))
    /\ page' = page \ {s}
    /\ UNCHANGED <<phase, pageKey, pageLen, nextKey, dels>>

(* Which step of the filter fails decides what the cache already holds.     *)
FilterFails(s) ==
    LET d == s.del
        v == Info[d].version
    IN  /\ Filtering(s)
        /\ \/ /\ \/ ~DelegationRespOK(d)
                 \/ IsStakeExpansion(d)
                 \/ ~AlreadySigned(s) /\ v \notin cache
              /\ UNCHANGED cache
           \/ /\ FilterCallsOK(s)
              /\ ~AlreadySigned(s)
              /\ IsKeyInCommittee(d) /\ IsStakeExpansion(d)
              /\ ~Info[d].prevTx \/ PrevVersion(d) \notin cache \cup {v}
              /\ Got({v})
        /\ GiveUp

(* Mutant: the next page starts after its first key.                        *)
EndPageSkipsOne ==
    /\ phase = "filter"
    /\ page = {}
    /\ IF pageLen # pgLimit
          THEN Return /\ UNCHANGED <<dels, cache>>
          ELSE /\ phase' = "fetch"
               /\ pageKey' = nextKey + 1
               /\ UNCHANGED <<page, pageLen, nextKey, dels, cache>>

(* The page is done: a short page is the end of the store, a full one is    *)
(* followed by the page its NextKey names.                                  *)
EndPage ==
    /\ phase = "filter"
    /\ page = {}
    /\ IF pageLen # pgLimit
          THEN Return /\ UNCHANGED <<dels, cache>>
          ELSE /\ phase' = "fetch"
               /\ pageKey' = nextKey
               /\ UNCHANGED <<page, pageLen, nextKey, dels, cache>>

QueryStep ==
    \/ FetchPage
    \/ FetchFails
    \/ \E s \in page : FilterAccept(s) \/ FilterReject(s) \/ FilterFails(s)
    \/ EndPage
=============================================================================
