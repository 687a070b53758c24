--------------------------- MODULE OperatorProofs ---------------------------
(***************************************************************************)
(* What an operator may rely on, for all backends, names and paths: the    *)
(* order of the steps of init, create-key and start, whatever command is   *)
(* killed when, and the keys that different derivation paths lead to.      *)
(***************************************************************************)
EXTENDS CovdHome, KeyDerivation, TLAPS

(* What a part of a configuration file may be.                              *)
Value == {"options"} \cup (Backends \X Names) \cup {NoAccount} \cup BOOLEAN

(* An account that may stand in a configuration file.                       *)
Nameable(account) == account = DefaultAccount \/ account \in keys

PC == {"none", "mkdir", "create", "truncate", "write"}

FileInv ==
    /\ conf \in Seq(Value) /\ Len(conf) <= 4
    /\ Len(conf) >= 1 => conf[1] = "options"
    /\ Len(conf) >= 2 => Nameable(conf[2])
    /\ Len(conf) >= 3 => conf[3] \in BOOLEAN
    /\ Len(conf) >= 4 => conf[4] \in BOOLEAN

(* Once the key is created, and from the start in init, the account that a  *)
(* command is about to write may be written.                                *)
CommandInv ==
    /\ cmd \in [pc : PC, content : Content]
    /\ cmd.pc \in {"mkdir", "truncate", "write"} => Nameable(cmd.content.account)
    /\ cmd.pc = "write" => Len(conf) < 4

DaemonInv ==
    /\ daemon \in [status : {"off", "running", "panicked"}, config : Content]
    /\ StartedIsConfigured

HomeInv ==
    /\ home \in BOOLEAN
    /\ keys \subseteq Account
    /\ FileInv
    /\ CommandInv
    /\ DaemonInv

(* The account of init is one the keyring could have.                       *)
LEMMA DefaultIsAccount == DefaultAccount \in Account /\ Account \subseteq Backends \X Names
BY HomeAssumption DEF DefaultAccount, Account

(* No command is running.                                                   *)
LEMMA IdleOK == /\ Idle.pc = "none" /\ Idle \in [pc : PC, content : Content]
                /\ DefaultConfigWithHomePath \in Content
BY DefaultIsAccount DEF Idle, Content, DefaultConfigWithHomePath, PC

(* What LoadConfig reads from any prefix of a file is a configuration.      *)
LEMMA LoadedOK == ASSUME HomeInv PROVE LoadConfig \in Content
<1>1. Len(conf) >= 2 => conf[2] \in Backends \X Names
  BY DefaultIsAccount DEF HomeInv, FileInv, Nameable
<1>2. (Len(conf) >= 3 /\ conf[3]) \in BOOLEAN /\ (Len(conf) >= 4 /\ conf[4]) \in BOOLEAN
  BY DEF HomeInv, FileInv
<1> QED BY <1>1, <1>2 DEF LoadConfig, Content

(* Nothing has been run.                                                    *)
LEMMA HomeInvInit == HomeInit => HomeInv
<1> SUFFICES ASSUME HomeInit PROVE HomeInv
  OBVIOUS
<1> USE DEF HomeInit
<1>1. FileInv
  BY DEF FileInv
<1>2. CommandInv
  BY IdleOK DEF CommandInv
<1>3. DaemonInv
  BY IdleOK DEF DaemonInv, StartedIsConfigured
<1> QED BY <1>1, <1>2, <1>3 DEF HomeInv

----------------------------------------------------------------------------
(* The steps, one lemma for each that writes the file, the keyring or the   *)
(* daemon.                                                                  *)

(* A part that is written is one of the content's, at its place.            *)
LEMMA WritePartKeeps == ASSUME HomeInv, WritePart PROVE HomeInv'
<1> DEFINE n == Len(conf) + 1
<1> USE DEF HomeInv
<1>1. n \in 1 .. 4 /\ cmd.content \in Content /\ Nameable(cmd.content.account)
  BY DEF FileInv, CommandInv, WritePart
<1>2. /\ Parts(cmd.content)[n] \in Value
      /\ n = 1 => Parts(cmd.content)[n] = "options"
      /\ n = 2 => Nameable(Parts(cmd.content)[n])
      /\ n \in {3, 4} => Parts(cmd.content)[n] \in BOOLEAN
      /\ Len(Parts(cmd.content)) = 4
  BY <1>1 DEF Parts, Content, Value
<1>3. /\ conf' \in Seq(Value) /\ Len(conf') = n
      /\ conf'[n] = Parts(cmd.content)[n]
      /\ \A i \in 1 .. Len(conf) : conf'[i] = conf[i]
  BY <1>1, <1>2 DEF WritePart, FileInv
<1>4. FileInv'
  BY <1>1, <1>2, <1>3 DEF FileInv, WritePart, Nameable
<1>5. CommandInv'
  BY <1>1, <1>2, <1>3, IdleOK DEF CommandInv, WritePart, Nameable
<1> QED BY <1>4, <1>5 DEF WritePart, DaemonInv, StartedIsConfigured

(* The key is created before the file names it.                             *)
LEMMA CreateCovenantKeyKeeps == ASSUME HomeInv, CreateCovenantKey PROVE HomeInv'
<1> USE DEF HomeInv
<1>1. keys \subseteq keys' /\ keys' \subseteq Account
  BY DEF CreateCovenantKey
<1>2. FileInv'
  BY <1>1 DEF FileInv, CreateCovenantKey, Nameable
<1>3. CommandInv'
  <2>1. CASE cmd' = Idle
    BY <2>1, IdleOK DEF CommandInv
  <2>2. CASE cmd' = [cmd EXCEPT !.pc = "truncate"] /\ cmd.content.account \in keys'
    BY <2>2 DEF CommandInv, Nameable, PC
  <2> QED BY <2>1, <2>2 DEF CreateCovenantKey
<1> QED BY <1>1, <1>2, <1>3 DEF CreateCovenantKey, DaemonInv, StartedIsConfigured

(* What start reads has an account of the keyring or the default one, since *)
(* the backend of a missing account is not "test".                          *)
LEMMA StartDaemonKeeps == ASSUME HomeInv, StartDaemon PROVE HomeInv'
<1> USE DEF HomeInv
<1>1. Len(conf) >= 2 /\ LoadConfig.account = conf[2]
  BY HomeAssumption DEF StartDaemon, LoadConfig, NoAccount, FileInv
<1>2. LoadConfig.account \in Account
  BY <1>1, DefaultIsAccount DEF FileInv, Nameable
<1>3. DaemonInv'
  BY <1>2, LoadedOK DEF StartDaemon, DaemonInv, StartedIsConfigured
<1> QED BY <1>3 DEF StartDaemon, FileInv, CommandInv, Nameable

(* Every step of a command or of the daemon, and every kill.                *)
LEMMA HomeInvStep == ASSUME HomeInv, [HomeNext]_homeVars PROVE HomeInv'
<1> USE DEF HomeInv
<1>1. ASSUME NEW force \in BOOLEAN, InitHome(force) PROVE HomeInv'
  BY <1>1, IdleOK DEF InitHome, Idle, FileInv, CommandInv, DaemonInv, StartedIsConfigured,
     Nameable, PC, DefaultConfigWithHomePath
<1>2. ASSUME NEW backend \in Backends, NEW name \in Names, CreateKey(backend, name)
      PROVE  HomeInv'
  <2>1. cmd'.pc = "create" /\ cmd' \in [pc : PC, content : Content]
    BY <1>2, LoadedOK DEF CreateKey, Content, PC
  <2> QED BY <1>2, <2>1 DEF CreateKey, FileInv, CommandInv, DaemonInv, StartedIsConfigured,
             Nameable
<1>3. CASE MakeDirectory
  BY <1>3 DEF MakeDirectory, FileInv, CommandInv, DaemonInv, StartedIsConfigured, Nameable, PC
<1>4. CASE CreateCovenantKey
  BY <1>4, CreateCovenantKeyKeeps
<1>5. CASE Truncate
  BY <1>5 DEF Truncate, FileInv, CommandInv, DaemonInv, StartedIsConfigured, Nameable, PC
<1>6. CASE WritePart
  BY <1>6, WritePartKeeps
<1>7. CASE Killed
  BY <1>7, IdleOK DEF Killed, FileInv, CommandInv, DaemonInv, StartedIsConfigured, Nameable
<1>8. CASE StartDaemon
  BY <1>8, StartDaemonKeeps
<1>9. CASE MustGetTxSigner
  <2>1. daemon'.status # "running"
    BY <1>9 DEF MustGetTxSigner, DaemonInv
  <2> QED BY <1>9, <2>1 DEF MustGetTxSigner, FileInv, CommandInv, DaemonInv,
             StartedIsConfigured, Nameable
<1>10. CASE StopDaemon
  BY <1>10 DEF StopDaemon, FileInv, CommandInv, DaemonInv, StartedIsConfigured, Nameable
<1>11. CASE UNCHANGED homeVars
  BY <1>11 DEF homeVars, FileInv, CommandInv, DaemonInv, StartedIsConfigured, Nameable
<1> QED BY <1>1, <1>2, <1>3, <1>4, <1>5, <1>6, <1>7, <1>8, <1>9, <1>10, <1>11
           DEF HomeNext

(* The directory stays consistent.                                          *)
LEMMA HomeInvariance == HomeSpec => []HomeInv
<1>1. HomeInit => HomeInv
  BY HomeInvInit
<1>2. HomeInv /\ [HomeNext]_homeVars => HomeInv'
  BY HomeInvStep
<1> QED BY <1>1, <1>2, PTL DEF HomeSpec

(* The configuration file names no account that create-key has not created, *)
(* apart from init's default.                                               *)
THEOREM ConfigNamesExistingKey == HomeSpec => []NamedKeyExists
<1>1. HomeInv => NamedKeyExists
  BY DEF HomeInv, FileInv, Nameable, NamedKeyExists, ShowKeyOK
<1> QED BY <1>1, HomeInvariance, PTL

(* A daemon never runs without an account and a remote signer, whatever     *)
(* file a killed command has left.                                          *)
THEOREM RunningIsConfigured == HomeSpec => []StartedIsConfigured
<1>1. HomeInv => StartedIsConfigured
  BY DEF HomeInv, DaemonInv
<1> QED BY <1>1, HomeInvariance, PTL

(* The configuration file is, at any time, a prefix of what some command    *)
(* could have written, and everything read from it is a configuration.      *)
THEOREM HomeTypeCorrect == HomeSpec => []HomeTypeOK
<1>1. ASSUME HomeInv
      PROVE  \E c \in Content, n \in 0 .. 4 : conf = SubSeq(Parts(c), 1, n)
  <2> DEFINE c == LoadConfig
             n == Len(conf)
  <2>1. c \in Content /\ n \in 0 .. 4 /\ conf \in Seq(Value)
    <3>1. LoadConfig \in Content
      BY <1>1, LoadedOK
    <3>2. conf \in Seq(Value) /\ Len(conf) <= 4
      BY <1>1 DEF HomeInv, FileInv
    <3>3. n \in Nat /\ n <= 4
      BY <3>2
    <3> HIDE DEF n
    <3>4. n \in 0 .. 4
      BY <3>3
    <3> QED BY <3>1, <3>2, <3>4
  <2>2. \A i \in 1 .. n : conf[i] = Parts(c)[i]
    <3>1. /\ n >= 1 => conf[1] = "options"
          /\ n >= 2 => conf[2] = c.account
          /\ n >= 3 => conf[3] = c.url
          /\ n >= 4 => conf[4] = c.timeout
      BY <1>1 DEF HomeInv, FileInv, LoadConfig
    <3> HIDE DEF c
    <3> QED BY <2>1, <3>1 DEF Parts
  <2>3. Parts(c) \in Seq(Value) /\ Len(Parts(c)) = 4
    <3> HIDE DEF c
    <3> QED BY <2>1 DEF Parts, Content, Value
  <2>4. conf = SubSeq(Parts(c), 1, n)
    <3> HIDE DEF c
    <3> QED BY <2>1, <2>2, <2>3
  <2> QED BY <2>1, <2>4
<1>2. HomeInv => HomeTypeOK
  BY <1>1 DEF HomeInv, CommandInv, DaemonInv, HomeTypeOK, PC
<1> QED BY <1>2, HomeInvariance, PTL

----------------------------------------------------------------------------
(* Key derivation                                                           *)

Elem == [number : Nat \cup {NaN}, h : BOOLEAN]

(* A sum that stays below the modulus is not changed by it.                 *)
LEMMA NoWrap ==
    ASSUME NEW n \in Nat, n < HardenedKeyStart
    PROVE  (HardenedKeyStart + n) % Uint32Size = HardenedKeyStart + n
BY DerivationAssumption DEF Uint32Size

(* A hardened element that is accepted is an index of the upper half of the *)
(* range, from which the number can be read off.                            *)
LEMMA HardenedIndex ==
    ASSUME NEW e \in Elem, ParseHardened(e) # Invalid
    PROVE  /\ e.h /\ e.number \in Nat /\ e.number < HardenedKeyStart
           /\ ParseHardened(e) = HardenedKeyStart + e.number
BY NoWrap DEF ParseHardened, ParseUintOK

(* An element that is not hardened is its number.                           *)
LEMMA NormalIndex ==
    ASSUME NEW e \in Elem, ParseNormal(e) # Invalid
    PROVE  ~e.h /\ e.number \in Nat /\ ParseNormal(e) = e.number
BY DEF ParseNormal, ParseUintOK

(* Two accepted elements at the same level with the same index are equal.   *)
LEMMA ElementsInjective ==
    ASSUME NEW d \in Elem, NEW e \in Elem
    PROVE  /\ ParseHardened(d) # Invalid /\ ParseHardened(d) = ParseHardened(e)
                => d = e
           /\ ParseNormal(d) # Invalid /\ ParseNormal(d) = ParseNormal(e)
                => d = e
<1>1. ASSUME ParseHardened(d) # Invalid, ParseHardened(d) = ParseHardened(e)
      PROVE  d = e
  <2>1. d.number = e.number /\ d.h = e.h
    BY <1>1, HardenedIndex, DerivationAssumption DEF Elem
  <2> QED BY <2>1 DEF Elem
<1>2. ASSUME ParseNormal(d) # Invalid, ParseNormal(d) = ParseNormal(e)
      PROVE  d = e
  <2>1. d.number = e.number /\ d.h = e.h
    BY <1>2, NormalIndex DEF Elem
  <2> QED BY <2>1 DEF Elem
<1> QED BY <1>1, <1>2

----------------------------------------------------------------------------

(* What has been derived comes from paths that were accepted.               *)
DerivedInv ==
    \A d \in derived :
        d.path \in Paths /\ ParsePathOK(d.path) /\ d.indexes = Indexes(d.path)

(* Only accepted paths are derived.                                         *)
LEMMA DerivedInvariance == DerivationSpec => []DerivedInv
<1>1. DerivationInit => DerivedInv
  BY DEF DerivationInit, DerivedInv
<1>2. DerivedInv /\ [DerivationNext]_derived => DerivedInv'
  <2> SUFFICES ASSUME DerivedInv, [DerivationNext]_derived
               PROVE  DerivedInv'
    OBVIOUS
  <2>1. ASSUME NEW path \in Paths, DeriveChildKey(path) PROVE DerivedInv'
    BY <2>1 DEF DerivedInv, DeriveChildKey
  <2>2. CASE UNCHANGED derived
    BY <2>2 DEF DerivedInv
  <2> QED BY <2>1, <2>2 DEF DerivationNext
<1> QED BY <1>1, <1>2, PTL DEF DerivationSpec

(* A path that is accepted has five elements, and the element at each level *)
(* gives the index at that level.                                           *)
LEMMA AcceptedPath ==
    ASSUME NEW path \in Paths, ParsePathOK(path)
    PROVE  /\ path \in Seq(Elem) /\ Len(path) = 5
           /\ \A i \in 1 .. 5 :
                /\ path[i] \in Elem
                /\ Indexes(path)[i] # Invalid
                /\ Indexes(path)[i] = IF i <= 3 THEN ParseHardened(path[i])
                                                ELSE ParseNormal(path[i])
<1>1. path \in Seq(Elem)
  BY DerivationAssumption DEF Elem
<1>2. Len(path) = 5
  BY DEF ParsePathOK, ExpectedDerivationDepth
<1>3. \A i \in 1 .. Len(path) : path[i] \in Elem
  BY <1>1
<1> QED BY <1>1, <1>2, <1>3 DEF Indexes, ParsePathOK, ExpectedDerivationDepth

(* Accepted paths with the same indexes are equal.                          *)
LEMMA PathsInjective ==
    ASSUME NEW p \in Paths, NEW q \in Paths, ParsePathOK(p), ParsePathOK(q),
           Indexes(p) = Indexes(q)
    PROVE  p = q
<1>1. ASSUME NEW i \in 1 .. 5 PROVE p[i] = q[i]
  <2>1. Indexes(p)[i] = Indexes(q)[i]
    OBVIOUS
  <2>2. CASE i <= 3
    BY <2>1, <2>2, AcceptedPath, ElementsInjective
  <2>3. CASE ~(i <= 3)
    BY <2>1, <2>3, AcceptedPath, ElementsInjective
  <2> QED BY <2>2, <2>3
<1> QED BY <1>1, AcceptedPath

(* The first three levels are hardened.                                     *)
LEMMA HardenedLevels ==
    ASSUME NEW p \in Paths, ParsePathOK(p), NEW i \in 1 .. 3
    PROVE  Indexes(p)[i] \in HardenedKeyStart .. Uint32Size - 1
<1>1. /\ p[i] \in Elem
      /\ Indexes(p)[i] = ParseHardened(p[i]) /\ ParseHardened(p[i]) # Invalid
  BY AcceptedPath
<1>2. /\ Indexes(p)[i] = HardenedKeyStart + p[i].number
      /\ p[i].number \in Nat /\ p[i].number < HardenedKeyStart
  BY <1>1, HardenedIndex
<1> QED BY <1>2, DerivationAssumption DEF Uint32Size

(* Together: different paths, different keys.                               *)
LEMMA DerivedInvSuffices == DerivedInv => DistinctPathsDistinctKeys
BY PathsInjective, HardenedLevels DEF DerivedInv, DistinctPathsDistinctKeys

(* Accepted paths that differ derive different keys, for every width of the *)
(* index: the check before the addition is what keeps parseHardened from    *)
(* wrapping around.                                                         *)
THEOREM NoTwoPathsOneKey == DerivationSpec => []DistinctPathsDistinctKeys
BY DerivedInvariance, DerivedInvSuffices, PTL
=============================================================================
