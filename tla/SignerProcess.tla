--------------------------- MODULE SignerProcess ---------------------------
(***************************************************************************)
(* The process of the covenant signer on a host where the emulator daemon  *)
(* runs too: dump-cfg, the operator's editing of the configuration file,   *)
(* start, its two listeners, its unlocking, and the start of the daemon,   *)
(* which asks it for the public key and takes a port of its own. Every     *)
(* address has the same IP, so an address is a port. A file is a function  *)
(* from entries to values; an entry it does not have is Absent. The        *)
(* daemon's own file is a good one: its url and HMAC key are the signer's. *)
(***************************************************************************)
EXTENDS Integers

CONSTANTS
    Absent,
    Edits,          \* the files the operator may leave behind
    SignerKeys,     \* names of the keys in the signer's keyring
    CovdPort        \* metrics port in the daemon's configuration

VARIABLES
    disk,           \* the signer's configuration file, or Absent
    signer,         \* "off", "loaded", "open", "serving"
    metricsServer,  \* its metrics server: "none", "spawned", "bound"
    unlocked,       \* the signer has loaded its key
    covd            \* the daemon: "off", "checked", "spawned", "bound"

processVars == <<disk, signer, metricsServer, unlocked, covd>>

DefaultKeyStoreConfig == [keystoreType |-> "cosmos", backend |-> "", keyName |-> ""]
DefaultServerConfig == [port |-> 9791]
DefaultMetricsConfig == [metricsHost |-> "ip", metricsPort |-> 2112]

DefaultConfig ==
    [keystoreType |-> DefaultKeyStoreConfig.keystoreType,
     backend |-> DefaultKeyStoreConfig.backend,
     keyName |-> DefaultKeyStoreConfig.keyName,
     port |-> DefaultServerConfig.port,
     metricsHost |-> DefaultMetricsConfig.metricsHost,
     metricsPort |-> DefaultMetricsConfig.metricsPort]

(* Mutant: the file is unmarshalled into an empty configuration.            *)
GetConfigFromZero(file) ==
    [e \in DOMAIN DefaultConfig |->
        IF file[e] # Absent THEN file[e]
        ELSE IF e \in {"port", "metricsPort"} THEN 0 ELSE ""]

(* The file is unmarshalled over the defaults.                              *)
GetConfig(file) ==
    [e \in DOMAIN DefaultConfig |->
        IF file[e] = Absent THEN DefaultConfig[e] ELSE file[e]]

KeyStoreParseOK(cfg) == cfg.keystoreType = "cosmos"
MetricsParseOK(cfg) == cfg.metricsPort \in 1024 .. 65535 /\ cfg.metricsHost = "ip"
ParseOK(cfg) == KeyStoreParseOK(cfg) /\ MetricsParseOK(cfg)

(* A backend the keyring knows, and a key name; whether there is such a key *)
(* is found out by the first Unlock.                                        *)
NewCosmosKeyringRetrieverOK(cfg) ==
    cfg.backend \in {"test", "file", "os"} /\ cfg.keyName # ""

cfg == GetConfig(disk)

ProcessInit ==
    /\ disk = Absent
    /\ signer = "off" /\ metricsServer = "none" /\ unlocked = FALSE
    /\ covd = "off"

(* The ports in use.                                                        *)
Bound ==
    (IF signer = "serving" THEN {cfg.port} ELSE {})
        \cup (IF metricsServer = "bound" THEN {cfg.metricsPort} ELSE {})
        \cup (IF covd = "bound" THEN {CovdPort} ELSE {})

----------------------------------------------------------------------------

(* dump-cfg: WriteConfigToFile leaves a file that exists alone.             *)
DumpCfg ==
    /\ disk = Absent
    /\ disk' = DefaultConfig
    /\ UNCHANGED <<signer, metricsServer, unlocked, covd>>

(* The operator edits what dump-cfg has written.                            *)
Edit(file) ==
    /\ signer = "off" /\ disk = DefaultConfig
    /\ disk' = file
    /\ UNCHANGED <<signer, metricsServer, unlocked, covd>>

(* start: configuration and keyring, or an error.                           *)
SignerLoads ==
    /\ signer = "off"
    /\ disk # Absent
    /\ ParseOK(cfg) /\ NewCosmosKeyringRetrieverOK(cfg)
    /\ signer' = "loaded"
    /\ UNCHANGED <<disk, metricsServer, unlocked, covd>>

(* The metrics server runs in a goroutine of its own.                       *)
MetricsStart ==
    /\ signer = "loaded"
    /\ signer' = "open" /\ metricsServer' = "spawned"
    /\ UNCHANGED <<disk, unlocked, covd>>

(* The key is gone with the process.                                        *)
SignerDies ==
    /\ signer' = "off" /\ metricsServer' = "none" /\ unlocked' = FALSE
    /\ UNCHANGED <<disk, covd>>

(* srv.Start returns an error, and the command ends, if the port is taken.  *)
SignerListens ==
    /\ signer = "open"
    /\ IF cfg.port \in Bound
          THEN SignerDies
          ELSE signer' = "serving" /\ UNCHANGED <<disk, metricsServer, unlocked, covd>>

(* log.Fatal ends the process if the metrics port is taken.                 *)
MetricsListens ==
    /\ metricsServer = "spawned"
    /\ IF cfg.metricsPort \in Bound
          THEN SignerDies
          ELSE metricsServer' = "bound" /\ UNCHANGED <<disk, signer, unlocked, covd>>

(* The operator unlocks a signer that serves; without a key of the name in  *)
(* the configuration this fails, and changes nothing.                       *)
OperatorUnlocks ==
    /\ signer = "serving" /\ ~unlocked
    /\ cfg.keyName \in SignerKeys
    /\ unlocked' = TRUE
    /\ UNCHANGED <<disk, signer, metricsServer, covd>>

(* A locked signer answers a call for its public key with an error.         *)
PubKeyOK == signer = "serving" /\ unlocked

(* The daemon's health check of the signer; a daemon that does not pass it  *)
(* ends, and is started again.                                              *)
CovdStarts ==
    /\ covd = "off"
    /\ PubKeyOK
    /\ covd' = "checked"
    /\ UNCHANGED <<disk, signer, metricsServer, unlocked>>

(* NewEmulator asks a second time.                                          *)
NewEmulator ==
    /\ covd = "checked"
    /\ covd' = IF PubKeyOK THEN "spawned" ELSE "off"
    /\ UNCHANGED <<disk, signer, metricsServer, unlocked>>

(* The daemon's Prometheus server takes its port or ends the process.       *)
CovdListens ==
    /\ covd = "spawned"
    /\ covd' = IF CovdPort \in Bound THEN "off" ELSE "bound"
    /\ UNCHANGED <<disk, signer, metricsServer, unlocked>>

ProcessNext ==
    \/ DumpCfg
    \/ \E file \in Edits : Edit(file)
    \/ SignerLoads \/ MetricsStart \/ SignerListens \/ MetricsListens
    \/ OperatorUnlocks \/ CovdStarts \/ NewEmulator \/ CovdListens

(* The operator starts what is not running and unlocks what is locked;      *)
(* processes run.                                                           *)
ProcessFairness ==
    /\ WF_processVars(SignerLoads) /\ WF_processVars(MetricsStart)
    /\ WF_processVars(SignerListens) /\ WF_processVars(MetricsListens)
    /\ WF_processVars(OperatorUnlocks) /\ WF_processVars(CovdStarts)
    /\ WF_processVars(NewEmulator) /\ WF_processVars(CovdListens)

----------------------------------------------------------------------------

(* What the operator means by a file, entries missing or not.               *)
Meant(file) == [e \in DOMAIN DefaultConfig |->
                    IF file[e] = Absent THEN DefaultConfig[e] ELSE file[e]]

(* What the operator must get right besides the ports: the backend, the     *)
(* name of a key that exists, and no unusable value.                        *)
Usable(c) ==
    /\ c.backend = "test" /\ c.keyName \in SignerKeys /\ c.keystoreType = "cosmos"
    /\ c.metricsHost = "ip" /\ c.metricsPort >= 1024

(* The default ports are no such ports.                                     *)
PortsDiffer(c) == c.port # c.metricsPort /\ CovdPort \notin {c.port, c.metricsPort}

AllUp == signer = "serving" /\ unlocked /\ metricsServer = "bound" /\ covd = "bound"

(* An operator with such a file who starts the signer, unlocks it and       *)
(* starts the daemon gets both up, in whatever order their listeners bind,  *)
(* and they stay up, if the three ports differ. If they do not, which is so *)
(* with the default ones, the two never run next to each other, however     *)
(* often they are started again: a later bind ends one of them, the signer  *)
(* with its key if it is the one.                                           *)
BothComeUp ==
    \A file \in Edits : Usable(Meant(file)) =>
        IF PortsDiffer(Meant(file))
           THEN disk = file ~> []AllUp
           ELSE [](disk = file => ~AllUp)
=============================================================================
