--------------------------- MODULE Configuration ---------------------------
(***************************************************************************)
(* How the daemon's configuration file becomes a configuration. A file is  *)
(* a function from entries to values; an entry that it does not have is    *)
(* Absent. LoadConfig parses the file into the zero Config, so that an     *)
(* absent entry is zero and not its default. Durations and sizes are       *)
(* natural numbers; "ip" is any address that net.ParseIP accepts.          *)
(***************************************************************************)
EXTENDS Integers

CONSTANT Absent

DefaultConfig ==
    [loglevel |-> "debug", queryinterval |-> 1, delegationlimit |-> 2,
     sigsbatchsize |-> 2, bitcoinnetwork |-> "simnet",
     host |-> "ip", port |-> 2112, updateinterval |-> 1,
     keyring |-> "test", timeout |-> 1]

ZeroConfig ==
    [loglevel |-> "", queryinterval |-> 0, delegationlimit |-> 0,
     sigsbatchsize |-> 0, bitcoinnetwork |-> "",
     host |-> "", port |-> 0, updateinterval |-> 0,
     keyring |-> "", timeout |-> 0]

Entry == DOMAIN DefaultConfig

(* The choices the struct tags of Config offer; the parser refuses others.  *)
LogLevelChoice == {"trace", "debug", "info", "warn", "error", "fatal"}
NetworkChoice == {"mainnet", "testnet", "regtest", "simnet", "signet"}

ParseFileOK(file) ==
    /\ file.loglevel \in LogLevelChoice \cup {Absent}
    /\ file.bitcoinnetwork \in NetworkChoice \cup {Absent}

ParseFile(file) ==
    [e \in Entry |-> IF file[e] = Absent THEN ZeroConfig[e] ELSE file[e]]

MetricsValidate(cfg) == cfg.port \in 0 .. 65535 /\ cfg.host = "ip"

Validate(cfg) == MetricsValidate(cfg) /\ cfg.bitcoinnetwork \in NetworkChoice

LoadConfigOK(file) == ParseFileOK(file) /\ Validate(ParseFile(file))

(* The levels the logger knows.                                             *)
NewRootLoggerOK(level) ==
    level \in {"panic", "fatal", "error", "warn", "warning", "info", "debug"}
=============================================================================
