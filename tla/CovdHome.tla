------------------------------ MODULE CovdHome ------------------------------
(***************************************************************************)
(* The home directory of the daemon and the commands that change it: init, *)
(* create-key and show-key, run one after the other by an operator, each   *)
(* of which may be killed between two of its steps, and the daemon that    *)
(* reads the directory when it starts. A configuration file is written in  *)
(* place, part after part, so a killed command leaves a prefix of it:      *)
(*   1  the application options and the metrics host, what Validate wants  *)
(*   2  the rest of the metrics group, and the babylon group up to the     *)
(*      account: key name and, later in the file, keyring backend          *)
(*   3  the url of the remote signer                                       *)
(*   4  its timeout and HMAC key                                           *)
(* No file and an empty file are both <<>>: LoadConfig refuses both. A     *)
(* part that the kill leaves incomplete counts as missing.                 *)
(***************************************************************************)
EXTENDS Sequences, Naturals, FiniteSets

CONSTANTS
    Backends,       \* keyring backends, "test" among them
    Names,          \* key names the operator may give, the empty one too
    DefaultName     \* the name in a configuration written by init

VARIABLES
    home,           \* the directory exists
    conf,           \* the configuration file, as far as it is written
    keys,           \* the accounts in the keyring below the directory
    cmd,            \* the running command
    daemon          \* the daemon and the account it has read

homeVars == <<home, conf, keys, cmd, daemon>>

Account == Backends \X (Names \ {""})
NoAccount == <<"", "">>
DefaultAccount == <<"test", DefaultName>>

ASSUME HomeAssumption ==
    /\ "test" \in Backends /\ DefaultName \in Names \ {""}
    /\ "" \in Names /\ "" \notin Backends

(* What a command writes. The zero Config has no account and no url, and    *)
(* IniIncludeDefaults writes zero values too.                               *)
Content ==
    [account : (Backends \X Names) \cup {NoAccount}, url : BOOLEAN, timeout : BOOLEAN]
Parts(c) == <<"options", c.account, c.url, c.timeout>>
DefaultConfigWithHomePath == [account |-> DefaultAccount, url |-> TRUE, timeout |-> TRUE]

LoadConfigOK == Len(conf) >= 1
LoadConfig ==
    [account |-> IF Len(conf) >= 2 THEN conf[2] ELSE NoAccount,
     url     |-> Len(conf) >= 3 /\ conf[3],
     timeout |-> Len(conf) >= 4 /\ conf[4]]

Idle == [pc |-> "none", content |-> DefaultConfigWithHomePath]

HomeTypeOK ==
    /\ home \in BOOLEAN
    /\ \E c \in Content, n \in 0 .. 4 : conf = SubSeq(Parts(c), 1, n)
    /\ keys \subseteq Account
    /\ cmd \in [pc : {"none", "mkdir", "create", "truncate", "write"},
                content : Content]
    /\ daemon \in [status : {"off", "running", "panicked"},
                   config : Content]

HomeInit ==
    /\ home = FALSE /\ conf = <<>> /\ keys = {}
    /\ cmd = Idle
    /\ daemon = [status |-> "off", config |-> DefaultConfigWithHomePath]

----------------------------------------------------------------------------
(* Writing the configuration file                                           *)

Truncate ==
    /\ cmd.pc = "truncate"
    /\ conf' = <<>>
    /\ cmd' = [cmd EXCEPT !.pc = "write"]
    /\ UNCHANGED <<home, keys, daemon>>

WritePart ==
    /\ cmd.pc = "write"
    /\ conf' = Append(conf, Parts(cmd.content)[Len(conf) + 1])
    /\ cmd' = IF Len(conf') = Len(Parts(cmd.content)) THEN Idle ELSE cmd
    /\ UNCHANGED <<home, keys, daemon>>

Killed ==
    /\ cmd.pc # "none"
    /\ cmd' = Idle
    /\ UNCHANGED <<home, conf, keys, daemon>>

----------------------------------------------------------------------------
(* covd init [--force]                                                      *)

InitHome(force) ==
    /\ cmd.pc = "none"
    /\ ~home \/ force
    /\ cmd' = [pc |-> "mkdir", content |-> DefaultConfigWithHomePath]
    /\ UNCHANGED <<home, conf, keys, daemon>>

MakeDirectory ==
    /\ cmd.pc = "mkdir"
    /\ home' = TRUE
    /\ cmd' = [cmd EXCEPT !.pc = "truncate"]
    /\ UNCHANGED <<conf, keys, daemon>>

----------------------------------------------------------------------------
(* covd create-key                                                          *)

CreateKey(backend, name) ==
    /\ cmd.pc = "none"
    /\ LoadConfigOK
    /\ cmd' = [pc |-> "create",
               content |-> [LoadConfig EXCEPT !.account = <<backend, name>>]]
    /\ UNCHANGED <<home, conf, keys, daemon>>

(* Mutant: a failure to create the key does not end the command.            *)
CreatesOrGoesOn ==
    /\ cmd.pc = "create"
    /\ \E created \in SUBSET (Account \cap {cmd.content.account}) :
        keys' = keys \cup created
    /\ cmd' = [cmd EXCEPT !.pc = "truncate"]
    /\ UNCHANGED <<home, conf, daemon>>

(* Mutant: an empty name is not refused.                                    *)
CreatesNameless ==
    /\ cmd.pc = "create"
    /\ cmd.content.account \notin keys
    /\ keys' = keys \cup {cmd.content.account}
    /\ cmd' = [cmd EXCEPT !.pc = "truncate"]
    /\ UNCHANGED <<home, conf, daemon>>

(* The controller refuses an empty name; NewAccount refuses a name that the *)
(* backend has, and may fail on the passphrase or the hd path.              *)
CreateCovenantKey ==
    /\ cmd.pc = "create"
    /\ \/ /\ cmd.content.account \in Account \ keys
          /\ keys' = keys \cup {cmd.content.account}
          /\ cmd' = [cmd EXCEPT !.pc = "truncate"]
       \/ cmd' = Idle /\ UNCHANGED keys
    /\ UNCHANGED <<home, conf, daemon>>

(* covd show-key: the account is in the keyring. It changes nothing.        *)
ShowKeyOK(account) == account \in keys

----------------------------------------------------------------------------
(* covd start                                                               *)

(* Mutant: the remote signer is not asked for its key at the start.         *)
StartsUnchecked ==
    /\ daemon.status = "off"
    /\ LoadConfigOK
    /\ LoadConfig.account[1] = "test"
    /\ daemon' = [status |-> "running", config |-> LoadConfig]
    /\ UNCHANGED <<home, conf, keys, cmd>>

(* The keyring backend is compared, the key is not looked up; the remote    *)
(* signer must answer at its url.                                           *)
StartDaemon ==
    /\ daemon.status = "off"
    /\ LoadConfigOK
    /\ LoadConfig.account[1] = "test"
    /\ LoadConfig.url
    /\ daemon' = [status |-> "running", config |-> LoadConfig]
    /\ UNCHANGED <<home, conf, keys, cmd>>

(* The first step of every submission; GetKeyAddress panics without a key.  *)
MustGetTxSigner ==
    /\ daemon.status = "running"
    /\ daemon.config.account \notin keys
    /\ daemon' = [daemon EXCEPT !.status = "panicked"]
    /\ UNCHANGED <<home, conf, keys, cmd>>

StopDaemon ==
    /\ daemon.status \in {"running", "panicked"}
    /\ daemon' = [daemon EXCEPT !.status = "off"]
    /\ UNCHANGED <<home, conf, keys, cmd>>

----------------------------------------------------------------------------

HomeNext ==
    \/ \E force \in BOOLEAN : InitHome(force)
    \/ \E backend \in Backends, name \in Names : CreateKey(backend, name)
    \/ MakeDirectory \/ CreateCovenantKey \/ Truncate \/ WritePart \/ Killed
    \/ StartDaemon \/ MustGetTxSigner \/ StopDaemon

HomeSpec == HomeInit /\ [][HomeNext]_homeVars

----------------------------------------------------------------------------

(* Whatever is killed and whatever is run again, an account that the        *)
(* configuration file names is one create-key has created and show-key      *)
(* shows; only init may name an account that does not exist, its default.   *)
NamedKeyExists ==
    Len(conf) >= 2 =>
        \/ conf[2] = DefaultAccount
        \/ ShowKeyOK(conf[2])

(* A daemon that is running has been given an account and a remote signer,  *)
(* although the file it has read may be one that a killed command left, or  *)
(* one that create-key wrote from such a file.                              *)
StartedIsConfigured ==
    daemon.status = "running" =>
        daemon.config.account \in Account /\ daemon.config.url
=============================================================================
