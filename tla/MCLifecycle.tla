---------------------------- MODULE MCLifecycle ----------------------------
(* Instances of Lifecycle for TLC.                                          *)
EXTENDS Lifecycle

(* Values an entry of the file may have besides its default.                *)
Others == [loglevel |-> {Absent, "trace", "loud"}, queryinterval |-> {Absent, 0},
           delegationlimit |-> {Absent}, sigsbatchsize |-> {Absent, 1},
           bitcoinnetwork |-> {Absent, "moonnet"}, host |-> {Absent, "name"},
           port |-> {Absent, 65536}, updateinterval |-> {Absent},
           keyring |-> {Absent, "file"}, timeout |-> {Absent, 0}]

(* The file that init writes, and the files with one entry changed or       *)
(* removed.                                                                 *)
MCFiles == {DefaultConfig} \cup
    UNION {{[DefaultConfig EXCEPT ![e] = v] : v \in Others[e]} : e \in Entry}
=============================================================================
