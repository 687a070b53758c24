----------------------------- MODULE Lifecycle -----------------------------
(***************************************************************************)
(* The life of the daemon process: the start command up to the running     *)
(* server, the goroutines it starts (the Prometheus server with its        *)
(* /health handlers, the submission loop, the metrics loop) and the        *)
(* shutdown that a signal begins. What a round of the submission loop does *)
(* is CovenantEmulator; here it only takes time.                           *)
(***************************************************************************)
EXTENDS Configuration, FiniteSets

CONSTANTS
    Files,      \* the configuration files considered
    Health      \* requests for /health

VARIABLES
    file,       \* the configuration file; never changes
    main,       \* where the main goroutine stands
    prom,       \* the Prometheus server: "none", "spawned", "listening", "shut"
    loop,       \* the submission loop
    updater,    \* the metrics loop
    quit,       \* the emulator's quit channel is closed
    signal,     \* an interrupt has been sent to the process
    health      \* health[h]: "none", "connected", "asking" (the signer),
                \* the status, or "dropped" before it was read

lifeVars == <<file, main, prom, loop, updater, quit, signal, health>>

cfg == ParseFile(file)

Starting == {"load", "logger", "client", "check", "emulator", "intercept"}
Running == {"serve", "start", "wait", "stopProm", "draining", "stopEmulator",
            "waitLoops"}
Over == {"refused", "badLevel", "killed", "fatal", "panicked", "exited"}

LifeTypeOK ==
    /\ file \in Files
    /\ main \in Starting \cup Running \cup Over
    /\ prom \in {"none", "spawned", "listening", "shut"}
    /\ loop \in {"none", "spawned", "idle", "round", "emptyRound", "exited"}
    /\ updater \in {"none", "spawned", "idle", "exited"}
    /\ quit \in BOOLEAN /\ signal \in BOOLEAN
    /\ health \in [Health -> {"none", "connected", "asking", "200", "503", "dropped"}]

LifeInit ==
    /\ file \in Files
    /\ main = "load"
    /\ prom = "none" /\ loop = "none" /\ updater = "none"
    /\ quit = FALSE /\ signal = FALSE
    /\ health = [h \in Health |-> "none"]

MainGoes(from, to) == main = from /\ main' = to

----------------------------------------------------------------------------
(* The start command                                                        *)

LoadConfig ==
    /\ MainGoes("load", IF LoadConfigOK(file) /\ cfg.keyring = "test"
                        THEN "logger" ELSE "refused")
    /\ UNCHANGED <<file, prom, loop, updater, quit, signal, health>>

NewLogger ==
    /\ MainGoes("logger", IF NewRootLoggerOK(cfg.loglevel) THEN "client"
                                                           ELSE "badLevel")
    /\ UNCHANGED <<file, prom, loop, updater, quit, signal, health>>

(* NewBabylonController, the health check of the signer, NewEmulator: each  *)
(* of them depends on another process and may fail.                         *)
Connect ==
    /\ \/ MainGoes("client", "check") \/ MainGoes("check", "emulator")
       \/ MainGoes("emulator", "intercept")
       \/ main \in {"client", "check", "emulator"} /\ main' = "refused"
    /\ UNCHANGED <<file, prom, loop, updater, quit, signal, health>>

Intercept ==
    /\ MainGoes("intercept", "serve")
    /\ UNCHANGED <<file, prom, loop, updater, quit, signal, health>>

(* A signal ends a process that does not yet intercept it.                  *)
Interrupt ==
    /\ main \notin Over /\ ~signal
    /\ signal' = TRUE
    /\ main' = IF main \in Starting THEN "killed" ELSE main
    /\ UNCHANGED <<file, prom, loop, updater, quit, health>>

----------------------------------------------------------------------------
(* RunUntilShutdown                                                         *)

Serve ==
    /\ MainGoes("serve", "start")
    /\ prom' = "spawned"
    /\ UNCHANGED <<file, loop, updater, quit, signal, health>>

Start ==
    /\ MainGoes("start", "wait")
    /\ loop' = "spawned" /\ updater' = "spawned"
    /\ UNCHANGED <<file, prom, quit, signal, health>>

ShutdownSignal ==
    /\ signal
    /\ MainGoes("wait", "stopProm")
    /\ UNCHANGED <<file, prom, loop, updater, quit, signal, health>>

(* Mutant: the emulator is stopped before the Prometheus server.            *)
StopPromLast ==
    /\ MainGoes("stopProm", "draining")
    /\ prom' = "shut" /\ quit' = TRUE
    /\ UNCHANGED <<file, loop, updater, signal, health>>

(* Shutdown accepts no new connection, and waits for the open ones.         *)
StopProm ==
    /\ MainGoes("stopProm", "draining")
    /\ prom' = "shut"
    /\ UNCHANGED <<file, loop, updater, quit, signal, health>>

Drained ==
    /\ MainGoes("draining", "stopEmulator")
    /\ \A h \in Health : health[h] \notin {"connected", "asking"}
    /\ UNCHANGED <<file, prom, loop, updater, quit, signal, health>>

(* Mutant: Stop waits for the loops before it closes the channel.           *)
StopWaitsFirst ==
    /\ MainGoes("stopEmulator", "waitLoops")
    /\ UNCHANGED <<file, prom, loop, updater, quit, signal, health>>

Stop ==
    /\ MainGoes("stopEmulator", "waitLoops")
    /\ quit' = TRUE
    /\ UNCHANGED <<file, prom, loop, updater, signal, health>>

(* Mutant: the wait group counts one of the two loops.                      *)
WaitsForOneLoop ==
    /\ MainGoes("waitLoops", "exited")
    /\ updater = "exited"
    /\ UNCHANGED <<file, prom, loop, updater, quit, signal, health>>

LoopsDone ==
    /\ MainGoes("waitLoops", "exited")
    /\ loop = "exited" /\ updater = "exited"
    /\ UNCHANGED <<file, prom, loop, updater, quit, signal, health>>

----------------------------------------------------------------------------
(* The goroutines, as long as the process lives.                            *)

(* A port that cannot be bound is fatal for the whole process.              *)
Listen ==
    /\ main \in Running /\ prom = "spawned"
    /\ \/ prom' = "listening" /\ UNCHANGED main
       \/ main' = "fatal" /\ UNCHANGED prom
    /\ UNCHANGED <<file, loop, updater, quit, signal, health>>

Accept(h) ==
    /\ main \in Running /\ prom = "listening"
    /\ health[h] = "none"
    /\ health' = [health EXCEPT ![h] = "connected"]
    /\ UNCHANGED <<file, main, prom, loop, updater, quit, signal>>

(* ReadHeaderTimeout: a connection that stays silent is closed.             *)
HeaderTimesOut(h) ==
    /\ main \in Running /\ health[h] = "connected"
    /\ health' = [health EXCEPT ![h] = "dropped"]
    /\ UNCHANGED <<file, main, prom, loop, updater, quit, signal>>

(* Mutant: the handler is registered without a readiness checker.           *)
ReadinessUnchecked(h) ==
    /\ main \in Running /\ health[h] = "connected"
    /\ health' = [health EXCEPT ![h] = "500"]
    /\ UNCHANGED <<file, main, prom, loop, updater, quit, signal>>

(* CheckReadiness looks at quit, then asks the signer for its key. A        *)
(* connection accepted before the shutdown is served during it.             *)
CheckReadiness(h) ==
    /\ main \in Running /\ health[h] = "connected"
    /\ health' = [health EXCEPT ![h] = IF quit THEN "503" ELSE "asking"]
    /\ UNCHANGED <<file, main, prom, loop, updater, quit, signal>>

SignerAnswers(h) ==
    /\ main \in Running /\ health[h] = "asking"
    /\ \E status \in {"200", "503"} : health' = [health EXCEPT ![h] = status]
    /\ UNCHANGED <<file, main, prom, loop, updater, quit, signal>>

SignerTimesOut(h) ==
    /\ main \in Running /\ health[h] = "asking"
    /\ cfg.timeout > 0
    /\ health' = [health EXCEPT ![h] = "503"]
    /\ UNCHANGED <<file, main, prom, loop, updater, quit, signal>>

(* A ticker wants a positive interval.                                      *)
NewTicker(interval) == IF interval > 0 THEN UNCHANGED main
                                       ELSE main' = "panicked"

LoopBegins ==
    /\ main \in Running /\ loop = "spawned"
    /\ NewTicker(cfg.queryinterval)
    /\ loop' = "idle"
    /\ UNCHANGED <<file, prom, updater, quit, signal, health>>

(* The query finds delegations to sign, or none.                            *)
RoundBegins ==
    /\ main \in Running /\ loop = "idle"
    /\ loop' \in {"round", "emptyRound"}
    /\ UNCHANGED <<file, main, prom, updater, quit, signal, health>>

(* A query that fails or finds nothing.                                     *)
EmptyRoundEnds ==
    /\ main \in Running /\ loop = "emptyRound"
    /\ loop' = "idle"
    /\ UNCHANGED <<file, main, prom, updater, quit, signal, health>>

(* delegationsToBatches ends only with batches that are not empty.          *)
RoundEnds ==
    /\ main \in Running /\ loop = "round"
    /\ cfg.sigsbatchsize > 0
    /\ loop' = "idle"
    /\ UNCHANGED <<file, main, prom, updater, quit, signal, health>>

LoopExits ==
    /\ main \in Running /\ loop = "idle" /\ quit
    /\ loop' = "exited"
    /\ UNCHANGED <<file, main, prom, updater, quit, signal, health>>

UpdaterBegins ==
    /\ main \in Running /\ updater = "spawned"
    /\ NewTicker(cfg.updateinterval)
    /\ updater' = "idle"
    /\ UNCHANGED <<file, prom, loop, quit, signal, health>>

UpdaterExits ==
    /\ main \in Running /\ updater = "idle" /\ quit
    /\ updater' = "exited"
    /\ UNCHANGED <<file, main, prom, loop, quit, signal, health>>

----------------------------------------------------------------------------

Main ==
    \/ LoadConfig \/ NewLogger \/ Connect \/ Intercept
    \/ Serve \/ Start \/ ShutdownSignal \/ StopProm \/ Drained \/ Stop \/ LoopsDone

Updater == UpdaterBegins \/ UpdaterExits

LifeNext ==
    \/ Main \/ Interrupt \/ Listen \/ Updater
    \/ LoopBegins \/ RoundBegins \/ EmptyRoundEnds \/ RoundEnds \/ LoopExits
    \/ \E h \in Health :
        \/ Accept(h) \/ HeaderTimesOut(h) \/ CheckReadiness(h)
        \/ SignerAnswers(h) \/ SignerTimesOut(h)

LifeSpec == LifeInit /\ [][LifeNext]_lifeVars

(* Every goroutine runs; a select with a closed channel does not choose the *)
(* ticker for ever; a timer fires. Nobody owes a signal or an answer, and   *)
(* no round need end: neither a query that finds nothing nor a submission.  *)
FairLifeSpec ==
    /\ LifeSpec
    /\ WF_lifeVars(Main) /\ WF_lifeVars(Updater)
    /\ WF_lifeVars(LoopBegins)
    /\ SF_lifeVars(LoopExits)
    /\ \A h \in Health :
        WF_lifeVars(HeaderTimesOut(h)) /\ WF_lifeVars(SignerTimesOut(h))

----------------------------------------------------------------------------

(* A process that ends by itself ends clean: both loops have returned, in   *)
(* no round that is still submitting, and no health request is being        *)
(* answered.                                                                *)
CleanExit ==
    main = "exited" =>
        /\ loop = "exited" /\ updater = "exited"
        /\ prom = "shut"
        /\ \A h \in Health : health[h] \notin {"connected", "asking"}

(* Nobody is told that the daemon is healthy once it has begun to stop,     *)
(* although the check looks at quit first and answers only after a call of  *)
(* the signer: the Prometheus server is shut down before the emulator, and  *)
(* its shutdown waits for the handlers.                                     *)
HealthyOnlyBeforeQuit ==
    [][\A h \in Health :
        health[h] = "asking" /\ health'[h] = "200" => ~quit]_lifeVars

(* After a signal the daemon ends, whatever the signer and the clients of   *)
(* the Prometheus server do at that moment, if calls of the signer time out *)
(* and no round lasts for ever (CovenantEmulator's StopCompletes is about   *)
(* the rounds, and the run StopHangs about one that does last).             *)
ShutdownCompletes ==
    []<>(loop \notin {"round", "emptyRound"}) =>
        ((signal /\ main \in Running /\ cfg.timeout > 0) ~> (main \in Over))

(* A configuration that LoadConfig accepts is sane ("Start with a default   *)
(* config with sane settings"): the daemon neither panics on it nor splits  *)
(* delegations into batches without end.                                    *)
AcceptedConfigRuns ==
    /\ main # "panicked"
    /\ ~(loop = "round" /\ cfg.sigsbatchsize = 0)
=============================================================================
