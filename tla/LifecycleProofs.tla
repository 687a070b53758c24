-------------------------- MODULE LifecycleProofs --------------------------
(* What the order of the deferred stops in RunUntilShutdown guarantees, for *)
(* every configuration file and any number of health requests.              *)
EXTENDS Lifecycle, TLAPS

(* Where the main goroutine stands tells what is already shut down: the     *)
(* Prometheus server and its handlers before the emulator, whose loops are  *)
(* over when the process has ended.                                         *)
ShutdownInv ==
    /\ LifeTypeOK
    /\ quit => main \in {"waitLoops"} \cup Over
    /\ main \in {"draining", "stopEmulator", "waitLoops", "exited"} =>
            prom = "shut"
    /\ main \in {"stopEmulator", "waitLoops", "exited"} =>
            \A h \in Health : health[h] \notin {"connected", "asking"}
    /\ main = "exited" => loop = "exited" /\ updater = "exited"

USE DEF Running, Over, Starting

LEMMA ShutdownInit == LifeInit => ShutdownInv
BY DEF LifeInit, ShutdownInv, LifeTypeOK

(* The steps of the main goroutine.                                         *)
LEMMA MainKeeps ==
    ASSUME ShutdownInv, Main
    PROVE  ShutdownInv'
<1>1. CASE LoadConfig
  BY <1>1 DEF ShutdownInv, LifeTypeOK, LoadConfig, MainGoes
<1>2. CASE NewLogger
  BY <1>2 DEF ShutdownInv, LifeTypeOK, NewLogger, MainGoes
<1>3. CASE Connect
  BY <1>3 DEF ShutdownInv, LifeTypeOK, Connect, MainGoes
<1>4. CASE Intercept
  BY <1>4 DEF ShutdownInv, LifeTypeOK, Intercept, MainGoes
<1>5. CASE Serve
  BY <1>5 DEF ShutdownInv, LifeTypeOK, Serve, MainGoes
<1>6. CASE Start
  BY <1>6 DEF ShutdownInv, LifeTypeOK, Start, MainGoes
<1>7. CASE ShutdownSignal
  BY <1>7 DEF ShutdownInv, LifeTypeOK, ShutdownSignal, MainGoes
<1>8. CASE StopProm
  BY <1>8 DEF ShutdownInv, LifeTypeOK, StopProm, MainGoes
<1>9. CASE Drained
  BY <1>9 DEF ShutdownInv, LifeTypeOK, Drained, MainGoes
<1>10. CASE Stop
  BY <1>10 DEF ShutdownInv, LifeTypeOK, Stop, MainGoes
<1>11. CASE LoopsDone
  BY <1>11 DEF ShutdownInv, LifeTypeOK, LoopsDone, MainGoes
<1> QED
  BY <1>1, <1>2, <1>3, <1>4, <1>5, <1>6, <1>7, <1>8, <1>9, <1>10, <1>11 DEF Main

(* The two loops; they run as long as the main goroutine does.              *)
LEMMA LoopsKeep ==
    ASSUME ShutdownInv,
           \/ LoopBegins \/ RoundBegins \/ EmptyRoundEnds \/ RoundEnds
           \/ LoopExits \/ Updater
    PROVE  ShutdownInv'
<1>1. CASE LoopBegins
  BY <1>1 DEF ShutdownInv, LifeTypeOK, LoopBegins, NewTicker
<1>2. CASE RoundBegins
  BY <1>2 DEF ShutdownInv, LifeTypeOK, RoundBegins
<1>3. CASE EmptyRoundEnds
  BY <1>3 DEF ShutdownInv, LifeTypeOK, EmptyRoundEnds
<1>4. CASE RoundEnds
  BY <1>4 DEF ShutdownInv, LifeTypeOK, RoundEnds
<1>5. CASE LoopExits
  BY <1>5 DEF ShutdownInv, LifeTypeOK, LoopExits
<1>6. CASE UpdaterBegins
  BY <1>6 DEF ShutdownInv, LifeTypeOK, UpdaterBegins, NewTicker
<1>7. CASE UpdaterExits
  BY <1>7 DEF ShutdownInv, LifeTypeOK, UpdaterExits
<1> QED BY <1>1, <1>2, <1>3, <1>4, <1>5, <1>6, <1>7 DEF Updater

(* The health requests: none is accepted once the server is shut, and none  *)
(* is left once it is drained.                                              *)
LEMMA HandlersKeep ==
    ASSUME ShutdownInv, NEW h \in Health,
           \/ Accept(h) \/ HeaderTimesOut(h) \/ CheckReadiness(h)
           \/ SignerAnswers(h) \/ SignerTimesOut(h)
    PROVE  ShutdownInv'
<1>1. CASE CheckReadiness(h)
  BY <1>1 DEF ShutdownInv, LifeTypeOK, CheckReadiness
<1>2. CASE SignerAnswers(h)
  BY <1>2 DEF ShutdownInv, LifeTypeOK, SignerAnswers
<1>3. CASE SignerTimesOut(h)
  BY <1>3 DEF ShutdownInv, LifeTypeOK, SignerTimesOut
<1>4. CASE Accept(h)
  BY <1>4 DEF ShutdownInv, LifeTypeOK, Accept
<1>5. CASE HeaderTimesOut(h)
  BY <1>5 DEF ShutdownInv, LifeTypeOK, HeaderTimesOut
<1> QED BY <1>1, <1>2, <1>3, <1>4, <1>5

LEMMA ShutdownStep ==
    ASSUME ShutdownInv, [LifeNext]_lifeVars
    PROVE  ShutdownInv'
<1>1. CASE Main
  BY <1>1, MainKeeps
<1>2. CASE Interrupt
  BY <1>2 DEF ShutdownInv, LifeTypeOK, Interrupt
<1>3. CASE Listen
  BY <1>3 DEF ShutdownInv, LifeTypeOK, Listen
<1>4. CASE \/ LoopBegins \/ RoundBegins \/ EmptyRoundEnds \/ RoundEnds
           \/ LoopExits \/ Updater
  BY <1>4, LoopsKeep
<1>5. CASE \E h \in Health :
            \/ Accept(h) \/ HeaderTimesOut(h) \/ CheckReadiness(h)
            \/ SignerAnswers(h) \/ SignerTimesOut(h)
  BY <1>5, HandlersKeep
<1>6. CASE UNCHANGED lifeVars
  BY <1>6 DEF ShutdownInv, LifeTypeOK, lifeVars
<1> QED BY <1>1, <1>2, <1>3, <1>4, <1>5, <1>6 DEF LifeNext

LEMMA ShutdownInvariance == LifeSpec => []ShutdownInv
<1>1. LifeInit => ShutdownInv
  BY ShutdownInit
<1>2. ShutdownInv /\ [LifeNext]_lifeVars => ShutdownInv'
  BY ShutdownStep
<1> QED BY <1>1, <1>2, PTL DEF LifeSpec

(* The states of the goroutines are those the model names: in particular a  *)
(* health request is answered with 200 or 503, never with 500.              *)
THEOREM LifeTypeCorrect == LifeSpec => []LifeTypeOK
<1>1. ShutdownInv => LifeTypeOK
  BY DEF ShutdownInv
<1> QED BY <1>1, ShutdownInvariance, PTL

(* The process ends by itself only when both loops have returned and every  *)
(* health request has been answered.                                        *)
THEOREM ExitsClean == LifeSpec => []CleanExit
<1>1. ShutdownInv => CleanExit
  BY DEF ShutdownInv, CleanExit
<1> QED BY <1>1, ShutdownInvariance, PTL

(* No health request is answered with 200 once quit is closed, because the  *)
(* handlers are waited for before.                                          *)
THEOREM NoHealthyAnswerAfterQuit == LifeSpec => HealthyOnlyBeforeQuit
<1>1. ASSUME ShutdownInv, [LifeNext]_lifeVars
      PROVE  [\A h \in Health :
                health[h] = "asking" /\ health'[h] = "200" => ~quit]_lifeVars
  <2> SUFFICES ASSUME NEW h \in Health, health[h] = "asking",
                      health'[h] = "200", quit
               PROVE  FALSE
    OBVIOUS
  <2>1. main \in Over
    BY <1>1 DEF ShutdownInv
  <2>2. health' # health
    OBVIOUS
  <2>3. ~LifeNext
    <3>1. main \notin Running /\ main \notin Starting
      BY <2>1
    <3> QED
      BY <3>1, <2>2 DEF LifeNext, Main, Updater, LoadConfig, NewLogger, Connect,
         Intercept, Serve, Start, ShutdownSignal, StopProm, Drained, Stop,
         LoopsDone, MainGoes, Interrupt, Listen, UpdaterBegins, UpdaterExits,
         LoopBegins, RoundBegins, EmptyRoundEnds, RoundEnds, LoopExits,
         Accept, HeaderTimesOut, CheckReadiness, SignerAnswers, SignerTimesOut
  <2> QED BY <1>1, <2>2, <2>3 DEF lifeVars
<1> QED BY <1>1, ShutdownInvariance, PTL DEF LifeSpec, HealthyOnlyBeforeQuit

----------------------------------------------------------------------------
(* What the validation of the configuration lacks                           *)

(* The check that Validate does not make: the intervals and the batch size  *)
(* of every file it accepts are positive.                                   *)
AcceptedPositive ==
    \A f \in Files : LoadConfigOK(f) =>
        /\ ParseFile(f).queryinterval > 0 /\ ParseFile(f).updateinterval > 0
        /\ ParseFile(f).sigsbatchsize > 0

(* The daemon goes on, and its loop works, only with an accepted file.      *)
AcceptedInv ==
    /\ file \in Files
    /\ main \notin {"load", "refused", "killed"} => LoadConfigOK(file)
    /\ loop = "round" => LoadConfigOK(file)
    /\ AcceptedPositive => main # "panicked"

(* The steps that a configuration matters to, and all others.               *)
LEMMA AcceptedStep == ASSUME AcceptedInv, [LifeNext]_lifeVars PROVE AcceptedInv'
<1>0. ASSUME file' = file, loop' = loop, main \notin {"load", "refused", "killed"},
             main' \in Starting \cup Running \cup {"refused", "badLevel", "exited"}
      PROVE  AcceptedInv'
  BY <1>0 DEF AcceptedInv
<1>1. CASE Main
  <2>1. CASE LoadConfig
    BY <1>1, <2>1 DEF AcceptedInv, LoadConfig, MainGoes
  <2>2. CASE Start
    BY <2>2 DEF AcceptedInv, Start, MainGoes
  <2>3. CASE Main /\ ~LoadConfig /\ ~Start
    BY <2>3, <1>0 DEF Main, NewLogger, Connect, Intercept, Serve, ShutdownSignal,
                      StopProm, Drained, Stop, LoopsDone, MainGoes
  <2> QED BY <1>1, <2>1, <2>2, <2>3
<1>2. CASE Interrupt
  BY <1>2 DEF AcceptedInv, Interrupt
<1>3. CASE Listen
  BY <1>3 DEF AcceptedInv, Listen
<1>4. ASSUME AcceptedPositive, NEW i, main \in Running, NewTicker(i),
             i = cfg.queryinterval \/ i = cfg.updateinterval
      PROVE  main' = main
  BY <1>4 DEF AcceptedInv, AcceptedPositive, NewTicker, cfg
<1>5. CASE LoopBegins
  BY <1>4, <1>5 DEF AcceptedInv, LoopBegins, NewTicker
<1>6. CASE UpdaterBegins
  BY <1>4, <1>6 DEF AcceptedInv, UpdaterBegins, NewTicker
<1>7. CASE RoundBegins \/ EmptyRoundEnds \/ RoundEnds \/ LoopExits \/ UpdaterExits
  BY <1>7 DEF AcceptedInv, RoundBegins, EmptyRoundEnds, RoundEnds, LoopExits, UpdaterExits
<1>8. CASE \E h \in Health :
            \/ Accept(h) \/ HeaderTimesOut(h) \/ CheckReadiness(h)
            \/ SignerAnswers(h) \/ SignerTimesOut(h)
  BY <1>8 DEF AcceptedInv, Accept, HeaderTimesOut, CheckReadiness, SignerAnswers, SignerTimesOut
<1>9. CASE UNCHANGED lifeVars
  BY <1>9 DEF AcceptedInv, lifeVars
<1> QED BY <1>1, <1>2, <1>3, <1>5, <1>6, <1>7, <1>8, <1>9 DEF LifeNext, Updater

(* Zero intervals and a zero batch size are all that is wrong with what     *)
(* LoadConfig accepts: were they refused, no accepted configuration would   *)
(* end in a panic or in a loop over empty batches.                          *)
THEOREM PositiveConfigRuns ==
    ASSUME AcceptedPositive
    PROVE  LifeSpec => []AcceptedConfigRuns
<1>1. LifeInit => AcceptedInv
  BY DEF LifeInit, AcceptedInv
<1>2. AcceptedInv /\ [LifeNext]_lifeVars => AcceptedInv'
  BY AcceptedStep
<1>3. AcceptedInv => AcceptedConfigRuns
  BY DEF AcceptedInv, AcceptedPositive, AcceptedConfigRuns, cfg
<1> QED BY <1>1, <1>2, <1>3, PTL DEF LifeSpec
=============================================================================
