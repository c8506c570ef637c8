---------------------------- MODULE OsmoseAnlage ----------------------------
(***************************************************************************)
(* The whole plant: thread_io (OsmoseLinux.cpp) runs sensors, production,  *)
(* refill, message delivery and a 500 ms sleep in an endless loop, while   *)
(* the WebSocket thread executes the clients' commands at any moment.  A   *)
(* command is one atomic step here, between any two steps of the loop; the *)
(* module RefillRace looks inside the two that collide.                    *)
(***************************************************************************)
EXTENDS Produktion, Refill

\* Time passes while thread_io sleeps: "now - start" grows for every start.
Later(age, d) == IF age + d > Horizon THEN Horizon ELSE age + d

CheckSensoren ==
    /\ ioPc = "sensoren"
    /\ ioPc' = "osmose"
    /\ sensorTop' \in BOOLEAN /\ sensorBottom' \in BOOLEAN /\ sensorAqua' \in BOOLEAN
    /\ UNCHANGED <<cfg, osmoseVars, refillVars, osmoseRefillActiv,
                   IOpumpRefill, vents, messages>>

(* messageBus.notify() delivers every message; the receivers (Statistik,   *)
(* mail) change nothing of the plant.                                      *)
Notify ==
    /\ ioPc = "notify"
    /\ ioPc' = "sleep"
    /\ messages' = <<>>
    /\ UNCHANGED <<cfg, osmoseVars, refillVars, osmoseRefillActiv, sensors,
                   IOpumpRefill, vents>>

Sleep(d) ==
    /\ ioPc = "sleep"
    /\ ioPc' = "sensoren"
    /\ osmoseAge' = Later(osmoseAge, d)
    /\ cleanAge'  = Later(cleanAge, d)
    /\ cycleAge'  = Later(cycleAge, d)
    /\ refillAge' = Later(refillAge, d)
    /\ UNCHANGED <<cfg, productionState, osmoseRuntime, cleanRuntime, cycleTime,
                   ventFlags, refillState, refillRuntime, sendErrorMailRefill,
                   refillPump, osmoseRefillActiv, sensors, IOpumpRefill, vents,
                   messages>>

ThreadIo ==
    \/ CheckSensoren
    \/ stateMachineOsmose
    \/ stateMachineRefill
    \/ Notify
    \/ \E d \in 0 .. MaxStep : Sleep(d)

-----------------------------------------------------------------------------
(* The commands of the WebSocket clients.                                  *)

resetOsmoseProduction ==
    /\ osmoseAge' = Horizon /\ osmoseRuntime' = 0
    /\ sendErrorMailRefill' = FALSE
    /\ productionState' = "sidle"

resetRefillProduction ==
    /\ ClearRefillTimers
    /\ refillState' = "refill_off"

Reset ==
    /\ \/ productionState = "serror" \/ refillState = "refill_error"
    /\ IF productionState = "serror"
       THEN resetOsmoseProduction
       ELSE UNCHANGED <<osmoseAge, osmoseRuntime, sendErrorMailRefill, productionState>>
    /\ IF refillState = "refill_error"
       THEN resetRefillProduction
       ELSE UNCHANGED <<refillTimers, refillState>>
    /\ UNCHANGED <<ioPc, cfg, cleanRuntime, cleanAge, cycleTime, cycleAge,
                   ventFlags, refillPump, osmoseRefillActiv, sensors,
                   IOpumpRefill, vents, messages>>

\* Fault: the command leaves the pump to the next pass.
SwitchRefillOnly(activ) ==
    /\ osmoseRefillActiv' = activ
    /\ resetRefillProduction
    /\ UNCHANGED <<ioPc, cfg, osmoseVars, sendErrorMailRefill, refillPump,
                   IOpumpRefill, vents, sensors, messages>>

SwitchRefill(activ) ==
    /\ osmoseRefillActiv' = activ
    /\ SetRefillPump(FALSE)
    /\ resetRefillProduction
    /\ UNCHANGED <<ioPc, cfg, osmoseVars, sendErrorMailRefill, sensors, messages>>

RefillOn  == SwitchRefill(TRUE)
RefillOff == SwitchRefill(FALSE)

(* writeConfig and readConfig both end in Lesen, which takes the settings  *)
(* of the file and makes new DigiIO objects: their constructor drives      *)
(* every output low.  States, runtimes and flags stay as they are.  The    *)
(* setters that writeConfig calls before (OsmoseLinux.cpp:206-247) are     *)
(* part of this step; module Konfiguration has them one by one.            *)
LoadConfig(c) ==
    /\ cfg' = c
    /\ IOpumpRefill' = FALSE /\ IOventFreshWater' = FALSE /\ IOventClean' = FALSE
    /\ UNCHANGED <<ioPc, osmoseVars, refillVars, osmoseRefillActiv, sensors, messages>>

Command ==
    \/ Reset
    \/ RefillOn
    \/ RefillOff
    \/ \E c \in Configs : LoadConfig(c)

-----------------------------------------------------------------------------
Next == ThreadIo \/ Command

Spec == Init /\ [][Next]_vars

(* thread_io never blocks, and a 500 ms sleep cannot leave the clock       *)
(* standing for ever.                                                      *)
Fairness ==
    /\ WF_vars(ThreadIo)
    /\ SF_vars(\E d \in 1 .. MaxStep : Sleep(d))

FairSpec == Spec /\ Fairness

-----------------------------------------------------------------------------
(* Properties.                                                             *)

Automatikbetrieb == cfg.osmoseModus = "modus_automatik"

(* Once both state machines have seen the sensors of this pass, and until  *)
(* the next reading.                                                       *)
PassDone == ioPc \in {"notify", "sleep"}

(* The pump runs only for the housing switch, or for a refill that is in   *)
(* progress and not switched off by refillOff.  It relates the pin to the  *)
(* states that commands change behind the loop's back.                     *)
RefillInterlock ==
    IOpumpRefill => \/ refillState = "refill_manual"
                    \/ refillState = "refill_on" /\ osmoseRefillActiv

(* At the end of a pass tank water is never pumped out while fresh water   *)
(* flows in, unless someone holds the refill switch: the pins of the two   *)
(* state machines exclude each other.                                      *)
NoPumpingWhileProducing ==
    PassDone /\ IOpumpRefill /\ IOventFreshWater => refillState = "refill_manual"

(* The tank cannot be overfilled in automatic mode: with a wet top sensor  *)
(* the pass leaves the fresh water vent closed, whatever state, timer or   *)
(* command preceded it.                                                    *)
TopSensorStopsWater ==
    /\ ioPc \in {"refill", "notify", "sleep"}
    /\ Automatikbetrieb /\ productionState # "smanual" /\ sensorTop
    => ~IOventFreshWater

(* The aquarium cannot be overfilled: with a wet aquarium sensor the pass  *)
(* leaves the pump off, unless someone holds the switch.                   *)
AquaSensorStopsPump ==
    PassDone /\ sensorAqua /\ IOpumpRefill => refillState = "refill_manual"

(* If the aquarium sensor never gets wet the pump still stops: two clock   *)
(* steps after refillFaillTime at the latest, even when clients switch,    *)
(* reset and reconfigure the plant between two steps of the loop.          *)
RefillWatchdog ==
    IOpumpRefill /\ refillState = "refill_on"
        => refillAge < cfg.refillFaillTime + 2 * MaxStep

(* Switching the plant to modus_manuel ends every automatic refill: at the *)
(* end of a pass only the housing switch keeps the pump running.           *)
ManuellStopsPump ==
    PassDone /\ ~Automatikbetrieb /\ IOpumpRefill => refillState = "refill_manual"

(* Water flows only where the status page shows it: an open vent and a     *)
(* running pump have their flags up, once their housing switch is not      *)
(* involved. The flags are what the status sends, the pins what flows.     *)
NoHiddenFlow ==
    /\ productionState # "smanual" =>
           /\ IOventFreshWater => frischVent
           /\ IOventClean => cleanVent
    /\ refillState # "refill_manual" => (IOpumpRefill => refillPump)

(* The membrane is flushed only into an open drain: a clean vent never     *)
(* opens on its own.                                                       *)
CleanNeedsFresh == IOventClean => IOventFreshWater

(* A production fault stays: only the operator (reset, or the housing      *)
(* switch) leaves serror, never a sensor that changes its mind.            *)
FaultStays ==
    [][productionState = "serror" /\ productionState' # "serror" =>
           \/ productionState' = "smanual"
           \/ Reset]_vars

(* Osmosis water reaches the tank only after a flush of runtimeForCleaning *)
(* seconds: the step that closes the clean vent finds it due.              *)
FlushBeforeOsmose ==
    [][productionState = "sclean" /\ productionState' = "sposmose" =>
           \/ cleanAge >= cfg.runtimeForCleaning
           \/ cfg.runtimeForCleaning <= 1]_vars

(* Towards the message bus the plant is Meldungen: an end is sent only for *)
(* a run or refill that is on and was announced, a refill is announced and *)
(* ended only between runs, and the time limit only once between resets.   *)
InLauf == productionState \in {"sclean", "sposmose", "sosmose"}

M == INSTANCE Meldungen WITH
         lauf <- InLauf, refill <- (refillState = "refill_on"),
         gemeldet <- sendErrorMailRefill

MeldetWieSpezifiziert == M!Spec

(* A refill ends, whatever the sensor and the clients do: by the sensor,   *)
(* the time limit, production, the switch or a command.                    *)
RefillEnds == refillState = "refill_on" ~> refillState # "refill_on"

(* A production run ends, in one of its three ends: the tank is full, a    *)
(* fault, or the housing switch.                                           *)
ProductionEnds ==
    productionState \in {"sclean", "sposmose", "sosmose"}
        ~> productionState \in {"sidle", "serror", "smanual"}

(* The first flush of a run does not last for ever: only a wet bottom      *)
(* sensor under a dry top sensor, which restarts both runtimes at every    *)
(* pass, or modus_manuel holds the plant in spclean.                       *)
FlushProceeds ==
    []<>(productionState # "spclean" \/ ~Automatikbetrieb \/ (sensorBottom /\ ~sensorTop))

(* Nobody uses the housing switch of production any more.                  *)
Schalterruhe == <>[][productionState' # "smanual"]_vars

(* An empty tank starts a run: an idle plant neither waits for ever nor    *)
(* faults at once, whatever runtimes and fault the runs and resets before  *)
(* it left behind.  The exception are the runtimes that the housing switch *)
(* leaves behind (OsmoseAnlage.cpp:315-329 goes to sidle and clears none): *)
(* hence the second part is about a plant whose switch is left alone.      *)
StartsWhenEmpty ==
    /\ []<>(~Automatikbetrieb \/ productionState # "sidle" \/ ~TankEmpty)
    /\ Schalterruhe =>
           <>[][productionState = "sidle" /\ TankEmpty =>
                    productionState' \in {"sidle", "spclean"}]_vars

-----------------------------------------------------------------------------
(* What the documents and comments say of the plant, where the code does   *)
(* something else.                                                         *)

(* README.md: "Saftey Logic to prevent accidents by overfilling Tank":     *)
(* with a wet top sensor no vent stays open unless someone holds the       *)
(* housing switch.  In modus_manuel the last production state keeps its    *)
(* vents open, whatever the sensors say.                                   *)
NoOverfilling ==
    PassDone /\ sensorTop /\ productionState # "smanual" => ~IOventFreshWater

=============================================================================
