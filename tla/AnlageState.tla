---------------------------- MODULE AnlageState ----------------------------
(***************************************************************************)
(* The state of one OsmoseAnlage object (OsmoseAnlage.h) and of the GPIO   *)
(* outputs it drives, shared by the two state machines of the control      *)
(* loop (Produktion, Refill) and by the module that composes them          *)
(* (OsmoseAnlage).                                                         *)
(*                                                                         *)
(* The code keeps the wall-clock second at which a phase started and       *)
(* computes "now.tv_sec - start".  The model keeps that difference: each   *)
(* ...Age variable is now.tv_sec minus the ...Start field of the same      *)
(* name, so assigning now.tv_sec is age 0 and a start of 0 (1970) is an    *)
(* age beyond every limit.  Ages saturate at Horizon, which no limit of    *)
(* Configs exceeds: the code only ever compares them with those limits.    *)
(***************************************************************************)
EXTENDS Integers, Sequences

CONSTANTS
    Configs,      \* the settings an OsmoseLinux.conf / writeConfig may hold
    MaxStep,      \* the most seconds the clock may advance per pass
    Horizon       \* ages of at least Horizon seconds are not told apart

Modi == {"modus_manuel", "modus_automatik"}

(* The settings the state machines read; the ports and the mail address    *)
(* are left out.                                                           *)
Config == [osmoseModus : Modi, refillFaillTime : Nat, osmoseFailTime : Nat,
           runtimeForCleaning : Nat, osmoseRuntimeToClean : Nat]

Age == 0 .. Horizon

ASSUME ConfigsAssumption ==
    /\ Configs \subseteq Config
    /\ \A c \in Configs : {c.refillFaillTime, c.osmoseFailTime,
                           c.runtimeForCleaning, c.osmoseRuntimeToClean}
                              \subseteq Age

ASSUME ClockAssumption ==
    /\ MaxStep \in Nat \ {0}
    /\ Horizon \in Nat \ {0}

VARIABLES
    ioPc,             \* where thread_io is in its endless loop
    cfg,              \* refillFaillTime, osmoseFailTime, ... , osmoseModus
    productionState,  \* osmoseProductionLastState
    refillState,      \* osmoseRefillState
    osmoseRefillActiv, sendErrorMailRefill,
    sensorTop, sensorBottom, sensorAqua,       \* TRUE: in the water
    osmoseRuntime, osmoseAge, cleanRuntime, cleanAge,
    cycleTime, cycleAge, refillRuntime, refillAge,
    IOpumpRefill, IOventFreshWater, IOventClean, \* levels of the output pins
    refillPump, cleanVent, frischVent,           \* what the status reports
    messages                                     \* MessageBus::messages

sensors      == <<sensorTop, sensorBottom, sensorAqua>>
osmoseTimers == <<osmoseRuntime, osmoseAge, cleanRuntime, cleanAge,
                  cycleTime, cycleAge>>
refillTimers == <<refillRuntime, refillAge>>
vents        == <<IOventFreshWater, IOventClean>>
ventFlags    == <<cleanVent, frischVent>>
refillVars   == <<refillState, refillTimers, sendErrorMailRefill, refillPump>>
osmoseVars   == <<productionState, osmoseTimers, ventFlags>>

vars == <<ioPc, cfg, osmoseVars, refillVars, osmoseRefillActiv, sensors,
          IOpumpRefill, vents, messages>>

(* soff is never assigned, and srclean is only ever a calcState.           *)
ProductionStates == {"sidle", "smanual", "spclean", "sclean", "sposmose",
                     "sosmose", "serror"}
RefillStates == {"refill_off", "refill_on", "refill_error", "refill_manual"}

Commands == {"setStartRefill", "setEndRefill",
             "setStartProductionOsmose", "setEndProductionOsmose"}

LoopSteps == {"sensoren", "osmose", "refill", "notify", "sleep"}

TypeOK ==
    /\ ioPc \in LoopSteps
    /\ cfg \in Configs
    /\ productionState \in ProductionStates
    /\ refillState \in RefillStates
    /\ osmoseRefillActiv \in BOOLEAN
    /\ sendErrorMailRefill \in BOOLEAN
    /\ sensorTop \in BOOLEAN /\ sensorBottom \in BOOLEAN /\ sensorAqua \in BOOLEAN
    /\ osmoseRuntime \in Age /\ osmoseAge \in Age
    /\ cleanRuntime \in Age /\ cleanAge \in Age
    /\ cycleTime \in Age /\ cycleAge \in Age
    /\ refillRuntime \in Age /\ refillAge \in Age
    /\ IOpumpRefill \in BOOLEAN
    /\ IOventFreshWater \in BOOLEAN /\ IOventClean \in BOOLEAN
    /\ refillPump \in BOOLEAN /\ cleanVent \in BOOLEAN /\ frischVent \in BOOLEAN
    /\ messages \in Seq(Commands)

(* After main's InitOsmose: the constructor's values, the settings of the  *)
(* file, and every output low (the DigiIO constructors).                   *)
Init ==
    /\ ioPc = "sensoren"
    /\ cfg \in Configs
    /\ productionState = "sidle"
    /\ refillState = "refill_off"
    /\ osmoseRefillActiv = TRUE
    /\ sendErrorMailRefill = FALSE
    /\ sensorTop = FALSE /\ sensorBottom = FALSE /\ sensorAqua = FALSE
    /\ osmoseRuntime = 0 /\ cleanRuntime = 0 /\ cycleTime = 0 /\ refillRuntime = 0
    /\ osmoseAge = Horizon /\ cleanAge = Horizon
    /\ cycleAge = Horizon /\ refillAge = Horizon
    /\ IOpumpRefill = FALSE /\ IOventFreshWater = FALSE /\ IOventClean = FALSE
    /\ refillPump = FALSE /\ cleanVent = FALSE /\ frischVent = FALSE
    /\ messages = <<>>

=============================================================================
