----------------------------- MODULE Produktion -----------------------------
(***************************************************************************)
(* OsmoseAnlage::stateMachineOsmose: the production cycle                  *)
(*                                                                         *)
(*   sidle -> spclean -> sclean -> sposmose -> sosmose -> (srclean) sclean *)
(*                                                                         *)
(* with its ends (tank full: sidle; sensor fault or time limit: serror)    *)
(* and the housing switch (smanual).  One call is one action: the pass     *)
(* reads the switch, computes calcState from the sensors and the runtimes  *)
(* of the previous pass, then updates the runtimes and writes the pins.    *)
(***************************************************************************)
EXTENDS AnlageState

ReachedOsmoseRuntime == osmoseRuntime >= cfg.osmoseFailTime
ReachedCycleTimeClean == cycleTime >= cfg.osmoseRuntimeToClean

\* Fault: a second early.
ReachedCleanRuntimeEarly == cleanRuntime + 1 >= cfg.runtimeForCleaning
ReachedCleanRuntime == cleanRuntime >= cfg.runtimeForCleaning

TankFull  == sensorTop /\ sensorBottom
TankEmpty == ~sensorTop /\ ~sensorBottom

MayStart == TankEmpty /\ ~ReachedOsmoseRuntime /\ ~ReachedCleanRuntime

\* Fault: the top sensor is not asked.
MayRunOverTop == ~ReachedOsmoseRuntime
MayRun == ~sensorTop /\ ~ReachedOsmoseRuntime

\* Fault: a full tank clears serror.
ToIdleFromError == TankFull
ToIdle == productionState # "serror" /\ TankFull

(* The else-if chain.  Its conditions exclude one another: the first five  *)
(* need a dry top sensor and time left, and the last one excludes the      *)
(* sixth explicitly.                                                       *)
CalcState ==
    CASE productionState = "sidle"    /\ MayStart -> "spclean"
      [] productionState = "spclean"  /\ MayStart -> "sclean"
      [] productionState = "sclean"   /\ MayRun /\ ReachedCleanRuntime -> "sposmose"
      [] productionState = "sposmose" /\ MayRun /\ ~ReachedCycleTimeClean -> "sosmose"
      [] productionState = "sosmose"  /\ MayRun /\ ReachedCycleTimeClean -> "srclean"
      [] ToIdle -> "sidle"
      [] ~ToIdle /\ ((sensorTop /\ ~sensorBottom) \/ ReachedOsmoseRuntime) -> "serror"
      [] OTHER -> productionState

(* Which vents a state opens ("Schalten IO").                              *)
\* Fault: the first flush state is forgotten.
FreshOpenNotInSpclean(s) == s \in {"sclean", "sposmose", "sosmose"}
FreshOpen(s) == s \in {"spclean", "sclean", "sposmose", "sosmose"}
CleanOpen(s) == s \in {"spclean", "sclean"}

SchaltenIO(s) ==
    /\ IOpumpRefill' = FALSE
    /\ IOventFreshWater' = FreshOpen(s)
    /\ IOventClean' = CleanOpen(s)

(* Each runtime is written by the branch of calcState that owns it.        *)
\* Fault: the runtime is not counted.
OsmoseRuntimeStands(calc) ==
    CASE calc = "sidle"   -> 0
      [] calc = "spclean" -> 1
      [] OTHER -> osmoseRuntime
\* Fault: sidle keeps the runtime of the last run.
OsmoseRuntimeKept(calc) ==
    CASE calc = "spclean" -> 1
      [] calc = "sosmose" -> osmoseAge
      [] OTHER -> osmoseRuntime
OsmoseRuntime(calc) ==
    CASE calc = "sidle"   -> 0
      [] calc = "spclean" -> 1
      [] calc = "sosmose" -> osmoseAge
      [] OTHER -> osmoseRuntime

\* Faults: the start is a second late; the flush is timed by the start of
\* the run.
CleanRuntimeLate(calc) ==
    CASE calc = "sidle" -> 0
      [] calc \in {"spclean", "srclean"} -> 1
      [] calc = "sclean" -> cleanAge - 1
      [] OTHER -> cleanRuntime
CleanRuntimeOfRun(calc) ==
    CASE calc = "sidle" -> 0
      [] calc \in {"spclean", "srclean"} -> 1
      [] calc = "sclean" -> osmoseAge
      [] OTHER -> cleanRuntime
CleanRuntime(calc) ==
    CASE calc = "sidle" -> 0
      [] calc \in {"spclean", "srclean"} -> 1
      [] calc = "sclean" -> cleanAge
      [] OTHER -> cleanRuntime

UpdateRuntimes(calc) ==
    /\ osmoseRuntime' = OsmoseRuntime(calc)
    /\ cleanRuntime' = CleanRuntime(calc)
    /\ cycleTime' = CASE calc = "sidle" -> 0
                      [] calc = "sposmose" -> 1
                      [] calc = "sosmose" -> cycleAge
                      [] OTHER -> cycleTime
    /\ osmoseAge' = IF calc = "spclean" THEN 0 ELSE osmoseAge
    /\ cleanAge' = IF calc \in {"spclean", "srclean"} THEN 0 ELSE cleanAge
    /\ cycleAge' = IF calc = "sposmose" THEN 0 ELSE cycleAge

(* The statistics message a transition sends, if any.                      *)
ProductionMessage(calc) ==
    CASE productionState = "spclean" /\ calc = "sclean" -> <<"setStartProductionOsmose">>
      [] productionState = "sosmose" /\ calc = "sidle"  -> <<"setEndProductionOsmose">>
      [] OTHER -> <<>>

Unaffected == UNCHANGED <<cfg, refillVars, osmoseRefillActiv, sensors>>

(* The housing switch reads HIGH: the vent is opened whatever the sensors  *)
(* say.  The switch may read either way at any pass.                       *)
OsmoseSchalterAn ==
    /\ productionState' = "smanual"
    /\ IOventClean' = FALSE /\ IOventFreshWater' = TRUE
    /\ UNCHANGED <<osmoseTimers, ventFlags, IOpumpRefill, messages>>

\* Fault: the vent is left as the switch set it.
OsmoseSchalterAusOffen ==
    /\ productionState = "smanual"
    /\ productionState' = "sidle"
    /\ IOventClean' = FALSE /\ UNCHANGED IOventFreshWater
    /\ UNCHANGED <<osmoseTimers, ventFlags, IOpumpRefill, messages>>

OsmoseSchalterAus ==
    /\ productionState = "smanual"
    /\ productionState' = "sidle"
    /\ IOventClean' = FALSE /\ IOventFreshWater' = FALSE
    /\ UNCHANGED <<osmoseTimers, ventFlags, IOpumpRefill, messages>>

OsmoseAutomatik ==
    LET calc == CalcState IN
    /\ productionState # "smanual"
    /\ cfg.osmoseModus = "modus_automatik"
    /\ productionState' = IF calc = "srclean" THEN "sclean" ELSE calc
    /\ UpdateRuntimes(calc)
    /\ frischVent' = FreshOpen(productionState')
    /\ cleanVent' = CleanOpen(productionState')
    /\ SchaltenIO(productionState')
    /\ messages' = messages \o ProductionMessage(calc)

(* modus_manuel: the state is kept, and its outputs are written again.     *)
OsmoseManuell ==
    /\ productionState # "smanual"
    /\ cfg.osmoseModus = "modus_manuel"
    /\ SchaltenIO(productionState)
    /\ UNCHANGED <<osmoseVars, messages>>

stateMachineOsmose ==
    /\ ioPc = "osmose"
    /\ ioPc' = "refill"
    /\ \/ OsmoseSchalterAn
       \/ OsmoseSchalterAus
       \/ OsmoseAutomatik
       \/ OsmoseManuell
    /\ Unaffected

=============================================================================
