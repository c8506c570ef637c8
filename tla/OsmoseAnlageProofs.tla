------------------------- MODULE OsmoseAnlageProofs -------------------------
(***************************************************************************)
(* Theorems about OsmoseAnlage, for every set of settings, every clock     *)
(* step and every horizon.                                                 *)
(***************************************************************************)
EXTENDS OsmoseAnlage, TLAPS

-----------------------------------------------------------------------------
(* Type correctness.                                                       *)

(* A moment of the past is an age, however far the clock moves on.         *)
LEMMA LaterIsAge ==
    ASSUME NEW age \in Age, NEW d \in Nat
    PROVE  Later(age, d) \in Age /\ Later(age, d) <= age + d
BY ClockAssumption DEF Later, Age

(* The state the else-if chain computes is one the branches after it know. *)
LEMMA CalcStateType ==
    TypeOK => CalcState \in (ProductionStates \cup {"srclean"})
BY DEF TypeOK, CalcState, ProductionStates

(* Whether a state opens a vent is a truth value.                          *)
LEMMA OpenIsBoolean ==
    ASSUME NEW s
    PROVE  FreshOpen(s) \in BOOLEAN /\ CleanOpen(s) \in BOOLEAN
BY DEF FreshOpen, CleanOpen

(* What the refill machine sends is a command.                             *)
LEMMA EachCommand ==
    /\ "setEndRefill" \in Commands
    /\ "setEndProductionOsmose" \in Commands
BY DEF Commands

(* Sending a command leaves a queue of commands.                           *)
LEMMA SendType ==
    ASSUME NEW queue \in Seq(Commands), NEW command \in Commands
    PROVE  Append(queue, command) \in Seq(Commands)
OBVIOUS

(* A transition sends nothing, or one command.                             *)
LEMMA ProductionMessageType ==
    ASSUME NEW calc
    PROVE  \/ ProductionMessage(calc) = <<>>
           \/ \E command \in Commands : ProductionMessage(calc) = <<command>>
BY DEF ProductionMessage, Commands

(* stateMachineOsmose keeps every field in its range.                      *)
LEMMA OsmoseType == TypeOK /\ stateMachineOsmose => TypeOK'
<1> SUFFICES ASSUME TypeOK, stateMachineOsmose PROVE TypeOK'
    OBVIOUS
<1> USE DEF TypeOK, stateMachineOsmose, Unaffected, refillVars, refillTimers,
            sensors, osmoseTimers, ventFlags, osmoseVars, ProductionStates, LoopSteps
<1>1. CASE OsmoseSchalterAn
    BY <1>1 DEF OsmoseSchalterAn
<1>2. CASE OsmoseSchalterAus
    BY <1>2 DEF OsmoseSchalterAus
<1>3. CASE OsmoseAutomatik
    <2> DEFINE calc == CalcState
    <2>1. calc \in ProductionStates \cup {"srclean"}
        BY CalcStateType
    <2> HIDE DEF calc
    <2>2. productionState' = IF calc = "srclean" THEN "sclean" ELSE calc
        BY <1>3 DEF OsmoseAutomatik, calc
    <2>3. UpdateRuntimes(calc)
        BY <1>3 DEF OsmoseAutomatik, calc
    <2>4. /\ osmoseRuntime' \in Age /\ cleanRuntime' \in Age /\ cycleTime' \in Age
          /\ osmoseAge' \in Age /\ cleanAge' \in Age /\ cycleAge' \in Age
        BY <2>3, ClockAssumption DEF UpdateRuntimes, OsmoseRuntime, CleanRuntime, Age
    <2>5. messages' \in Seq(Commands)
        <3>1. messages' = messages \o ProductionMessage(calc)
            BY <1>3 DEF OsmoseAutomatik, calc
        <3>2. messages \in Seq(Commands)
            OBVIOUS
        <3>3. CASE ProductionMessage(calc) = <<>>
            BY <3>1, <3>2, <3>3
        <3>4. CASE \E command \in Commands : ProductionMessage(calc) = <<command>>
            BY <3>1, <3>2, <3>4
        <3> QED BY <3>3, <3>4, ProductionMessageType
    <2>6. /\ frischVent' \in BOOLEAN /\ cleanVent' \in BOOLEAN
          /\ IOpumpRefill' \in BOOLEAN
          /\ IOventFreshWater' \in BOOLEAN /\ IOventClean' \in BOOLEAN
        BY <1>3, OpenIsBoolean DEF OsmoseAutomatik, SchaltenIO
    <2>7. productionState' \in ProductionStates
        BY <2>1, <2>2
    <2> QED BY <2>4, <2>5, <2>6, <2>7
<1>4. CASE OsmoseManuell
    <2>1. /\ IOpumpRefill' \in BOOLEAN
          /\ IOventFreshWater' \in BOOLEAN /\ IOventClean' \in BOOLEAN
        BY <1>4, OpenIsBoolean DEF OsmoseManuell, SchaltenIO
    <2>2. UNCHANGED <<osmoseVars, messages>>
        BY <1>4 DEF OsmoseManuell
    <2> QED BY <2>1, <2>2
<1> QED BY <1>1, <1>2, <1>3, <1>4

(* stateMachineRefill keeps every field in its range.                      *)
LEMMA RefillType == TypeOK /\ stateMachineRefill => TypeOK'
<1> SUFFICES ASSUME TypeOK, stateMachineRefill PROVE TypeOK'
    OBVIOUS
<1> USE DEF TypeOK, stateMachineRefill, refillVars, refillTimers, sensors, vents,
            osmoseTimers, ventFlags, osmoseVars, RefillStates, LoopSteps
<1>0. 0 \in Age /\ 1 \in Age /\ Horizon \in Age
    BY ClockAssumption DEF Age
<1>1. CASE RefillSchalterAn
    BY <1>1 DEF RefillSchalterAn
<1>2. CASE RefillSchalterAus
    BY <1>2 DEF RefillSchalterAus
<1>3. CASE RefillInaktiv
    BY <1>3 DEF RefillInaktiv
<1>4. CASE RefillGesperrt
    BY <1>4, <1>0 DEF RefillGesperrt, ClearRefillTimers, SetRefillPump
<1>5. CASE RefillEnde
    <2>1. messages' \in Seq(Commands)
        <3>1. CASE refillState = "refill_on"
            BY <1>5, <3>1, SendType, EachCommand DEF RefillEnde, Send
        <3>2. CASE refillState # "refill_on"
            BY <1>5, <3>2 DEF RefillEnde
        <3> QED BY <3>1, <3>2
    <2> QED BY <1>5, <1>0, <2>1 DEF RefillEnde, ClearRefillTimers, SetRefillPump
<1>6. CASE RefillStart
    BY <1>6, <1>0 DEF RefillStart, SetRefillPump, Send, Commands
<1>7. CASE RefillWeiter
    BY <1>7 DEF RefillWeiter, SetRefillPump
<1>8. CASE RefillZeitlimit
    <2>1. messages' \in Seq(Commands)
        <3>1. CASE sendErrorMailRefill
            BY <1>8, <3>1 DEF RefillZeitlimit
        <3>2. CASE ~sendErrorMailRefill
            BY <1>8, <3>2, SendType, EachCommand
               DEF RefillZeitlimit, Send
        <3> QED BY <3>1, <3>2
    <2> QED BY <1>8, <2>1 DEF RefillZeitlimit, SetRefillPump
<1>9. CASE RefillRest
    BY <1>9 DEF RefillRest
<1> QED BY <1>1, <1>2, <1>3, <1>4, <1>5, <1>6, <1>7, <1>8, <1>9

(* The commands keep every field in its range.                             *)
LEMMA CommandType == TypeOK /\ Command => TypeOK'
<1> SUFFICES ASSUME TypeOK, Command PROVE TypeOK'
    OBVIOUS
<1> USE DEF TypeOK, refillVars, refillTimers, sensors, vents, osmoseTimers,
            ventFlags, osmoseVars
<1>0. 0 \in Age /\ Horizon \in Age
    BY ClockAssumption DEF Age
<1>1. CASE Reset
    <2>1. /\ productionState' \in ProductionStates
          /\ osmoseAge' \in Age /\ osmoseRuntime' \in Age
          /\ sendErrorMailRefill' \in BOOLEAN
        BY <1>1, <1>0 DEF Reset, resetOsmoseProduction, ProductionStates
    <2>2. /\ refillState' \in RefillStates
          /\ refillRuntime' \in Age /\ refillAge' \in Age
        BY <1>1, <1>0 DEF Reset, resetRefillProduction, ClearRefillTimers, RefillStates
    <2>3. UNCHANGED <<ioPc, cfg, cleanRuntime, cleanAge, cycleTime, cycleAge,
                      ventFlags, refillPump, osmoseRefillActiv, sensors,
                      IOpumpRefill, vents, messages>>
        BY <1>1 DEF Reset
    <2> QED BY <2>1, <2>2, <2>3
<1>2. ASSUME NEW activ \in BOOLEAN, SwitchRefill(activ) PROVE TypeOK'
    BY <1>2, <1>0 DEF SwitchRefill, SetRefillPump, resetRefillProduction,
                      ClearRefillTimers, RefillStates
<1>3. ASSUME NEW c \in Configs, LoadConfig(c) PROVE TypeOK'
    BY <1>3 DEF LoadConfig
<1> QED BY <1>1, <1>2, <1>3 DEF Command, RefillOn, RefillOff

(* Every step of the plant keeps every field in its range.                 *)
LEMMA TypeStep == TypeOK /\ [Next]_vars => TypeOK'
<1> SUFFICES ASSUME TypeOK, [Next]_vars PROVE TypeOK'
    OBVIOUS
<1>1. CASE CheckSensoren
    BY <1>1 DEF CheckSensoren, TypeOK, LoopSteps, refillVars, refillTimers, vents,
                osmoseVars, osmoseTimers, ventFlags
<1>2. CASE stateMachineOsmose
    BY <1>2, OsmoseType
<1>3. CASE stateMachineRefill
    BY <1>3, RefillType
<1>4. CASE Notify
    BY <1>4 DEF Notify, TypeOK, LoopSteps, refillVars, refillTimers, vents, sensors,
                osmoseVars, osmoseTimers, ventFlags
<1>5. ASSUME NEW d \in 0 .. MaxStep, Sleep(d) PROVE TypeOK'
    <2>1. d \in Nat
        BY ClockAssumption
    <2>2. /\ osmoseAge' \in Age /\ cleanAge' \in Age
          /\ cycleAge' \in Age /\ refillAge' \in Age
        BY <1>5, <2>1, LaterIsAge DEF Sleep, TypeOK
    <2> QED BY <1>5, <2>2 DEF Sleep, TypeOK, LoopSteps, ventFlags, sensors, vents
<1>6. CASE Command
    BY <1>6, CommandType
<1>7. CASE UNCHANGED vars
    BY <1>7 DEF vars, TypeOK, refillVars, refillTimers, vents, sensors,
                osmoseVars, osmoseTimers, ventFlags
<1> QED BY <1>1, <1>2, <1>3, <1>4, <1>5, <1>6, <1>7 DEF Next, ThreadIo

(* Every field stays in its range: in particular no runtime underflows and *)
(* no state outside the enumerations is ever entered.                      *)
THEOREM TypeCorrect == Spec => []TypeOK
<1>1. Init => TypeOK
    <2> SUFFICES ASSUME Init PROVE TypeOK
        OBVIOUS
    <2>1. 0 \in Age /\ Horizon \in Age
        BY ClockAssumption DEF Age
    <2>2. messages \in Seq(Commands)
        BY DEF Init
    <2> QED BY <2>1, <2>2 DEF Init, TypeOK, LoopSteps, ProductionStates, RefillStates
<1> QED BY <1>1, TypeStep, PTL DEF Spec

-----------------------------------------------------------------------------
(* The pump.                                                               *)

RefillManual == refillState = "refill_manual"

(* RefillInterlock is not inductive: RefillRest leaves the pin as it is.   *)
(* What saves it is that production, when it is idle, has just driven the  *)
(* pin low (second part), except after its own switch was released, and    *)
(* then the pin was low before (third part).                               *)
PumpInv ==
    /\ RefillInterlock
    /\ IOpumpRefill => RefillManual \/ refillPump
    /\ ioPc = "refill" /\ IOpumpRefill => RefillManual \/ productionState = "smanual"
    /\ ioPc # "refill" /\ IOpumpRefill /\ productionState = "smanual" => RefillManual
    /\ PassDone /\ IOpumpRefill /\ ~RefillManual
           => ~IOventFreshWater /\ ~sensorAqua /\ Automatikbetrieb

(* A pass of production leaves the pump to the refill switch or to its own. *)
LEMMA OsmosePump == PumpInv /\ stateMachineOsmose => PumpInv'
<1> SUFFICES ASSUME PumpInv, stateMachineOsmose PROVE PumpInv'
    OBVIOUS
<1> USE DEF PumpInv, RefillInterlock, RefillManual, PassDone, stateMachineOsmose,
            Unaffected, refillVars
<1>1. CASE OsmoseSchalterAn
    BY <1>1 DEF OsmoseSchalterAn
<1>2. CASE OsmoseSchalterAus
    BY <1>2 DEF OsmoseSchalterAus
<1>3. CASE OsmoseAutomatik
    <2>1. IOpumpRefill' = FALSE
        BY <1>3 DEF OsmoseAutomatik, SchaltenIO
    <2> QED BY <2>1
<1>4. CASE OsmoseManuell
    <2>1. IOpumpRefill' = FALSE
        BY <1>4 DEF OsmoseManuell, SchaltenIO
    <2> QED BY <2>1
<1> QED BY <1>1, <1>2, <1>3, <1>4

(* A pass of refill runs the pump for the switch, or for a refill that may *)
(* run, with a dry sensor and closed vents.                                *)
LEMMA RefillPump == TypeOK /\ PumpInv /\ stateMachineRefill => PumpInv'
<1> SUFFICES ASSUME TypeOK, PumpInv, stateMachineRefill PROVE PumpInv'
    OBVIOUS
<1> USE DEF PumpInv, RefillInterlock, RefillManual, PassDone, Automatikbetrieb,
            stateMachineRefill, osmoseVars, sensors, refillVars, vents
<1>1. CASE RefillSchalterAn
    BY <1>1 DEF RefillSchalterAn
<1>2. CASE RefillSchalterAus
    BY <1>2 DEF RefillSchalterAus
<1>3. CASE RefillInaktiv
    BY <1>3 DEF RefillInaktiv
<1>4. CASE RefillGesperrt
    BY <1>4 DEF RefillGesperrt, SetRefillPump
<1>5. CASE RefillEnde
    BY <1>5 DEF RefillEnde, SetRefillPump
<1>6. CASE RefillStart
    BY <1>6 DEF RefillStart, SetRefillPump, Automatik, Erlaubt, TypeOK
<1>7. CASE RefillWeiter
    BY <1>7 DEF RefillWeiter, SetRefillPump, Automatik, Erlaubt, TypeOK
<1>8. CASE RefillZeitlimit
    BY <1>8 DEF RefillZeitlimit, SetRefillPump
<1>9. CASE RefillRest
    BY <1>9 DEF RefillRest, Automatik, Erlaubt
<1> QED BY <1>1, <1>2, <1>3, <1>4, <1>5, <1>6, <1>7, <1>8, <1>9

(* No step of the plant starts the pump behind the refill machine's back.  *)
LEMMA PumpStep == TypeOK /\ PumpInv /\ [Next]_vars => PumpInv'
<1> SUFFICES ASSUME TypeOK, PumpInv, [Next]_vars PROVE PumpInv'
    OBVIOUS
<1> USE DEF PumpInv, RefillInterlock, RefillManual, PassDone, Automatikbetrieb
<1>1. CASE CheckSensoren
    BY <1>1 DEF CheckSensoren, refillVars, osmoseVars, vents
<1>2. CASE stateMachineOsmose
    BY <1>2, OsmosePump
<1>3. CASE stateMachineRefill
    BY <1>3, RefillPump
<1>4. CASE Notify
    BY <1>4 DEF Notify, refillVars, osmoseVars, vents, sensors
<1>5. ASSUME NEW d \in 0 .. MaxStep, Sleep(d) PROVE PumpInv'
    BY <1>5 DEF Sleep, vents, sensors
<1>6. CASE Reset
    BY <1>6 DEF Reset, resetOsmoseProduction, resetRefillProduction, vents, sensors
<1>7. ASSUME NEW activ, SwitchRefill(activ) PROVE PumpInv'
    BY <1>7 DEF SwitchRefill, SetRefillPump, resetRefillProduction, osmoseVars
<1>8. ASSUME NEW c \in Configs, LoadConfig(c) PROVE PumpInv'
    BY <1>8 DEF LoadConfig, osmoseVars, refillVars
<1>9. CASE UNCHANGED vars
    BY <1>9 DEF vars, refillVars, osmoseVars, vents, sensors
<1> QED BY <1>1, <1>2, <1>3, <1>4, <1>5, <1>6, <1>7, <1>8, <1>9
        DEF Next, ThreadIo, Command, RefillOn, RefillOff

(* The strengthened invariant holds throughout.                            *)
LEMMA PumpInvariant == Spec => []PumpInv
<1>1. Init => PumpInv
    BY DEF Init, PumpInv, RefillInterlock, PassDone
<1> QED BY <1>1, PumpStep, TypeCorrect, PTL DEF Spec

(* The pump runs only for its switch or for a refill in progress that is   *)
(* not switched off, whatever the clients send and when.                   *)
THEOREM PumpInterlocked == Spec => []RefillInterlock
<1>1. PumpInv => RefillInterlock
    BY DEF PumpInv
<1> QED BY <1>1, PumpInvariant, PTL

(* At the end of a pass only the refill switch pumps tank water while      *)
(* fresh water flows in: the machines do not undo each other's outputs.    *)
THEOREM PumpIdleWhileProducing == Spec => []NoPumpingWhileProducing
<1>1. PumpInv => NoPumpingWhileProducing
    BY DEF PumpInv, RefillManual, NoPumpingWhileProducing
<1> QED BY <1>1, PumpInvariant, PTL

(* At the end of a pass only the refill switch pumps water into an         *)
(* aquarium whose sensor is wet.                                           *)
THEOREM AquariumNotOverfilled == Spec => []AquaSensorStopsPump
<1>1. PumpInv => AquaSensorStopsPump
    BY DEF PumpInv, RefillManual, AquaSensorStopsPump
<1> QED BY <1>1, PumpInvariant, PTL

(* At the end of a pass in modus_manuel only the refill switch pumps, also *)
(* when a refill was in progress as a client switched the mode.            *)
THEOREM ManuellStops == Spec => []ManuellStopsPump
<1>1. PumpInv => ManuellStopsPump
    BY DEF PumpInv, RefillManual, ManuellStopsPump
<1> QED BY <1>1, PumpInvariant, PTL

-----------------------------------------------------------------------------
(* The refill watchdog.                                                    *)

(* While a refill is on, its runtime lags its age by one clock step at     *)
(* most, and a runtime the last pass accepted was one step ahead of an     *)
(* earlier one that was below the limit.                                   *)
WatchdogInv ==
    /\ refillState = "refill_on" => osmoseRefillActiv
    /\ refillState = "refill_on" =>
           refillAge <= refillRuntime + (IF PassDone THEN 0 ELSE MaxStep)
    /\ IOpumpRefill /\ refillState = "refill_on" =>
           refillRuntime <= cfg.refillFaillTime - 1 + MaxStep

(* The limits of every setting are seconds.                                *)
LEMMA LimitType ==
    ASSUME NEW c \in Configs
    PROVE  c.refillFaillTime \in Nat
BY ConfigsAssumption DEF Config

(* Production never touches a refill in progress but to stop the pump.     *)
LEMMA OsmoseWatchdog == TypeOK /\ WatchdogInv /\ stateMachineOsmose => WatchdogInv'
<1> SUFFICES ASSUME TypeOK, WatchdogInv, stateMachineOsmose PROVE WatchdogInv'
    OBVIOUS
<1>1. /\ ioPc = "osmose" /\ ioPc' = "refill"
      /\ UNCHANGED <<cfg, refillState, refillRuntime, refillAge, osmoseRefillActiv>>
    BY DEF stateMachineOsmose, Unaffected, refillVars, refillTimers
<1>2. IOpumpRefill' => IOpumpRefill
    BY DEF stateMachineOsmose, OsmoseSchalterAn, OsmoseSchalterAus, OsmoseAutomatik,
           OsmoseManuell, SchaltenIO
<1> QED BY <1>1, <1>2 DEF WatchdogInv, PassDone

(* A pass of refill keeps the pump on only with time left.                 *)
LEMMA RefillKeepsWatchdog == TypeOK /\ WatchdogInv /\ stateMachineRefill => WatchdogInv'
<1> SUFFICES ASSUME TypeOK, WatchdogInv, stateMachineRefill PROVE WatchdogInv'
    OBVIOUS
<1> USE DEF WatchdogInv, PassDone, stateMachineRefill
<1>0. /\ cfg.refillFaillTime \in Nat /\ MaxStep \in Nat \ {0}
      /\ refillRuntime \in Nat /\ refillAge \in Nat
    BY LimitType, ClockAssumption DEF TypeOK, Age
<1>1. CASE RefillSchalterAn
    BY <1>1 DEF RefillSchalterAn
<1>2. CASE RefillSchalterAus
    BY <1>2 DEF RefillSchalterAus
<1>3. CASE RefillInaktiv
    BY <1>3 DEF RefillInaktiv, refillVars
<1>4. CASE RefillGesperrt
    BY <1>4 DEF RefillGesperrt
<1>5. CASE RefillEnde
    BY <1>5 DEF RefillEnde
<1>6. CASE RefillStart
    <2>1. /\ refillRuntime < cfg.refillFaillTime
          /\ refillRuntime' = 1 /\ refillAge' = 0 /\ osmoseRefillActiv
        BY <1>6, <1>0 DEF RefillStart, ReachedRefillTime, Automatik
    <2> QED BY <1>0, <2>1
<1>7. CASE RefillWeiter
    <2>1. /\ refillRuntime < cfg.refillFaillTime /\ refillState = "refill_on"
          /\ refillRuntime' = refillAge /\ refillAge' = refillAge
          /\ refillState' = refillState
        BY <1>7, <1>0 DEF RefillWeiter, ReachedRefillTime
    <2> QED BY <1>0, <2>1
<1>8. CASE RefillZeitlimit
    BY <1>8 DEF RefillZeitlimit
<1>9. CASE RefillRest
    BY <1>9 DEF RefillRest
<1> QED BY <1>1, <1>2, <1>3, <1>4, <1>5, <1>6, <1>7, <1>8, <1>9

(* Neither the clock nor a command outruns the watchdog.                   *)
LEMMA WatchdogStep == TypeOK /\ WatchdogInv /\ [Next]_vars => WatchdogInv'
<1> SUFFICES ASSUME TypeOK, WatchdogInv, [Next]_vars PROVE WatchdogInv'
    OBVIOUS
<1> USE DEF WatchdogInv, PassDone
<1>0. /\ MaxStep \in Nat /\ refillRuntime \in Nat /\ refillAge \in Nat
    BY ClockAssumption DEF TypeOK, Age
<1>1. CASE CheckSensoren
    BY <1>1 DEF CheckSensoren, refillVars, refillTimers
<1>2. CASE stateMachineOsmose
    BY <1>2, OsmoseWatchdog
<1>3. CASE stateMachineRefill
    BY <1>3, RefillKeepsWatchdog
<1>4. CASE Notify
    BY <1>4 DEF Notify, refillVars, refillTimers
<1>5. ASSUME NEW d \in 0 .. MaxStep, Sleep(d) PROVE WatchdogInv'
    <2>1. refillAge' \in Age /\ refillAge' <= refillAge + d
        BY <1>5, LaterIsAge DEF Sleep, TypeOK
    <2>2. refillAge' <= refillAge + MaxStep /\ refillAge' \in Nat
        BY <1>0, <2>1, ClockAssumption DEF Age
    <2> QED BY <1>5, <1>0, <2>2 DEF Sleep
<1>6. CASE Reset
    BY <1>6 DEF Reset, resetRefillProduction, refillTimers
<1>7. ASSUME NEW activ, SwitchRefill(activ) PROVE WatchdogInv'
    BY <1>7 DEF SwitchRefill, resetRefillProduction
<1>8. ASSUME NEW c \in Configs, LoadConfig(c) PROVE WatchdogInv'
    BY <1>8 DEF LoadConfig, refillVars, refillTimers
<1>9. CASE UNCHANGED vars
    BY <1>9 DEF vars, refillVars, refillTimers
<1> QED BY <1>1, <1>2, <1>3, <1>4, <1>5, <1>6, <1>7, <1>8, <1>9
        DEF Next, ThreadIo, Command, RefillOn, RefillOff

(* The pump of an automatic refill is off two clock steps after the limit  *)
(* at the latest, for every limit and every clock.                         *)
THEOREM WatchdogHolds == Spec => []RefillWatchdog
<1>1. Init => WatchdogInv
    BY DEF Init, WatchdogInv
<1>2. TypeOK /\ WatchdogInv => RefillWatchdog
    <2> SUFFICES ASSUME TypeOK, WatchdogInv, IOpumpRefill, refillState = "refill_on"
                 PROVE  refillAge < cfg.refillFaillTime + 2 * MaxStep
        BY DEF RefillWatchdog
    <2>1. /\ cfg.refillFaillTime \in Nat /\ MaxStep \in Nat \ {0}
          /\ refillRuntime \in Nat /\ refillAge \in Nat
        BY LimitType, ClockAssumption DEF TypeOK, Age
    <2>2. refillAge <= refillRuntime + MaxStep
        BY <2>1 DEF WatchdogInv
    <2>3. refillRuntime <= cfg.refillFaillTime - 1 + MaxStep
        BY DEF WatchdogInv
    <2> QED BY <2>1, <2>2, <2>3
<1> QED BY <1>1, <1>2, WatchdogStep, TypeCorrect, PTL DEF Spec

-----------------------------------------------------------------------------
(* The vents.                                                              *)

(* The part of NoHiddenFlow that is about the vents.                       *)
VentsShown ==
    productionState # "smanual" =>
        /\ IOventFreshWater => frischVent
        /\ IOventClean => cleanVent

(* VentsShown needs the flags of the states that modus_manuel may open     *)
(* again without writing the flags (last two parts).                       *)
WaterInv ==
    /\ TopSensorStopsWater
    /\ VentsShown
    /\ CleanNeedsFresh
    /\ FreshOpen(productionState) => frischVent
    /\ CleanOpen(productionState) => cleanVent

(* The state that is kept or entered opens a vent only with a dry top      *)
(* sensor.                                                                 *)
LEMMA CalcStateMindsTopSensor ==
    ASSUME TypeOK, sensorTop, CalcState # "smanual"
    PROVE  CalcState \in {"sidle", "serror"}
BY DEF TypeOK, CalcState, MayStart, MayRun, ToIdle, TankFull, TankEmpty,
       ProductionStates

(* A pass of production opens the vents of its state, and says so.         *)
LEMMA OsmoseWater == TypeOK /\ WaterInv /\ stateMachineOsmose => WaterInv'
<1> SUFFICES ASSUME TypeOK, WaterInv, stateMachineOsmose PROVE WaterInv'
    OBVIOUS
<1> USE DEF WaterInv, TopSensorStopsWater, VentsShown, CleanNeedsFresh,
            Automatikbetrieb, FreshOpen, CleanOpen
<1>0. UNCHANGED <<cfg, sensorTop>>
    BY DEF stateMachineOsmose, Unaffected, sensors
<1>1. CASE OsmoseSchalterAn
    BY <1>1 DEF OsmoseSchalterAn, ventFlags
<1>2. CASE OsmoseSchalterAus
    BY <1>2 DEF OsmoseSchalterAus, ventFlags
<1>3. CASE OsmoseAutomatik
    <2>1. /\ IOventFreshWater' = FreshOpen(productionState')
          /\ IOventClean' = CleanOpen(productionState')
          /\ frischVent' = FreshOpen(productionState')
          /\ cleanVent' = CleanOpen(productionState')
        BY <1>3 DEF OsmoseAutomatik, SchaltenIO
    <2>2. sensorTop => ~FreshOpen(productionState')
        <3> SUFFICES ASSUME sensorTop PROVE ~FreshOpen(productionState')
            OBVIOUS
        <3>1. productionState' = IF CalcState = "srclean" THEN "sclean" ELSE CalcState
            BY <1>3 DEF OsmoseAutomatik
        <3>2. CalcState \in {"sidle", "serror", "smanual"}
            BY CalcStateMindsTopSensor
        <3> QED BY <3>1, <3>2
    <2>3. CleanOpen(productionState') => FreshOpen(productionState')
        OBVIOUS
    <2> HIDE DEF FreshOpen, CleanOpen
    <2> QED BY <1>0, <2>1, <2>2, <2>3
<1>4. CASE OsmoseManuell
    <2>1. /\ cfg.osmoseModus = "modus_manuel"
          /\ IOventFreshWater' = FreshOpen(productionState)
          /\ IOventClean' = CleanOpen(productionState)
          /\ UNCHANGED <<productionState, frischVent, cleanVent>>
        BY <1>4 DEF OsmoseManuell, SchaltenIO, osmoseVars, ventFlags
    <2>2. CleanOpen(productionState) => FreshOpen(productionState)
        OBVIOUS
    <2> HIDE DEF FreshOpen, CleanOpen
    <2> QED BY <1>0, <2>1, <2>2
<1> QED BY <1>1, <1>2, <1>3, <1>4 DEF stateMachineOsmose

(* The refill machine only ever closes vents, and both at once.            *)
OnlyClosesVents ==
    \/ UNCHANGED vents
    \/ ~IOventFreshWater' /\ ~IOventClean'

(* Switching the pump on closes both vents, switching it off none.         *)
LEMMA PumpSwitchClosesVents ==
    ASSUME TypeOK, NEW on \in BOOLEAN, SetRefillPump(on)
    PROVE  OnlyClosesVents
<1>1. CASE on = TRUE
    BY <1>1 DEF SetRefillPump, OnlyClosesVents
<1>2. CASE on = FALSE
    BY <1>2 DEF SetRefillPump, OnlyClosesVents, TypeOK, vents
<1> QED BY <1>1, <1>2

LEMMA RefillClosesVents ==
    TypeOK /\ (stateMachineRefill \/ \E activ : SwitchRefill(activ)) => OnlyClosesVents
<1>1. TypeOK /\ (SetRefillPump(TRUE) \/ SetRefillPump(FALSE)) => OnlyClosesVents
    BY PumpSwitchClosesVents
<1>2. stateMachineRefill =>
          \/ SetRefillPump(TRUE) \/ SetRefillPump(FALSE) \/ UNCHANGED vents
    BY DEF stateMachineRefill, RefillSchalterAn, RefillSchalterAus, RefillInaktiv,
           RefillGesperrt, RefillEnde, RefillStart, RefillWeiter, RefillZeitlimit,
           RefillRest
<1>3. ASSUME NEW activ, SwitchRefill(activ) PROVE SetRefillPump(FALSE)
    BY <1>3 DEF SwitchRefill
<1> QED BY <1>1, <1>2, <1>3 DEF OnlyClosesVents

(* No step of the plant opens a vent unseen or over a wet top sensor.      *)
LEMMA WaterStep == TypeOK /\ WaterInv /\ [Next]_vars => WaterInv'
<1> SUFFICES ASSUME TypeOK, WaterInv, [Next]_vars PROVE WaterInv'
    OBVIOUS
<1> USE DEF WaterInv, TopSensorStopsWater, VentsShown, CleanNeedsFresh,
            Automatikbetrieb, FreshOpen, CleanOpen
<1>1. CASE CheckSensoren
    BY <1>1 DEF CheckSensoren, vents, osmoseVars, ventFlags
<1>2. CASE stateMachineOsmose
    BY <1>2, OsmoseWater
<1>3. CASE stateMachineRefill
    <2>1. /\ ioPc = "refill"
          /\ UNCHANGED <<cfg, productionState, frischVent, cleanVent, sensorTop>>
        BY <1>3 DEF stateMachineRefill, osmoseVars, ventFlags, sensors
    <2> QED BY <1>3, <2>1, RefillClosesVents DEF OnlyClosesVents, vents
<1>4. CASE Notify
    BY <1>4 DEF Notify, vents, osmoseVars, ventFlags, sensors
<1>5. ASSUME NEW d \in 0 .. MaxStep, Sleep(d) PROVE WaterInv'
    BY <1>5 DEF Sleep, vents, ventFlags, sensors
<1>6. CASE Reset
    BY <1>6 DEF Reset, resetOsmoseProduction, vents, ventFlags, sensors
<1>7. ASSUME NEW activ, SwitchRefill(activ) PROVE WaterInv'
    <2>1. UNCHANGED <<ioPc, cfg, productionState, frischVent, cleanVent, sensorTop>>
        BY <1>7 DEF SwitchRefill, osmoseVars, ventFlags, sensors
    <2> QED BY <1>7, <2>1, RefillClosesVents DEF OnlyClosesVents, vents
<1>8. ASSUME NEW c \in Configs, LoadConfig(c) PROVE WaterInv'
    BY <1>8 DEF LoadConfig, osmoseVars, ventFlags
<1>9. CASE UNCHANGED vars
    BY <1>9 DEF vars, vents, osmoseVars, ventFlags, sensors
<1> QED BY <1>1, <1>2, <1>3, <1>4, <1>5, <1>6, <1>7, <1>8, <1>9
        DEF Next, ThreadIo, Command, RefillOn, RefillOff

(* The strengthened invariant holds throughout.                            *)
LEMMA WaterInvariant == Spec => []WaterInv
<1>1. Init => WaterInv
    BY DEF Init, WaterInv, TopSensorStopsWater, VentsShown, CleanNeedsFresh,
           FreshOpen, CleanOpen
<1> QED BY <1>1, WaterStep, TypeCorrect, PTL DEF Spec

(* In modus_automatik no pass of production leaves the fresh water vent    *)
(* open over a wet top sensor.                                             *)
THEOREM TankNotOverfilled == Spec => []TopSensorStopsWater
<1>1. WaterInv => TopSensorStopsWater
    BY DEF WaterInv
<1> QED BY <1>1, WaterInvariant, PTL

(* Water flows, through a vent or the pump, only where the status page     *)
(* shows it or its housing switch is held.                                 *)
THEOREM FlowShown == Spec => []NoHiddenFlow
<1>1. WaterInv /\ PumpInv => NoHiddenFlow
    BY DEF WaterInv, PumpInv, VentsShown, RefillManual, NoHiddenFlow
<1> QED BY <1>1, WaterInvariant, PumpInvariant, PTL

(* The drain of the membrane is open only while fresh water flows.         *)
THEOREM DrainNeedsSupply == Spec => []CleanNeedsFresh
<1>1. WaterInv => CleanNeedsFresh
    BY DEF WaterInv
<1> QED BY <1>1, WaterInvariant, PTL

-----------------------------------------------------------------------------
(* Transitions of the production cycle.                                    *)

(* Only a pass of production and a reset change the production state.      *)
LEMMA OthersKeepProduction ==
    [Next]_vars =>
        \/ stateMachineOsmose
        \/ Reset
        \/ UNCHANGED productionState
<1> USE DEF osmoseVars
<1>1. CheckSensoren \/ stateMachineRefill \/ Notify => UNCHANGED productionState
    BY DEF CheckSensoren, stateMachineRefill, Notify
<1>2. ASSUME NEW d, Sleep(d) PROVE UNCHANGED productionState
    BY <1>2 DEF Sleep
<1>3. ASSUME NEW activ, SwitchRefill(activ) PROVE UNCHANGED productionState
    BY <1>3 DEF SwitchRefill
<1>4. ASSUME NEW c, LoadConfig(c) PROVE UNCHANGED productionState
    BY <1>4 DEF LoadConfig
<1>5. UNCHANGED vars => UNCHANGED productionState
    BY DEF vars
<1> QED BY <1>1, <1>2, <1>3, <1>4, <1>5
        DEF Next, ThreadIo, Command, RefillOn, RefillOff

(* What the pass computes in serror is serror, and what it computes in     *)
(* sclean is the production of water only when the flush is due.           *)
LEMMA CalcStateTransitions ==
    ASSUME TypeOK
    PROVE  /\ productionState = "serror" => CalcState = "serror"
           /\ productionState = "sclean" /\ CalcState = "sposmose" => ReachedCleanRuntime
BY DEF TypeOK, CalcState, MayStart, MayRun, ToIdle, ProductionStates

(* A production fault stays until a reset or the housing switch, for every *)
(* setting and every history of sensor readings.                           *)
THEOREM FaultIsLatched == Spec => FaultStays
<1>1. TypeOK /\ [Next]_vars =>
          [productionState = "serror" /\ productionState' # "serror" =>
               \/ productionState' = "smanual"
               \/ Reset]_vars
    <2> SUFFICES ASSUME TypeOK, [Next]_vars,
                        productionState = "serror", productionState' # "serror"
                 PROVE  productionState' = "smanual" \/ Reset
        OBVIOUS
    <2>1. CASE stateMachineOsmose
        <3>1. OsmoseAutomatik => productionState' = "serror"
            BY CalcStateTransitions DEF OsmoseAutomatik
        <3> QED BY <2>1, <3>1 DEF stateMachineOsmose, OsmoseSchalterAn,
                                  OsmoseSchalterAus, OsmoseManuell, osmoseVars
    <2> QED BY <2>1, OthersKeepProduction
<1> QED BY <1>1, TypeCorrect, PTL DEF Spec, FaultStays

(* The flush time the code counts never exceeds the time since the flush   *)
(* began, but for the 1 that marks its first pass.                         *)
FlushInv == cleanRuntime <= cleanAge \/ cleanRuntime = 1

(* Neither the cycle, the clock nor a command makes a flush look longer    *)
(* than it is.                                                             *)
LEMMA FlushStep == TypeOK /\ FlushInv /\ [Next]_vars => FlushInv'
<1> SUFFICES ASSUME TypeOK, FlushInv, [Next]_vars PROVE FlushInv'
    OBVIOUS
<1> USE DEF FlushInv
<1>0. cleanAge \in Nat /\ cleanRuntime \in Nat /\ cleanAge <= Horizon
    BY ClockAssumption DEF TypeOK, Age
<1>1. CASE stateMachineOsmose
    <2>1. CASE OsmoseAutomatik
        <3>1. UpdateRuntimes(CalcState)
            BY <2>1 DEF OsmoseAutomatik
        <3> QED BY <1>0, <3>1 DEF UpdateRuntimes, CleanRuntime
    <2> QED BY <1>1, <2>1 DEF stateMachineOsmose, OsmoseSchalterAn, OsmoseSchalterAus,
                              OsmoseManuell, osmoseVars, osmoseTimers
<1>2. ASSUME NEW d \in 0 .. MaxStep, Sleep(d) PROVE FlushInv'
    <2>1. cleanAge' = Later(cleanAge, d) /\ cleanRuntime' = cleanRuntime
        BY <1>2 DEF Sleep
    <2>2. cleanAge' >= cleanAge
        BY <1>0, <2>1, ClockAssumption DEF Later
    <2>3. cleanAge' \in Nat
        BY <1>0, <2>1, ClockAssumption DEF Later
    <2> QED BY <1>0, <2>1, <2>2, <2>3
<1>3. CASE UNCHANGED <<cleanRuntime, cleanAge>>
    BY <1>3
<1>4. CheckSensoren \/ stateMachineRefill \/ Notify \/ UNCHANGED vars
          => UNCHANGED <<cleanRuntime, cleanAge>>
    BY DEF CheckSensoren, stateMachineRefill, Notify, vars, osmoseVars, osmoseTimers
<1>5. Reset => UNCHANGED <<cleanRuntime, cleanAge>>
    BY DEF Reset
<1>6. ASSUME NEW activ, SwitchRefill(activ) PROVE UNCHANGED <<cleanRuntime, cleanAge>>
    BY <1>6 DEF SwitchRefill, osmoseVars, osmoseTimers
<1>7. ASSUME NEW c, LoadConfig(c) PROVE UNCHANGED <<cleanRuntime, cleanAge>>
    BY <1>7 DEF LoadConfig, osmoseVars, osmoseTimers
<1> QED BY <1>1, <1>2, <1>3, <1>4, <1>5, <1>6, <1>7
        DEF Next, ThreadIo, Command, RefillOn, RefillOff

(* Water goes to the tank only after the membrane has been flushed for     *)
(* runtimeForCleaning seconds, for every setting.                          *)
THEOREM FlushedFirst == Spec => FlushBeforeOsmose
<1>1. Init => FlushInv
    BY ClockAssumption DEF Init, FlushInv
<1>2. TypeOK /\ FlushInv /\ [Next]_vars =>
          [productionState = "sclean" /\ productionState' = "sposmose" =>
               \/ cleanAge >= cfg.runtimeForCleaning
               \/ cfg.runtimeForCleaning <= 1]_vars
    <2> SUFFICES ASSUME TypeOK, FlushInv, [Next]_vars,
                        productionState = "sclean", productionState' = "sposmose"
                 PROVE  \/ cleanAge >= cfg.runtimeForCleaning
                        \/ cfg.runtimeForCleaning <= 1
        OBVIOUS
    <2>0. /\ cleanAge \in Nat /\ cleanRuntime \in Nat
          /\ cfg.runtimeForCleaning \in Nat
        BY ClockAssumption, ConfigsAssumption DEF TypeOK, Age, Config
    <2>1. Reset => productionState' # "sposmose"
        BY DEF Reset, resetOsmoseProduction
    <2>2. OsmoseAutomatik
        BY <2>1, OthersKeepProduction
           DEF stateMachineOsmose, OsmoseSchalterAn, OsmoseSchalterAus,
               OsmoseManuell, osmoseVars
    <2>3. CalcState = "sposmose"
        BY <2>2 DEF OsmoseAutomatik
    <2>4. cleanRuntime >= cfg.runtimeForCleaning
        BY <2>3, CalcStateTransitions DEF ReachedCleanRuntime
    <2> QED BY <2>0, <2>4 DEF FlushInv
<1> QED BY <1>1, <1>2, FlushStep, TypeCorrect, PTL DEF Spec, FlushBeforeOsmose

-----------------------------------------------------------------------------
(* The plant implements Meldungen.                                         *)

(* A run begins by the transition spclean -> sclean only.                  *)
LEMMA CalcStateLauf ==
    ASSUME TypeOK, CalcState \in {"sclean", "sposmose", "sosmose", "srclean"}
    PROVE  InLauf \/ (productionState = "spclean" /\ CalcState = "sclean")
BY DEF TypeOK, CalcState, MayStart, MayRun, ToIdle, InLauf, ProductionStates

(* A pass of production announces the run it begins and ends the run it    *)
(* completes.                                                              *)
LEMMA OsmoseMeldet ==
    TypeOK /\ stateMachineOsmose => [M!Next]_<<M!anlage, messages>>
<1> SUFFICES ASSUME TypeOK, stateMachineOsmose
             PROVE  M!Next \/ UNCHANGED <<M!anlage, messages>>
    OBVIOUS
<1>1. UNCHANGED <<refillState, sendErrorMailRefill>>
    BY DEF stateMachineOsmose, Unaffected, refillVars
<1> USE DEF M!anlage, InLauf
<1>a. ASSUME ~InLauf', UNCHANGED messages
      PROVE  M!LaufAbgebrochen \/ UNCHANGED <<M!anlage, messages>>
    BY <1>1, <1>a DEF M!LaufAbgebrochen
<1>2. CASE OsmoseSchalterAn \/ OsmoseSchalterAus
    <2>1. ~InLauf' /\ UNCHANGED messages
        BY <1>2 DEF OsmoseSchalterAn, OsmoseSchalterAus
    <2> QED BY <1>a, <2>1 DEF M!Next
<1>3. CASE OsmoseManuell
    BY <1>1, <1>3 DEF OsmoseManuell, osmoseVars
<1>4. CASE OsmoseAutomatik
    <2> DEFINE calc == CalcState
    <2>1. /\ productionState' = IF calc = "srclean" THEN "sclean" ELSE calc
          /\ messages' = messages \o ProductionMessage(calc)
        BY <1>4 DEF OsmoseAutomatik
    <2>2. messages \in Seq(Commands)
        BY DEF TypeOK
    <2>3. calc \in {"sclean", "sposmose", "sosmose", "srclean"} =>
              InLauf \/ (productionState = "spclean" /\ calc = "sclean")
        BY CalcStateLauf
    <2> HIDE DEF calc
    <2>4. ASSUME productionState = "spclean", calc = "sclean"
          PROVE  M!LaufBeginnt
        <3>1. ProductionMessage(calc) = <<"setStartProductionOsmose">>
            BY <2>4 DEF ProductionMessage
        <3>2. messages' = Append(messages, "setStartProductionOsmose")
            BY <2>1, <2>2, <3>1
        <3> QED BY <1>1, <2>1, <2>4, <3>2 DEF M!LaufBeginnt, M!Melden
    <2>5. ASSUME productionState = "sosmose", calc = "sidle"
          PROVE  M!LaufEndet
        <3>1. ProductionMessage(calc) = <<"setEndProductionOsmose">>
            BY <2>5 DEF ProductionMessage
        <3>2. messages' = Append(messages, "setEndProductionOsmose")
            BY <2>1, <2>2, <3>1
        <3> QED BY <1>1, <2>1, <2>5, <3>2 DEF M!LaufEndet, M!Melden
    <2>6. ASSUME ~(productionState = "spclean" /\ calc = "sclean"),
                 ~(productionState = "sosmose" /\ calc = "sidle")
          PROVE  M!LaufAbgebrochen \/ UNCHANGED <<M!anlage, messages>>
        <3>1. ProductionMessage(calc) = <<>>
            BY <2>6 DEF ProductionMessage
        <3>2. UNCHANGED messages
            BY <2>1, <2>2, <3>1
        <3>3. CASE ~InLauf'
            BY <1>a, <3>2, <3>3
        <3>4. CASE InLauf'
            <4>1. calc \in {"sclean", "sposmose", "sosmose", "srclean"}
                BY <2>1, <3>4
            <4>2. InLauf
                BY <2>3, <2>6, <4>1
            <4> QED BY <1>1, <3>2, <3>4, <4>2
        <3> QED BY <3>3, <3>4
    <2> QED BY <2>4, <2>5, <2>6 DEF M!Next
<1> QED BY <1>2, <1>3, <1>4 DEF stateMachineOsmose

(* A pass of refill announces a refill and its end, between runs only.     *)
LEMMA RefillMeldet ==
    TypeOK /\ stateMachineRefill => [M!Next]_<<M!anlage, messages>>
<1> SUFFICES ASSUME TypeOK, stateMachineRefill
             PROVE  M!Next \/ UNCHANGED <<M!anlage, messages>>
    OBVIOUS
<1>0. UNCHANGED productionState
    BY DEF stateMachineRefill, osmoseVars
<1> USE DEF M!anlage, InLauf
<1>a. ASSUME refillState' # "refill_on", UNCHANGED <<sendErrorMailRefill, messages>>
      PROVE  M!Next \/ UNCHANGED <<M!anlage, messages>>
    BY <1>0, <1>a DEF M!Next, M!RefillAbgebrochen
<1>1. CASE RefillSchalterAn \/ RefillSchalterAus
    BY <1>1, <1>a DEF RefillSchalterAn, RefillSchalterAus
<1>2. CASE RefillInaktiv
    BY <1>0, <1>2 DEF RefillInaktiv, refillVars
<1>3. CASE RefillGesperrt
    BY <1>3, <1>a DEF RefillGesperrt
<1>4. CASE RefillEnde
    <2>1. CASE refillState = "refill_on"
        <3>1. M!RefillEndet
            BY <1>0, <1>4, <2>1
               DEF RefillEnde, Send, Automatik, Erlaubt, M!RefillEndet, M!Melden
        <3> QED BY <3>1 DEF M!Next
    <2>2. CASE refillState # "refill_on"
        BY <1>4, <1>a, <2>2 DEF RefillEnde
    <2> QED BY <2>1, <2>2
<1>5. CASE RefillStart
    <2>1. M!RefillBeginnt
        BY <1>0, <1>5 DEF RefillStart, Send, Automatik, Erlaubt, M!RefillBeginnt, M!Melden
    <2> QED BY <2>1 DEF M!Next
<1>6. CASE RefillWeiter
    BY <1>0, <1>6 DEF RefillWeiter
<1>7. CASE RefillZeitlimit
    <2>1. CASE sendErrorMailRefill
        BY <1>7, <1>a, <2>1 DEF RefillZeitlimit, TypeOK
    <2>2. CASE ~sendErrorMailRefill
        <3>1. M!RefillZeitlimit
            BY <1>0, <1>7, <2>2
               DEF RefillZeitlimit, Send, Automatik, Erlaubt, M!RefillZeitlimit, M!Melden
        <3> QED BY <3>1 DEF M!Next
    <2> QED BY <2>1, <2>2
<1>8. CASE RefillRest
    BY <1>8, <1>a DEF RefillRest
<1> QED BY <1>1, <1>2, <1>3, <1>4, <1>5, <1>6, <1>7, <1>8 DEF stateMachineRefill

(* The plant announces production runs and refills exactly as Meldungen    *)
(* allows, for every setting and every interleaving of commands.           *)
THEOREM MeldungenImplemented == Spec => MeldetWieSpezifiziert
<1> USE DEF M!anlage, InLauf
<1>1. Init => M!Init
    BY DEF Init, M!Init
<1>2. TypeOK /\ [Next]_vars => [M!Next]_<<M!anlage, messages>>
    <2> SUFFICES ASSUME TypeOK, [Next]_vars
                 PROVE  M!Next \/ UNCHANGED <<M!anlage, messages>>
        OBVIOUS
    <2>1. CASE CheckSensoren
        BY <2>1 DEF CheckSensoren, osmoseVars, refillVars
    <2>2. CASE stateMachineOsmose
        BY <2>2, OsmoseMeldet
    <2>3. CASE stateMachineRefill
        BY <2>3, RefillMeldet
    <2>4. CASE Notify
        <3>1. UNCHANGED <<productionState, refillState, sendErrorMailRefill>>
            BY <2>4 DEF Notify, osmoseVars, refillVars
        <3>2. messages \in Seq(Commands) /\ messages' = <<>>
            BY <2>4 DEF Notify, TypeOK
        <3>3. CASE messages = <<>>
            BY <3>1, <3>2, <3>3
        <3>4. CASE messages # <<>>
            <4>1. Len(messages) \in 1 .. Len(messages)
                BY <3>2, <3>4
            <4>2. SubSeq(messages, Len(messages) + 1, Len(messages)) = <<>>
                BY <3>2
            <4>3. M!Zustellen
                BY <3>1, <3>2, <4>1, <4>2 DEF M!Zustellen
            <4> QED BY <4>3 DEF M!Next
        <3> QED BY <3>3, <3>4
    <2>5. ASSUME NEW d \in 0 .. MaxStep, Sleep(d)
          PROVE  UNCHANGED <<M!anlage, messages>>
        BY <2>5 DEF Sleep
    <2>6. CASE Reset
        <3>1. CASE productionState = "serror"
            <4>1. M!MeldungReset
                BY <2>6, <3>1 DEF Reset, resetOsmoseProduction, resetRefillProduction,
                                  M!MeldungReset
            <4> QED BY <4>1 DEF M!Next
        <3>2. CASE productionState # "serror"
            BY <2>6, <3>2 DEF Reset, resetRefillProduction
        <3> QED BY <3>1, <3>2
    <2>7. ASSUME NEW activ, SwitchRefill(activ)
          PROVE  M!RefillAbgebrochen \/ UNCHANGED <<M!anlage, messages>>
        BY <2>7 DEF SwitchRefill, resetRefillProduction, osmoseVars, M!RefillAbgebrochen
    <2>8. ASSUME NEW c, LoadConfig(c)
          PROVE  UNCHANGED <<M!anlage, messages>>
        BY <2>8 DEF LoadConfig, osmoseVars, refillVars
    <2>9. CASE UNCHANGED vars
        BY <2>9 DEF vars, osmoseVars, refillVars
    <2> QED BY <2>1, <2>2, <2>3, <2>4, <2>5, <2>6, <2>7, <2>8, <2>9
            DEF Next, ThreadIo, Command, RefillOn, RefillOff, M!Next
<1> QED BY <1>1, <1>2, TypeCorrect, PTL DEF Spec, MeldetWieSpezifiziert, M!Spec

=============================================================================
