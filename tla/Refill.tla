------------------------------- MODULE Refill -------------------------------
(***************************************************************************)
(* OsmoseAnlage::stateMachineRefill: the pump that tops up the aquarium    *)
(* from the tank.  One call is one action; each alternative below is one   *)
(* of its early returns, in the order of the code.  The pump may run only  *)
(* while production is idle, and only for refillFaillTime seconds.         *)
(***************************************************************************)
EXTENDS AnlageState

\* Fault: the limit itself still counts as in time.
ReachedRefillTimeLate == ~(refillRuntime <= cfg.refillFaillTime)
ReachedRefillTime == ~(refillRuntime < cfg.refillFaillTime)

(* setRefillPump: pumping closes both vents (pins only, not their flags).  *)
SetRefillPump(on) ==
    /\ refillPump' = on
    /\ IOpumpRefill' = on
    /\ IOventFreshWater' = (IOventFreshWater /\ ~on)
    /\ IOventClean' = (IOventClean /\ ~on)

ClearRefillTimers == refillRuntime' = 0 /\ refillAge' = Horizon

Send(command) == messages' = Append(messages, command)

(* The housing switch reads HIGH: pump whatever the sensors say.           *)
RefillSchalterAn ==
    /\ refillState' = "refill_manual"
    /\ IOpumpRefill' = TRUE
    /\ UNCHANGED <<vents, refillTimers, refillPump, sendErrorMailRefill, messages>>

RefillSchalterAus ==
    /\ refillState = "refill_manual"
    /\ refillState' = "refill_off"
    /\ IOpumpRefill' = FALSE
    /\ UNCHANGED <<vents, refillTimers, refillPump, sendErrorMailRefill, messages>>

(* refillOff has switched the automatic refill off.                        *)
RefillInaktiv ==
    /\ refillState # "refill_manual" /\ ~osmoseRefillActiv
    /\ UNCHANGED <<refillVars, IOpumpRefill, vents, messages>>

\* Fault: modus_manuel is not asked.
ErlaubtInJedemModus == productionState = "sidle"
Erlaubt == cfg.osmoseModus = "modus_automatik" /\ productionState = "sidle"

\* Fault: the pump is left to production.
RefillGesperrtPumpt ==
    /\ refillState # "refill_manual" /\ osmoseRefillActiv /\ ~Erlaubt
    /\ ClearRefillTimers
    /\ refillState' = "refill_off"
    /\ UNCHANGED <<refillPump, IOpumpRefill, vents, sendErrorMailRefill, messages>>

RefillGesperrt ==
    /\ refillState # "refill_manual" /\ osmoseRefillActiv /\ ~Erlaubt
    /\ ClearRefillTimers
    /\ refillState' = "refill_off"
    /\ SetRefillPump(FALSE)
    /\ UNCHANGED <<sendErrorMailRefill, messages>>

Automatik == refillState # "refill_manual" /\ osmoseRefillActiv /\ Erlaubt

(* Sensor in the water before the time is up.                              *)
\* Fault: the end is sent whether a refill was on or not.
RefillEndeImmer ==
    /\ Automatik /\ sensorAqua /\ ~ReachedRefillTime
    /\ ClearRefillTimers
    /\ SetRefillPump(FALSE)
    /\ Send("setEndRefill")
    /\ refillState' = "refill_off"
    /\ UNCHANGED sendErrorMailRefill

RefillEnde ==
    /\ Automatik /\ sensorAqua /\ ~ReachedRefillTime
    /\ ClearRefillTimers
    /\ SetRefillPump(FALSE)
    /\ IF refillState = "refill_on" THEN Send("setEndRefill") ELSE UNCHANGED messages
    /\ refillState' = "refill_off"
    /\ UNCHANGED sendErrorMailRefill

RefillStart ==
    /\ Automatik /\ ~sensorAqua /\ ~ReachedRefillTime
    /\ refillState = "refill_off"
    /\ refillRuntime' = 1 /\ refillAge' = 0
    /\ refillState' = "refill_on"
    /\ Send("setStartRefill")
    /\ SetRefillPump(TRUE)
    /\ UNCHANGED sendErrorMailRefill

\* Faults: the sensor is not asked; the runtime is not counted.
RefillWeiterNass ==
    /\ Automatik /\ ~ReachedRefillTime
    /\ refillState = "refill_on"
    /\ refillRuntime' = refillAge
    /\ SetRefillPump(TRUE)
    /\ UNCHANGED <<refillState, refillAge, sendErrorMailRefill, messages>>
RefillWeiterSteht ==
    /\ Automatik /\ ~sensorAqua /\ ~ReachedRefillTime
    /\ refillState = "refill_on"
    /\ SetRefillPump(TRUE)
    /\ UNCHANGED <<refillState, refillTimers, sendErrorMailRefill, messages>>

RefillWeiter ==
    /\ Automatik /\ ~sensorAqua /\ ~ReachedRefillTime
    /\ refillState = "refill_on"
    /\ refillRuntime' = refillAge
    /\ SetRefillPump(TRUE)
    /\ UNCHANGED <<refillState, refillAge, sendErrorMailRefill, messages>>

(* The limit is reached and the sensor is still dry: the one message sent  *)
(* is the END OF PRODUCTION message, and only if the flag is down.         *)
RefillZeitlimit ==
    /\ Automatik /\ ~sensorAqua /\ ReachedRefillTime
    /\ refillState' = "refill_error"
    /\ SetRefillPump(FALSE)
    /\ IF sendErrorMailRefill THEN UNCHANGED messages
                              ELSE Send("setEndProductionOsmose")
    /\ sendErrorMailRefill' = TRUE
    /\ UNCHANGED refillTimers

(* What no branch catches falls through to the end: a wet sensor with no   *)
(* time left, and refill_error with time left (after a longer limit was    *)
(* configured).  The state becomes refill_error; no pin or flag is         *)
(* written.  The branch "REFILL UNKNOWN ERROR" is never reached.           *)
RefillRest ==
    /\ Automatik
    /\ \/ sensorAqua /\ ReachedRefillTime
       \/ ~sensorAqua /\ ~ReachedRefillTime /\ refillState = "refill_error"
    /\ refillState' = "refill_error"
    /\ UNCHANGED <<refillTimers, refillPump, IOpumpRefill, vents,
                   sendErrorMailRefill, messages>>

stateMachineRefill ==
    /\ ioPc = "refill"
    /\ ioPc' = "notify"
    /\ \/ RefillSchalterAn
       \/ RefillSchalterAus
       \/ RefillInaktiv
       \/ RefillGesperrt
       \/ RefillEnde
       \/ RefillStart
       \/ RefillWeiter
       \/ RefillZeitlimit
       \/ RefillRest
    /\ UNCHANGED <<cfg, osmoseVars, osmoseRefillActiv, sensors>>

=============================================================================
