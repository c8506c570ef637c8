------------------------------ MODULE SensorIR ------------------------------
(***************************************************************************)
(* SensorIR::UpdateState: the software debounce of one water sensor.  The  *)
(* sensor is sampled once per pass.  A sample that differs from the one    *)
(* before restarts the time; a sample that agrees with it is accepted once *)
(* DBOUNCE_TIME_MS seconds (the name says ms) have passed.  The code keeps *)
(* whole seconds (tv_sec), so the model has a clock of Ticks ticks per     *)
(* second and the code sees only the second.                               *)
(***************************************************************************)
EXTENDS Integers

CONSTANTS
    DBOUNCE_TIME_MS,
    Ticks,          \* ticks per second of the model's clock
    Pauses,         \* how many ticks may lie between two samples
    Horizon         \* seconds beyond which ages are not told apart

ASSUME SensorAssumption ==
    /\ DBOUNCE_TIME_MS \in Nat
    /\ Ticks \in Nat \ {0}
    /\ Pauses \subseteq Nat \ {0}
    /\ Horizon \in Nat /\ Horizon > DBOUNCE_TIME_MS

VARIABLES
    pc,             \* "sample" or "pause"
    STABLE_STATE,
    STATE_BEFORE,   \* STATE_NOW is copied here at the end of each call
    startAge,       \* now.tv_sec - TIME_START
    usec,           \* the tick within the current second
    agreed,         \* history: ticks since the first of the equal samples
    samples         \* history: how many samples agree (2: two or more)

vars == <<pc, STABLE_STATE, STATE_BEFORE, startAge, usec, agreed, samples>>

Level == BOOLEAN

AtMost(n, bound) == IF n > bound THEN bound ELSE n

TypeOK ==
    /\ pc \in {"sample", "pause"}
    /\ STABLE_STATE \in Level /\ STATE_BEFORE \in Level
    /\ startAge \in 0 .. Horizon
    /\ usec \in 0 .. Ticks - 1
    /\ agreed \in 0 .. Ticks * Horizon
    /\ samples \in 1 .. 2

Read(level) == STATE_BEFORE' = level

Init ==
    /\ pc = "sample"
    /\ STATE_BEFORE \in Level /\ STABLE_STATE = STATE_BEFORE
    /\ startAge = 0
    /\ usec \in 0 .. Ticks - 1
    /\ agreed = 0 /\ samples = 1

\* Fault: TIME_START is not set again.
ChangedNoRestart(level) ==
    /\ level # STATE_BEFORE
    /\ agreed' = 0 /\ samples' = 1
    /\ UNCHANGED <<STABLE_STATE, startAge>>

Changed(level) ==
    /\ level # STATE_BEFORE
    /\ startAge' = 0
    /\ agreed' = 0 /\ samples' = 1
    /\ UNCHANGED STABLE_STATE

\* Fault: the limit itself is still too early.
UnchangedLate(level) ==
    /\ level = STATE_BEFORE
    /\ STABLE_STATE' = IF startAge - DBOUNCE_TIME_MS > 0 THEN level ELSE STABLE_STATE
    /\ samples' = 2
    /\ UNCHANGED <<startAge, agreed>>

Unchanged(level) ==
    /\ level = STATE_BEFORE
    /\ STABLE_STATE' = IF startAge - DBOUNCE_TIME_MS >= 0 THEN level ELSE STABLE_STATE
    /\ samples' = 2
    /\ UNCHANGED <<startAge, agreed>>

UpdateState ==
    /\ pc = "sample" /\ pc' = "pause"
    /\ \E level \in Level :
           /\ Read(level)
           /\ Changed(level) \/ Unchanged(level)
    /\ UNCHANGED usec

(* The rest of the pass, and the 500 ms sleep.                             *)
Pause ==
    /\ pc = "pause" /\ pc' = "sample"
    /\ \E t \in Pauses :
           /\ usec' = (usec + t) % Ticks
           /\ startAge' = AtMost(startAge + (usec + t) \div Ticks, Horizon)
           /\ agreed' = AtMost(agreed + t, Ticks * Horizon)
    /\ UNCHANGED <<STABLE_STATE, STATE_BEFORE, samples>>

(* OsmoseAnlage::Lesen replaces the object when a client writes or reads   *)
(* the configuration: the constructor takes the level it reads as stable.  *)
NewSensorIR ==
    /\ \E level \in Level : Read(level) /\ STABLE_STATE' = level
    /\ startAge' = 0
    /\ agreed' = 0 /\ samples' = 1
    /\ UNCHANGED <<pc, usec>>

Next == UpdateState \/ Pause \/ NewSensorIR

Spec == Init /\ [][Next]_vars

-----------------------------------------------------------------------------
(* UpdateState never accepts a level from one sample, nor after less than  *)
(* DBOUNCE_TIME_MS - 1 seconds of agreeing samples.  It is about           *)
(* UpdateState only: the constructor takes its one sample as stable, so    *)
(* each readConfig and writeConfig (Lesen, OsmoseAnlage.cpp:560-580) lets  *)
(* one raw sample of each sensor through.                                  *)
AcceptedAfterAgreement ==
    [][UpdateState /\ STABLE_STATE' # STABLE_STATE
           => samples' = 2 /\ agreed > Ticks * (DBOUNCE_TIME_MS - 1)]_vars

(* A level that has been sampled for DBOUNCE_TIME_MS seconds is accepted   *)
(* by the next sample, wherever in the second it first showed.             *)
AcceptedInTime ==
    /\ pc = "pause" /\ samples = 2 /\ agreed >= Ticks * DBOUNCE_TIME_MS
    => STABLE_STATE = STATE_BEFORE

=============================================================================
