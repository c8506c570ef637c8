--------------------------- MODULE SensorIRProofs ---------------------------
(***************************************************************************)
(* Theorems about SensorIR, for every debounce time, every resolution of   *)
(* the clock and every length of a pass: the whole seconds that the code   *)
(* sees decide about the time that has really passed.                      *)
(***************************************************************************)
EXTENDS SensorIR, TLAPS

(* The seconds and ticks that the code could see tell the age of the       *)
(* agreeing samples to less than a second; beyond Horizon it is only known *)
(* to be large.                                                            *)
AlterInv ==
    IF startAge < Horizon
    THEN /\ agreed <= Ticks * startAge + usec
         /\ agreed > Ticks * startAge + usec - Ticks
    ELSE agreed > Ticks * Horizon - Ticks

SensorInv == TypeOK /\ AlterInv /\ AcceptedInTime

-----------------------------------------------------------------------------
(* Arithmetic of the clock.                                                *)

LEMMA Sekunden ==
    ASSUME NEW u \in Nat, NEW n \in Nat \ {0}
    PROVE  /\ u \div n \in Nat /\ u % n \in 0 .. n - 1
           /\ n * (u \div n) + (u % n) = u
<1>1. u % n \in 0 .. n - 1 /\ n * (u \div n) + (u % n) = u /\ u \div n \in Int
    OBVIOUS
<1>2. u \div n \in Nat
    BY Z3
<1> QED BY <1>1, <1>2

LEMMA TicksMonoton ==
    ASSUME NEW n \in Nat \ {0}, NEW a \in Nat, NEW b \in Nat
    PROVE  /\ n * (a + b) = n * a + n * b
           /\ n * a \in Nat /\ n * b \in Nat
           /\ a <= b => n * a <= n * b
           /\ a < b => n * a + n <= n * b
<1>1. \A x, y \in Nat : n * (x + y) = n * x + n * y /\ n * x \in Nat
    OBVIOUS
<1>2. a <= b => n * a <= n * b
    <2> SUFFICES ASSUME a <= b PROVE n * a <= n * b
        OBVIOUS
    <2>1. PICK d \in Nat : b = a + d
        <3>1. b - a \in Nat /\ b = a + (b - a)
            OBVIOUS
        <3> QED BY <3>1
    <2>2. n * b = n * a + n * d /\ n * d \in Nat /\ n * a \in Nat
        BY <1>1, <2>1
    <2> QED BY <2>2
<1>3. a < b => n * a + n <= n * b
    <2> SUFFICES ASSUME a < b PROVE n * a + n <= n * b
        OBVIOUS
    <2>1. PICK d \in Nat : b = (a + 1) + d
        <3>1. b - (a + 1) \in Nat /\ b = (a + 1) + (b - (a + 1))
            OBVIOUS
        <3> QED BY <3>1
    <2>2. /\ n * (a + 1) = n * a + n * 1 /\ n * 1 = n /\ n * a \in Nat
          /\ n * b = n * (a + 1) + n * d /\ n * d \in Nat
        BY <1>1, <2>1
    <2> QED BY <2>2
<1> QED BY <1>1, <1>2, <1>3

-----------------------------------------------------------------------------
LEMMA SensorStep == SensorInv /\ [Next]_vars => SensorInv'
<1> SUFFICES ASSUME SensorInv, [Next]_vars PROVE SensorInv'
    OBVIOUS
<1>0. /\ DBOUNCE_TIME_MS \in Nat /\ Ticks \in Nat \ {0} /\ Horizon \in Nat
      /\ Horizon > DBOUNCE_TIME_MS /\ Pauses \subseteq Nat
      /\ usec \in 0 .. Ticks - 1 /\ startAge \in 0 .. Horizon
      /\ agreed \in 0 .. Ticks * Horizon
      /\ Ticks * 0 = 0 /\ Ticks * Horizon \in Nat /\ Horizon # 0
    BY SensorAssumption, TicksMonoton DEF SensorInv, TypeOK
<1>1. CASE NewSensorIR
    <2>1. TypeOK'
        BY <1>0, <1>1 DEF SensorInv, TypeOK, NewSensorIR, Read, Level
    <2>2. startAge' = 0 /\ agreed' = 0 /\ usec' = usec /\ samples' = 1
        BY <1>1 DEF NewSensorIR
    <2>3. AlterInv'
        BY <1>0, <2>2 DEF AlterInv
    <2> QED BY <2>1, <2>2, <2>3 DEF SensorInv, AcceptedInTime
<1>2. CASE UpdateState
    <2>1. pc' = "pause" /\ usec' = usec /\ STATE_BEFORE' \in BOOLEAN
        BY <1>2 DEF UpdateState, Read, Level
    <2>2. CASE \E level \in Level : Read(level) /\ Changed(level)
        <3>1. /\ startAge' = 0 /\ agreed' = 0 /\ samples' = 1
              /\ UNCHANGED STABLE_STATE
            BY <2>2 DEF Changed
        <3>2. TypeOK'
            BY <1>0, <2>1, <3>1 DEF SensorInv, TypeOK, Level
        <3>3. AlterInv'
            BY <1>0, <2>1, <3>1 DEF AlterInv
        <3> QED BY <3>1, <3>2, <3>3 DEF SensorInv, AcceptedInTime
    <2>3. CASE \E level \in Level : Read(level) /\ Unchanged(level)
        <3>1. /\ UNCHANGED <<startAge, agreed, STATE_BEFORE>> /\ samples' = 2
              /\ STABLE_STATE' = IF startAge - DBOUNCE_TIME_MS >= 0 THEN STATE_BEFORE
                                                                   ELSE STABLE_STATE
            BY <2>3 DEF Read, Unchanged
        <3>2. TypeOK'
            BY <1>0, <2>1, <3>1 DEF SensorInv, TypeOK, Level
        <3>3. AlterInv'
            BY <2>1, <3>1 DEF SensorInv, AlterInv
        <3>4. agreed >= Ticks * DBOUNCE_TIME_MS => startAge >= DBOUNCE_TIME_MS
            <4> SUFFICES ASSUME startAge < DBOUNCE_TIME_MS
                         PROVE  agreed < Ticks * DBOUNCE_TIME_MS
                BY <1>0, TicksMonoton
            <4>1. Ticks * startAge + Ticks <= Ticks * DBOUNCE_TIME_MS
                BY <1>0, TicksMonoton
            <4>2. agreed <= Ticks * startAge + usec
                BY <1>0 DEF SensorInv, AlterInv
            <4> QED BY <1>0, <4>1, <4>2, TicksMonoton
        <3> QED BY <1>0, <3>1, <3>2, <3>3, <3>4 DEF SensorInv, AcceptedInTime
    <2> QED BY <1>2, <2>2, <2>3 DEF UpdateState
<1>3. CASE Pause
    <2>1. PICK t \in Nat : /\ usec' = (usec + t) % Ticks
                          /\ startAge' = AtMost(startAge + (usec + t) \div Ticks, Horizon)
                          /\ agreed' = AtMost(agreed + t, Ticks * Horizon)
        BY <1>0, <1>3 DEF Pause
    <2> DEFINE q == (usec + t) \div Ticks
               r == (usec + t) % Ticks
    <2>2. q \in Nat /\ r \in 0 .. Ticks - 1 /\ Ticks * q + r = usec + t
        <3>1. usec + t \in Nat
            BY <1>0
        <3> QED BY <1>0, <3>1, Sekunden
    <2>3. usec' = r /\ startAge' = AtMost(startAge + q, Horizon)
        BY <2>1
    <2> HIDE DEF q, r
    <2>4. TypeOK'
        BY <1>0, <1>3, <2>1, <2>2, <2>3 DEF SensorInv, TypeOK, Pause, AtMost
    <2>5. Ticks * (startAge + q) = Ticks * startAge + Ticks * q
          /\ Ticks * startAge \in Nat /\ Ticks * q \in Nat
        BY <1>0, <2>2, TicksMonoton
    <2>6. AlterInv'
        <3>1. CASE startAge + q < Horizon
            <4>1. /\ agreed <= Ticks * startAge + usec
                  /\ agreed > Ticks * startAge + usec - Ticks
                BY <1>0, <2>2, <3>1 DEF SensorInv, AlterInv
            <4>2. Ticks * (startAge + q) + Ticks <= Ticks * Horizon
                BY <1>0, <2>2, <3>1, TicksMonoton
            <4>3. agreed + t <= Ticks * (startAge + q) + r
                  /\ agreed + t > Ticks * (startAge + q) + r - Ticks
                BY <1>0, <2>2, <2>5, <4>1
            <4>4. agreed + t <= Ticks * Horizon
                BY <1>0, <2>2, <2>5, <4>2, <4>3
            <4>5. agreed' = agreed + t /\ startAge' = startAge + q
                BY <1>0, <2>1, <2>2, <2>3, <3>1, <4>4 DEF AtMost
            <4> QED BY <2>3, <3>1, <4>3, <4>5 DEF AlterInv
        <3>2. CASE ~(startAge + q < Horizon)
            <4>1. startAge' = Horizon
                BY <1>0, <2>2, <2>3, <3>2 DEF AtMost
            <4>2. agreed + t > Ticks * Horizon - Ticks
                <5>1. CASE startAge = Horizon
                    BY <1>0, <5>1 DEF SensorInv, AlterInv
                <5>2. CASE startAge < Horizon
                    <6>1. agreed > Ticks * startAge + usec - Ticks
                        BY <5>2 DEF SensorInv, AlterInv
                    <6>2. Ticks * Horizon <= Ticks * (startAge + q)
                        BY <1>0, <2>2, <3>2, TicksMonoton
                    <6> QED BY <1>0, <2>2, <2>5, <6>1, <6>2
                <5> QED BY <1>0, <5>1, <5>2
            <4>3. agreed' > Ticks * Horizon - Ticks
                BY <1>0, <2>1, <4>2 DEF AtMost
            <4> QED BY <1>0, <4>1, <4>3 DEF AlterInv
        <3> QED BY <3>1, <3>2
    <2> QED BY <1>3, <2>4, <2>6 DEF SensorInv, AcceptedInTime, Pause
<1>4. CASE UNCHANGED vars
    BY <1>4 DEF vars, SensorInv, TypeOK, AlterInv, AcceptedInTime
<1> QED BY <1>1, <1>2, <1>3, <1>4 DEF Next

-----------------------------------------------------------------------------
(* The inductive invariant holds of every sensor, however often its object *)
(* is replaced and however long the passes are.                            *)
THEOREM SensorInvariant == Spec => []SensorInv
<1>1. Init => SensorInv
    <2> SUFFICES ASSUME Init PROVE SensorInv
        OBVIOUS
    <2>1. /\ Ticks \in Nat \ {0} /\ Horizon \in Nat \ {0} /\ DBOUNCE_TIME_MS \in Nat
          /\ Ticks * 0 = 0 /\ Ticks * Horizon \in Nat
        BY SensorAssumption, TicksMonoton
    <2> QED BY <2>1 DEF SensorInv, TypeOK, AlterInv, AcceptedInTime, Init, Level
<1> QED BY <1>1, SensorStep, PTL DEF Spec

(* Age, clock and history stay within their ranges.                        *)
THEOREM SensorTypeCorrect == Spec => []TypeOK
<1>1. SensorInv => TypeOK
    BY DEF SensorInv
<1> QED BY <1>1, SensorInvariant, PTL

(* A level that has been there for DBOUNCE_TIME_MS seconds is accepted by  *)
(* the next sample, wherever in the second it first showed.                *)
THEOREM SensorAcceptsInTime == Spec => []AcceptedInTime
<1>1. SensorInv => AcceptedInTime
    BY DEF SensorInv
<1> QED BY <1>1, SensorInvariant, PTL

(* The counting of whole seconds costs less than one second: no level is   *)
(* accepted after DBOUNCE_TIME_MS - 1 seconds or less, nor from one sample.*)
THEOREM SensorAcceptsAfterAgreement == Spec => AcceptedAfterAgreement
<1>1. SensorInv /\ [Next]_vars =>
          [UpdateState /\ STABLE_STATE' # STABLE_STATE
               => samples' = 2 /\ agreed > Ticks * (DBOUNCE_TIME_MS - 1)]_vars
    <2> SUFFICES ASSUME SensorInv, UpdateState, STABLE_STATE' # STABLE_STATE
                 PROVE  samples' = 2 /\ agreed > Ticks * (DBOUNCE_TIME_MS - 1)
        OBVIOUS
    <2>0. /\ DBOUNCE_TIME_MS \in Nat /\ Ticks \in Nat \ {0} /\ Horizon \in Nat
          /\ Horizon > DBOUNCE_TIME_MS
          /\ usec \in 0 .. Ticks - 1 /\ startAge \in 0 .. Horizon /\ agreed \in Int
        BY SensorAssumption, TicksMonoton DEF SensorInv, TypeOK
    <2>1. samples' = 2 /\ startAge >= DBOUNCE_TIME_MS
        BY <2>0 DEF UpdateState, Changed, Unchanged
    <2>2. Ticks * (DBOUNCE_TIME_MS - 1) = Ticks * DBOUNCE_TIME_MS - Ticks
        BY <2>0
    <2>3. CASE startAge < Horizon
        <3>1. Ticks * DBOUNCE_TIME_MS <= Ticks * startAge
            BY <2>0, <2>1, TicksMonoton
        <3>2. agreed > Ticks * startAge + usec - Ticks
            BY <2>3 DEF SensorInv, AlterInv
        <3>3. Ticks * DBOUNCE_TIME_MS \in Nat /\ Ticks * startAge \in Nat
            BY <2>0, TicksMonoton
        <3> QED BY <2>0, <2>1, <2>2, <3>1, <3>2, <3>3
    <2>4. CASE startAge = Horizon
        <3>1. Ticks * DBOUNCE_TIME_MS <= Ticks * Horizon
            BY <2>0, TicksMonoton
        <3>2. agreed > Ticks * Horizon - Ticks
            BY <2>0, <2>4 DEF SensorInv, AlterInv
        <3>3. Ticks * DBOUNCE_TIME_MS \in Nat /\ Ticks * Horizon \in Nat
            BY <2>0, TicksMonoton
        <3> QED BY <2>0, <2>1, <2>2, <3>1, <3>2, <3>3
    <2> QED BY <2>0, <2>3, <2>4
<1> QED BY <1>1, SensorInvariant, PTL DEF Spec, AcceptedAfterAgreement

=============================================================================
