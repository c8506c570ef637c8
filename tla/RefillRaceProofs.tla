--------------------------- MODULE RefillRaceProofs ---------------------------
(***************************************************************************)
(* Theorems about RefillRace, for every time limit, every sleep and every  *)
(* set of commands: what two threads that share their fields without a     *)
(* lock can still rely on.                                                 *)
(***************************************************************************)
EXTENDS RefillRace, SequenceTheorems, TLAPS

(* What the IO thread may still have to execute, by what is left of it.    *)
Einschalten == <<"state:=manual", "pump:=true">>
Ausschalten == <<"state:=off", "pump:=false">>
Starten     == <<"runtime:=1", "start:=now", "state:=on", "pump:=true">>
Gestartet   == <<"start:=now", "state:=on", "pump:=true">>
Messen      == <<"runtime:=now-start", "state:=on", "pump:=true">>
Weiter      == <<"state:=on", "pump:=true">>
Enden       == {<<"runtime:=0", "start:=0", "state:=off", "pump:=false">>,
                <<"runtime:=0", "start:=0", "pump:=false", "state:=off">>}
Beendet     == {<<"start:=0", "state:=off", "pump:=false">>,
                <<"start:=0", "pump:=false", "state:=off">>}
Geloescht   == {Ausschalten, <<"pump:=false", "state:=off">>, <<"state:=off">>}
Stoerung    == {<<"state:=error">>, <<"state:=error", "pump:=false">>}

IoCodes ==
    {<<>>, Einschalten, Starten, Gestartet, Messen, Weiter, <<"pump:=true">>, <<"pump:=false">>}
    \cup Enden \cup Beendet \cup Geloescht \cup Stoerung

(* What a command may still have to execute.                               *)
WsCodes ==
    {<<>>, <<"state:=off">>, <<"start:=0", "state:=off">>,
     <<"runtime:=0", "start:=0", "state:=off">>,
     <<"pump:=false", "runtime:=0", "start:=0", "state:=off">>,
     <<"activ:=true", "pump:=false", "runtime:=0", "start:=0", "state:=off">>,
     <<"activ:=false", "pump:=false", "runtime:=0", "start:=0", "state:=off">>}

WsStatements == {"activ:=true", "activ:=false", "pump:=false",
                 "runtime:=0", "start:=0", "state:=off"}

CodeInv ==
    /\ ioCode \in IoCodes /\ (ioPc = "code" <=> ioCode # <<>>)
    /\ wsCode \in WsCodes /\ (wsCmd = "keins" => wsCode = <<>>)

(* Once an idle pass has begun while refilling was off and no command was  *)
(* running, only the refill switch touches the pump.                       *)
RuheInv ==
    idlePassSeitAus =>
        /\ wsCmd = "keins" /\ ~osmoseRefillActiv
        /\ ioPc \in {"osmose", "schalter", "activ", "code", "sleep"}
        /\ IF ioPc = "code"
           THEN \/ ioCode \in {Einschalten, Ausschalten, <<"pump:=false">>}
                \/ ioCode = <<"pump:=true">> /\ refillState = "refill_manual"
           ELSE pump => refillState = "refill_manual"

(* As long as commands run only between two calls of stateMachineRefill,   *)
(* the runtime is that of the refill that was started, and a refill whose  *)
(* start was cleared is off before the next call: clearing the start is    *)
(* the last but one statement of a command.  A limit of 1 is reached by    *)
(* the value that marks the first pass, so that nothing is claimed for it; *)
(* a limit of 0 is always reached.                                         *)
LaufzeitInv ==
    /\ ioCode = Gestartet => refillRuntime \in {0, 1}
    /\ ~gestoert => wsCmd = "keins" \/ ioPc \in {"osmose", "sleep"}
    /\ ~gestoert /\ refillFaillTime # 1 =>
        /\ refillRuntime >= refillFaillTime => seitStart >= refillFaillTime
        /\ refillState = "refill_on" => \/ refillAge = seitStart
                                       \/ ioCode \in Geloescht
                                       \/ wsCode = <<"state:=off">>
        /\ ioCode \in {Messen, Weiter} => refillAge = seitStart
        /\ ioCode \in Stoerung => seitStart >= refillFaillTime \/ refillState = "refill_error"

RaceInv == TypeOK /\ CodeInv /\ RuheInv /\ LaufzeitInv

-----------------------------------------------------------------------------
USE RaceAssumption

(* Time only passes, and two clocks that agree go on agreeing.             *)
LEMMA LaterGrows ==
    ASSUME NEW age \in Age, NEW d \in 0 .. MaxStep
    PROVE  Later(age, d) \in Age /\ Later(age, d) >= age
BY DEF Age, Later

(* The pieces of the IO thread's code: what is executed and what is left.  *)
LEMMA Pieces ==
    ASSUME NEW c \in IoCodes, c # <<>>
    PROVE  \/ c = Einschalten /\ Head(c) = "state:=manual" /\ Tail(c) = <<"pump:=true">>
           \/ c = Starten /\ Head(c) = "runtime:=1" /\ Tail(c) = Gestartet
           \/ c = Gestartet /\ Head(c) = "start:=now" /\ Tail(c) = Weiter
           \/ c = Messen /\ Head(c) = "runtime:=now-start" /\ Tail(c) = Weiter
           \/ c = Weiter /\ Head(c) = "state:=on" /\ Tail(c) = <<"pump:=true">>
           \/ c = <<"pump:=true">> /\ Head(c) = "pump:=true" /\ Tail(c) = <<>>
           \/ c = <<"pump:=false">> /\ Head(c) = "pump:=false" /\ Tail(c) = <<>>
           \/ c \in Enden /\ Head(c) = "runtime:=0" /\ Tail(c) \in Beendet
           \/ c \in Beendet /\ Head(c) = "start:=0" /\ Tail(c) \in Geloescht
           \/ c = Ausschalten /\ Head(c) = "state:=off" /\ Tail(c) = <<"pump:=false">>
           \/ c = <<"pump:=false", "state:=off">> /\ Head(c) = "pump:=false"
               /\ Tail(c) = <<"state:=off">>
           \/ c = <<"state:=off">> /\ Head(c) = "state:=off" /\ Tail(c) = <<>>
           \/ c \in Stoerung /\ Head(c) = "state:=error"
               /\ Tail(c) \in {<<>>, <<"pump:=false">>}
<1>1. CASE c = Einschalten
  BY <1>1 DEF Einschalten
<1>2. CASE c = Starten
  BY <1>2 DEF Starten, Gestartet
<1>3. CASE c = Gestartet
  BY <1>3 DEF Gestartet, Weiter
<1>4. CASE c = Messen
  BY <1>4 DEF Messen, Weiter
<1>5. CASE c = Weiter
  BY <1>5 DEF Weiter
<1>6. CASE c = <<"pump:=true">>
  BY <1>6
<1>7. CASE c = <<"pump:=false">>
  BY <1>7
<1>8. CASE c = <<"runtime:=0", "start:=0", "state:=off", "pump:=false">>
  BY <1>8 DEF Enden, Beendet
<1>9. CASE c = <<"runtime:=0", "start:=0", "pump:=false", "state:=off">>
  BY <1>9 DEF Enden, Beendet
<1>10. CASE c = <<"start:=0", "state:=off", "pump:=false">>
  BY <1>10 DEF Beendet, Geloescht, Ausschalten
<1>11. CASE c = <<"start:=0", "pump:=false", "state:=off">>
  BY <1>11 DEF Beendet, Geloescht
<1>12. CASE c = Ausschalten
  BY <1>12 DEF Ausschalten
<1>13. CASE c = <<"pump:=false", "state:=off">>
  BY <1>13
<1>14. CASE c = <<"state:=off">>
  BY <1>14
<1>15. CASE c = <<"state:=error">>
  BY <1>15 DEF Stoerung
<1>16. CASE c = <<"state:=error", "pump:=false">>
  BY <1>16 DEF Stoerung
<1> QED
  BY <1>1, <1>2, <1>3, <1>4, <1>5, <1>6, <1>7, <1>8, <1>9, <1>10, <1>11, <1>12, <1>13, <1>14, <1>15, <1>16
     DEF IoCodes, Enden, Beendet, Geloescht, Stoerung

(* The pieces differ in what they begin with or in their length.           *)
LEMMA PiecesDiffer ==
    /\ {<<>>, Einschalten, Starten, Ausschalten} \cup Enden
           \subseteq IoCodes \ ({Gestartet, Messen, Weiter} \cup Stoerung)
    /\ <<>> \notin Geloescht /\ Messen \in IoCodes /\ Stoerung \subseteq IoCodes
    /\ Messen # Gestartet /\ Messen \notin Stoerung /\ Messen # <<>>
    /\ Gestartet \notin Stoerung /\ Weiter \notin Stoerung
    /\ <<>> \notin {Einschalten, Starten, Ausschalten} \cup Enden \cup Stoerung
<1> USE DEF Einschalten, Ausschalten, Starten, Gestartet, Messen, Weiter, Enden,
            Geloescht, Stoerung
<1>1. /\ <<>> \notin {Einschalten, Starten, Ausschalten} \cup Enden \cup Stoerung
      /\ <<>> \notin Geloescht /\ Messen # <<>> /\ Messen # Gestartet
  OBVIOUS
<1>2. {Einschalten, Starten, Ausschalten} \cap ({Gestartet, Messen, Weiter} \cup Stoerung) = {}
  OBVIOUS
<1>3. Enden \cap ({Gestartet, Messen, Weiter} \cup Stoerung) = {}
  OBVIOUS
<1>4. <<>> \notin {Gestartet, Messen, Weiter} \cup Stoerung
  OBVIOUS
<1>5. Gestartet \notin Stoerung /\ Messen \notin Stoerung /\ Weiter \notin Stoerung
  OBVIOUS
<1>6. /\ {<<>>, Einschalten, Starten, Ausschalten, Messen} \subseteq IoCodes
      /\ Enden \subseteq IoCodes /\ Stoerung \subseteq IoCodes
  <2> HIDE DEF Einschalten, Ausschalten, Starten, Gestartet, Messen, Weiter, Enden,
               Geloescht, Stoerung
  <2>1. Ausschalten \in IoCodes
    BY DEF IoCodes, Geloescht
  <2> QED
    BY <2>1 DEF IoCodes
<1> HIDE DEF Einschalten, Ausschalten, Starten, Gestartet, Messen, Weiter, Enden,
             Geloescht, Stoerung
<1> QED
  BY <1>1, <1>2, <1>3, <1>4, <1>5, <1>6

(* What is executed and what is left are statements of the program.        *)
LEMMA PiecesTyped ==
    ASSUME NEW c \in IoCodes
    PROVE  /\ c \in Seq(Statements)
           /\ c # <<>> => Head(c) \in Statements /\ Tail(c) \in IoCodes
<1>1. c \in Seq(Statements)
  <2>1. {Einschalten, Ausschalten, Weiter, <<"pump:=true">>, <<"pump:=false">>, <<>>}
            \subseteq Seq(Statements)
    BY DEF Einschalten, Ausschalten, Weiter, Statements
  <2>2. {Starten, Gestartet, Messen} \subseteq Seq(Statements)
    BY DEF Starten, Gestartet, Messen, Statements
  <2>3. Enden \cup Beendet \subseteq Seq(Statements)
    BY DEF Enden, Beendet, Statements
  <2>4. Geloescht \cup Stoerung \subseteq Seq(Statements)
    BY DEF Geloescht, Ausschalten, Stoerung, Statements
  <2> QED
    BY <2>1, <2>2, <2>3, <2>4 DEF IoCodes
<1>2. ASSUME c # <<>> PROVE Head(c) \in Statements /\ Tail(c) \in IoCodes
  <2>1. Head(c) \in Statements
    BY <1>2, Pieces DEF Statements
  <2>2. Tail(c) \in IoCodes
    <3>1. Beendet \subseteq IoCodes /\ Geloescht \subseteq IoCodes
      BY DEF IoCodes
    <3>2. {<<>>, Gestartet, Weiter, <<"pump:=true">>, <<"pump:=false">>} \subseteq IoCodes
      BY DEF IoCodes
    <3>3. <<"state:=off">> \in IoCodes
      BY <3>1 DEF Geloescht
    <3> HIDE DEF IoCodes
    <3> QED
      BY <1>2, <3>1, <3>2, <3>3, Pieces
  <2> QED
    BY <2>1, <2>2
<1> QED
  BY <1>1, <1>2

(* The same for the commands.                                              *)
LEMMA WsTyped ==
    ASSUME NEW c \in WsCodes
    PROVE  /\ c \in Seq(Statements)
           /\ c # <<>> => /\ Head(c) \in WsStatements /\ Tail(c) \in WsCodes
                          /\ Head(c) = "start:=0" => Tail(c) = <<"state:=off">>
                          /\ c = <<"state:=off">> => Head(c) = "state:=off"
<1>1. CASE c = <<>>
  BY <1>1
<1>2. CASE c = <<"state:=off">>
  BY <1>2 DEF WsCodes, WsStatements, Statements
<1>3. CASE c = <<"start:=0", "state:=off">>
  BY <1>3 DEF WsCodes, WsStatements, Statements
<1>4. CASE c = <<"runtime:=0", "start:=0", "state:=off">>
  BY <1>4 DEF WsCodes, WsStatements, Statements
<1>5. CASE c = <<"pump:=false", "runtime:=0", "start:=0", "state:=off">>
  BY <1>5 DEF WsCodes, WsStatements, Statements
<1>6. CASE c = <<"activ:=true", "pump:=false", "runtime:=0", "start:=0", "state:=off">>
  BY <1>6 DEF WsCodes, WsStatements, Statements
<1>7. CASE c = <<"activ:=false", "pump:=false", "runtime:=0", "start:=0", "state:=off">>
  BY <1>7 DEF WsCodes, WsStatements, Statements
<1> QED
  BY <1>1, <1>2, <1>3, <1>4, <1>5, <1>6, <1>7 DEF WsCodes

(* Two statements and three more.                                          *)
LEMMA Verkettet ==
    ASSUME NEW a, NEW b, NEW c, NEW d, NEW e
    PROVE  <<a, b>> \o <<c, d, e>> = <<a, b, c, d, e>>
<1> DEFINE S == {a, b, c, d, e}
           v == <<a, b>>
           w == <<c, d, e>>
<1>1. v \in Seq(S) /\ w \in Seq(S) /\ Len(v) = 2 /\ Len(w) = 3
  OBVIOUS
<1>2. v \o w \in Seq(S) /\ Len(v \o w) = 5
  BY <1>1, ConcatProperties
<1>3. \A i \in 1 .. 5 : (v \o w)[i] = IF i <= 2 THEN v[i] ELSE w[i - 2]
  BY <1>1, ConcatProperties
<1>4. <<a, b, c, d, e>> \in Seq(S) /\ Len(<<a, b, c, d, e>>) = 5
  OBVIOUS
<1>5. \A i \in 1 .. 5 : (v \o w)[i] = <<a, b, c, d, e>>[i]
  BY <1>3
<1> HIDE DEF v, w
<1>6. v \o w = <<a, b, c, d, e>>
  BY <1>2, <1>4, <1>5, SeqEqual
<1> QED
  BY <1>6 DEF v, w

(* A command that is received is one of these.                             *)
LEMMA CodeTyped ==
    ASSUME NEW k \in {"refillOn", "refillOff", "reset"}
    PROVE  Code(k) \in WsCodes
<1>1. CASE k = "refillOn"
  <2>1. Code(k) = <<"activ:=true", "pump:=false">> \o <<"runtime:=0", "start:=0", "state:=off">>
    BY <1>1 DEF Code, resetRefillProduction
  <2>2. Code(k) = <<"activ:=true", "pump:=false", "runtime:=0", "start:=0", "state:=off">>
    BY <2>1, Verkettet
  <2> QED
    BY <2>2 DEF WsCodes
<1>2. CASE k = "refillOff"
  <2>1. Code(k) = <<"activ:=false", "pump:=false">> \o <<"runtime:=0", "start:=0", "state:=off">>
    BY <1>2 DEF Code, resetRefillProduction
  <2>2. Code(k) = <<"activ:=false", "pump:=false", "runtime:=0", "start:=0", "state:=off">>
    BY <2>1, Verkettet
  <2> QED
    BY <2>2 DEF WsCodes
<1>3. CASE k = "reset"
  BY <1>3 DEF Code, resetRefillProduction, WsCodes
<1> QED
  BY <1>1, <1>2, <1>3

(* A statement leaves every shared field within its type.                  *)
LEMMA ExecuteTyped ==
    ASSUME TypeOK, NEW s \in Statements, Execute(s)
    PROVE  /\ osmoseRefillActiv' \in BOOLEAN /\ pump' \in BOOLEAN
           /\ refillState' \in {"refill_off", "refill_on", "refill_error", "refill_manual"}
           /\ refillRuntime' \in Age /\ refillAge' \in Age /\ seitStart' \in Age
           /\ gestoert' \in BOOLEAN
<1> USE DEF Execute, TypeOK
<1>1. osmoseRefillActiv' \in BOOLEAN
  OBVIOUS
<1>2. pump' \in BOOLEAN
  OBVIOUS
<1>3. refillState' \in {"refill_off", "refill_on", "refill_error", "refill_manual"}
  OBVIOUS
<1>4. refillRuntime' \in Age /\ refillAge' \in Age /\ seitStart' \in Age
  BY DEF Runtime, Age
<1>5. gestoert' \in BOOLEAN
  OBVIOUS
<1> QED
  BY <1>1, <1>2, <1>3, <1>4, <1>5

(* What the WebSocket thread may do to a refill: stop it and forget it.    *)
LEMMA WsExecutes ==
    ASSUME TypeOK, NEW s \in WsStatements, Execute(s)
    PROVE  /\ gestoert' = gestoert /\ seitStart' = seitStart
           /\ refillRuntime' \in {0, refillRuntime}
           /\ refillState' \in {"refill_off", refillState}
           /\ s = "state:=off" => refillState' = "refill_off"
           /\ s # "start:=0" => refillAge' = refillAge
BY DEF WsStatements, Execute, Runtime

-----------------------------------------------------------------------------
(* The four parts of the invariant, step by step.  ioOthers is what Next   *)
(* leaves alone around a step of the IO thread.                            *)

ioOthers == <<sensorAqua, productionState, wsVars, passSeitAus, idlePassSeitAus>>

(* A pass begins: an idle plant drives the pump low.                       *)
LEMMA OsmosePassStep == RaceInv /\ OsmosePass => RaceInv'
<1> SUFFICES ASSUME RaceInv, OsmosePass PROVE RaceInv'
  OBVIOUS
<1> USE DEF RaceInv, OsmosePass, OsmoseIdle, wsVars
<1>1. TypeOK'
  <2>1. /\ ioPc' \in {"osmose", "schalter", "activ", "zeit", "aus", "an", "rest",
                      "code", "sleep"}
        /\ ioCode' \in Seq(Statements) /\ wsCode' \in Seq(Statements)
        /\ productionState' \in {"sidle", "smanual"}
        /\ wsCmd' \in Kommandos \cup {"keins"}
        /\ refillState' \in {"refill_off", "refill_on", "refill_error", "refill_manual"}
        /\ refillRuntime' \in Age /\ refillAge' \in Age /\ seitStart' \in Age
    BY DEF TypeOK
  <2>2. /\ reached' \in BOOLEAN /\ sensorAqua' \in BOOLEAN
        /\ osmoseRefillActiv' \in BOOLEAN /\ pump' \in BOOLEAN /\ gestoert' \in BOOLEAN
    BY DEF TypeOK
  <2>3. passSeitAus' \in BOOLEAN
    BY Zenon
  <2>4. idlePassSeitAus' \in BOOLEAN
    BY Zenon
  <2> QED
    BY <2>1, <2>2, <2>3, <2>4 DEF TypeOK
<1>2. CodeInv'
  BY DEF CodeInv
<1>3. RuheInv'
  <2> SUFFICES ASSUME idlePassSeitAus' PROVE RuheInv'
    BY DEF RuheInv
  <2>1. wsCmd = "keins" /\ ~osmoseRefillActiv
    OBVIOUS
  <2>2. pump' => refillState' = "refill_manual"
    <3>1. CASE idlePassSeitAus
      BY <3>1 DEF RuheInv
    <3>2. CASE {productionState, productionState'} = {"sidle"}
      BY <3>2
    <3> QED
      BY <3>1, <3>2
  <2> QED
    BY <2>1, <2>2 DEF RuheInv
<1>4. LaufzeitInv'
  <2>1. ~gestoert' => ~gestoert /\ wsCmd = "keins"
    BY DEF TypeOK
  <2> QED
    BY <2>1 DEF LaufzeitInv
<1> QED
  BY <1>1, <1>2, <1>3, <1>4

(* Both clocks move by the same step.                                      *)
LEMMA SleepStep == RaceInv /\ UNCHANGED ioOthers /\ Sleep => RaceInv'
<1> SUFFICES ASSUME RaceInv, UNCHANGED ioOthers, Sleep PROVE RaceInv'
  OBVIOUS
<1> USE DEF RaceInv, Sleep, ioOthers, wsVars
<1>1. PICK d \in 0 .. MaxStep : refillAge' = Later(refillAge, d) /\ seitStart' = Later(seitStart, d)
  OBVIOUS
<1>2. refillAge' \in Age /\ seitStart' \in Age /\ seitStart' >= seitStart
  BY <1>1, LaterGrows DEF TypeOK
<1>3. TypeOK'
  BY <1>2 DEF TypeOK
<1>4. CodeInv'
  BY DEF CodeInv
<1>5. RuheInv'
  BY DEF RuheInv
<1>6. LaufzeitInv'
  <2>1. ioCode = <<>> /\ ioCode' = <<>>
    BY DEF CodeInv
  <2>2. <<>> \notin {Gestartet, Messen, Weiter} \cup Geloescht \cup Stoerung
    BY DEF Gestartet, Messen, Weiter, Geloescht, Ausschalten, Stoerung
  <2>3. refillAge = seitStart => refillAge' = seitStart'
    BY <1>1
  <2>4. refillRuntime' >= refillFaillTime /\ seitStart >= refillFaillTime
            => seitStart' >= refillFaillTime
    BY <1>2 DEF TypeOK, Age
  <2> QED
    BY <2>1, <2>2, <2>3, <2>4 DEF LaufzeitInv
<1> QED
  BY <1>3, <1>4, <1>5, <1>6

(* A command begins: the refill is disturbed if a pass is looking at it.   *)
LEMMA ReceiveStep == RaceInv /\ Receive => RaceInv'
<1> SUFFICES ASSUME RaceInv, Receive PROVE RaceInv'
  OBVIOUS
<1> USE DEF RaceInv, Receive, ioVars, shared
<1>1. wsCode' \in WsCodes
  BY CodeTyped DEF RaceAssumption
<1>2. TypeOK'
  BY <1>1, WsTyped DEF TypeOK
<1>3. CodeInv'
  BY <1>1 DEF CodeInv, RaceAssumption
<1>4. RuheInv'
  BY DEF RuheInv
<1>5. LaufzeitInv'
  <2>1. ~gestoert' => ~gestoert /\ ioPc \in {"osmose", "sleep"}
    BY DEF TypeOK
  <2>2. wsCode # <<"state:=off">>
    BY DEF CodeInv
  <2> QED
    BY <2>1, <2>2 DEF LaufzeitInv
<1> QED
  BY <1>2, <1>3, <1>4, <1>5

(* A statement of a command: in a pass the history knows of it, and before *)
(* the next pass the refill whose start it clears is switched off.         *)
LEMMA WsCodeStep == RaceInv /\ WsCode => RaceInv'
<1> SUFFICES ASSUME RaceInv, WsCode PROVE RaceInv'
  OBVIOUS
<1> USE DEF RaceInv, WsCode, ioVars
<1>1. wsCmd # "keins" /\ ~idlePassSeitAus
  BY DEF CodeInv, RuheInv
<1> DEFINE s == Head(wsCode)
<1>2. /\ s \in WsStatements /\ wsCode' \in WsCodes /\ wsCode' \in Seq(Statements)
      /\ s = "start:=0" => wsCode' = <<"state:=off">>
      /\ wsCode = <<"state:=off">> => s = "state:=off"
  <2>1. wsCode \in WsCodes /\ wsCode # <<>> /\ wsCode' = Tail(wsCode)
    BY DEF CodeInv
  <2>2. Tail(wsCode) \in WsCodes
    BY <2>1, WsTyped, Zenon
  <2>3. wsCode' \in Seq(Statements)
    BY <2>1, <2>2, WsTyped, Zenon
  <2> QED
    BY <2>1, <2>2, <2>3, WsTyped, Zenon
<1>3. s \in Statements
  BY <1>2 DEF WsStatements, Statements
<1>4. /\ gestoert' = gestoert /\ seitStart' = seitStart
      /\ refillRuntime' \in {0, refillRuntime}
      /\ refillState' \in {"refill_off", refillState}
      /\ s = "state:=off" => refillState' = "refill_off"
      /\ s # "start:=0" => refillAge' = refillAge
  BY <1>2, WsExecutes
<1>5. TypeOK'
  <2>1. /\ osmoseRefillActiv' \in BOOLEAN /\ pump' \in BOOLEAN
        /\ refillState' \in {"refill_off", "refill_on", "refill_error", "refill_manual"}
        /\ refillRuntime' \in Age /\ refillAge' \in Age /\ seitStart' \in Age
        /\ gestoert' \in BOOLEAN
    BY <1>3, ExecuteTyped
  <2> QED
    BY <1>2, <2>1 DEF TypeOK
<1>6. CodeInv'
  BY <1>1, <1>2 DEF CodeInv
<1>7. RuheInv'
  BY <1>1 DEF RuheInv
<1>8. LaufzeitInv'
  <2>1. ioCode' = Gestartet => refillRuntime' \in {0, 1}
    BY <1>4 DEF LaufzeitInv
  <2>2. ASSUME ~gestoert' PROVE /\ ~gestoert /\ ioPc \in {"osmose", "sleep"}
                               /\ ioCode = <<>>
    BY <1>1, <1>4, <2>2 DEF LaufzeitInv, CodeInv
  <2>3. ASSUME ~gestoert', refillFaillTime # 1, refillRuntime' >= refillFaillTime
        PROVE  seitStart' >= refillFaillTime
    <3>1. CASE refillRuntime' = 0
      <4>1. refillFaillTime = 0 /\ seitStart' \in Nat
        BY <1>5, <2>3, <3>1 DEF RaceAssumption, TypeOK, Age
      <4> QED
        BY <4>1
    <3>2. CASE refillRuntime' = refillRuntime
      BY <1>4, <2>2, <2>3, <3>2 DEF LaufzeitInv
    <3> QED
      BY <1>4, <3>1, <3>2
  <2>4. ASSUME ~gestoert', refillFaillTime # 1, refillState' = "refill_on"
        PROVE  refillAge' = seitStart' \/ wsCode' = <<"state:=off">>
    <3>1. refillState = "refill_on" /\ s # "state:=off" /\ wsCode # <<"state:=off">>
      BY <1>2, <1>4, <2>4
    <3>2. refillAge = seitStart
      BY <2>2, <2>4, <3>1, PiecesDiffer DEF LaufzeitInv
    <3> QED
      BY <1>2, <1>4, <3>2
  <2>5. ioCode' = ioCode /\ ioPc' = ioPc
    OBVIOUS
  <2>6. <<>> \notin {Messen, Weiter} \cup Stoerung
    BY PiecesDiffer
  <2> QED
    BY <2>1, <2>2, <2>3, <2>4, <2>5, <2>6 DEF LaufzeitInv
<1> QED
  BY <1>5, <1>6, <1>7, <1>8

(* A command has ended.                                                    *)
LEMMA DoneStep == RaceInv /\ Done => RaceInv'
<1> SUFFICES ASSUME RaceInv, Done PROVE RaceInv'
  OBVIOUS
<1> USE DEF RaceInv, Done, ioVars, shared, history
<1>1. TypeOK'
  BY DEF TypeOK
<1>2. CodeInv'
  BY DEF CodeInv
<1>3. RuheInv'
  BY DEF RuheInv
<1>4. LaufzeitInv'
  BY DEF LaufzeitInv
<1> QED
  BY <1>1, <1>2, <1>3, <1>4

(* Nothing happens.                                                        *)
LEMMA StutterStep == RaceInv /\ UNCHANGED vars => RaceInv'
<1> SUFFICES ASSUME RaceInv, UNCHANGED vars PROVE RaceInv'
  OBVIOUS
<1> USE DEF RaceInv, vars, ioVars, wsVars, shared, history
<1>1. TypeOK'
  BY DEF TypeOK
<1>2. CodeInv'
  BY DEF CodeInv
<1>3. RuheInv'
  BY DEF RuheInv
<1>4. LaufzeitInv'
  BY DEF LaufzeitInv
<1> QED
  BY <1>1, <1>2, <1>3, <1>4

(* The tests of the IO thread leave the shared fields as they are and      *)
(* begin only when nothing is left to execute.                             *)
LEMMA TestKeeps ==
    ASSUME RaceInv, UNCHANGED ioOthers, UNCHANGED <<shared, seitStart, gestoert>>,
           reached' \in BOOLEAN, ioCode' \in IoCodes,
           ioPc' \in {"activ", "zeit", "aus", "an", "rest", "code", "sleep"},
           ioPc' = "code" <=> ioCode' # <<>>
    PROVE  TypeOK' /\ CodeInv'
<1> USE DEF RaceInv, ioOthers, wsVars, shared
<1>1. ioCode' \in Seq(Statements)
  BY PiecesTyped
<1>2. TypeOK'
  BY <1>1 DEF TypeOK
<1>3. CodeInv'
  BY DEF CodeInv
<1> QED
  BY <1>2, <1>3

(* A test decides in agreement with the runtime when it switches the pump  *)
(* on again only in a refill, and faults only a reached time.              *)
LEMMA TestFits ==
    ASSUME RaceInv, ioCode = <<>>, UNCHANGED <<shared, seitStart, gestoert, wsVars>>,
           ioCode' # Gestartet, ioPc \notin {"osmose", "sleep"},
           ioCode' \in {Messen, Weiter} => refillState = "refill_on",
           ioCode' \in Stoerung
               => refillRuntime >= refillFaillTime \/ refillState = "refill_error"
    PROVE  LaufzeitInv'
<1>1. ~gestoert => wsCmd = "keins" /\ wsCode # <<"state:=off">>
  BY DEF RaceInv, LaufzeitInv, CodeInv
<1>2. ASSUME ~gestoert, refillFaillTime # 1
      PROVE  /\ refillRuntime >= refillFaillTime => seitStart >= refillFaillTime
             /\ refillState = "refill_on" => refillAge = seitStart
  BY <1>1, <1>2, PiecesDiffer DEF RaceInv, LaufzeitInv
<1>3. ASSUME ~gestoert' PROVE ~gestoert
  BY <1>3
<1> HIDE DEF Gestartet, Messen, Weiter, Stoerung, Geloescht
<1> QED
  BY <1>1, <1>2, <1>3 DEF LaufzeitInv, shared, wsVars

(* The housing switch: the only piece that may pump after an idle pass.    *)
LEMMA SchalterStep == RaceInv /\ UNCHANGED ioOthers /\ Schalter => RaceInv'
<1> SUFFICES ASSUME RaceInv, UNCHANGED ioOthers, Schalter PROVE RaceInv'
  OBVIOUS
<1>1. /\ ioCode = <<>> /\ ioPc = "schalter"
      /\ UNCHANGED <<shared, seitStart, gestoert, reached>>
      /\ \/ ioPc' = "code" /\ ioCode' = Einschalten
         \/ ioPc' = "code" /\ ioCode' = Ausschalten
         \/ ioPc' = "activ" /\ ioCode' = <<>> /\ refillState # "refill_manual"
  BY DEF RaceInv, CodeInv, Schalter, Then, Goto, Einschalten, Ausschalten
<1>2. TypeOK' /\ CodeInv'
  BY <1>1, TestKeeps, PiecesDiffer DEF RaceInv, TypeOK
<1>3. RuheInv'
  BY <1>1 DEF RaceInv, RuheInv, ioOthers, wsVars, shared
<1>4. LaufzeitInv'
  BY <1>1, TestFits, PiecesDiffer DEF ioOthers
<1> QED
  BY <1>2, <1>3, <1>4 DEF RaceInv

(* After an idle pass the plant does not get beyond this test.             *)
LEMMA ActivStep == RaceInv /\ UNCHANGED ioOthers /\ Activ => RaceInv'
<1> SUFFICES ASSUME RaceInv, UNCHANGED ioOthers, Activ PROVE RaceInv'
  OBVIOUS
<1>1. /\ ioCode = <<>> /\ ioCode' = <<>> /\ ioPc = "activ"
      /\ UNCHANGED <<shared, seitStart, gestoert, reached>>
      /\ ioPc' = IF osmoseRefillActiv THEN "zeit" ELSE "sleep"
  BY DEF RaceInv, CodeInv, Activ, Goto
<1>2. TypeOK' /\ CodeInv'
  BY <1>1, TestKeeps, PiecesDiffer DEF RaceInv, TypeOK
<1>3. RuheInv'
  BY <1>1 DEF RaceInv, RuheInv, ioOthers, wsVars, shared
<1>4. LaufzeitInv'
  BY <1>1, TestFits, PiecesDiffer DEF ioOthers
<1> QED
  BY <1>2, <1>3, <1>4 DEF RaceInv

(* The limit: what is faulted has reached it.                              *)
LEMMA ZeitStep == RaceInv /\ UNCHANGED ioOthers /\ Zeit => RaceInv'
<1> SUFFICES ASSUME RaceInv, UNCHANGED ioOthers, Zeit PROVE RaceInv'
  OBVIOUS
<1>1. /\ ioCode = <<>> /\ ioPc = "zeit" /\ UNCHANGED <<shared, seitStart, gestoert>>
      /\ \/ ioPc' = "code" /\ ioCode' \in Enden
         \/ /\ ioPc' = "code" /\ ioCode' \in Stoerung
            /\ ~(refillRuntime < refillFaillTime)
         \/ ioPc' = "aus" /\ ioCode' = <<>>
  <2>1. ioCode = <<>> /\ ioPc = "zeit"
    BY DEF RaceInv, CodeInv, Zeit
  <2>2. CASE productionState # "sidle"
    BY <2>1, <2>2 DEF Zeit, Then, Enden
  <2>3. CASE productionState = "sidle" /\ sensorAqua /\ ~reached'
    BY <2>1, <2>3 DEF Zeit, Then, Enden
  <2>4. CASE productionState = "sidle" /\ sensorAqua /\ reached'
    BY <2>1, <2>4 DEF Zeit, Then, Stoerung, ReachedRefillTime
  <2>5. CASE productionState = "sidle" /\ ~sensorAqua /\ reached'
    BY <2>1, <2>5 DEF Zeit, Then, Stoerung, ReachedRefillTime
  <2>6. CASE productionState = "sidle" /\ ~sensorAqua /\ ~reached'
    BY <2>1, <2>6 DEF Zeit, Goto
  <2> QED
    BY <2>2, <2>3, <2>4, <2>5, <2>6
<1>2. reached' \in BOOLEAN
  BY DEF Zeit, ReachedRefillTime
<1>3. ~(refillRuntime < refillFaillTime) => refillRuntime >= refillFaillTime
  BY DEF RaceInv, TypeOK, Age, RaceAssumption
<1>4. TypeOK' /\ CodeInv'
  BY <1>1, <1>2, TestKeeps, PiecesDiffer
<1>5. RuheInv'
  BY <1>1 DEF RaceInv, RuheInv, ioOthers, wsVars, shared
<1>6. LaufzeitInv'
  BY <1>1, <1>3, TestFits, PiecesDiffer DEF ioOthers
<1> QED
  BY <1>4, <1>5, <1>6 DEF RaceInv

(* The first pass of a refill.                                             *)
LEMMA ErsterDurchlaufStep == RaceInv /\ UNCHANGED ioOthers /\ ErsterDurchlauf => RaceInv'
<1> SUFFICES ASSUME RaceInv, UNCHANGED ioOthers, ErsterDurchlauf PROVE RaceInv'
  OBVIOUS
<1>1. /\ ioCode = <<>> /\ ioPc = "aus" /\ UNCHANGED <<shared, seitStart, gestoert, reached>>
      /\ \/ ioPc' = "code" /\ ioCode' = Starten
         \/ ioPc' = "an" /\ ioCode' = <<>>
  BY DEF RaceInv, CodeInv, ErsterDurchlauf, Then, Goto, Starten
<1>2. TypeOK' /\ CodeInv'
  BY <1>1, TestKeeps, PiecesDiffer DEF RaceInv, TypeOK
<1>3. RuheInv'
  BY <1>1 DEF RaceInv, RuheInv, ioOthers, wsVars, shared
<1>4. LaufzeitInv'
  BY <1>1, TestFits, PiecesDiffer DEF ioOthers
<1> QED
  BY <1>2, <1>3, <1>4 DEF RaceInv

(* A later pass: only of a refill that is in progress.                     *)
LEMMA WiederholterDurchlaufStep ==
    RaceInv /\ UNCHANGED ioOthers /\ WiederholterDurchlauf => RaceInv'
<1> SUFFICES ASSUME RaceInv, UNCHANGED ioOthers, WiederholterDurchlauf PROVE RaceInv'
  OBVIOUS
<1>1. /\ ioCode = <<>> /\ ioPc = "an" /\ UNCHANGED <<shared, seitStart, gestoert, reached>>
      /\ \/ ioPc' = "code" /\ ioCode' = Messen /\ refillState = "refill_on"
         \/ ioPc' = "rest" /\ ioCode' = <<>>
  BY DEF RaceInv, CodeInv, WiederholterDurchlauf, Then, Goto, Messen
<1>2. TypeOK' /\ CodeInv'
  BY <1>1, TestKeeps, PiecesDiffer DEF RaceInv, TypeOK
<1>3. RuheInv'
  BY <1>1 DEF RaceInv, RuheInv, ioOthers, wsVars, shared
<1>4. LaufzeitInv'
  BY <1>1, TestFits, PiecesDiffer DEF ioOthers
<1> QED
  BY <1>2, <1>3, <1>4 DEF RaceInv

(* The branch that only two threads can reach.                             *)
LEMMA RestStep == RaceInv /\ UNCHANGED ioOthers /\ Rest => RaceInv'
<1> SUFFICES ASSUME RaceInv, UNCHANGED ioOthers, Rest PROVE RaceInv'
  OBVIOUS
<1>1. /\ ioCode = <<>> /\ ioPc = "rest" /\ UNCHANGED <<shared, seitStart, gestoert, reached>>
      /\ ioPc' = "code"
      /\ \/ ioCode' = Ausschalten
         \/ ioCode' \in Stoerung /\ refillState = "refill_error"
  BY DEF RaceInv, CodeInv, Rest, Then, Ausschalten, Stoerung
<1>2. TypeOK' /\ CodeInv'
  BY <1>1, TestKeeps, PiecesDiffer DEF RaceInv, TypeOK
<1>3. RuheInv'
  BY <1>1 DEF RaceInv, RuheInv, ioOthers, wsVars, shared
<1>4. LaufzeitInv'
  BY <1>1, TestFits, PiecesDiffer DEF ioOthers
<1> QED
  BY <1>2, <1>3, <1>4 DEF RaceInv

(* Where a piece and what is left of it stand in the invariant.            *)
LEMMA RestDiffers ==
    /\ ({<<>>, <<"pump:=true">>, <<"pump:=false">>, Gestartet, Weiter} \cup Beendet \cup Geloescht)
           \cap ({Messen} \cup Stoerung) = {}
    /\ ({<<>>, <<"pump:=true">>, <<"pump:=false">>} \cup Beendet \cup Geloescht)
           \cap {Gestartet, Weiter} = {}
    /\ Weiter # Gestartet
    /\ ({Starten, <<"pump:=true">>, <<"pump:=false">>} \cup Enden) \cap Geloescht = {}
    /\ <<"state:=off">> \in Geloescht
<1> USE DEF Einschalten, Ausschalten, Starten, Gestartet, Messen, Weiter, Enden,
            Beendet, Geloescht, Stoerung
<1>1. ({<<>>, <<"pump:=true">>, <<"pump:=false">>, Gestartet, Weiter} \cup Beendet \cup Geloescht)
          \cap {Messen} = {}
  OBVIOUS
<1>2. ({<<>>, <<"pump:=true">>, <<"pump:=false">>, Gestartet, Weiter} \cup Beendet \cup Geloescht)
          \cap Stoerung = {}
  OBVIOUS
<1>3. ({<<>>, <<"pump:=true">>, <<"pump:=false">>} \cup Beendet \cup Geloescht)
          \cap {Gestartet, Weiter} = {}
  OBVIOUS
<1>4. Weiter # Gestartet
  OBVIOUS
<1>5. ({Starten, <<"pump:=true">>, <<"pump:=false">>} \cup Enden) \cap Geloescht = {}
  OBVIOUS
<1>6. <<"state:=off">> \in Geloescht
  OBVIOUS
<1> HIDE DEF Einschalten, Ausschalten, Starten, Gestartet, Messen, Weiter, Enden,
             Beendet, Geloescht, Stoerung
<1> QED
  BY <1>1, <1>2, <1>3, <1>4, <1>5, <1>6

(* One statement of the IO thread, by the piece it is taken from.          *)
LEMMA IoCodeStep == RaceInv /\ UNCHANGED ioOthers /\ IoCode => RaceInv'
<1> SUFFICES ASSUME RaceInv, UNCHANGED ioOthers, IoCode PROVE RaceInv'
  OBVIOUS
<1> DEFINE s == Head(ioCode)
<1>1. /\ ioPc = "code" /\ ioCode # <<>> /\ ioCode \in IoCodes
      /\ Execute(s) /\ ioCode' = Tail(ioCode) /\ UNCHANGED reached
      /\ ioPc' = IF Tail(ioCode) = <<>> THEN "sleep" ELSE "code"
  BY DEF RaceInv, CodeInv, IoCode
<1>2. s \in Statements /\ ioCode' \in IoCodes /\ ioCode' \in Seq(Statements)
  BY <1>1, PiecesTyped
<1>3. TypeOK'
  <2>1. /\ osmoseRefillActiv' \in BOOLEAN /\ pump' \in BOOLEAN
        /\ refillState' \in {"refill_off", "refill_on", "refill_error", "refill_manual"}
        /\ refillRuntime' \in Age /\ refillAge' \in Age /\ seitStart' \in Age
        /\ gestoert' \in BOOLEAN
    BY <1>1, <1>2, ExecuteTyped DEF RaceInv
  <2> QED
    BY <1>1, <1>2, <2>1 DEF RaceInv, TypeOK, ioOthers, wsVars
<1>4. CodeInv'
  BY <1>1, <1>2 DEF RaceInv, CodeInv, ioOthers, wsVars
<1>5. RuheInv'
  <2> SUFFICES ASSUME idlePassSeitAus' PROVE RuheInv'
    BY DEF RuheInv
  <2>1. /\ wsCmd' = "keins" /\ ~osmoseRefillActiv /\ UNCHANGED <<wsCmd, idlePassSeitAus>>
        /\ \/ ioCode \in {Einschalten, Ausschalten, <<"pump:=false">>}
           \/ ioCode = <<"pump:=true">> /\ refillState = "refill_manual"
    BY <1>1 DEF RaceInv, RuheInv, ioOthers, wsVars
  <2>2. CASE ioCode = Einschalten
    <3>1. s = "state:=manual" /\ ioCode' = <<"pump:=true">> /\ ioPc' = "code"
      BY <1>1, <2>2 DEF Einschalten
    <3> QED
      BY <1>1, <2>1, <3>1 DEF RuheInv, Execute
  <2>3. CASE ioCode = Ausschalten
    <3>1. s = "state:=off" /\ ioCode' = <<"pump:=false">> /\ ioPc' = "code"
      BY <1>1, <2>3 DEF Ausschalten
    <3> QED
      BY <1>1, <2>1, <3>1 DEF RuheInv, Execute
  <2>4. CASE ioCode = <<"pump:=false">>
    <3>1. s = "pump:=false" /\ ioPc' = "sleep"
      BY <1>1, <2>4
    <3> QED
      BY <1>1, <2>1, <3>1 DEF RuheInv, Execute
  <2>5. CASE ioCode = <<"pump:=true">> /\ refillState = "refill_manual"
    <3>1. s = "pump:=true" /\ ioPc' = "sleep"
      BY <1>1, <2>5
    <3> QED
      BY <1>1, <2>1, <2>5, <3>1 DEF RuheInv, Execute
  <2> QED
    BY <2>1, <2>2, <2>3, <2>4, <2>5
<1>6. LaufzeitInv'
  <2>1. /\ ioCode = Gestartet => refillRuntime \in {0, 1}
        /\ ~gestoert => wsCmd = "keins"
        /\ ~gestoert /\ refillFaillTime # 1 =>
            /\ refillRuntime >= refillFaillTime => seitStart >= refillFaillTime
            /\ refillState = "refill_on" => refillAge = seitStart \/ ioCode \in Geloescht
            /\ ioCode \in {Messen, Weiter} => refillAge = seitStart
    BY <1>1 DEF RaceInv, LaufzeitInv, CodeInv
  <2>2. UNCHANGED wsCmd
    BY DEF ioOthers, wsVars
  <2>3. /\ refillRuntime' \in {0, 1} /\ refillFaillTime # 1 /\ refillRuntime' >= refillFaillTime
               => seitStart' >= refillFaillTime
        /\ refillFaillTime \in Nat
    <3>1. refillFaillTime \in Nat /\ seitStart' \in Nat
      BY <1>3 DEF RaceAssumption, TypeOK, Age
    <3> QED
      BY <3>1
  <2> HIDE DEF s
  <2> USE DEF LaufzeitInv
  <2>4. CASE ioCode = Gestartet /\ s = "start:=now" /\ ioCode' = Weiter
    <3>1. refillRuntime' \in {0, 1}
      BY <1>1, <2>1, <2>4 DEF Execute, Runtime
    <3>2. refillAge' = seitStart' /\ (gestoert' = (wsCmd # "keins"))
      BY <1>1, <2>4 DEF Execute
    <3> QED
      BY <2>1, <2>2, <2>3, <2>4, <3>1, <3>2, RestDiffers
  <2>5. CASE ioCode = Starten /\ s = "runtime:=1" /\ ioCode' = Gestartet
    <3>1. /\ refillRuntime' = 1
          /\ UNCHANGED <<refillAge, seitStart, gestoert, refillState>>
      BY <1>1, <2>5 DEF Execute, Runtime
    <3> QED
      BY <2>1, <2>2, <2>3, <2>5, <3>1, RestDiffers
  <2>6. CASE ioCode = Messen /\ s = "runtime:=now-start" /\ ioCode' = Weiter
    BY <1>1, <2>1, <2>2, <2>6, RestDiffers DEF Execute, Runtime
  <2>7. CASE ioCode = Weiter /\ s = "state:=on" /\ ioCode' = <<"pump:=true">>
    BY <1>1, <2>1, <2>2, <2>7, RestDiffers DEF Execute, Runtime
  <2>8. CASE ioCode \in Enden /\ s = "runtime:=0" /\ ioCode' \in Beendet
    <3>1. /\ refillRuntime' = 0
          /\ UNCHANGED <<refillAge, seitStart, gestoert, refillState>>
      BY <1>1, <2>8 DEF Execute, Runtime
    <3> QED
      BY <2>1, <2>2, <2>3, <2>8, <3>1, RestDiffers
  <2>9. CASE ioCode \in Beendet /\ s = "start:=0" /\ ioCode' \in Geloescht
    BY <1>1, <2>1, <2>2, <2>9, RestDiffers DEF Execute, Runtime
  <2>10. CASE s \in {"state:=manual", "state:=off", "state:=error"}
              /\ ioCode' \in {<<>>, <<"pump:=true">>, <<"pump:=false">>}
    BY <1>1, <2>1, <2>2, <2>10, RestDiffers DEF Execute, Runtime
  <2>11. CASE /\ ioCode \in {<<"pump:=true">>, <<"pump:=false">>}
              /\ s \in {"pump:=true", "pump:=false"} /\ ioCode' = <<>>
    BY <1>1, <2>1, <2>2, <2>11, RestDiffers DEF Execute, Runtime
  <2>12. CASE s = "pump:=false" /\ ioCode' = <<"state:=off">>
    BY <1>1, <2>1, <2>2, <2>12, RestDiffers DEF Execute, Runtime
  <2> QED
    BY <1>1, <2>4, <2>5, <2>6, <2>7, <2>8, <2>9, <2>10, <2>11, <2>12, Pieces DEF s
<1> QED
  BY <1>3, <1>4, <1>5, <1>6 DEF RaceInv

-----------------------------------------------------------------------------
(* It holds at the start.                                                  *)
LEMMA RaceInit == Init => RaceInv
<1> SUFFICES ASSUME Init PROVE RaceInv
  OBVIOUS
<1> USE DEF Init
<1>1. <<>> \in IoCodes /\ <<>> \notin {Gestartet, Messen, Weiter} \cup Stoerung
  BY PiecesDiffer
<1>2. TypeOK
  <2>1. 0 \in Age /\ Horizon \in Age
    BY DEF Age, RaceAssumption
  <2>2. <<>> \in Seq(Statements)
    OBVIOUS
  <2> QED
    BY <2>1, <2>2 DEF TypeOK
<1>3. CodeInv
  BY <1>1 DEF CodeInv, WsCodes
<1>4. RuheInv
  BY DEF RuheInv
<1>5. LaufzeitInv
  BY <1>1 DEF LaufzeitInv, RaceAssumption
<1> QED
  BY <1>2, <1>3, <1>4, <1>5 DEF RaceInv

(* Every step of either thread keeps it.                                   *)
LEMMA RaceStep == RaceInv /\ [Next]_vars => RaceInv'
<1> SUFFICES ASSUME RaceInv, [Next]_vars PROVE RaceInv'
  OBVIOUS
<1>1. CASE OsmosePass
  BY <1>1, OsmosePassStep
<1>2. CASE UNCHANGED ioOthers /\ Schalter
  BY <1>2, SchalterStep
<1>3. CASE UNCHANGED ioOthers /\ Activ
  BY <1>3, ActivStep
<1>4. CASE UNCHANGED ioOthers /\ Zeit
  BY <1>4, ZeitStep
<1>5. CASE UNCHANGED ioOthers /\ ErsterDurchlauf
  BY <1>5, ErsterDurchlaufStep
<1>6. CASE UNCHANGED ioOthers /\ WiederholterDurchlauf
  BY <1>6, WiederholterDurchlaufStep
<1>7. CASE UNCHANGED ioOthers /\ Rest
  BY <1>7, RestStep
<1>8. CASE UNCHANGED ioOthers /\ IoCode
  BY <1>8, IoCodeStep
<1>9. CASE UNCHANGED ioOthers /\ Sleep
  BY <1>9, SleepStep
<1>10. CASE Ws
  BY <1>10, ReceiveStep, WsCodeStep, DoneStep DEF Ws
<1>11. CASE UNCHANGED vars
  BY <1>11, StutterStep
<1> QED
  BY <1>1, <1>2, <1>3, <1>4, <1>5, <1>6, <1>7, <1>8, <1>9, <1>10, <1>11
     DEF Next, Io, ioOthers

(* Whatever the two threads do between each other's statements: the pieces *)
(* left to execute, the rest after an idle pass and the runtime of a       *)
(* refill no command has overlapped stay consistent.                       *)
THEOREM RaceInvariant == Spec => []RaceInv
<1>1. Init => RaceInv
  BY RaceInit
<1>2. RaceInv /\ [Next]_vars => RaceInv'
  BY RaceStep
<1> QED
  BY <1>1, <1>2, PTL DEF Spec

(* Whatever two threads write over each other, every shared field stays in *)
(* its range and each thread has only statements of the program left.      *)
THEOREM RaceTypeCorrect == Spec => []TypeOK
<1>1. RaceInv => TypeOK
  BY DEF RaceInv
<1> QED
  BY <1>1, RaceInvariant, PTL

(* A refillOff that a running pass has undone lasts until the next pass of *)
(* an idle plant: after it the pump runs only under the refill switch.     *)
THEOREM IdlePassStopsPump == Spec => []PumpOffAfterIdlePass
<1>1. RaceInv => PumpOffAfterIdlePass
  BY DEF RaceInv, RuheInv, PumpOffAfterIdlePass
<1> QED
  BY <1>1, RaceInvariant, PTL

(* "REFILL HAT LAUFZEIT UEBERSCHRITTEN" is true of a refill whose calls of *)
(* stateMachineRefill no command has overlapped, whatever commands ran     *)
(* between them.  Not so with a limit of 1, which the value that marks the *)
(* first pass has reached.                                                 *)
THEOREM FaultIsTimeout == refillFaillTime # 1 => (Spec => ErrorMeansTimeout)
<1> SUFFICES ASSUME refillFaillTime # 1 PROVE Spec => ErrorMeansTimeout
  OBVIOUS
<1>1. ASSUME RaceInv, [Next]_vars, refillState # "refill_error", refillState' = "refill_error"
      PROVE  seitStart >= refillFaillTime \/ gestoert
  <2>1. UNCHANGED refillState \/ IoCode \/ WsCode
    BY <1>1 DEF Next, Io, Ws, OsmosePass, Schalter, Activ, Zeit, ErsterDurchlauf,
                WiederholterDurchlauf, Rest, Then, Goto, Sleep, Receive, Done, shared, vars
  <2>2. CASE IoCode
    <3>1. Head(ioCode) = "state:=error" /\ ioCode # <<>> /\ ioCode \in IoCodes
      BY <1>1, <2>2 DEF IoCode, Execute, RaceInv, CodeInv
    <3>2. ioCode \in Stoerung
      BY <3>1, Pieces
    <3> QED
      BY <1>1, <3>2 DEF RaceInv, LaufzeitInv
  <2>3. CASE WsCode
    <3>1. Head(wsCode) \in WsStatements
      <4>1. wsCode \in WsCodes /\ wsCode # <<>>
        BY <1>1, <2>3 DEF RaceInv, CodeInv, WsCode
      <4> QED
        BY <4>1, WsTyped, Zenon
    <3>2. refillState' \in {"refill_off", refillState}
      BY <1>1, <2>3, <3>1, WsExecutes DEF RaceInv, WsCode
    <3> QED
      BY <1>1, <3>2
  <2> QED
    BY <1>1, <2>1, <2>2, <2>3
<1>2. RaceInv /\ [Next]_vars
          => [refillState # "refill_error" /\ refillState' = "refill_error"
                  => seitStart >= refillFaillTime \/ gestoert]_vars
  BY <1>1
<1> QED
  BY <1>2, RaceInvariant, PTL DEF Spec, ErrorMeansTimeout

=============================================================================
