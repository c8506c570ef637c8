----------------------------- MODULE RefillRace -----------------------------
(***************************************************************************)
(* stateMachineRefill on the IO thread against refillOn, refillOff and     *)
(* reset on the WebSocket thread.  The two threads share the fields of the *)
(* OsmoseAnlage object and the pump's pin without any lock, so here a step *)
(* is one statement: a test that reads one shared field, or one            *)
(* assignment.  Each thread carries the assignments it still has to        *)
(* execute as a sequence.  The plant is in modus_automatik; the mail flag, *)
(* the vents and the messages are in module Refill and left out here.      *)
(***************************************************************************)
EXTENDS Integers, Sequences

CONSTANTS
    refillFaillTime,
    Kommandos,        \* the commands the clients send
    OsmoseSchalter,   \* TRUE: somebody uses the production switch
    RefillSchalter,   \* TRUE: somebody uses the refill switch
    MaxStep, Horizon  \* as in AnlageState

ASSUME RaceAssumption ==
    /\ refillFaillTime \in 0 .. Horizon
    /\ Kommandos \subseteq {"refillOn", "refillOff", "reset"}
    /\ OsmoseSchalter \in BOOLEAN /\ RefillSchalter \in BOOLEAN
    /\ MaxStep \in Nat \ {0}
    /\ Horizon \in Nat \ {0}

VARIABLES
    ioPc, ioCode,     \* the IO thread: next test, assignments pending
    reached,          \* reachedRefillTime, local to the call
    sensorAqua, productionState,   \* written by the IO thread only
    wsCmd, wsCode,    \* the WebSocket thread: command, assignments pending
    osmoseRefillActiv, refillState, refillRuntime, refillAge, pump,
    seitStart,        \* history: seconds since the last refill was started
    gestoert,         \* history: a command and a call of
                      \*   stateMachineRefill overlapped since then
    passSeitAus,      \* history: refill is off, no command is running, and
    idlePassSeitAus   \*   a pass (a pass in sidle) has begun since the last

ioVars == <<ioPc, ioCode, reached, sensorAqua, productionState>>
wsVars == <<wsCmd, wsCode>>
shared == <<osmoseRefillActiv, refillState, refillRuntime, refillAge, pump>>
history == <<seitStart, gestoert, passSeitAus, idlePassSeitAus>>
vars == <<ioVars, wsVars, shared, history>>

Age == 0 .. Horizon
Later(age, d) == IF age + d > Horizon THEN Horizon ELSE age + d

Statements == {"activ:=true", "activ:=false", "pump:=true", "pump:=false",
               "runtime:=0", "runtime:=1", "runtime:=now-start",
               "start:=0", "start:=now",
               "state:=off", "state:=on", "state:=error", "state:=manual"}

TypeOK ==
    /\ ioPc \in {"osmose", "schalter", "activ", "zeit", "aus", "an", "rest",
                 "code", "sleep"}
    /\ ioCode \in Seq(Statements) /\ wsCode \in Seq(Statements)
    /\ reached \in BOOLEAN /\ sensorAqua \in BOOLEAN
    /\ productionState \in {"sidle", "smanual"}
    /\ wsCmd \in Kommandos \cup {"keins"}
    /\ osmoseRefillActiv \in BOOLEAN /\ pump \in BOOLEAN
    /\ refillState \in {"refill_off", "refill_on", "refill_error", "refill_manual"}
    /\ refillRuntime \in Age /\ refillAge \in Age /\ seitStart \in Age
    /\ gestoert \in BOOLEAN /\ passSeitAus \in BOOLEAN /\ idlePassSeitAus \in BOOLEAN

Init ==
    /\ ioPc = "osmose" /\ ioCode = <<>> /\ reached = TRUE
    /\ sensorAqua = FALSE /\ productionState = "sidle"
    /\ wsCmd = "keins" /\ wsCode = <<>>
    /\ osmoseRefillActiv = TRUE /\ refillState = "refill_off"
    /\ refillRuntime = 0 /\ refillAge = Horizon /\ pump = FALSE
    /\ seitStart = Horizon /\ gestoert = FALSE /\ passSeitAus = FALSE /\ idlePassSeitAus = FALSE

-----------------------------------------------------------------------------
(* One assignment to a shared field or to the pin.                         *)
Runtime(s) ==
    CASE s = "runtime:=0" -> 0
      [] s = "runtime:=1" -> 1
      [] s = "runtime:=now-start" -> refillAge
      [] OTHER -> refillRuntime

Execute(s) ==
    /\ osmoseRefillActiv' = CASE s = "activ:=true"  -> TRUE
                              [] s = "activ:=false" -> FALSE
                              [] OTHER -> osmoseRefillActiv
    /\ pump' = CASE s = "pump:=true"  -> TRUE
                 [] s = "pump:=false" -> FALSE
                 [] OTHER -> pump
    /\ refillRuntime' = Runtime(s)
    /\ refillAge' = CASE s = "start:=0"   -> Horizon
                      [] s = "start:=now" -> 0
                      [] OTHER -> refillAge
    /\ refillState' = CASE s = "state:=off"    -> "refill_off"
                        [] s = "state:=on"     -> "refill_on"
                        [] s = "state:=error"  -> "refill_error"
                        [] s = "state:=manual" -> "refill_manual"
                        [] OTHER -> refillState
    /\ seitStart' = IF s = "start:=now" THEN 0 ELSE seitStart
    /\ gestoert' = IF s = "start:=now" THEN wsCmd # "keins" ELSE gestoert

-----------------------------------------------------------------------------
(* The IO thread.                                                          *)

Goto(pc) ==
    /\ ioPc' = pc
    /\ UNCHANGED <<ioCode, shared, seitStart, gestoert>>

Then(code) ==
    /\ ioPc' = "code" /\ ioCode' = code
    /\ UNCHANGED <<shared, seitStart, gestoert>>

\* Fault: an idle plant does not touch the pump.
OsmoseIdlePumpt == productionState = "sidle" /\ UNCHANGED <<productionState, pump>>
OsmoseIdle ==
    /\ productionState = "sidle" /\ UNCHANGED productionState
    /\ pump' = FALSE

(* CheckSensoren and stateMachineOsmose of an idle plant: only the switch  *)
(* keeps the latter from driving the pump's pin low.                       *)
OsmosePass ==
    /\ ioPc = "osmose" /\ ioPc' = "schalter"
    /\ sensorAqua' \in BOOLEAN
    /\ \/ /\ OsmoseSchalter
          /\ productionState' = "smanual" /\ UNCHANGED pump
       \/ /\ productionState = "smanual"
          /\ productionState' = "sidle" /\ UNCHANGED pump
       \/ OsmoseIdle
    /\ gestoert' = (gestoert \/ wsCmd # "keins")
    /\ LET quiet == wsCmd = "keins" /\ ~osmoseRefillActiv
       IN /\ passSeitAus' = quiet
          /\ idlePassSeitAus' =
                 (quiet /\ (idlePassSeitAus \/ {productionState, productionState'} = {"sidle"}))
    /\ UNCHANGED <<ioCode, reached, wsVars, osmoseRefillActiv, refillState,
                   refillRuntime, refillAge, seitStart>>

(* The refill switch may read either way, if somebody uses it.             *)
Schalter ==
    /\ ioPc = "schalter"
    /\ \/ RefillSchalter /\ Then(<<"state:=manual", "pump:=true">>)
       \/ refillState = "refill_manual" /\ Then(<<"state:=off", "pump:=false">>)
       \/ refillState # "refill_manual" /\ Goto("activ")
    /\ UNCHANGED reached

Activ ==
    /\ ioPc = "activ"
    /\ Goto(IF osmoseRefillActiv THEN "zeit" ELSE "sleep")
    /\ UNCHANGED reached

ReachedRefillTime == ~(refillRuntime < refillFaillTime)

(* reachedRefillTime is computed once; the branches that do not look at    *)
(* the shared state again follow at once.                                  *)
Zeit ==
    /\ ioPc = "zeit"
    /\ reached' = ReachedRefillTime
    /\ CASE productionState # "sidle" ->
                Then(<<"runtime:=0", "start:=0", "state:=off", "pump:=false">>)
         [] productionState = "sidle" /\ sensorAqua /\ ~reached' ->
                Then(<<"runtime:=0", "start:=0", "pump:=false", "state:=off">>)
         [] productionState = "sidle" /\ sensorAqua /\ reached' ->
                Then(<<"state:=error">>)
         [] productionState = "sidle" /\ ~sensorAqua /\ reached' ->
                Then(<<"state:=error", "pump:=false">>)
         [] productionState = "sidle" /\ ~sensorAqua /\ ~reached' -> Goto("aus")

ErsterDurchlauf ==
    /\ ioPc = "aus"
    /\ IF refillState = "refill_off"
       THEN Then(<<"runtime:=1", "start:=now", "state:=on", "pump:=true">>)
       ELSE Goto("an")
    /\ UNCHANGED reached

WiederholterDurchlauf ==
    /\ ioPc = "an"
    /\ IF refillState = "refill_on"
       THEN Then(<<"runtime:=now-start", "state:=on", "pump:=true">>)
       ELSE Goto("rest")
    /\ UNCHANGED reached

(* "REFILL UNKNOWN ERROR": dead code in one thread, reached in two.        *)
Rest ==
    /\ ioPc = "rest"
    /\ IF refillState # "refill_error"
       THEN Then(<<"state:=off", "pump:=false">>)
       ELSE Then(<<"state:=error">>)
    /\ UNCHANGED reached

IoCode ==
    /\ ioPc = "code" /\ ioCode # <<>>
    /\ Execute(Head(ioCode))
    /\ ioCode' = Tail(ioCode)
    /\ ioPc' = IF Tail(ioCode) = <<>> THEN "sleep" ELSE "code"
    /\ UNCHANGED reached

Sleep ==
    /\ ioPc = "sleep" /\ ioPc' = "osmose"
    /\ \E d \in 0 .. MaxStep :
           /\ refillAge' = Later(refillAge, d)
           /\ seitStart' = Later(seitStart, d)
    /\ UNCHANGED <<ioCode, reached, osmoseRefillActiv, refillState,
                   refillRuntime, pump, gestoert>>

Io ==
    \/ OsmosePass
    \/ /\ Schalter \/ Activ \/ Zeit \/ ErsterDurchlauf \/ WiederholterDurchlauf
          \/ Rest \/ IoCode \/ Sleep
       /\ UNCHANGED <<sensorAqua, productionState, wsVars, passSeitAus,
                      idlePassSeitAus>>

-----------------------------------------------------------------------------
(* The WebSocket thread.                                                   *)

\* Fault: the state is left as it is.
resetRefillProductionTimers == <<"runtime:=0", "start:=0">>
resetRefillProduction == <<"runtime:=0", "start:=0", "state:=off">>

Code(k) ==
    CASE k = "refillOn"  -> <<"activ:=true", "pump:=false">> \o resetRefillProduction
      [] k = "refillOff" -> <<"activ:=false", "pump:=false">> \o resetRefillProduction
      [] k = "reset" -> IF refillState = "refill_error" THEN resetRefillProduction
                                                        ELSE <<>>

Receive ==
    /\ wsCmd = "keins"
    /\ wsCmd' \in Kommandos
    /\ wsCode' = Code(wsCmd')
    /\ gestoert' = (gestoert \/ ioPc \notin {"osmose", "sleep"})
    /\ passSeitAus' = FALSE /\ idlePassSeitAus' = FALSE
    /\ UNCHANGED <<ioVars, shared, seitStart>>

WsCode ==
    /\ wsCode # <<>>
    /\ Execute(Head(wsCode))
    /\ wsCode' = Tail(wsCode)
    /\ UNCHANGED <<wsCmd, ioVars, passSeitAus, idlePassSeitAus>>

Done ==
    /\ wsCmd # "keins" /\ wsCode = <<>>
    /\ wsCmd' = "keins"
    /\ UNCHANGED <<wsCode, ioVars, shared, history>>

Ws == Receive \/ WsCode \/ Done

Next == Io \/ Ws

Spec == Init /\ [][Next]_vars

-----------------------------------------------------------------------------
(* Properties.                                                             *)

(* A refillOff that collides with a running pass may be undone by it: the  *)
(* pass switches the pump on again.  The next pass of an idle plant ends   *)
(* that: stateMachineOsmose drives the pin low before it is tested whether *)
(* refilling is active.                                                    *)
PumpOffAfterIdlePass ==
    idlePassSeitAus /\ ioPc = "sleep" /\ pump => refillState = "refill_manual"

(* OsmoseAnlage.cpp, at the branch that sets refill_error: "REFILL HAT     *)
(* LAUFZEIT UEBERSCHRITTEN".  No refill is faulted before refillFaillTime  *)
(* has passed since it was started, whatever commands clear its start and  *)
(* its runtime between two calls of stateMachineRefill.  Only a command    *)
(* that overlaps with a call may do that: one that clears refillStartTime  *)
(* before line 252 subtracts it makes the runtime the time since 1970.     *)
ErrorMeansTimeout ==
    [][refillState # "refill_error" /\ refillState' = "refill_error"
           => seitStart >= refillFaillTime \/ gestoert]_vars

-----------------------------------------------------------------------------
(* What a comment says, where the two threads do something else.           *)

(* OsmoseLinux.cpp, at refillOff: the pump is always switched off because  *)
(* else "es zum endlos fuellen kommt".  A whole pass after the command the *)
(* pump is off unless somebody holds the refill switch.                    *)
RefillOffStopsPump ==
    passSeitAus /\ ioPc = "sleep" /\ pump => refillState = "refill_manual"

=============================================================================
