--------------------- MODULE ReconnectingWebSocketProofs ---------------------
(***************************************************************************)
(* Theorems about ReconnectingWebSocket, for any number of sockets with a  *)
(* pending timer and any delay: there is one connection or one attempt,    *)
(* no stray timeout touches it, and the page sees of it what Verbindung    *)
(* specifies.                                                              *)
(***************************************************************************)
EXTENDS ReconnectingWebSocket, FiniteSetTheorems, TLAPS

(* Only the current socket is in use; without one a reconnect timer is     *)
(* pending, unless the page has called close().                            *)
AktuellInv ==
    /\ \A i \in Sockets : sock[i] # "frei" => ws = i
    /\ ws # Null => sock[ws] # "frei" /\ wiederTimer = 0
    /\ ws = Null => wiederTimer = 1 \/ (forcedClose /\ wiederTimer = 0)

(* An open socket has had its timeout cleared.                             *)
OffenInv ==
    /\ \A i \in Sockets : sock[i] = "open" => ~connTimer[i]
    /\ readyState = "OPEN" => ws # Null /\ reconnectAttempts = 0

(* A page that tries again shows that it has lost its connection.          *)
AnzeigeInv ==
    /\ ws = Null => anzeige = "Disconnect"
    /\ ws # Null /\ reconnectAttempt[ws] => anzeige = "Disconnect"

SocketInv == SocketTypeOK /\ AktuellInv /\ OffenInv /\ AnzeigeInv

-----------------------------------------------------------------------------
(* The socket of a new object is the only one, with its timeout pending.   *)
LEMMA NeuesObjekt ==
    ASSUME NEW i \in Sockets
    PROVE  /\ NurEiner(i) \in [Sockets -> {"frei", "connecting", "open", "closing", "closed"}]
           /\ \A j \in Sockets : NurEiner(i)[j] = IF j = i THEN "connecting" ELSE "frei"
           /\ [s \in Sockets |-> s = i] \in [Sockets -> BOOLEAN]
<1>1. \A s \in Sockets : (s = i) \in BOOLEAN
    OBVIOUS
<1>2. [s \in Sockets |-> s = i] \in [Sockets -> BOOLEAN]
    BY <1>1, Zenon
<1> QED BY <1>2 DEF NurEiner

LEMMA SocketStart == SocketInit => SocketInv
<1> SUFFICES ASSUME SocketInit PROVE SocketInv
    OBVIOUS
<1>1. PICK i \in Sockets :
          sock = NurEiner(i) /\ connTimer = [s \in Sockets |-> s = i] /\ ws = i
    BY DEF SocketInit
<1>2. ws \in Sockets /\ ws # Null /\ Plateau \in Nat
    BY <1>1, SocketAssumption DEF Null
<1>3. SocketTypeOK
    <2>1. connTimer \in [Sockets -> BOOLEAN]
        BY <1>1, NeuesObjekt, Zenon
    <2>2. sock \in [Sockets -> {"frei", "connecting", "open", "closing", "closed"}]
        BY <1>1, NeuesObjekt
    <2>3. reconnectAttempt = [s \in Sockets |-> FALSE]
        BY DEF SocketInit
    <2>4. reconnectAttempt \in [Sockets -> BOOLEAN]
        BY <2>3
    <2>5. /\ readyState = "CONNECTING" /\ reconnectAttempts = 0
          /\ forcedClose = FALSE /\ wiederTimer = 0 /\ anzeige = "leer"
          /\ erreichbar \in BOOLEAN
        BY DEF SocketInit
    <2>6. ws \in Sockets \cup {Null}
        BY <1>2
    <2>7. reconnectAttempts \in 0 .. Plateau /\ wiederTimer \in Nat
        BY <1>2, <2>5
    <2>8. forcedClose \in BOOLEAN /\ erreichbar \in BOOLEAN
        BY <2>5
    <2> QED BY <1>2, <2>1, <2>2, <2>4, <2>5, <2>6, <2>7, <2>8 DEF SocketTypeOK
<1>4. AktuellInv /\ OffenInv /\ AnzeigeInv
    BY <1>1, <1>2 DEF AktuellInv, OffenInv, AnzeigeInv, SocketInit, NurEiner
<1> QED BY <1>3, <1>4 DEF SocketInv

LEMMA SocketStep == SocketInv /\ [SocketNext]_socketVars => SocketInv'
<1> SUFFICES ASSUME SocketInv, [SocketNext]_socketVars PROVE SocketInv'
    OBVIOUS
<1> USE DEF SocketInv, SocketTypeOK, AktuellInv, OffenInv, AnzeigeInv
<1>0. Plateau \in Nat /\ 0 \notin Sockets
    BY SocketAssumption
<1>1. CASE Reconnect
    <2>1. PICK i \in Sockets :
              /\ sock[i] = "frei" /\ ~connTimer[i]
              /\ sock' = [sock EXCEPT ![i] = "connecting"]
              /\ connTimer' = [connTimer EXCEPT ![i] = TRUE]
              /\ reconnectAttempt' = [reconnectAttempt EXCEPT ![i] = TRUE]
              /\ ws' = i
        BY <1>1 DEF Reconnect
    <2>2. /\ wiederTimer > 0 /\ wiederTimer' = wiederTimer - 1
          /\ reconnectAttempts' \in 0 .. Plateau
          /\ UNCHANGED <<readyState, forcedClose, anzeige, erreichbar>>
        BY <1>0, <1>1 DEF Reconnect
    <2>3. ws = Null /\ wiederTimer = 1 /\ \A j \in Sockets : sock[j] = "frei"
        BY <1>0, <2>2 DEF Null
    <2> QED BY <1>0, <2>1, <2>2, <2>3 DEF Null
<1>2. ASSUME NEW i \in Sockets, OnOpen(i) PROVE SocketInv'
    BY <1>0, <1>2 DEF OnOpen, Null
<1>3. ASSUME NEW i \in Sockets, OnClose(i) PROVE SocketInv'
    <2>1. ws = i /\ wiederTimer = 0
        BY <1>0, <1>3 DEF OnClose, Null
    <2>2. /\ sock' = [sock EXCEPT ![i] = "frei"] /\ ws' = Null
          /\ anzeige' = IF forcedClose \/ ~reconnectAttempt[i] THEN "Disconnect" ELSE anzeige
          /\ IF forcedClose
             THEN readyState' = "CLOSED" /\ wiederTimer' = 0
             ELSE readyState' = "CONNECTING" /\ wiederTimer' = 1
          /\ UNCHANGED <<connTimer, reconnectAttempt, reconnectAttempts, forcedClose, erreichbar>>
        BY <1>3, <2>1 DEF OnClose
    <2>3. anzeige' = "Disconnect"
        BY <1>0, <2>1, <2>2 DEF Null
    <2> QED BY <1>0, <2>1, <2>2, <2>3 DEF Null
<1>4. ASSUME NEW i \in Sockets, Timeout(i) PROVE SocketInv'
    BY <1>0, <1>4 DEF Timeout, Closing, klasse
<1>5. ASSUME NEW i \in Sockets, Fail(i) \/ Closed(i) PROVE SocketInv'
    BY <1>0, <1>5 DEF Fail, Closed, klasse
<1>6. CASE Close \/ Refresh
    BY <1>0, <1>6 DEF Close, Refresh, Closing, klasse, Null
<1>7. CASE ReloadPage
    <2>1. PICK i \in Sockets :
              sock' = NurEiner(i) /\ connTimer' = [s \in Sockets |-> s = i] /\ ws' = i
        BY <1>7 DEF ReloadPage
    <2>2. /\ reconnectAttempt' = [s \in Sockets |-> FALSE]
          /\ readyState' = "CONNECTING" /\ reconnectAttempts' = 0
          /\ forcedClose' = FALSE /\ wiederTimer' = 0 /\ anzeige' = "leer"
          /\ UNCHANGED erreichbar
        BY <1>7 DEF ReloadPage
    <2>3. /\ ws' # Null /\ sock'[i] = "connecting"
          /\ \A j \in Sockets : j # i => sock'[j] = "frei"
          /\ \A j \in Sockets : sock'[j] \in {"connecting", "frei"}
        BY <1>0, <2>1, NeuesObjekt DEF Null
    <2>4. SocketTypeOK'
        <3>1. connTimer' \in [Sockets -> BOOLEAN]
            BY <2>1, NeuesObjekt, Zenon
        <3>2. sock' \in [Sockets -> {"frei", "connecting", "open", "closing", "closed"}]
            BY <2>1, NeuesObjekt
        <3>3. reconnectAttempt' \in [Sockets -> BOOLEAN]
            BY <2>2
        <3>4. ws' \in Sockets \cup {Null}
            BY <2>1
        <3>5. reconnectAttempts' \in 0 .. Plateau /\ wiederTimer' \in Nat
            BY <1>0, <2>2
        <3>6. forcedClose' \in BOOLEAN
            BY <2>2
        <3>7. erreichbar' \in BOOLEAN
            BY <2>2
        <3> QED BY <2>2, <3>1, <3>2, <3>3, <3>4, <3>5, <3>6, <3>7
    <2> QED BY <1>0, <2>1, <2>2, <2>3, <2>4
<1>8. CASE Netz
    BY <1>8 DEF Netz, sockets, klasse
<1>9. CASE UNCHANGED socketVars
    BY <1>9 DEF socketVars, sockets, klasse
<1> QED BY <1>1, <1>2, <1>3, <1>4, <1>5, <1>6, <1>7, <1>8, <1>9 DEF SocketNext

(* The inductive invariant holds through every outage, reload and close(). *)
THEOREM SocketInvariant == SocketSpec => []SocketInv
BY SocketStart, SocketStep, PTL DEF SocketSpec

(* The class and its sockets keep to their states and ranges; an open      *)
(* class has a socket.                                                     *)
THEOREM SocketTypeCorrect == SocketSpec => []SocketTypeOK
<1>1. SocketInv => SocketTypeOK
    BY DEF SocketInv
<1> QED BY <1>1, SocketInvariant, PTL

-----------------------------------------------------------------------------
(* There is never a second connection, and never neither a connection nor  *)
(* an attempt, unless the page has called close().                         *)
THEOREM OnlyOneConnection == SocketSpec => []OneConnection
<1>1. SocketInv => OneConnection
    <2> SUFFICES ASSUME SocketInv PROVE OneConnection
        OBVIOUS
    <2>1. /\ \A i \in InUse : ws = i
          /\ ws # Null => ws \in InUse
        BY DEF SocketInv, SocketTypeOK, AktuellInv, InUse
    <2>2. CASE ws = Null
        <3>1. InUse = {}
            BY <2>1, <2>2, SocketAssumption DEF InUse, Null
        <3>2. Cardinality(InUse) = 0
            BY <3>1, FS_EmptySet
        <3> QED BY <2>1, <2>2, <3>2 DEF OneConnection, SocketInv, AktuellInv
    <2>3. CASE ws # Null
        <3>1. InUse = {ws}
            BY <2>1, <2>3
        <3>2. Cardinality(InUse) = 1
            BY <3>1, FS_Singleton
        <3> QED BY <2>1, <2>3, <3>2 DEF OneConnection, SocketInv, AktuellInv
    <2> QED BY <2>2, <2>3
<1> QED BY <1>1, SocketInvariant, PTL

(* A connection that is lost after an outage of any length is retried      *)
(* after the shortest delay.                                               *)
THEOREM DelayIsReset == SocketSpec => []ConnectedResetsDelay
<1>1. SocketInv => ConnectedResetsDelay
    BY DEF SocketInv, OffenInv, ConnectedResetsDelay
<1> QED BY <1>1, SocketInvariant, PTL

(* No connection-timeout, however late it fires, cuts a connection.        *)
THEOREM TimeoutsAreHarmless == SocketSpec => TimeoutSparesOpen
<1>1. SocketInv /\ [SocketNext]_socketVars =>
          [\A i, j \in Sockets : Timeout(i) /\ sock[j] = "open" => sock'[j] = "open"]_socketVars
    BY DEF SocketInv, SocketTypeOK, OffenInv, Timeout, Closing
<1> QED BY <1>1, SocketInvariant, PTL DEF SocketSpec, TimeoutSparesOpen

-----------------------------------------------------------------------------
(* What the page sees of one socket.                                       *)
Sicht(zustand) ==
    CASE zustand = "open" -> "offen"
      [] zustand \in {"frei", "connecting"} -> "wartet"
      [] OTHER -> "schliesst"

LEMMA NetzStep ==
    SocketInv /\ [SocketNext]_socketVars => [V!Next]_<<NetzDerSeite, anzeige>>
<1> SUFFICES ASSUME SocketInv, [SocketNext]_socketVars
             PROVE  [V!Next]_<<NetzDerSeite, anzeige>>
    OBVIOUS
<1> USE DEF Sicht
<1>0. 0 \notin Sockets
    BY SocketAssumption
<1>1. NetzDerSeite = (IF ws = Null THEN "wartet" ELSE Sicht(sock[ws]))
    BY DEF NetzDerSeite
<1>2. NetzDerSeite' = (IF ws' = Null THEN "wartet" ELSE Sicht(sock'[ws']))
    BY DEF NetzDerSeite
<1> USE DEF SocketInv, SocketTypeOK, AktuellInv, AnzeigeInv
<1>3. CASE Reconnect
    <2>1. ws = Null /\ UNCHANGED anzeige
        BY <1>0, <1>3 DEF Reconnect, Null
    <2>2. PICK i \in Sockets : sock' = [sock EXCEPT ![i] = "connecting"] /\ ws' = i
        BY <1>3 DEF Reconnect
    <2>3. UNCHANGED NetzDerSeite
        BY <1>0, <1>1, <1>2, <2>1, <2>2 DEF Null
    <2> QED BY <2>1, <2>3
<1>4. ASSUME NEW i \in Sockets, OnOpen(i) PROVE V!Next
    <2>1. ws = i /\ ws # Null /\ sock[i] = "connecting"
          /\ ws' = i /\ sock'[i] = "open" /\ anzeige' = "Connected"
        BY <1>0, <1>4 DEF OnOpen, Null
    <2> QED BY <1>1, <1>2, <2>1 DEF V!Next, V!Verbinden
<1>5. ASSUME NEW i \in Sockets, OnClose(i) PROVE V!Next
    <2>1. ws = i /\ ws # Null /\ sock[i] = "closed" /\ ws' = Null /\ anzeige' = "Disconnect"
        BY <1>0, <1>5 DEF OnClose, Null
    <2> QED BY <1>1, <1>2, <2>1 DEF V!Next, V!Geschlossen
<1>6. ASSUME UNCHANGED <<ws, anzeige>>,
             \A j \in Sockets : \/ sock'[j] = sock[j]
                                \/ Sicht(sock'[j]) = Sicht(sock[j])
                                \/ Sicht(sock[j]) # "schliesst" /\ Sicht(sock'[j]) = "schliesst"
      PROVE  [V!Next]_<<NetzDerSeite, anzeige>>
    BY <1>1, <1>2, <1>6 DEF V!Next, V!Abbrechen
<1>7. ASSUME NEW i \in Sockets, Timeout(i) \/ Fail(i) \/ Closed(i)
      PROVE  [V!Next]_<<NetzDerSeite, anzeige>>
    BY <1>6, <1>7 DEF Timeout, Fail, Closed, Closing, klasse
<1>8. CASE Close \/ Refresh
    BY <1>6, <1>8 DEF Close, Refresh, Closing, klasse
<1>9. CASE ReloadPage
    <2>1. PICK i \in Sockets : sock' = NurEiner(i) /\ ws' = i
        BY <1>9 DEF ReloadPage
    <2>2. anzeige' = "leer" /\ Sicht(sock'[ws']) = "wartet"
        BY <1>9, <2>1 DEF ReloadPage, NurEiner
    <2> QED BY <1>2, <2>2 DEF V!Next, V!Reload
<1>10. CASE Netz \/ UNCHANGED socketVars
    BY <1>6, <1>10 DEF Netz, socketVars, sockets, klasse
<1> QED BY <1>3, <1>4, <1>5, <1>7, <1>8, <1>9, <1>10 DEF SocketNext

(* The class implements Verbindung: the text of the page follows the open  *)
(* and the close event of its connection, whatever failed in between.      *)
THEOREM SocketImplementsVerbindung == SocketSpec => VerbindetWieSpezifiziert
<1>1. SocketInit => V!Init
    <2> SUFFICES ASSUME SocketInit PROVE V!Init
        OBVIOUS
    <2>1. PICK i \in Sockets : sock = NurEiner(i) /\ ws = i
        BY DEF SocketInit
    <2>2. anzeige = "leer" /\ ws # Null /\ sock[ws] = "connecting"
        BY <2>1, SocketAssumption DEF SocketInit, NurEiner, Null
    <2> QED BY <2>2 DEF V!Init, NetzDerSeite
<1> QED BY <1>1, NetzStep, SocketInvariant, PTL DEF SocketSpec, VerbindetWieSpezifiziert, V!Spec

=============================================================================
