----------------------- MODULE ReconnectingWebSocket -----------------------
(***************************************************************************)
(* The connection of one page: reconnecting-websocket.js around the        *)
(* browser's WebSocket objects.  Each callback is one step of the page's   *)
(* event loop.  Timers fire in any order: a connection-timeout that was    *)
(* not cleared may fire when its socket is long gone.                      *)
(*                                                                         *)
(* In onclose "var timeout" hides the variable of open, so clearTimeout    *)
(* clears nothing there.  timedOut is TRUE only during localWs.close(),    *)
(* and no event is delivered during a call: onclose never sees it.  The    *)
(* page sets no maxReconnectAttempts and does not call open() itself.      *)
(***************************************************************************)
EXTENDS Integers, FiniteSets

CONSTANTS
    Sockets,      \* names for WebSocket objects; bounds those with a timer
    Plateau       \* attempts after which the delay has reached its maximum

ASSUME SocketAssumption ==
    /\ IsFiniteSet(Sockets) /\ Sockets # {} /\ 0 \notin Sockets
    /\ Plateau \in Nat

VARIABLES
    sock,                \* readyState of each socket; "frei": not in use
    connTimer,           \* the connection-timeout of the socket is pending
    reconnectAttempt,    \* the variable of the open() that made the socket
    ws,                  \* the current socket, or Null
    readyState, reconnectAttempts, forcedClose,
    wiederTimer,         \* number of pending reconnect timers
    anzeige,             \* websocketstatustxt of the page
    erreichbar           \* the server can be reached

Null == 0
klasse == <<ws, readyState, reconnectAttempts, forcedClose>>
sockets == <<sock, connTimer, reconnectAttempt>>
socketVars == <<sockets, klasse, wiederTimer, anzeige, erreichbar>>

SocketTypeOK ==
    /\ sock \in [Sockets -> {"frei", "connecting", "open", "closing", "closed"}]
    /\ connTimer \in [Sockets -> BOOLEAN]
    /\ reconnectAttempt \in [Sockets -> BOOLEAN]
    /\ ws \in Sockets \cup {Null}
    /\ readyState \in {"CONNECTING", "OPEN", "CLOSED"}
    /\ readyState = "OPEN" => ws # Null
    /\ reconnectAttempts \in 0 .. Plateau
    /\ forcedClose \in BOOLEAN /\ wiederTimer \in Nat
    /\ anzeige \in {"leer", "Connected", "Disconnect"}
    /\ erreichbar \in BOOLEAN

NurEiner(i) == [s \in Sockets |-> IF s = i THEN "connecting" ELSE "frei"]

(* The constructor ends with open(false).                                  *)
SocketInit ==
    /\ \E i \in Sockets :
           sock = NurEiner(i) /\ connTimer = [s \in Sockets |-> s = i] /\ ws = i
    /\ reconnectAttempt = [s \in Sockets |-> FALSE]
    /\ readyState = "CONNECTING" /\ reconnectAttempts = 0
    /\ forcedClose = FALSE /\ wiederTimer = 0 /\ anzeige = "leer"
    /\ erreichbar \in BOOLEAN

-----------------------------------------------------------------------------
(* The reconnect timer: reconnectAttempts++ and open(true).                *)
Reconnect ==
    /\ wiederTimer > 0 /\ wiederTimer' = wiederTimer - 1
    /\ reconnectAttempts' = IF reconnectAttempts < Plateau THEN reconnectAttempts + 1
                                                           ELSE Plateau
    /\ \E i \in Sockets :
           /\ sock[i] = "frei" /\ ~connTimer[i]
           /\ sock' = [sock EXCEPT ![i] = "connecting"]
           /\ connTimer' = [connTimer EXCEPT ![i] = TRUE]
           /\ reconnectAttempt' = [reconnectAttempt EXCEPT ![i] = TRUE]
           /\ ws' = i
    /\ UNCHANGED <<readyState, forcedClose, anzeige, erreichbar>>

\* Faults: the attempt is still taken for a reconnect; the delay is kept.
OnOpenReconnect(i) ==
    /\ sock[i] = "connecting" /\ erreichbar
    /\ sock' = [sock EXCEPT ![i] = "open"]
    /\ connTimer' = [connTimer EXCEPT ![i] = FALSE]
    /\ readyState' = "OPEN" /\ reconnectAttempts' = 0
    /\ anzeige' = "Connected"
    /\ UNCHANGED <<reconnectAttempt, ws, forcedClose, wiederTimer, erreichbar>>
OnOpenKeepsDelay(i) ==
    /\ sock[i] = "connecting" /\ erreichbar
    /\ sock' = [sock EXCEPT ![i] = "open"]
    /\ connTimer' = [connTimer EXCEPT ![i] = FALSE]
    /\ readyState' = "OPEN"
    /\ reconnectAttempt' = [reconnectAttempt EXCEPT ![i] = FALSE]
    /\ anzeige' = "Connected"
    /\ UNCHANGED <<reconnectAttempts, ws, forcedClose, wiederTimer, erreichbar>>
OnOpen(i) ==
    /\ sock[i] = "connecting" /\ erreichbar
    /\ sock' = [sock EXCEPT ![i] = "open"]
    /\ connTimer' = [connTimer EXCEPT ![i] = FALSE]
    /\ readyState' = "OPEN" /\ reconnectAttempts' = 0
    /\ reconnectAttempt' = [reconnectAttempt EXCEPT ![i] = FALSE]
    /\ anzeige' = "Connected"
    /\ UNCHANGED <<ws, forcedClose, wiederTimer, erreichbar>>

(* The close event: the listener of the page shows "Disconnect", except    *)
(* after an attempt to reconnect that failed.                              *)
\* Fault: a failed attempt to reconnect is the last one.
OnCloseGivesUp(i) ==
    /\ sock[i] = "closed"
    /\ sock' = [sock EXCEPT ![i] = "frei"]
    /\ ws' = Null
    /\ anzeige' = IF forcedClose \/ ~reconnectAttempt[i] THEN "Disconnect" ELSE anzeige
    /\ IF forcedClose \/ reconnectAttempt[i]
       THEN readyState' = "CLOSED" /\ UNCHANGED wiederTimer
       ELSE readyState' = "CONNECTING" /\ wiederTimer' = wiederTimer + 1
    /\ UNCHANGED <<connTimer, reconnectAttempt, reconnectAttempts, forcedClose,
                   erreichbar>>
OnClose(i) ==
    /\ sock[i] = "closed"
    /\ sock' = [sock EXCEPT ![i] = "frei"]
    /\ ws' = Null
    /\ anzeige' = IF forcedClose \/ ~reconnectAttempt[i] THEN "Disconnect" ELSE anzeige
    /\ IF forcedClose
       THEN readyState' = "CLOSED" /\ UNCHANGED wiederTimer
       ELSE readyState' = "CONNECTING" /\ wiederTimer' = wiederTimer + 1
    /\ UNCHANGED <<connTimer, reconnectAttempt, reconnectAttempts, forcedClose,
                   erreichbar>>

(* WebSocket.close(): without effect on a socket that closes or is closed. *)
Closing(i) ==
    [sock EXCEPT ![i] = IF @ \in {"connecting", "open"} THEN "closing" ELSE @]

(* The connection-timeout closes its own socket (localWs).                 *)
\* Faults: it closes the current socket; it also starts a new attempt.
TimeoutWs(i) ==
    /\ connTimer[i] /\ connTimer' = [connTimer EXCEPT ![i] = FALSE]
    /\ sock' = IF ws = Null THEN sock ELSE Closing(ws)
    /\ UNCHANGED <<reconnectAttempt, klasse, wiederTimer, anzeige, erreichbar>>
TimeoutRetries(i) ==
    /\ connTimer[i] /\ connTimer' = [connTimer EXCEPT ![i] = FALSE]
    /\ sock' = Closing(i)
    /\ wiederTimer' = wiederTimer + 1
    /\ UNCHANGED <<reconnectAttempt, klasse, anzeige, erreichbar>>
Timeout(i) ==
    /\ connTimer[i] /\ connTimer' = [connTimer EXCEPT ![i] = FALSE]
    /\ sock' = Closing(i)
    /\ UNCHANGED <<reconnectAttempt, klasse, wiederTimer, anzeige, erreichbar>>

-----------------------------------------------------------------------------
(* The calls a page may make.                                              *)
Close ==
    /\ forcedClose' = TRUE
    /\ sock' = IF ws = Null THEN sock ELSE Closing(ws)
    /\ UNCHANGED <<connTimer, reconnectAttempt, ws, readyState, reconnectAttempts,
                   wiederTimer, anzeige, erreichbar>>

Refresh ==
    /\ ws # Null /\ sock' = Closing(ws)
    /\ UNCHANGED <<connTimer, reconnectAttempt, klasse, wiederTimer, anzeige, erreichbar>>

(* The page is loaded again: a new object, and all timers are gone.        *)
ReloadPage ==
    /\ \E i \in Sockets :
           sock' = NurEiner(i) /\ connTimer' = [s \in Sockets |-> s = i] /\ ws' = i
    /\ reconnectAttempt' = [s \in Sockets |-> FALSE]
    /\ readyState' = "CONNECTING" /\ reconnectAttempts' = 0
    /\ forcedClose' = FALSE /\ wiederTimer' = 0 /\ anzeige' = "leer"
    /\ UNCHANGED erreichbar

-----------------------------------------------------------------------------
(* The network: it fails a connection or an attempt, and completes the     *)
(* closing of one.                                                         *)
Fail(i) ==
    /\ sock[i] \in {"connecting", "open"} /\ sock' = [sock EXCEPT ![i] = "closed"]
    /\ UNCHANGED <<connTimer, reconnectAttempt, klasse, wiederTimer, anzeige, erreichbar>>

Closed(i) ==
    /\ sock[i] = "closing" /\ sock' = [sock EXCEPT ![i] = "closed"]
    /\ UNCHANGED <<connTimer, reconnectAttempt, klasse, wiederTimer, anzeige, erreichbar>>

Netz ==
    /\ erreichbar' = ~erreichbar
    /\ UNCHANGED <<sockets, klasse, wiederTimer, anzeige>>

SocketNext ==
    \/ Reconnect
    \/ \E i \in Sockets : OnOpen(i) \/ OnClose(i) \/ Timeout(i) \/ Fail(i) \/ Closed(i)
    \/ Close \/ Refresh \/ ReloadPage
    \/ Netz

(* Timers fire and events are delivered.  A server that can be reached     *)
(* answers some attempt within the connection-timeout: strong fairness.    *)
SocketFairness ==
    /\ WF_socketVars(Reconnect)
    /\ \A i \in Sockets :
           /\ WF_socketVars(OnClose(i)) /\ WF_socketVars(Timeout(i))
           /\ WF_socketVars(Closed(i))
           /\ SF_socketVars(OnOpen(i))

SocketSpec == SocketInit /\ [][SocketNext]_socketVars /\ SocketFairness

-----------------------------------------------------------------------------
(* Properties.                                                             *)

InUse == {i \in Sockets : sock[i] # "frei"}

(* The page never has two connections or two attempts at once, and never   *)
(* forgets to try again: there is one socket, which is ws, or one pending  *)
(* reconnect timer.  After close() there may be neither.                   *)
OneConnection ==
    /\ \A i \in InUse : ws = i
    /\ ws # Null => ws \in InUse
    /\ Cardinality(InUse) + wiederTimer \in IF forcedClose THEN {0, 1} ELSE {1}

(* A connection-timeout never cuts an established connection, although     *)
(* timeouts of earlier sockets are still pending when it is established.   *)
TimeoutSparesOpen ==
    [][\A i, j \in Sockets : Timeout(i) /\ sock[j] = "open" => sock'[j] = "open"]_socketVars

(* After an outage of any length, an established connection that is lost   *)
(* again is retried after the shortest delay.                              *)
ConnectedResetsDelay == readyState = "OPEN" => reconnectAttempts = 0

(* The page sees the connection as specified in Verbindung: the text it    *)
(* shows is "Connected" exactly from the open event to the close event.    *)
NetzDerSeite ==
    IF ws = Null THEN "wartet"
    ELSE CASE sock[ws] = "open" -> "offen"
           [] sock[ws] \in {"frei", "connecting"} -> "wartet"
           [] OTHER -> "schliesst"

V == INSTANCE Verbindung WITH netz <- NetzDerSeite

VerbindetWieSpezifiziert == V!Spec

(* A page whose server stays reachable is connected again and again,       *)
(* whatever was lost before, unless it called close().                     *)
ConnectsAgain ==
    <>[]erreichbar => <>forcedClose \/ []<>(readyState = "OPEN")

=============================================================================
