---------------------------- MODULE StatusClients ----------------------------
(***************************************************************************)
(* What the pages show of the plant: the loop of thread_io that builds the *)
(* status and sends it to every connection when it has changed, the pages  *)
(* of index.html that show it, and the button that switches the automatic  *)
(* refill and shows the new value before the server has it.                *)
(*                                                                         *)
(* netz is that of Verbindung without its closing state: a page that is    *)
(* "offen" after its connection was lost may have begun to close, and one  *)
(* that is "wartet" may still be closing the attempt before.  What it      *)
(* sends then is lost.                                                     *)
(*                                                                         *)
(* Of the status the model keeps one field of each kind: the flag that     *)
(* clients write, a flag that the state machine writes but the status      *)
(* reads before it (so it is that of the pass before), and the state.      *)
(***************************************************************************)
EXTENDS Sequences, Integers

CONSTANTS
    Clients,        \* the pages that are modelled; there may be others
    MaxPost,        \* bound: status messages under way to one page
    MaxKommandos    \* bound: commands under way from one page

ASSUME StatusAssumption ==
    /\ MaxPost \in Nat \ {0}
    /\ MaxKommandos \in Nat \ {0}

VARIABLES
    osmoseRefillActiv, osmoseState,   \* the plant
    ioPc, root, rootOld,              \* thread_io
    link,           \* clients whose connection the server has, and delivers
    kommando,       \* commands to the server: values for osmoseRefillActiv
    post,           \* status messages to the page
    netz,           \* the connection as the page sees it
    gezeigt,        \* what the page shows; gezeigt.refillActiv is also its
                    \* variable refillAutomaticActiv
    dabei,          \* history: a status was sent on this connection
    geklickt        \* history: the button was used since the last status

anlage == <<osmoseRefillActiv, osmoseState>>
io     == <<ioPc, root, rootOld>>
seite  == <<netz, gezeigt, geklickt>>
vars   == <<anlage, io, link, kommando, post, seite, dabei>>

States == {"sidle", "sosmose"}
Status == [refillActiv : BOOLEAN, frischVent : BOOLEAN, modus : States]
Anzeige == [refillActiv : BOOLEAN, frischVent : BOOLEAN, modus : States \cup {"keiner"}]

\* An empty ptree, and a page that has not received anything.
Leer == [refillActiv |-> TRUE, frischVent |-> FALSE, modus |-> "keiner"]

StatusTypeOK ==
    /\ osmoseRefillActiv \in BOOLEAN /\ osmoseState \in States
    /\ ioPc \in {"flags", "maschinen", "senden"}
    /\ root \in Anzeige /\ rootOld \in Status \cup {Leer}
    /\ link \subseteq Clients
    /\ \A c \in Clients :
           /\ netz[c] \in {"wartet", "offen"}
           /\ kommando[c] \in Seq(BOOLEAN) /\ Len(kommando[c]) <= MaxKommandos
           /\ post[c] \in Seq(Status) /\ Len(post[c]) <= MaxPost
           /\ gezeigt[c] \in Anzeige
           /\ geklickt[c] \in BOOLEAN /\ dabei[c] \in BOOLEAN
           /\ c \notin link => post[c] = <<>> /\ kommando[c] = <<>> /\ ~dabei[c]

Init ==
    /\ osmoseRefillActiv = TRUE /\ osmoseState = "sidle"
    /\ ioPc = "flags" /\ root = Leer /\ rootOld = Leer
    /\ link = {} /\ netz = [c \in Clients |-> "wartet"]
    /\ kommando = [c \in Clients |-> <<>>] /\ post = [c \in Clients |-> <<>>]
    /\ gezeigt = [c \in Clients |-> Leer]
    /\ dabei = [c \in Clients |-> FALSE] /\ geklickt = [c \in Clients |-> FALSE]

-----------------------------------------------------------------------------
(* The loop: the flags are read before the state machine runs.             *)
Flags ==
    /\ ioPc = "flags" /\ ioPc' = "maschinen"
    /\ root' = [refillActiv |-> osmoseRefillActiv,
                frischVent  |-> osmoseState = "sosmose",
                modus       |-> "keiner"]
    /\ UNCHANGED <<anlage, rootOld, link, kommando, post, seite, dabei>>

\* Faults: only a new state is worth a message; rootOld is kept.
NeuerModus(status, old) == status.modus # old.modus
Neuer(status, old) == status # old
RootOldBleibt(status, old) == old
RootOld(status, old) == status

(* The state machine may go anywhere; then the state joins the status.     *)
Maschinen ==
    /\ ioPc = "maschinen"
    /\ osmoseState' \in States
    /\ LET status == [root EXCEPT !.modus = osmoseState']
       IN /\ rootOld' = RootOld(status, rootOld)
          /\ IF Neuer(status, rootOld) THEN ioPc' = "senden" /\ root' = status
                                       ELSE ioPc' = "flags" /\ root' = Leer
    /\ UNCHANGED <<osmoseRefillActiv, link, kommando, post, seite, dabei>>

(* get_connections copies the set of connections under a lock: a client is *)
(* in it or not.                                                           *)
Connections == link

Senden ==
    /\ ioPc = "senden" /\ ioPc' = "flags"
    /\ \A c \in Connections : Len(post[c]) < MaxPost
    /\ post' = [c \in Clients |-> IF c \in Connections THEN Append(post[c], root)
                                                       ELSE post[c]]
    /\ dabei' = [c \in Clients |-> dabei[c] \/ c \in Connections]
    /\ root' = Leer
    /\ UNCHANGED <<anlage, rootOld, link, kommando, seite>>

(* refillOn and refillOff, on the WebSocket thread.  The message is sent   *)
(* back to the page, which ignores it.                                     *)
Command(c) ==
    /\ kommando[c] # <<>>
    /\ osmoseRefillActiv' = Head(kommando[c])
    /\ kommando' = [kommando EXCEPT ![c] = Tail(@)]
    /\ UNCHANGED <<osmoseState, io, link, post, seite, dabei>>

(* The same, sent by a page that is not in Clients.                        *)
CommandOfOther ==
    /\ osmoseRefillActiv' \in BOOLEAN
    /\ UNCHANGED <<osmoseState, io, link, kommando, post, seite, dabei>>

-----------------------------------------------------------------------------
(* The page.                                                               *)

\* Fault: an open page keeps what its button says.
ZeigeOhneKnopf(alt, status) == [status EXCEPT !.refillActiv = alt.refillActiv]
Zeige(alt, status) == status

OnMessage(c) ==
    /\ netz[c] = "offen" /\ post[c] # <<>>
    /\ gezeigt' = [gezeigt EXCEPT ![c] = Zeige(@, Head(post[c]))]
    /\ post' = [post EXCEPT ![c] = Tail(@)]
    /\ geklickt' = [geklickt EXCEPT ![c] = FALSE]
    /\ UNCHANGED <<anlage, io, link, kommando, netz, dabei>>

(* doRefillAutomatic.  Without a socket, or before it is open, send throws *)
(* and nothing changes: no step.  On a socket that is closing, also after  *)
(* an attempt that failed, or whose peer has gone, the command is lost and *)
(* the page shows the new value all the same.                              *)
DoRefillAutomatic(c) ==
    LET neu == ~gezeigt[c].refillActiv
    IN /\ IF netz[c] = "offen" /\ c \in link
          THEN /\ Len(kommando[c]) < MaxKommandos
               /\ kommando' = [kommando EXCEPT ![c] = Append(@, neu)]
          ELSE UNCHANGED kommando
       /\ gezeigt' = [gezeigt EXCEPT ![c].refillActiv = neu]
       /\ geklickt' = [geklickt EXCEPT ![c] = TRUE]
       /\ UNCHANGED <<anlage, io, link, post, netz, dabei>>

-----------------------------------------------------------------------------
(* The connections.  The server has a connection from its handshake on;    *)
(* it sends nothing when one opens.                                        *)

Annehmen(c) ==
    /\ netz[c] = "wartet" /\ c \notin link
    /\ link' = link \cup {c}
    /\ UNCHANGED <<anlage, io, kommando, post, seite, dabei>>

Verbinden(c) ==
    /\ netz[c] = "wartet" /\ c \in link
    /\ netz' = [netz EXCEPT ![c] = "offen"]
    /\ UNCHANGED <<anlage, io, link, kommando, post, gezeigt, geklickt, dabei>>

Verloren(c) ==
    /\ link' = link \ {c}
    /\ kommando' = [kommando EXCEPT ![c] = <<>>]
    /\ post' = [post EXCEPT ![c] = <<>>]
    /\ dabei' = [dabei EXCEPT ![c] = FALSE]

(* The connection is lost, or an attempt given up; an open page notices it *)
(* later, by its close event.                                              *)
Abbrechen(c) ==
    /\ c \in link /\ Verloren(c)
    /\ UNCHANGED <<anlage, io, seite>>

Geschlossen(c) ==
    /\ netz[c] = "offen" /\ c \notin link
    /\ netz' = [netz EXCEPT ![c] = "wartet"]
    /\ UNCHANGED <<anlage, io, link, kommando, post, gezeigt, geklickt, dabei>>

Reload(c) ==
    /\ netz' = [netz EXCEPT ![c] = "wartet"]
    /\ gezeigt' = [gezeigt EXCEPT ![c] = Leer]
    /\ geklickt' = [geklickt EXCEPT ![c] = FALSE]
    /\ Verloren(c)
    /\ UNCHANGED <<anlage, io>>

(* The server is killed and started again: refilling is active, whatever   *)
(* the pages show.                                                         *)
Neustart ==
    /\ osmoseRefillActiv' = TRUE /\ osmoseState' = "sidle"
    /\ ioPc' = "flags" /\ root' = Leer /\ rootOld' = Leer
    /\ link' = {}
    /\ kommando' = [c \in Clients |-> <<>>] /\ post' = [c \in Clients |-> <<>>]
    /\ dabei' = [c \in Clients |-> FALSE]
    /\ UNCHANGED seite

-----------------------------------------------------------------------------
Next ==
    \/ Neustart
    \/ Flags \/ Maschinen \/ Senden \/ CommandOfOther
    \/ \E c \in Clients :
           \/ Command(c) \/ OnMessage(c) \/ DoRefillAutomatic(c)
           \/ Annehmen(c) \/ Verbinden(c) \/ Abbrechen(c) \/ Geschlossen(c)
           \/ Reload(c)

(* The loop runs; what was accepted, sent or queued is delivered.          *)
Fairness ==
    /\ WF_vars(Flags) /\ WF_vars(Maschinen) /\ WF_vars(Senden)
    /\ \A c \in Clients :
           WF_vars(Command(c)) /\ WF_vars(OnMessage(c)) /\ WF_vars(Verbinden(c))

Spec == Init /\ [][Next]_vars /\ Fairness

-----------------------------------------------------------------------------
(* Properties.                                                             *)

(* A connection that has carried one status carries every later one: when  *)
(* its queue is empty the page shows the last status the server built, and *)
(* only its own button may say otherwise.                                  *)
LastStatusReaches ==
    \A c \in Clients : dabei[c] /\ ioPc = "flags" =>
        IF post[c] = <<>>
        THEN gezeigt[c] = rootOld
             \/ (geklickt[c] /\ [gezeigt[c] EXCEPT !.refillActiv = rootOld.refillActiv] = rootOld)
        ELSE post[c][Len(post[c])] = rootOld

Ruht == <>[][UNCHANGED anlage /\ ~Neustart]_vars
Verbunden(c) == netz[c] = "offen" /\ c \in link

ZeigtAnlage(c) ==
    /\ gezeigt[c].modus = osmoseState
    /\ gezeigt[c].frischVent = (osmoseState = "sosmose")
    /\ gezeigt[c].refillActiv = osmoseRefillActiv \/ geklickt[c]

(* When the plant comes to rest, a page that stays connected and has been  *)
(* sent a status ends up showing the plant as it is, although the flags of *)
(* each status are one pass old and commands change them between a read    *)
(* and the sending.  The button of a page that was used since may be wrong:*)
(* see the README.                                                         *)
PageFollows ==
    \A c \in Clients :
        Ruht /\ <>[](Verbunden(c) /\ dabei[c]) => <>[]ZeigtAnlage(c)

(* A plant at rest is not reported again and again: a loop that keeps      *)
(* running sends nothing from some time on.                                *)
StatusRuht == Ruht => <>[](ioPc # "senden")

=============================================================================
