----------------------------- MODULE Verbindung -----------------------------
(***************************************************************************)
(* What the page sees of its connection to the server: an abstract         *)
(* specification that ReconnectingWebSocket implements and StatusClients   *)
(* builds on.  What becomes of a message depends on the state: the script  *)
(* throws while it waits for a connection, and drops the message without   *)
(* notice while the connection closes.                                     *)
(***************************************************************************)

VARIABLES
    netz,       \* "wartet", "offen" or "schliesst"
    anzeige     \* the text of websocketstatustxt

Init == netz = "wartet" /\ anzeige = "leer"

Verbinden ==
    /\ netz = "wartet" /\ netz' = "offen"
    /\ anzeige' = "Connected"

(* A lost connection, or an attempt that fails or is given up.             *)
Abbrechen ==
    /\ netz # "schliesst" /\ netz' = "schliesst"
    /\ UNCHANGED anzeige

Geschlossen ==
    /\ netz = "schliesst" /\ netz' = "wartet"
    /\ anzeige' = "Disconnect"

(* The user loads the page again.                                          *)
Reload == netz' = "wartet" /\ anzeige' = "leer"

Next == Verbinden \/ Abbrechen \/ Geschlossen \/ Reload

Spec == Init /\ [][Next]_<<netz, anzeige>>

=============================================================================
