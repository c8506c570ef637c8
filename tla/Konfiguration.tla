--------------------------- MODULE Konfiguration ---------------------------
(***************************************************************************)
(* The settings in memory, in the file and on the pins.  writeConfig       *)
(* assigns one field after the other while thread_io keeps writing the     *)
(* outputs, truncates and rewrites the file, and reads it back: Lesen      *)
(* deletes the pin objects and makes new ones.  A field that is missing or *)
(* no number (the page sends null for an empty input) throws; nothing      *)
(* catches it on the WebSocket thread, so the process ends.  The pins are  *)
(* registers of the chip: they outlive the process.                        *)
(*                                                                         *)
(* The sensors, the switches and their ports are left out; like the pins   *)
(* they are deleted and made anew, but they drive nothing.                 *)
(***************************************************************************)
EXTENDS Integers, Sequences

CONSTANTS
    Ports,           \* pins that an output may be given
    Einstellungen    \* the settings the clients send

Ausgaenge == {"pump", "clean", "fresh"}

(* The fields in the order of WriteConfig: limits, modus and sensor times; *)
(* the mail; the port of each output.                                      *)
Felder == <<"zeiten", "mail", "pump", "clean", "fresh">>
Einstellung == [zeiten : STRING, mail : STRING, pump : Ports, clean : Ports,
                fresh : Ports]

(* A writeConfig: its values, and the field that is missing or cannot be   *)
(* converted, if any.                                                      *)
Anfragen == [werte : Einstellungen,
             schlecht : {"zeiten", "mail", "keins"} \cup Ausgaenge]

ASSUME KonfigAssumption == Einstellungen \subseteq Einstellung

VARIABLES
    prozess,      \* "tot", "start" (main, before thread_io) or "laeuft"
    wsPc,         \* what the thread that runs the command does next
    anfrage,      \* the writeConfig being executed, and its bad field
    naechstes,    \* index of the next field of WriteConfig
    speicher,     \* the settings in memory; the ports are the pin objects'
    objekte,      \* the outputs whose DigiIO object exists
    datei,        \* the settings in the file
    ausgang,      \* the pins in OUTPUT mode
    latch,        \* the level written last to each pin
    verdorben     \* history: the last write of the file did not complete

befehl == <<anfrage, naechstes>>
pins   == <<ausgang, latch>>
konfigVars == <<prozess, wsPc, befehl, speicher, objekte, datei, pins, verdorben>>

\* A truncated file.  It does not parse.
Leer == [leer |-> TRUE]

KonfigTypeOK ==
    /\ prozess \in {"tot", "start", "laeuft"}
    /\ wsPc \in {"bereit", "felder", "schreiben", "lesen", "loeschen", "neu"}
    /\ anfrage \in Anfragen
    /\ naechstes \in 1 .. Len(Felder) + 1
    /\ speicher \in Einstellung
    /\ objekte \subseteq Ausgaenge
    /\ wsPc \in {"bereit", "felder", "schreiben"} /\ prozess = "laeuft" => objekte = Ausgaenge
    /\ datei \in Einstellung \cup {Leer}
    /\ ausgang \subseteq Ports
    /\ latch \in [Ports -> BOOLEAN]
    /\ verdorben \in BOOLEAN

(* Power on: every pin is an input.                                        *)
KonfigInit ==
    /\ prozess = "start" /\ wsPc = "lesen"
    /\ datei \in Einstellungen /\ speicher = datei
    /\ anfrage = [werte |-> datei, schlecht |-> "keins"] /\ naechstes = 1
    /\ objekte = {} /\ ausgang = {} /\ latch = [p \in Ports |-> FALSE]
    /\ verdorben = FALSE

-----------------------------------------------------------------------------
(* thread_io: in any pass the state machines may write any level to any    *)
(* output, at the port its object has then.                                *)
LoopWrite ==
    /\ prozess = "laeuft"
    /\ \E o \in objekte, hoch \in BOOLEAN :
           latch' = [latch EXCEPT ![speicher[o]] = hoch]
    /\ UNCHANGED <<prozess, wsPc, befehl, speicher, objekte, datei, ausgang, verdorben>>

(* Lesen has deleted the object the loop writes through: undefined, the    *)
(* write may go to any pin (or end the process: Kill).                     *)
LoopWriteDeleted ==
    /\ prozess = "laeuft" /\ objekte # Ausgaenge
    /\ \E p \in Ports, hoch \in BOOLEAN : latch' = [latch EXCEPT ![p] = hoch]
    /\ UNCHANGED <<prozess, wsPc, befehl, speicher, objekte, datei, ausgang, verdorben>>

-----------------------------------------------------------------------------
(* The WebSocket thread.                                                   *)

\* Fault: the file is opened first.
WriteConfigOpens ==
    /\ prozess = "laeuft" /\ wsPc = "bereit" /\ wsPc' = "felder"
    /\ anfrage' \in Anfragen
    /\ naechstes' = 1
    /\ datei' = Leer
    /\ UNCHANGED <<prozess, speicher, objekte, pins, verdorben>>
WriteConfig ==
    /\ prozess = "laeuft" /\ wsPc = "bereit" /\ wsPc' = "felder"
    /\ anfrage' \in Anfragen
    /\ naechstes' = 1
    /\ UNCHANGED <<prozess, speicher, objekte, datei, pins, verdorben>>

ReadConfig ==
    /\ prozess = "laeuft" /\ wsPc = "bereit" /\ wsPc' = "lesen"
    /\ UNCHANGED <<prozess, befehl, speicher, objekte, datei, pins, verdorben>>

Feld == Felder[naechstes]

(* One setter.  setPort changes the port of the object and nothing else.   *)
SetFeld ==
    /\ wsPc = "felder" /\ naechstes <= Len(Felder)
    /\ Feld # anfrage.schlecht
    /\ speicher' = [speicher EXCEPT ![Feld] = anfrage.werte[Feld]]
    /\ naechstes' = naechstes + 1
    /\ UNCHANGED <<prozess, wsPc, anfrage, objekte, datei, pins, verdorben>>

End == prozess' = "tot" /\ wsPc' = "bereit" /\ objekte' = {}

(* get<int> throws, out of the thread: std::terminate.                     *)
\* Faults: the rest is written all the same; the command is given up.
AusnahmeSchreibt ==
    /\ wsPc = "felder" /\ naechstes <= Len(Felder)
    /\ Feld = anfrage.schlecht
    /\ naechstes' = Len(Felder) + 1
    /\ UNCHANGED <<prozess, wsPc, anfrage, speicher, objekte, datei, pins, verdorben>>
AusnahmeGefangen ==
    /\ wsPc = "felder" /\ naechstes <= Len(Felder)
    /\ Feld = anfrage.schlecht
    /\ wsPc' = "bereit"
    /\ UNCHANGED <<prozess, befehl, speicher, objekte, datei, pins, verdorben>>
Ausnahme ==
    /\ wsPc = "felder" /\ naechstes <= Len(Felder)
    /\ Feld = anfrage.schlecht
    /\ End
    /\ UNCHANGED <<befehl, speicher, datei, pins, verdorben>>

(* ConfigRegister::writeConfig opens the file, which truncates it ...      *)
Truncate ==
    /\ wsPc = "felder" /\ naechstes = Len(Felder) + 1
    /\ wsPc' = "schreiben"
    /\ datei' = Leer
    /\ UNCHANGED <<prozess, befehl, speicher, objekte, pins, verdorben>>

(* ... and writes it.  It is not checked whether the write succeeds.       *)
\* Fault: the settings are not read back.
WriteFileOnly ==
    /\ wsPc = "schreiben" /\ wsPc' = "bereit"
    /\ \/ datei' = speicher /\ verdorben' = FALSE
       \/ UNCHANGED datei /\ verdorben' = TRUE
    /\ UNCHANGED <<prozess, befehl, speicher, objekte, pins>>
WriteFile ==
    /\ wsPc = "schreiben" /\ wsPc' = "lesen"
    /\ \/ datei' = speicher /\ verdorben' = FALSE
       \/ UNCHANGED datei /\ verdorben' = TRUE
    /\ UNCHANGED <<prozess, befehl, speicher, objekte, pins>>

-----------------------------------------------------------------------------
(* ConfigRegister::readConfig, at the start and at the end of a command.   *)

(* Lesen begins: the settings, then all five objects are deleted.          *)
Lesen ==
    /\ wsPc = "lesen" /\ datei # Leer /\ wsPc' = "loeschen"
    /\ speicher' = [speicher EXCEPT !.zeiten = datei.zeiten, !.mail = datei.mail]
    /\ UNCHANGED <<prozess, befehl, objekte, datei, pins, verdorben>>

(* A file that does not parse is reported, and nothing is changed.         *)
LesenFehler ==
    /\ wsPc = "lesen" /\ datei = Leer /\ wsPc' = "bereit"
    /\ UNCHANGED <<prozess, befehl, speicher, objekte, datei, pins, verdorben>>

Loeschen ==
    /\ wsPc = "loeschen" /\ wsPc' = "neu"
    /\ objekte' = {}
    /\ UNCHANGED <<prozess, befehl, speicher, datei, pins, verdorben>>

Fehlend == Ausgaenge \ objekte

(* pump, clean, fresh: the order in which Lesen makes the objects.         *)
Naechster ==
    CASE "pump" \in Fehlend -> "pump"
      [] Fehlend = {"clean", "fresh"} -> "clean"
      [] OTHER -> "fresh"

(* The constructor of an output: pinMode(OUTPUT) and digitalWrite 0.       *)
\* Fault: only the mode is set.
DigiIOModeOnly(o, port) ==
    /\ objekte' = objekte \cup {o}
    /\ ausgang' = ausgang \cup {port}
    /\ UNCHANGED latch
DigiIO(o, port) ==
    /\ objekte' = objekte \cup {o}
    /\ ausgang' = ausgang \cup {port}
    /\ latch' = [latch EXCEPT ![port] = FALSE]

Neu ==
    /\ wsPc = "neu" /\ Fehlend # {}
    /\ LET o == Naechster
       IN /\ speicher' = [speicher EXCEPT ![o] = datei[o]]
          /\ DigiIO(o, datei[o])
    /\ UNCHANGED <<prozess, wsPc, befehl, datei, verdorben>>

(* Lesen is done; at the start main goes on and starts thread_io.          *)
\* Fault: the last object is not waited for.
LesenFertigFrueh ==
    /\ wsPc = "neu" /\ Fehlend \subseteq {"fresh"}
    /\ wsPc' = "bereit" /\ prozess' = "laeuft"
    /\ UNCHANGED <<befehl, speicher, objekte, datei, pins, verdorben>>
LesenFertig ==
    /\ wsPc = "neu" /\ Fehlend = {}
    /\ wsPc' = "bereit" /\ prozess' = "laeuft"
    /\ UNCHANGED <<befehl, speicher, objekte, datei, pins, verdorben>>

-----------------------------------------------------------------------------
(* The process is killed; file and pins stay as they are.                  *)
Kill ==
    /\ prozess # "tot"
    /\ End
    /\ verdorben' = (verdorben \/ wsPc = "schreiben")
    /\ UNCHANGED <<befehl, speicher, datei, pins>>

(* A new process.  Without a file that parses the sensors do not exist and *)
(* the first pass of thread_io ends it again: there is no step for that.   *)
Start ==
    /\ prozess = "tot" /\ datei # Leer
    /\ prozess' = "start" /\ wsPc' = "lesen"
    /\ UNCHANGED <<befehl, speicher, objekte, datei, pins, verdorben>>

KonfigNext ==
    \/ LoopWrite \/ LoopWriteDeleted
    \/ WriteConfig \/ ReadConfig \/ SetFeld \/ Ausnahme \/ Truncate \/ WriteFile
    \/ Lesen \/ LesenFehler \/ Loeschen \/ Neu \/ LesenFertig
    \/ Kill \/ Start

KonfigSpec == KonfigInit /\ [][KonfigNext]_konfigVars

-----------------------------------------------------------------------------
(* Properties.                                                             *)

(* The file never mixes two settings, however a command ends: what it      *)
(* holds is one request as a client sent it, or it is empty.  WriteConfig  *)
(* writes what is in memory, field by field from that request, and a field *)
(* that throws ends it before the file is touched.                         *)
FileIsWhole == datei = Leer \/ datei \in Einstellungen

(* Between two commands the running process uses the settings of the file, *)
(* so a restart changes nothing, unless the last write of it has failed.   *)
MemoryIsFile ==
    prozess = "laeuft" /\ wsPc = "bereit" /\ ~verdorben => speicher = datei

(* When a process has ended, the next one finds settings, unless it was    *)
(* killed in the window between truncating and writing the file or the     *)
(* write failed.  A command that throws never costs the file.              *)
FileSurvives == prozess = "tot" /\ datei = Leer => verdorben

(* Between two commands every output's port is a pin in OUTPUT mode, also  *)
(* after setPort has moved it (OsmoseLinux.cpp:250 reads the file back to  *)
(* make all objects anew), unless the last write of it has failed.         *)
PortsAreOutputs ==
    prozess = "laeuft" /\ wsPc = "bereit" /\ ~verdorben
        => \A o \in Ausgaenge : speicher[o] \in ausgang

Hoch == {p \in ausgang : latch[p]}

(* Whatever levels a killed process has left on the pins, the loop of the  *)
(* next one begins with all of its outputs low.                            *)
StartsLow ==
    [][prozess = "start" /\ prozess' = "laeuft"
           => \A o \in Ausgaenge : speicher[o] \notin Hoch]_konfigVars

=============================================================================
