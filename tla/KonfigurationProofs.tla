------------------------ MODULE KonfigurationProofs ------------------------
(***************************************************************************)
(* Theorems about Konfiguration, for every set of ports and of settings.   *)
(* One inductive invariant says what each copy of the settings holds while *)
(* a command, a kill or a start is under way; the properties follow.       *)
(***************************************************************************)
EXTENDS Konfiguration, TLAPS

(* What runs, and which objects it has.                                    *)
ProzessInv ==
    /\ prozess = "tot" => wsPc = "bereit" /\ objekte = {}
    /\ prozess = "start" => wsPc \in {"lesen", "loeschen", "neu"}
    /\ prozess = "laeuft" /\ wsPc # "neu" => objekte = Ausgaenge

(* The file is empty only while it is written, or once that has failed.    *)
DateiInv ==
    /\ datei = Leer => wsPc = "schreiben" \/ verdorben
    /\ datei = Leer => prozess # "start" /\ wsPc \notin {"loeschen", "neu"}

(* The n-th setter has been called.                                        *)
Gesetzt(n, feld) == naechstes > n => speicher[feld] = anfrage.werte[feld]

(* Memory takes over the request field by field, all of it before the file *)
(* is touched.                                                             *)
BefehlInv ==
    /\ wsPc = "felder" =>
           /\ Gesetzt(1, "zeiten") /\ Gesetzt(2, "mail") /\ Gesetzt(3, "pump")
           /\ Gesetzt(4, "clean") /\ Gesetzt(5, "fresh")
    /\ wsPc = "schreiben" => speicher = anfrage.werte

(* Memory takes over the file object by object, with its pin in OUTPUT     *)
(* mode, and low until the loop runs.  Lesen makes them in a fixed order,  *)
(* so that the one it makes next does not exist yet.                       *)
LesenInv ==
    /\ wsPc \in {"loeschen", "neu"} =>
           speicher.zeiten = datei.zeiten /\ speicher.mail = datei.mail
    /\ wsPc = "neu" => \A o \in objekte :
           /\ speicher[o] = datei[o] /\ speicher[o] \in ausgang
           /\ prozess = "start" => ~latch[speicher[o]]
    /\ wsPc = "neu" => objekte \in {{}, {"pump"}, {"pump", "clean"}, Ausgaenge}

KonfigInv ==
    /\ KonfigTypeOK
    /\ ProzessInv /\ DateiInv /\ BefehlInv /\ LesenInv
    /\ MemoryIsFile /\ PortsAreOutputs /\ FileIsWhole

-----------------------------------------------------------------------------
(* Data.                                                                   *)

LEMMA FelderFive ==
    /\ Len(Felder) = 5
    /\ Felder[1] = "zeiten" /\ Felder[2] = "mail" /\ Felder[3] = "pump"
    /\ Felder[4] = "clean" /\ Felder[5] = "fresh"
BY DEF Felder

(* A setting is the tuple of its five fields, and no truncated file.       *)
LEMMA EinstellungExtensional ==
    ASSUME NEW a \in Einstellung, NEW b \in Einstellung,
           a.zeiten = b.zeiten, a.mail = b.mail, a.pump = b.pump,
           a.clean = b.clean, a.fresh = b.fresh
    PROVE  a = b
BY DEF Einstellung

LEMMA EinstellungNotLeer ==
    ASSUME NEW e \in Einstellung
    PROVE  e # Leer
<1>1. "zeiten" \in DOMAIN e
    BY DEF Einstellung
<1>2. DOMAIN Leer = {"leer"}
    BY DEF Leer
<1> QED BY <1>1, <1>2

LEMMA PortOfOutput ==
    ASSUME NEW e \in Einstellung, NEW o \in Ausgaenge
    PROVE  e[o] \in Ports
BY DEF Einstellung, Ausgaenge

(* Setting one port leaves the rest of a setting as it is.                 *)
LEMMA ExceptPort ==
    ASSUME NEW e \in Einstellung, NEW o \in Ausgaenge, NEW p \in Ports
    PROVE  LET f == [e EXCEPT ![o] = p]
           IN /\ f \in Einstellung /\ f[o] = p
              /\ f.zeiten = e.zeiten /\ f.mail = e.mail
              /\ \A q \in Ausgaenge : q # o => f[q] = e[q]
BY DEF Einstellung, Ausgaenge

-----------------------------------------------------------------------------
(* The steps.                                                              *)

(* One setter: the field it sets joins those already set.                  *)
LEMMA SetFeldKeeps == KonfigInv /\ SetFeld => KonfigInv'
<1> SUFFICES ASSUME KonfigInv, SetFeld PROVE KonfigInv'
    OBVIOUS
<1> USE DEF KonfigInv, Gesetzt
<1>1. /\ naechstes \in 1 .. 5 /\ naechstes' = naechstes + 1
      /\ wsPc = "felder" /\ UNCHANGED <<prozess, wsPc, anfrage, objekte, datei, verdorben>>
      /\ UNCHANGED <<ausgang, latch>>
      /\ speicher' = [speicher EXCEPT ![Felder[naechstes]] = anfrage.werte[Felder[naechstes]]]
    BY FelderFive DEF SetFeld, Feld, KonfigTypeOK, pins
<1>2. anfrage \in Anfragen /\ anfrage.werte \in Einstellung /\ speicher \in Einstellung
    BY KonfigAssumption DEF KonfigTypeOK, Anfragen
<1>3. /\ speicher' \in Einstellung
      /\ Gesetzt(1, "zeiten")' /\ Gesetzt(2, "mail")' /\ Gesetzt(3, "pump")'
      /\ Gesetzt(4, "clean")' /\ Gesetzt(5, "fresh")'
    <2> USE <1>1, <1>2, FelderFive DEF BefehlInv, Einstellung
    <2>1. CASE naechstes = 1
        BY <2>1
    <2>2. CASE naechstes = 2
        BY <2>2
    <2>3. CASE naechstes = 3
        BY <2>3
    <2>4. CASE naechstes = 4
        BY <2>4
    <2>5. CASE naechstes = 5
        BY <2>5
    <2> QED BY <2>1, <2>2, <2>3, <2>4, <2>5
<1>4. KonfigTypeOK'
    BY <1>1, <1>3, FelderFive DEF KonfigTypeOK
<1>5. /\ ProzessInv' /\ DateiInv' /\ LesenInv'
      /\ MemoryIsFile' /\ PortsAreOutputs' /\ FileIsWhole'
    BY <1>1 DEF ProzessInv, DateiInv, LesenInv, MemoryIsFile, PortsAreOutputs, FileIsWhole
<1>6. BefehlInv'
    BY <1>1, <1>3 DEF BefehlInv
<1> QED BY <1>4, <1>5, <1>6

(* The file is truncated only when the whole request is in memory.         *)
LEMMA TruncateKeeps == KonfigInv /\ Truncate => KonfigInv'
<1> SUFFICES ASSUME KonfigInv, Truncate PROVE KonfigInv'
    OBVIOUS
<1>1. anfrage.werte \in Einstellung /\ speicher \in Einstellung
    BY KonfigAssumption DEF KonfigInv, KonfigTypeOK, Anfragen
<1>2. speicher = anfrage.werte
    BY <1>1, EinstellungExtensional, FelderFive
    DEF KonfigInv, BefehlInv, Gesetzt, Truncate
<1>3. prozess = "laeuft"
    BY DEF KonfigInv, KonfigTypeOK, ProzessInv, Truncate
<1>4. KonfigTypeOK'
    BY DEF KonfigInv, KonfigTypeOK, Truncate, befehl, pins
<1>5. ProzessInv' /\ DateiInv' /\ BefehlInv' /\ LesenInv'
    BY <1>2, <1>3 DEF KonfigInv, ProzessInv, DateiInv, BefehlInv, LesenInv, Truncate,
       befehl, pins
<1>6. MemoryIsFile' /\ PortsAreOutputs' /\ FileIsWhole'
    BY DEF MemoryIsFile, PortsAreOutputs, FileIsWhole, Truncate
<1> QED BY <1>4, <1>5, <1>6 DEF KonfigInv

(* The write completes with the settings in memory, which are those of the *)
(* request, or it fails and the file stays empty.                          *)
LEMMA WriteFileKeeps == KonfigInv /\ WriteFile => KonfigInv'
<1> SUFFICES ASSUME KonfigInv, WriteFile PROVE KonfigInv'
    OBVIOUS
<1>1. /\ wsPc = "schreiben" /\ wsPc' = "lesen" /\ prozess = "laeuft"
      /\ UNCHANGED <<prozess, anfrage, naechstes, speicher, objekte, ausgang, latch>>
    BY DEF KonfigInv, KonfigTypeOK, ProzessInv, WriteFile, befehl, pins
<1>2. speicher \in Einstellungen
    BY <1>1 DEF KonfigInv, KonfigTypeOK, BefehlInv, Anfragen
<1>3. speicher \in Einstellung /\ speicher # Leer
    BY <1>2, KonfigAssumption, EinstellungNotLeer
<1>4. KonfigTypeOK'
    BY <1>1, <1>3 DEF KonfigInv, KonfigTypeOK, WriteFile
<1>5. ProzessInv' /\ BefehlInv' /\ LesenInv' /\ MemoryIsFile' /\ PortsAreOutputs'
    BY <1>1 DEF KonfigInv, ProzessInv, BefehlInv, LesenInv, MemoryIsFile, PortsAreOutputs
<1>6. DateiInv' /\ FileIsWhole'
    BY <1>1, <1>2, <1>3 DEF KonfigInv, DateiInv, FileIsWhole, WriteFile
<1> QED BY <1>4, <1>5, <1>6 DEF KonfigInv

(* One object is made: its port is read from the file, its pin is driven   *)
(* low in OUTPUT mode.                                                     *)
LEMMA NeuKeeps == KonfigInv /\ Neu => KonfigInv'
<1> SUFFICES ASSUME KonfigInv, Neu PROVE KonfigInv'
    OBVIOUS
<1> DEFINE o == Naechster
           p == datei[o]
<1>1. /\ wsPc = "neu" /\ datei \in Einstellung /\ speicher \in Einstellung
    BY KonfigAssumption DEF KonfigInv, KonfigTypeOK, DateiInv, Neu
<1>2. o \in Ausgaenge \ objekte
    BY DEF KonfigInv, LesenInv, Naechster, Fehlend, Neu, Ausgaenge
<1>3. p \in Ports
    BY <1>1, <1>2, PortOfOutput
<1>4. /\ speicher' = [speicher EXCEPT ![o] = p]
      /\ objekte' = objekte \cup {o} /\ ausgang' = ausgang \cup {p}
      /\ latch' = [latch EXCEPT ![p] = FALSE]
      /\ UNCHANGED <<prozess, wsPc, anfrage, naechstes, datei, verdorben>>
    BY DEF Neu, DigiIO, befehl
<1> HIDE DEF o, p
<1>5. /\ speicher' \in Einstellung /\ speicher'[o] = p
      /\ speicher'.zeiten = speicher.zeiten /\ speicher'.mail = speicher.mail
      /\ \A q \in Ausgaenge : q # o => speicher'[q] = speicher[q]
    <2> DEFINE f == [speicher EXCEPT ![o] = p]
    <2>1. /\ f \in Einstellung /\ f[o] = p
          /\ f.zeiten = speicher.zeiten /\ f.mail = speicher.mail
          /\ \A q \in Ausgaenge : q # o => f[q] = speicher[q]
        BY <1>1, <1>2, <1>3, ExceptPort
    <2>2. speicher' = f
        BY <1>4
    <2> HIDE DEF f
    <2> QED BY <2>1, <2>2
<1>6. KonfigTypeOK'
    BY <1>1, <1>2, <1>3, <1>4, <1>5 DEF KonfigInv, KonfigTypeOK
<1>7. /\ ProzessInv' /\ DateiInv' /\ BefehlInv'
      /\ MemoryIsFile' /\ PortsAreOutputs' /\ FileIsWhole'
    BY <1>1, <1>4 DEF KonfigInv, ProzessInv, DateiInv, BefehlInv, MemoryIsFile,
       PortsAreOutputs, FileIsWhole
<1>8. objekte' \in {{}, {"pump"}, {"pump", "clean"}, Ausgaenge}
    BY <1>1, <1>2, <1>4 DEF KonfigInv, LesenInv, Naechster, Fehlend, Neu, Ausgaenge, o
<1>9. LesenInv'
    <2> SUFFICES ASSUME NEW q \in objekte'
                 PROVE  /\ speicher'[q] = datei[q] /\ speicher'[q] \in ausgang'
                        /\ prozess = "start" => ~latch'[speicher'[q]]
        BY <1>1, <1>4, <1>5, <1>8 DEF KonfigInv, LesenInv
    <2>1. latch \in [Ports -> BOOLEAN] /\ objekte \subseteq Ausgaenge
        BY DEF KonfigInv, KonfigTypeOK
    <2>2. CASE q = o
        BY <1>3, <1>4, <1>5, <2>1, <2>2 DEF p
    <2>3. CASE q # o
        <3>1. q \in objekte /\ q \in Ausgaenge /\ speicher'[q] = speicher[q]
            BY <1>4, <1>5, <2>1, <2>3
        <3>2. /\ speicher[q] = datei[q] /\ speicher[q] \in ausgang
              /\ prozess = "start" => ~latch[speicher[q]]
            BY <1>1, <3>1 DEF KonfigInv, LesenInv
        <3>3. speicher[q] \in Ports
            BY <1>1, <3>1, PortOfOutput
        <3> QED BY <1>3, <1>4, <2>1, <3>1, <3>2, <3>3
    <2> QED BY <2>2, <2>3
<1> QED BY <1>6, <1>7, <1>9 DEF KonfigInv

(* When all objects are made, memory is the file.                          *)
LEMMA LesenFertigKeeps == KonfigInv /\ LesenFertig => KonfigInv'
<1> SUFFICES ASSUME KonfigInv, LesenFertig PROVE KonfigInv'
    OBVIOUS
<1>1. /\ wsPc = "neu" /\ objekte = Ausgaenge
      /\ datei \in Einstellung /\ speicher \in Einstellung
    BY KonfigAssumption DEF KonfigInv, KonfigTypeOK, DateiInv, LesenFertig, Fehlend
<1>2. \A o \in Ausgaenge : speicher[o] = datei[o] /\ speicher[o] \in ausgang
    BY <1>1 DEF KonfigInv, LesenInv
<1>3. speicher = datei
    BY <1>1, <1>2, EinstellungExtensional DEF KonfigInv, LesenInv, Ausgaenge
<1>4. /\ wsPc' = "bereit" /\ prozess' = "laeuft"
      /\ UNCHANGED <<anfrage, naechstes, speicher, objekte, datei, ausgang, latch, verdorben>>
    BY DEF LesenFertig, befehl, pins
<1>5. KonfigTypeOK'
    BY <1>1, <1>4 DEF KonfigInv, KonfigTypeOK
<1>6. ProzessInv' /\ DateiInv' /\ BefehlInv' /\ LesenInv'
    BY <1>1, <1>4 DEF KonfigInv, ProzessInv, DateiInv, BefehlInv, LesenInv
<1>7. MemoryIsFile' /\ PortsAreOutputs' /\ FileIsWhole'
    BY <1>2, <1>3, <1>4 DEF KonfigInv, MemoryIsFile, PortsAreOutputs, FileIsWhole
<1> QED BY <1>5, <1>6, <1>7 DEF KonfigInv

(* Every step of the loop, of a command, of a kill or of a start.          *)
LEMMA KonfigStep == KonfigInv /\ [KonfigNext]_konfigVars => KonfigInv'
<1> SUFFICES ASSUME KonfigInv, [KonfigNext]_konfigVars PROVE KonfigInv'
    OBVIOUS
<1> USE DEF KonfigInv, KonfigTypeOK, ProzessInv, DateiInv, BefehlInv, Gesetzt, LesenInv,
            MemoryIsFile, PortsAreOutputs, FileIsWhole, befehl, pins
<1>1. CASE LoopWrite \/ LoopWriteDeleted
    <2>1. /\ prozess = "laeuft"
          /\ UNCHANGED <<prozess, wsPc, anfrage, naechstes, speicher, objekte, datei,
                         ausgang, verdorben>>
        BY <1>1 DEF LoopWrite, LoopWriteDeleted
    <2>2. latch' \in [Ports -> BOOLEAN]
        BY <1>1 DEF LoopWrite, LoopWriteDeleted
    <2> QED BY <2>1, <2>2
<1>2. CASE WriteConfig
    BY <1>2, FelderFive DEF WriteConfig
<1>3. CASE ReadConfig
    BY <1>3 DEF ReadConfig
<1>4. CASE SetFeld
    BY <1>4, SetFeldKeeps
<1>5. CASE Ausnahme
    BY <1>5 DEF Ausnahme, End
<1>6. CASE Truncate
    BY <1>6, TruncateKeeps
<1>7. CASE WriteFile
    BY <1>7, WriteFileKeeps
<1>8. CASE Lesen
    <2>1. datei \in Einstellung
        BY <1>8, KonfigAssumption DEF Lesen
    <2>2. /\ speicher' \in Einstellung
          /\ speicher'.zeiten = datei.zeiten /\ speicher'.mail = datei.mail
        BY <1>8, <2>1 DEF Lesen, Einstellung
    <2> QED BY <1>8, <2>2 DEF Lesen
<1>9. CASE LesenFehler
    BY <1>9 DEF LesenFehler
<1>10. CASE Loeschen
    BY <1>10 DEF Loeschen
<1>11. CASE Neu
    BY <1>11, NeuKeeps
<1>12. CASE LesenFertig
    BY <1>12, LesenFertigKeeps
<1>13. CASE Kill
    BY <1>13 DEF Kill, End
<1>14. CASE Start
    BY <1>14 DEF Start
<1>15. CASE UNCHANGED konfigVars
    BY <1>15 DEF konfigVars
<1> QED BY <1>1, <1>2, <1>3, <1>4, <1>5, <1>6, <1>7, <1>8, <1>9, <1>10, <1>11,
           <1>12, <1>13, <1>14, <1>15 DEF KonfigNext

LEMMA InitKonfig == KonfigInit => KonfigInv
<1> SUFFICES ASSUME KonfigInit PROVE KonfigInv
    OBVIOUS
<1>1. datei \in Einstellung /\ datei # Leer
    BY KonfigAssumption, EinstellungNotLeer DEF KonfigInit
<1>2. anfrage \in Anfragen /\ latch \in [Ports -> BOOLEAN]
    BY DEF KonfigInit, Anfragen
<1>3. naechstes \in 1 .. Len(Felder) + 1
    BY FelderFive DEF KonfigInit
<1>4. KonfigTypeOK
    BY <1>1, <1>2, <1>3 DEF KonfigInit, KonfigTypeOK
<1> QED BY <1>1, <1>4
    DEF KonfigInit, KonfigInv, ProzessInv, DateiInv, BefehlInv, LesenInv, MemoryIsFile,
        PortsAreOutputs, FileIsWhole

(* At every step of a command, a start or a kill, what memory, the file    *)
(* and the pins have of the request fits together.                         *)
THEOREM KonfigInvariant == KonfigSpec => []KonfigInv
<1> QED BY InitKonfig, KonfigStep, PTL DEF KonfigSpec

-----------------------------------------------------------------------------
(* Every field of the model stays in its range: in particular whoever runs *)
(* between two commands finds all the objects that Lesen deletes.          *)
THEOREM KonfigTypeCorrect == KonfigSpec => []KonfigTypeOK
<1>1. KonfigInv => KonfigTypeOK
    BY DEF KonfigInv
<1> QED BY <1>1, KonfigInvariant, PTL

(* The file holds one whole setting that a client sent, or nothing: a      *)
(* command that throws in the middle never mixes two.                      *)
THEOREM FileNeverMixes == KonfigSpec => []FileIsWhole
<1>1. KonfigInv => FileIsWhole
    BY DEF KonfigInv
<1> QED BY <1>1, KonfigInvariant, PTL

(* Between two commands a restart would change nothing, as long as the     *)
(* last write of the file was complete.                                    *)
THEOREM RestartChangesNothing == KonfigSpec => []MemoryIsFile
<1>1. KonfigInv => MemoryIsFile
    BY DEF KonfigInv
<1> QED BY <1>1, KonfigInvariant, PTL

(* Only a write of the file that failed, or was cut off by a kill, costs   *)
(* the settings.                                                           *)
THEOREM SettingsSurvive == KonfigSpec => []FileSurvives
<1>1. KonfigInv => FileSurvives
    BY DEF KonfigInv, ProzessInv, DateiInv, FileSurvives
<1> QED BY <1>1, KonfigInvariant, PTL

(* Between two commands the loop writes to pins in OUTPUT mode only.       *)
THEOREM OutputsReady == KonfigSpec => []PortsAreOutputs
<1>1. KonfigInv => PortsAreOutputs
    BY DEF KonfigInv
<1> QED BY <1>1, KonfigInvariant, PTL

(* Whatever levels a dead process has left, the loop of the next one       *)
(* begins with its outputs low: each object was made low, and nobody       *)
(* writes a pin before the loop.                                           *)
THEOREM LoopStartsLow == KonfigSpec => StartsLow
<1>1. KonfigInv /\ [KonfigNext]_konfigVars =>
          [prozess = "start" /\ prozess' = "laeuft"
               => \A o \in Ausgaenge : speicher[o] \notin Hoch]_konfigVars
    <2> SUFFICES ASSUME KonfigInv, KonfigNext, prozess = "start", prozess' = "laeuft"
                 PROVE  \A o \in Ausgaenge : speicher[o] \notin Hoch
        OBVIOUS
    <2>1. wsPc = "neu" /\ Fehlend = {}
        BY DEF KonfigNext, LoopWrite, LoopWriteDeleted, WriteConfig, ReadConfig, SetFeld,
               Ausnahme, End, Truncate, WriteFile, Lesen, LesenFehler, Loeschen, Neu,
               LesenFertig, Kill, Start
    <2>2. objekte = Ausgaenge
        BY <2>1 DEF KonfigInv, KonfigTypeOK, Fehlend
    <2> QED BY <2>1, <2>2 DEF KonfigInv, LesenInv, Hoch
<1> QED BY <1>1, KonfigInvariant, PTL DEF KonfigSpec, StartsLow

=============================================================================
