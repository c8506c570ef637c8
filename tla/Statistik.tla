------------------------------ MODULE Statistik ------------------------------
(***************************************************************************)
(* The records of production runs and refills: Statistik as a receiver of  *)
(* the message bus, its queue of the last maxSizeStatistikQueue records,   *)
(* the file it keeps of them and the mail it sends of each.  The plant is  *)
(* Meldungen: its steps take the place of the two state machines.  The     *)
(* process may be killed at any step; the files survive as they are then,  *)
(* and so do the mail programs it has started in the background.           *)
(*                                                                         *)
(* A message carries the second in which it was sent.  It is delivered in  *)
(* the same pass, so the model stamps it with the time of the pass.        *)
(***************************************************************************)
EXTENDS Meldungen

CONSTANTS
    maxSizeStatistikQueue,
    MaxZeit,        \* bound: no run or refill begins or ends from then on
    MaxLeser        \* bound: mail programs that have not read their file yet

ASSUME StatistikAssumption ==
    /\ maxSizeStatistikQueue \in Nat \ {0}
    /\ MaxZeit \in Nat \ {0}
    /\ MaxLeser \in Nat \ {0}

VARIABLES
    ioPc,           \* the loop: osmose, refill, notify, in writeFile (write),
                    \* in SendMail (mail);
                    \* the start: lesen, in writeFile (lesenWrite)
    zeit,           \* the second of this pass
    startRefill, startProductionOsmose,     \* 0: none
    queueStatistik, \* the records, oldest first
    datei,          \* the records in statistik.json
    zuLesen,        \* records of the file that readFile has not queued yet
    mailText,       \* osmose.mail holds the text of the last mail; else it
                    \* was truncated for one
    leser,          \* mail programs that have not read osmose.mail yet
    zugestellt,     \* history: the last mail that was started has been sent
    mailVerloren,   \* history: killed with osmose.mail truncated
    offen,          \* history: records made that SendMail has not seen
    laufSeit, refillSeit,   \* history: when the plant began the last one
    limit,          \* history: a time limit was sent in this pass
    neueste,        \* history: the newest records ever made, by all processes
    abgebrochen     \* history: killed while the file was being written

statistik == <<startRefill, startProductionOsmose>>
speicher  == <<queueStatistik, datei, zuLesen>>
history   == <<offen, laufSeit, refillSeit, limit>>
akten     == <<neueste, abgebrochen>>
post      == <<mailText, leser, zugestellt, mailVerloren>>
stand     == <<statistik, speicher, akten, post>>

allVars == <<anlage, messages, ioPc, zeit, history, stand>>

Zeit == 0 .. MaxZeit
Record == [typ : {"OsmoseLauf", "RefillLauf"}, start : Zeit, ende : Zeit]

\* An opened and truncated file: it does not parse, and gives no records.
Leer == <<>>

StatistikTypeOK ==
    /\ lauf \in BOOLEAN /\ refill \in BOOLEAN /\ gemeldet \in BOOLEAN
    /\ ioPc \in {"osmose", "refill", "notify", "write", "mail", "lesen", "lesenWrite"}
    /\ zeit \in 1 .. MaxZeit
    /\ startRefill \in Zeit /\ startProductionOsmose \in Zeit
    /\ queueStatistik \in Seq(Record) /\ Len(queueStatistik) <= maxSizeStatistikQueue
    /\ datei \in Seq(Record) /\ zuLesen \in Seq(Record) /\ neueste \in Seq(Record)
    /\ laufSeit \in Zeit /\ refillSeit \in Zeit /\ offen \in Nat
    /\ limit \in BOOLEAN /\ abgebrochen \in BOOLEAN
    /\ leser \in 0 .. MaxLeser
    /\ mailText \in BOOLEAN /\ zugestellt \in BOOLEAN /\ mailVerloren \in BOOLEAN

StatistikInit ==
    /\ Init
    /\ ioPc = "osmose" /\ zeit = 1
    /\ startRefill = 0 /\ startProductionOsmose = 0
    /\ queueStatistik = <<>> /\ datei = <<>> /\ zuLesen = <<>>
    /\ offen = 0 /\ laufSeit = 0 /\ refillSeit = 0 /\ limit = FALSE
    /\ neueste = <<>> /\ abgebrochen = FALSE
    /\ mailText = FALSE /\ leser = 0 /\ zugestellt = TRUE /\ mailVerloren = FALSE

-----------------------------------------------------------------------------
(* The plant.                                                              *)

Geschehen ==
    /\ laufSeit' = IF LaufBeginnt THEN zeit ELSE laufSeit
    /\ refillSeit' = IF RefillBeginnt THEN zeit ELSE refillSeit
    /\ limit' = (limit \/ RefillZeitlimit)
    /\ UNCHANGED offen

NichtsMelden == UNCHANGED <<anlage, messages>>

stateMachineOsmose ==
    /\ ioPc = "osmose" /\ ioPc' = "refill"
    /\ \/ zeit < MaxZeit /\ (LaufBeginnt \/ LaufEndet)
       \/ LaufAbgebrochen
       \/ NichtsMelden
    /\ Geschehen
    /\ UNCHANGED <<zeit, stand>>

stateMachineRefill ==
    /\ ioPc = "refill" /\ ioPc' = "notify"
    /\ \/ zeit < MaxZeit /\ (RefillBeginnt \/ RefillEndet \/ RefillZeitlimit)
       \/ RefillAbgebrochen
       \/ NichtsMelden
    /\ Geschehen
    /\ UNCHANGED <<zeit, stand>>

(* reset, refillOn, refillOff: between any two steps of the loop.          *)
command ==
    /\ ioPc \notin {"lesen", "lesenWrite"}
    /\ MeldungReset \/ RefillAbgebrochen
    /\ UNCHANGED <<ioPc, zeit, history, stand>>

-----------------------------------------------------------------------------
(* MessageBus::notify: the front message goes to every receiver, then it   *)
(* is taken off; what a receiver sends joins the queue behind it.          *)

Empfangen(command_) ==
    /\ ioPc = "notify" /\ messages # <<>>
    /\ Head(messages) = command_

(* setStartRefill, setStartProductionOsmose: a start that was never ended  *)
(* is overwritten.                                                         *)
\* Fault: such a start is kept.
KeepStart(start) == IF start = 0 THEN zeit ELSE start
SetStart(start) == zeit

NotifyStart ==
    /\ \/ /\ Empfangen("setStartRefill")
          /\ startRefill' = SetStart(startRefill)
          /\ UNCHANGED startProductionOsmose
       \/ /\ Empfangen("setStartProductionOsmose")
          /\ startProductionOsmose' = SetStart(startProductionOsmose)
          /\ UNCHANGED startRefill
    /\ messages' = Tail(messages)
    /\ UNCHANGED <<anlage, ioPc, zeit, speicher, history, akten, post>>

(* AddStatistikToQueue: the oldest record makes room.                      *)
\* Faults: the queue has no limit; a full queue drops the new record.
PushAlways(queue, record) == Append(queue, record)
PushIfRoom(queue, record) ==
    IF Len(queue) < maxSizeStatistikQueue THEN Append(queue, record) ELSE queue
Push(queue, record) ==
    IF Len(queue) < maxSizeStatistikQueue THEN Append(queue, record)
                                          ELSE Append(Tail(queue), record)

Newest(records) ==
    LET surplus == Len(records) - maxSizeStatistikQueue
    IN IF surplus > 0 THEN SubSeq(records, surplus + 1, Len(records)) ELSE records

(* UpdateRefill, UpdateOsmose: queue the record and begin to write the     *)
(* file, which truncates it.                                               *)
Update(typ, start) ==
    LET record == [typ |-> typ, start |-> start, ende |-> zeit]
    IN /\ queueStatistik' = Push(queueStatistik, record)
       /\ neueste' = Newest(Append(neueste, record))
       /\ offen' = offen + 1
       /\ datei' = Leer

NotifyEnd ==
    /\ \/ /\ Empfangen("setEndRefill")
          /\ Update("RefillLauf", startRefill)
          /\ startRefill' = 0 /\ UNCHANGED startProductionOsmose
       \/ /\ Empfangen("setEndProductionOsmose")
          /\ Update("OsmoseLauf", startProductionOsmose)
          /\ startProductionOsmose' = 0 /\ UNCHANGED startRefill
    /\ ioPc' = "write"
    /\ UNCHANGED <<anlage, messages, zeit, zuLesen, laufSeit, refillSeit, limit,
                   abgebrochen, post>>

\* Fault: the mail is forgotten.
SendNoMail(queue) == queue
SendMail(queue) == Append(queue, "SendMail")

(* The file is complete; the mail message is sent and the end taken off.   *)
Written ==
    /\ ioPc = "write" /\ ioPc' = "notify"
    /\ datei' = queueStatistik
    /\ messages' = SendMail(Tail(messages))
    /\ UNCHANGED <<anlage, zeit, statistik, queueStatistik, zuLesen, history, akten,
                   post>>

(* mail::onNotify and SendMail, with the mailer active: fopen truncates    *)
(* osmose.mail.                                                            *)
NotifyMail ==
    /\ Empfangen("SendMail") /\ leser < MaxLeser
    /\ ioPc' = "mail" /\ mailText' = FALSE
    /\ offen' = offen - 1
    /\ UNCHANGED <<anlage, messages, zeit, statistik, speicher, laufSeit, refillSeit,
                   limit, akten, leser, zugestellt, mailVerloren>>

(* fclose, then "mail ... < osmose.mail &": the shell opens the file in    *)
(* the background.                                                         *)
\* Fault: the program is started while the text is still in the buffer.
MailSpaeterSchreiben == UNCHANGED mailText
MailSchreiben == mailText' = TRUE

MailGestartet ==
    /\ ioPc = "mail" /\ ioPc' = "notify"
    /\ MailSchreiben
    /\ leser' = leser + 1
    /\ zugestellt' = FALSE /\ mailVerloren' = FALSE
    /\ messages' = Tail(messages)
    /\ UNCHANGED <<anlage, zeit, statistik, speicher, history, akten>>

(* A mail program reads the file, whoever's text is in it by now.          *)
MailProgramm ==
    /\ leser > 0 /\ leser' = leser - 1
    /\ zugestellt' = (zugestellt \/ mailText)
    /\ UNCHANGED <<anlage, messages, ioPc, zeit, statistik, speicher, history, akten,
                   mailText, mailVerloren>>

(* The queue is empty; the next pass is at the same second or a later one. *)
NotifyEmpty ==
    /\ ioPc = "notify" /\ messages = <<>>
    /\ ioPc' = "osmose"
    /\ zeit' \in {zeit, zeit + 1} \cap (1 .. MaxZeit)
    /\ limit' = FALSE
    /\ UNCHANGED <<anlage, messages, offen, laufSeit, refillSeit, stand>>

-----------------------------------------------------------------------------
(* The process is killed.  The next one starts with the file: readFile     *)
(* queues its records one by one, and AddStatistikToQueue writes the file  *)
(* each time.                                                              *)

InArbeit == ioPc \in {"write", "lesenWrite"} \/ (ioPc = "lesen" /\ zuLesen # <<>>)

Kill ==
    /\ ioPc' = "lesen"
    /\ zuLesen' = datei
    /\ queueStatistik' = <<>>
    /\ startRefill' = 0 /\ startProductionOsmose' = 0
    /\ lauf' = FALSE /\ refill' = FALSE /\ gemeldet' = FALSE
    /\ messages' = <<>>
    /\ offen' = 0 /\ limit' = FALSE
    /\ abgebrochen' = (abgebrochen \/ InArbeit)
    /\ mailVerloren' = (mailVerloren \/ ioPc = "mail")
    /\ UNCHANGED <<zeit, datei, laufSeit, refillSeit, neueste, mailText, leser,
                   zugestellt>>

ReadRecord ==
    /\ ioPc = "lesen" /\ zuLesen # <<>>
    /\ ioPc' = "lesenWrite"
    /\ queueStatistik' = Push(queueStatistik, Head(zuLesen))
    /\ zuLesen' = Tail(zuLesen)
    /\ datei' = Leer
    /\ UNCHANGED <<anlage, messages, zeit, statistik, history, akten, post>>

ReadWritten ==
    /\ ioPc = "lesenWrite" /\ ioPc' = "lesen"
    /\ datei' = queueStatistik
    /\ UNCHANGED <<anlage, messages, zeit, statistik, queueStatistik, zuLesen,
                   history, akten, post>>

ReadDone ==
    /\ ioPc = "lesen" /\ zuLesen = <<>>
    /\ ioPc' = "osmose"
    /\ UNCHANGED <<anlage, messages, zeit, history, stand>>

-----------------------------------------------------------------------------
StatistikNext ==
    \/ stateMachineOsmose \/ stateMachineRefill \/ command
    \/ NotifyStart \/ NotifyEnd \/ Written \/ NotifyMail \/ MailGestartet
    \/ NotifyEmpty \/ MailProgramm
    \/ Kill \/ ReadRecord \/ ReadWritten \/ ReadDone

StatistikSpec == StatistikInit /\ [][StatistikNext]_allVars

-----------------------------------------------------------------------------
(* Properties.                                                             *)

(* A refill enters the statistics with its own start, whatever refills     *)
(* were broken off, and whatever process was killed, before it.            *)
RefillRecordsTrue ==
    [][NotifyEnd /\ Empfangen("setEndRefill") => startRefill = refillSeit]_allVars

(* A production run enters the statistics with its own start, unless a     *)
(* refill that hit its time limit is taken for a run in the same pass.     *)
OsmoseRecordsTrue ==
    [][NotifyEnd /\ Empfangen("setEndProductionOsmose") =>
           startProductionOsmose = laufSeit \/ limit]_allVars

(* Whatever the number of records and of restarts, the loop goes on with   *)
(* the newest maxSizeStatistikQueue records that were ever made, unless a  *)
(* process was killed in the middle of writing the file.                   *)
NothingForgotten == ioPc = "osmose" /\ ~abgebrochen => queueStatistik = neueste

(* When the loop goes on, SendMail has been called for every record of     *)
(* this process.                                                           *)
EveryRecordMailed == ioPc = "osmose" => offen = 0

(* The mails of one pass overwrite one another's file, so that one of them *)
(* may be sent twice and another never.  The last one is always sent: when *)
(* all mail programs have read their file, one has found its text there,   *)
(* unless the process was killed while it wrote the file of the next.      *)
LastMailSent == leser = 0 /\ ioPc # "mail" /\ ~mailVerloren => zugestellt

=============================================================================
