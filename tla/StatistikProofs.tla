-------------------------- MODULE StatistikProofs --------------------------
(***************************************************************************)
(* Theorems about Statistik, for every size of the queue, every number of  *)
(* mail programs and every length of time: no record of a complete file is *)
(* lost over a restart, none is given the start of another run, and none   *)
(* goes without its mail.                                                  *)
(***************************************************************************)
EXTENDS Statistik, SequenceTheorems, TLAPS

Nachrichten == {"setStartProductionOsmose", "setEndProductionOsmose",
                "setStartRefill", "setEndRefill", "SendMail"}

(* The messages whose receivers have not run yet: the front one is taken   *)
(* off only after that.                                                    *)
Ausstehend == IF ioPc \in {"write", "mail"} THEN Tail(messages) ELSE messages

Enthaelt(m, nachricht) == \E i \in 1 .. Len(m) : m[i] = nachricht

(* The mails in a queue of at most two messages.                           *)
IstMail(nachricht) == IF nachricht = "SendMail" THEN 1 ELSE 0
Mails(m) == (IF Len(m) > 0 THEN IstMail(m[1]) ELSE 0) + (IF Len(m) > 1 THEN IstMail(m[2]) ELSE 0)

(* The message of the refill is the last one of its pass.                  *)
RefillNachricht == {"setStartRefill", "setEndRefill"}
RefillZuletzt(m) == Len(m) > 1 /\ m[1] \in RefillNachricht => m[2] = "SendMail"

-----------------------------------------------------------------------------
(* The inductive invariant.                                                *)

(* Each state machine sends at most one message a pass; a mail takes the   *)
(* place of the end that caused it.                                        *)
MaxNachrichten == CASE ioPc \in {"osmose", "lesen", "lesenWrite"} -> 0
                    [] ioPc = "refill" -> 1
                    [] OTHER -> 2

BusInv ==
    /\ messages \in Seq(Nachrichten) /\ Len(messages) <= MaxNachrichten
    /\ ioPc \in {"write", "mail"} => messages # <<>>
    /\ RefillZuletzt(messages)
    /\ ioPc = "refill" => \A n \in RefillNachricht : ~Enthaelt(messages, n)
    /\ offen = Mails(Ausstehend) + (IF ioPc = "write" THEN 1 ELSE 0)

(* The start of a run, or of a refill, is recorded or on its way.          *)
Unterwegs(nachricht) == Enthaelt(Ausstehend, nachricht)

LaufInv ==
    /\ Unterwegs("setStartProductionOsmose") => lauf /\ laufSeit = zeit
    /\ Unterwegs("setEndProductionOsmose") =>
           ~lauf /\ (startProductionOsmose = laufSeit \/ limit)
    /\ lauf => \/ Unterwegs("setStartProductionOsmose")
               \/ startProductionOsmose = laufSeit
    /\ Len(Ausstehend) > 1 /\ Ausstehend[2] = "setEndProductionOsmose" => limit

RefillInv ==
    /\ Unterwegs("setStartRefill") => refillSeit = zeit
    /\ Unterwegs("setEndRefill") => ~refill /\ startRefill = refillSeit
    /\ refill => Unterwegs("setStartRefill") \/ startRefill = refillSeit

(* Unless a write was cut off, the newest records are in the queue and,    *)
(* when it is not being written, in the file; while the file is read back, *)
(* they are in the queue and in what is still to be read.                  *)
ArchivInv ==
    ~abgebrochen =>
        IF ioPc \in {"lesen", "lesenWrite"}
        THEN /\ queueStatistik \o zuLesen = neueste
             /\ Len(queueStatistik) + Len(zuLesen) <= maxSizeStatistikQueue
             /\ ioPc = "lesen" /\ zuLesen = <<>> => datei = queueStatistik
        ELSE /\ queueStatistik = neueste
             /\ ioPc # "write" => datei = queueStatistik

(* A mail that was not sent is in its file, and a program will read it.    *)
MailInv ==
    /\ ioPc = "mail" => leser < MaxLeser
    /\ ioPc # "mail" /\ ~mailVerloren => zugestellt \/ (mailText /\ leser > 0)

StatistikInv ==
    /\ StatistikTypeOK
    /\ BusInv /\ LaufInv /\ RefillInv /\ ArchivInv /\ MailInv

-----------------------------------------------------------------------------
(* Queues of messages and of records.                                      *)

(* A message that joins at most one other.                                 *)
LEMMA AppendNachricht ==
    ASSUME NEW m \in Seq(Nachrichten), Len(m) <= 1, NEW c \in Nachrichten
    PROVE  /\ Append(m, c) \in Seq(Nachrichten) /\ Len(Append(m, c)) = Len(m) + 1
           /\ \A n : Enthaelt(Append(m, c), n) <=> Enthaelt(m, n) \/ n = c
           /\ Mails(Append(m, c)) = Mails(m) + IstMail(c)
           /\ c = "SendMail" \/ (\A n \in RefillNachricht : ~Enthaelt(m, n))
                  => RefillZuletzt(Append(m, c))
<1>1. /\ Append(m, c) \in Seq(Nachrichten) /\ Len(Append(m, c)) = Len(m) + 1
      /\ \A i \in 1 .. Len(m) : Append(m, c)[i] = m[i]
      /\ Append(m, c)[Len(m) + 1] = c
      /\ Len(m) \in Nat
    BY AppendProperties, LenProperties
<1> DEFINE a == Append(m, c)
<1>2. a \in Seq(Nachrichten) /\ Len(a) = Len(m) + 1 /\ a[Len(m) + 1] = c
      /\ \A i \in 1 .. Len(m) : a[i] = m[i]
    BY <1>1
<1> HIDE DEF a
<1>3. \A n : Enthaelt(a, n) <=> Enthaelt(m, n) \/ n = c
    BY <1>1, <1>2 DEF Enthaelt
<1>4. Mails(a) = Mails(m) + IstMail(c)
    BY <1>1, <1>2 DEF Mails, IstMail
<1>5. c = "SendMail" \/ (\A n \in RefillNachricht : ~Enthaelt(m, n)) => RefillZuletzt(a)
    BY <1>1, <1>2 DEF RefillZuletzt, Enthaelt
<1> QED BY <1>2, <1>3, <1>4, <1>5 DEF a

(* The front message is taken off.                                         *)
LEMMA TailNachricht ==
    ASSUME NEW m \in Seq(Nachrichten), m # <<>>, Len(m) <= 2
    PROVE  /\ Tail(m) \in Seq(Nachrichten) /\ Len(Tail(m)) = Len(m) - 1
           /\ Head(m) \in Nachrichten
           /\ \A n : Enthaelt(m, n) <=> Enthaelt(Tail(m), n) \/ n = Head(m)
           /\ Mails(m) = Mails(Tail(m)) + IstMail(Head(m))
           /\ RefillZuletzt(Tail(m))
           /\ RefillZuletzt(m) /\ Head(m) \in RefillNachricht =>
                  \A n \in Nachrichten : Enthaelt(Tail(m), n) => n = "SendMail"
<1>1. /\ Tail(m) \in Seq(Nachrichten) /\ Len(Tail(m)) = Len(m) - 1
      /\ \A i \in 1 .. Len(Tail(m)) : Tail(m)[i] = m[i + 1]
      /\ Head(m) \in Nachrichten /\ Head(m) = m[1]
      /\ Len(m) \in 1 .. 2
    <2>1. Len(m) \in Nat \ {0}
        BY EmptySeq
    <2>2. /\ Tail(m) \in Seq(Nachrichten) /\ Len(Tail(m)) = Len(m) - 1
          /\ \A i \in 1 .. Len(Tail(m)) : Tail(m)[i] = m[i + 1]
          /\ Head(m) \in Nachrichten
        BY HeadTailProperties
    <2>3. Head(m) = m[1]
        OBVIOUS
    <2> QED BY <2>1, <2>2, <2>3
<1> DEFINE t == Tail(m)
           h == Head(m)
<1>2. /\ t \in Seq(Nachrichten) /\ Len(t) = Len(m) - 1
      /\ \A i \in 1 .. Len(t) : t[i] = m[i + 1]
      /\ h \in Nachrichten /\ h = m[1]
    BY <1>1
<1> HIDE DEF t, h
<1>3. \A n : Enthaelt(m, n) <=> Enthaelt(t, n) \/ n = h
    <2>1. CASE Len(m) = 1
        BY <1>2, <2>1 DEF Enthaelt
    <2>2. CASE Len(m) = 2
        <3>1. t[1] = m[2] /\ Len(t) = 1
            BY <1>2, <2>2
        <3> QED BY <1>2, <2>2, <3>1 DEF Enthaelt
    <2> QED BY <1>1, <2>1, <2>2
<1>4. Mails(m) = Mails(t) + IstMail(h)
    BY <1>1, <1>2 DEF Mails, IstMail
<1>5. RefillZuletzt(t)
    BY <1>1, <1>2 DEF RefillZuletzt
<1>6. RefillZuletzt(m) /\ h \in RefillNachricht =>
          \A n \in Nachrichten : Enthaelt(t, n) => n = "SendMail"
    BY <1>1, <1>2 DEF RefillZuletzt, Enthaelt
<1> QED BY <1>2, <1>3, <1>4, <1>5, <1>6 DEF t, h

LEMMA KeineNachricht ==
    /\ <<>> \in Seq(Nachrichten) /\ Len(<<>>) = 0 /\ Mails(<<>>) = 0
    /\ \A n : ~Enthaelt(<<>>, n)
    /\ RefillZuletzt(<<>>)
    /\ \A m \in Seq(Nachrichten) : Len(m) <= 0 => m = <<>>
BY EmptySeq, LenProperties DEF Mails, Enthaelt, RefillZuletzt

(* A record that is pushed on a queue never makes it longer than its       *)
(* limit, and leaves the newest records there are.                         *)
LEMMA PushType ==
    ASSUME NEW q \in Seq(Record), Len(q) <= maxSizeStatistikQueue, NEW r \in Record
    PROVE  /\ Push(q, r) \in Seq(Record) /\ Len(Push(q, r)) <= maxSizeStatistikQueue
           /\ Push(q, r) # <<>>
<1>1. maxSizeStatistikQueue \in Nat \ {0} /\ Len(q) \in Nat
    BY StatistikAssumption, LenProperties
<1>2. CASE Len(q) < maxSizeStatistikQueue
    BY <1>1, <1>2, AppendProperties DEF Push
<1>3. CASE ~(Len(q) < maxSizeStatistikQueue)
    <2>1. q # <<>>
        BY <1>1, <1>3, EmptySeq
    <2>2. Tail(q) \in Seq(Record) /\ Len(Tail(q)) = Len(q) - 1
        BY <2>1, HeadTailProperties
    <2>3. /\ Append(Tail(q), r) \in Seq(Record) /\ Append(Tail(q), r) # <<>>
          /\ Len(Append(Tail(q), r)) = Len(Tail(q)) + 1
        BY <2>2, AppendProperties
    <2> QED BY <1>1, <1>3, <2>2, <2>3 DEF Push
<1> QED BY <1>2, <1>3

LEMMA PushIsNewest ==
    ASSUME NEW q \in Seq(Record), Len(q) <= maxSizeStatistikQueue, NEW r \in Record
    PROVE  Push(q, r) = Newest(Append(q, r))
<1>1. maxSizeStatistikQueue \in Nat \ {0} /\ Len(q) \in Nat
    BY StatistikAssumption, LenProperties
<1>2. /\ Append(q, r) \in Seq(Record) /\ Append(q, r) # <<>>
      /\ Len(Append(q, r)) = Len(q) + 1
    BY AppendProperties
<1>3. CASE Len(q) < maxSizeStatistikQueue
    BY <1>1, <1>2, <1>3 DEF Push, Newest
<1>4. CASE Len(q) = maxSizeStatistikQueue
    <2>1. q # <<>>
        BY <1>1, <1>4, EmptySeq
    <2>2. Append(Tail(q), r) = Tail(Append(q, r))
        BY <2>1, HeadTailAppend
    <2>3. Tail(Append(q, r)) = SubSeq(Append(q, r), 2, Len(Append(q, r)))
        BY <1>2, TailIsSubSeq
    <2>4. Newest(Append(q, r)) = SubSeq(Append(q, r), 2, Len(Append(q, r)))
        BY <1>1, <1>2, <1>4 DEF Newest
    <2> QED BY <1>1, <1>4, <2>2, <2>3, <2>4 DEF Push
<1> QED BY <1>1, <1>3, <1>4

LEMMA NewestType ==
    ASSUME NEW a \in Seq(Record)
    PROVE  Newest(a) \in Seq(Record)
<1>1. maxSizeStatistikQueue \in Nat /\ Len(a) \in Nat /\ a \in [1 .. Len(a) -> Record]
    BY StatistikAssumption, LenProperties
<1> DEFINE k == Len(a) - maxSizeStatistikQueue
<1>2. CASE k > 0
    <2>1. \A i \in k + 1 .. Len(a) : a[i] \in Record
        BY <1>1, <1>2
    <2>2. SubSeq(a, k + 1, Len(a)) \in Seq(Record)
        BY <1>1, <2>1, SubSeqProperties
    <2> QED BY <1>2, <2>2 DEF Newest
<1>3. CASE ~(k > 0)
    BY <1>3 DEF Newest
<1> QED BY <1>2, <1>3

-----------------------------------------------------------------------------
(* The bus.                                                                *)

(* What a step of the plant may send.                                      *)
Sendet(kommandos) ==
    \/ UNCHANGED messages
    \/ \E c \in kommandos : messages' = Append(messages, c)

LEMMA OsmoseSendet ==
    stateMachineOsmose =>
        Sendet({"setStartProductionOsmose", "setEndProductionOsmose"})
BY DEF stateMachineOsmose, LaufBeginnt, LaufEndet, LaufAbgebrochen, NichtsMelden, Melden,
       Sendet

LEMMA RefillSendet ==
    stateMachineRefill =>
        Sendet({"setStartRefill", "setEndRefill", "setEndProductionOsmose"})
BY DEF stateMachineRefill, RefillBeginnt, RefillEndet, RefillZeitlimit, RefillAbgebrochen,
       NichtsMelden, Melden, Sendet

LEMMA BusStep == StatistikInv /\ [StatistikNext]_allVars => BusInv'
<1> SUFFICES ASSUME BusInv, offen \in Nat, [StatistikNext]_allVars PROVE BusInv'
    BY DEF StatistikInv, StatistikTypeOK
<1>a. /\ messages \in Seq(Nachrichten) /\ Len(messages) <= 2 /\ RefillZuletzt(messages)
      /\ ioPc = "refill" => Len(messages) <= 1
      /\ ioPc = "osmose" => messages = <<>>
    BY KeineNachricht DEF BusInv, MaxNachrichten
<1>1. CASE stateMachineOsmose
    <2>1. ioPc = "osmose" /\ ioPc' = "refill" /\ offen' = offen /\ messages = <<>>
        BY <1>1, <1>a DEF stateMachineOsmose, Geschehen
    <2>2. CASE UNCHANGED messages
        BY <2>1, <2>2, KeineNachricht DEF BusInv, MaxNachrichten, Ausstehend
    <2>3. ASSUME NEW c \in {"setStartProductionOsmose", "setEndProductionOsmose"},
                 messages' = Append(messages, c)
          PROVE  BusInv'
        <3>1. c \in Nachrichten /\ IstMail(c) = 0 /\ c \notin RefillNachricht /\ c # "SendMail"
            BY DEF Nachrichten, IstMail, RefillNachricht
        <3> DEFINE a == Append(messages, c)
        <3>2. /\ a \in Seq(Nachrichten) /\ Len(a) = Len(messages) + 1
              /\ Mails(a) = Mails(messages) + IstMail(c)
              /\ \A n : Enthaelt(a, n) <=> Enthaelt(messages, n) \/ n = c
              /\ (\A n \in RefillNachricht : ~Enthaelt(messages, n)) => RefillZuletzt(a)
            <4>1. messages \in Seq(Nachrichten) /\ Len(messages) <= 1
                BY <2>1, KeineNachricht
            <4> QED BY <3>1, <4>1, AppendNachricht
        <3>3. messages' = a /\ MaxNachrichten' = 1 /\ Ausstehend' = messages'
            BY <2>1, <2>3 DEF MaxNachrichten, Ausstehend
        <3> HIDE DEF a
        <3>4. offen' = Mails(a) + 0 /\ Len(a) = 1
            <4>1. offen = Mails(messages) + 0
                BY <2>1 DEF BusInv, Ausstehend
            <4>2. Mails(messages) = 0 /\ Len(messages) = 0
                BY <2>1, KeineNachricht
            <4> QED BY <2>1, <3>1, <3>2, <4>1, <4>2
        <3>5. \A n : ~Enthaelt(messages, n)
            BY <2>1, KeineNachricht
        <3>6. RefillZuletzt(a) /\ \A n \in RefillNachricht : ~Enthaelt(a, n)
            BY <3>1, <3>2, <3>5
        <3>7. (\A n \in RefillNachricht : ~Enthaelt(messages, n))'
            BY <3>3, <3>6 DEF Enthaelt
        <3>8. /\ messages' \in Seq(Nachrichten) /\ Len(messages') <= MaxNachrichten'
              /\ RefillZuletzt(messages') /\ ioPc' = "refill"
              /\ offen' = Mails(Ausstehend') + 0
            BY <2>1, <3>2, <3>3, <3>4, <3>6
        <3> QED BY <3>7, <3>8 DEF BusInv
    <2> QED BY <1>1, <2>2, <2>3, OsmoseSendet DEF Sendet
<1>2. CASE stateMachineRefill
    <2>1. ioPc = "refill" /\ ioPc' = "notify" /\ offen' = offen /\ Len(messages) <= 1
        BY <1>2, <1>a DEF stateMachineRefill, Geschehen
    <2>2. CASE UNCHANGED messages
        BY <2>1, <2>2 DEF BusInv, MaxNachrichten, Ausstehend
    <2>3. ASSUME NEW c \in {"setStartRefill", "setEndRefill", "setEndProductionOsmose"},
                 messages' = Append(messages, c)
          PROVE  BusInv'
        <3>1. c \in Nachrichten /\ IstMail(c) = 0
            BY DEF Nachrichten, IstMail
        <3> DEFINE a == Append(messages, c)
        <3>2. /\ a \in Seq(Nachrichten) /\ Len(a) = Len(messages) + 1
              /\ Mails(a) = Mails(messages) + IstMail(c)
              /\ (\A n \in RefillNachricht : ~Enthaelt(messages, n)) => RefillZuletzt(a)
            BY <1>a, <2>1, <3>1, AppendNachricht
        <3>3. messages' = a
            BY <2>3
        <3> HIDE DEF a
        <3>4. /\ offen = Mails(messages)
              /\ \A n \in RefillNachricht : ~Enthaelt(messages, n)
            BY <2>1 DEF BusInv, Ausstehend, Mails, IstMail
        <3> QED BY <2>1, <3>1, <3>2, <3>3, <3>4, LenProperties
                DEF BusInv, MaxNachrichten, Ausstehend
    <2> QED BY <1>2, <2>2, <2>3, RefillSendet DEF Sendet
<1>3. CASE command
    <2>1. UNCHANGED <<messages, ioPc, offen>>
        BY <1>3 DEF command, MeldungReset, RefillAbgebrochen, history
    <2> QED BY <2>1 DEF BusInv, MaxNachrichten, Ausstehend
<1>4. CASE NotifyStart
    <2>1. /\ ioPc = "notify" /\ messages # <<>> /\ Head(messages) # "SendMail"
          /\ messages' = Tail(messages) /\ UNCHANGED <<ioPc, offen>>
        BY <1>4 DEF NotifyStart, Empfangen, history
    <2> DEFINE t == Tail(messages)
    <2>2. /\ t \in Seq(Nachrichten) /\ Len(t) <= 2
          /\ RefillZuletzt(t) /\ Mails(messages) = Mails(t) + IstMail(Head(messages))
        BY <1>a, <2>1, TailNachricht
    <2>3. messages' = t /\ IstMail(Head(messages)) = 0 /\ Mails(t) \in Nat
        BY <2>1 DEF IstMail, Mails
    <2>4. /\ MaxNachrichten' = 2 /\ Ausstehend' = messages'
          /\ offen = Mails(messages) + 0
        BY <2>1 DEF BusInv, MaxNachrichten, Ausstehend
    <2> HIDE DEF t
    <2>5. offen' = Mails(t) + 0 /\ ioPc' = "notify"
        BY <2>1, <2>2, <2>3, <2>4
    <2> QED BY <2>2, <2>3, <2>4, <2>5 DEF BusInv
<1>5. CASE NotifyEnd
    <2>1. /\ ioPc = "notify" /\ messages # <<>> /\ Head(messages) # "SendMail"
          /\ ioPc' = "write" /\ UNCHANGED messages /\ offen' = offen + 1
        BY <1>5 DEF NotifyEnd, Empfangen, Update
    <2>2. /\ Mails(messages) = Mails(Tail(messages)) + IstMail(Head(messages))
          /\ IstMail(Head(messages)) = 0 /\ Mails(Tail(messages)) \in Nat
        BY <1>a, <2>1, TailNachricht DEF IstMail, Mails
    <2>3. Ausstehend = messages /\ Ausstehend' = Tail(messages)
        BY <2>1 DEF Ausstehend
    <2>4. offen' = Mails(Ausstehend') + 1
        BY <2>1, <2>2, <2>3 DEF BusInv
    <2>5. Ausstehend' = Tail(messages') /\ MaxNachrichten' = 2
        BY <2>1 DEF Ausstehend, MaxNachrichten
    <2> QED BY <1>a, <2>1, <2>4, <2>5 DEF BusInv
<1>6. CASE Written
    <2>1. /\ ioPc = "write" /\ messages # <<>> /\ ioPc' = "notify"
          /\ messages' = Append(Tail(messages), "SendMail") /\ UNCHANGED offen
        BY <1>6 DEF Written, SendMail, history, BusInv
    <2> DEFINE t == Tail(messages)
               a == Append(t, "SendMail")
    <2>2. t \in Seq(Nachrichten) /\ Len(t) <= 1
        BY <1>a, <2>1, TailNachricht
    <2>3. "SendMail" \in Nachrichten /\ IstMail("SendMail") = 1
        BY DEF Nachrichten, IstMail
    <2>4. offen = Mails(t) + 1 /\ messages' = a
        BY <2>1 DEF BusInv, Ausstehend
    <2> HIDE DEF t
    <2>5. /\ a \in Seq(Nachrichten) /\ Len(a) = Len(t) + 1
          /\ RefillZuletzt(a) /\ Mails(a) = Mails(t) + IstMail("SendMail")
        BY <2>2, <2>3, AppendNachricht
    <2>6. MaxNachrichten' = 2 /\ Ausstehend' = messages'
        BY <2>1 DEF MaxNachrichten, Ausstehend
    <2> HIDE DEF a
    <2>7. Len(a) <= 2 /\ offen' = Mails(a) + 0
        BY <2>1, <2>2, <2>3, <2>4, <2>5, LenProperties DEF Mails, IstMail
    <2> QED BY <2>1, <2>4, <2>5, <2>6, <2>7 DEF BusInv
<1>7. CASE NotifyMail
    <2>1. /\ ioPc = "notify" /\ messages # <<>> /\ Head(messages) = "SendMail"
          /\ ioPc' = "mail" /\ UNCHANGED messages /\ offen' = offen - 1
        BY <1>7 DEF NotifyMail, Empfangen
    <2>2. /\ Mails(messages) = Mails(Tail(messages)) + IstMail(Head(messages))
          /\ IstMail(Head(messages)) = 1 /\ Mails(Tail(messages)) \in Nat
        BY <1>a, <2>1, TailNachricht DEF IstMail, Mails
    <2>3. Ausstehend = messages /\ Ausstehend' = Tail(messages)
        BY <2>1 DEF Ausstehend
    <2>4. offen' = Mails(Ausstehend')
        BY <2>1, <2>2, <2>3 DEF BusInv
    <2>5. MaxNachrichten' = 2
        BY <2>1 DEF MaxNachrichten
    <2>6. Mails(Ausstehend') \in Nat
        BY <2>2, <2>3
    <2> QED BY <1>a, <2>1, <2>4, <2>5, <2>6 DEF BusInv
<1>8. CASE MailGestartet
    <2>1. /\ ioPc = "mail" /\ messages # <<>> /\ ioPc' = "notify"
          /\ messages' = Tail(messages) /\ UNCHANGED offen
        BY <1>8 DEF MailGestartet, history, BusInv
    <2> DEFINE t == Tail(messages)
    <2>2. t \in Seq(Nachrichten) /\ Len(t) <= 2 /\ RefillZuletzt(t)
        BY <1>a, <2>1, TailNachricht
    <2>3. messages' = t /\ offen = Mails(t) + 0
        BY <2>1 DEF BusInv, Ausstehend
    <2> HIDE DEF t
    <2> QED BY <2>1, <2>2, <2>3 DEF BusInv, MaxNachrichten, Ausstehend
<1>9. CASE NotifyEmpty \/ Kill \/ ReadDone
    <2>1. messages' = <<>> /\ ioPc' \in {"osmose", "lesen"}
        BY <1>9, KeineNachricht DEF NotifyEmpty, Kill, ReadDone, BusInv, MaxNachrichten
    <2>2. offen' = 0
        BY <1>9, KeineNachricht
        DEF NotifyEmpty, Kill, ReadDone, history, BusInv, Ausstehend, MaxNachrichten
    <2> QED BY <2>1, <2>2, KeineNachricht DEF BusInv, MaxNachrichten, Ausstehend
<1>10. CASE ReadRecord \/ ReadWritten
    BY <1>10 DEF ReadRecord, ReadWritten, history, BusInv, MaxNachrichten, Ausstehend
<1>11. CASE MailProgramm
    BY <1>11 DEF MailProgramm, history, BusInv, MaxNachrichten, Ausstehend
<1>12. CASE UNCHANGED allVars
    BY <1>12 DEF allVars, history, BusInv, MaxNachrichten, Ausstehend
<1> QED BY <1>1, <1>2, <1>3, <1>4, <1>5, <1>6, <1>7, <1>8, <1>9, <1>10, <1>11, <1>12
        DEF StatistikNext

-----------------------------------------------------------------------------
(* What is on its way after a step.                                        *)

LEMMA Gesendet ==
    ASSUME BusInv, ioPc \in {"osmose", "refill"}, ioPc' \in {"refill", "notify"},
           NEW c \in Nachrichten, messages' = Append(messages, c)
    PROVE  /\ \A n : Unterwegs(n)' <=> Unterwegs(n) \/ n = c
           /\ Len(Ausstehend') > 1 => Ausstehend'[2] = c
<1>1. messages \in Seq(Nachrichten) /\ Len(messages) <= 1
    BY DEF BusInv, MaxNachrichten
<1>2. Ausstehend = messages /\ Ausstehend' = messages'
    BY DEF Ausstehend
<1> DEFINE a == Append(messages, c)
<1>3. \A n : Enthaelt(a, n) <=> Enthaelt(messages, n) \/ n = c
    BY <1>1, AppendNachricht
<1>4. Len(a) = Len(messages) + 1 /\ a[Len(messages) + 1] = c /\ Len(messages) \in Nat
    BY <1>1, AppendProperties, LenProperties
<1>5. messages' = a
    OBVIOUS
<1> HIDE DEF a
<1> QED BY <1>1, <1>2, <1>3, <1>4, <1>5 DEF Unterwegs, Enthaelt

LEMMA Zugestellt ==
    ASSUME BusInv, ioPc = "notify", messages # <<>>,
           \/ ioPc' = "notify" /\ messages' = Tail(messages)
           \/ ioPc' \in {"write", "mail"} /\ UNCHANGED messages
    PROVE  /\ \A n : Unterwegs(n) <=> Unterwegs(n)' \/ n = Head(messages)
           /\ Head(messages) \in RefillNachricht =>
                  \A n \in Nachrichten : Unterwegs(n)' => n = "SendMail"
           /\ \A n : n = Head(messages) /\ Unterwegs(n)' =>
                  Len(Ausstehend) > 1 /\ Ausstehend[2] = n
           /\ Len(Ausstehend') <= 1
<1>1. messages \in Seq(Nachrichten) /\ Len(messages) <= 2 /\ RefillZuletzt(messages)
    BY DEF BusInv, MaxNachrichten
<1> DEFINE t == Tail(messages)
<1>2. Ausstehend = messages /\ Ausstehend' = t
    BY DEF Ausstehend
<1>3. /\ \A n : Enthaelt(messages, n) <=> Enthaelt(t, n) \/ n = Head(messages)
      /\ Head(messages) \in RefillNachricht =>
             \A n \in Nachrichten : Enthaelt(t, n) => n = "SendMail"
    BY <1>1, TailNachricht
<1>4. Len(t) = Len(messages) - 1 /\ Len(messages) \in 1 .. 2 /\ Len(t) \in Nat
      /\ \A i \in 1 .. Len(t) : t[i] = messages[i + 1]
    <2>1. Len(messages) \in Nat \ {0}
        BY <1>1, EmptySeq
    <2>2. Len(Tail(messages)) = Len(messages) - 1
          /\ \A i \in 1 .. Len(Tail(messages)) : Tail(messages)[i] = messages[i + 1]
        BY <1>1, HeadTailProperties
    <2> QED BY <1>1, <2>1, <2>2
<1> HIDE DEF t
<1>5. \A n : Unterwegs(n)' <=> Enthaelt(t, n)
    BY <1>2 DEF Unterwegs, Enthaelt
<1>6. \A n : Enthaelt(t, n) => Len(messages) > 1 /\ messages[2] = n
    BY <1>4 DEF Enthaelt
<1>7. \A n : Unterwegs(n) <=> Enthaelt(messages, n)
    BY <1>2 DEF Unterwegs
<1>8. \A n : n = Head(messages) /\ Unterwegs(n)' =>
             Len(Ausstehend) > 1 /\ Ausstehend[2] = n
    BY <1>2, <1>5, <1>6
<1>9. Len(Ausstehend') <= 1
    BY <1>2, <1>4
<1> QED BY <1>3, <1>5, <1>7, <1>8, <1>9

LEMMA Weitergesendet ==
    ASSUME BusInv, Written
    PROVE  /\ \A n : Unterwegs(n)' <=> Unterwegs(n) \/ n = "SendMail"
           /\ Len(Ausstehend') > 1 => Ausstehend'[2] = "SendMail"
<1>1. messages \in Seq(Nachrichten) /\ Len(messages) <= 2 /\ messages # <<>>
    BY DEF Written, BusInv, MaxNachrichten
<1> DEFINE t == Tail(messages)
           a == Append(t, "SendMail")
<1>2. Ausstehend = t /\ Ausstehend' = a /\ messages' = a
    BY DEF Written, SendMail, Ausstehend
<1>3. t \in Seq(Nachrichten) /\ Len(t) <= 1 /\ "SendMail" \in Nachrichten
    BY <1>1, TailNachricht DEF Nachrichten
<1> HIDE DEF t
<1>4. \A n : Enthaelt(a, n) <=> Enthaelt(t, n) \/ n = "SendMail"
    BY <1>3, AppendNachricht
<1>5. Len(a) = Len(t) + 1 /\ a[Len(t) + 1] = "SendMail" /\ Len(t) \in Nat
    BY <1>3, AppendProperties, LenProperties
<1> HIDE DEF a
<1> QED BY <1>2, <1>3, <1>4, <1>5 DEF Unterwegs, Enthaelt

(* The other steps: nothing is on its way, or as much as before.           *)
LEMMA NichtUnterwegs ==
    ASSUME messages' = <<>>, ioPc' \notin {"write", "mail"}
    PROVE  Len(Ausstehend') = 0 /\ \A n : ~Unterwegs(n)'
BY KeineNachricht DEF Unterwegs, Ausstehend, Enthaelt

LEMMA UnterwegsWieVorher ==
    ASSUME \/ UNCHANGED <<messages, ioPc>>
           \/ MailGestartet
           \/ ReadRecord
           \/ ReadWritten
    PROVE  UNCHANGED Ausstehend /\ \A n : Unterwegs(n)' <=> Unterwegs(n)
BY DEF Unterwegs, Ausstehend, MailGestartet, ReadRecord, ReadWritten

-----------------------------------------------------------------------------
(* The starts of runs and of refills.                                      *)

(* A step of stateMachineOsmose begins a run, ends one or does neither; a  *)
(* step of stateMachineRefill does so with a refill, or sends its limit.   *)
LEMMA OsmoseSchritt ==
    ASSUME StatistikTypeOK, BusInv, stateMachineOsmose
    PROVE  /\ UNCHANGED <<zeit, statistik, refill, refillSeit, limit>>
           /\ \A n : ~Unterwegs(n)
           /\ Len(Ausstehend') <= 1
           /\ \/ /\ lauf' = TRUE /\ laufSeit' = zeit
                 /\ \A n : Unterwegs(n)' <=> n = "setStartProductionOsmose"
              \/ /\ lauf = TRUE /\ lauf' = FALSE /\ laufSeit' = laufSeit
                 /\ \A n : Unterwegs(n)' <=> n = "setEndProductionOsmose"
              \/ /\ (lauf' = lauf \/ lauf' = FALSE) /\ laufSeit' = laufSeit
                 /\ \A n : ~Unterwegs(n)'
<1>0. {lauf, refill, gemeldet, limit} \subseteq BOOLEAN
    BY DEF StatistikTypeOK
<1>1. /\ ioPc = "osmose" /\ ioPc' = "refill"
      /\ UNCHANGED <<zeit, statistik>>
    BY DEF stateMachineOsmose, stand
<1>2. messages = <<>>
    BY <1>1, KeineNachricht DEF BusInv, MaxNachrichten
<1>3. \A n : ~Unterwegs(n)
    BY <1>1, <1>2, KeineNachricht DEF Unterwegs, Ausstehend
<1>4. UNCHANGED <<refill, refillSeit, limit>>
    BY <1>0 DEF stateMachineOsmose, Geschehen, LaufBeginnt, LaufEndet, LaufAbgebrochen,
           NichtsMelden, RefillBeginnt, RefillZeitlimit, anlage
<1>5. ASSUME NEW c, messages' = Append(messages, c)
      PROVE  Len(Ausstehend') <= 1 /\ \A n : Unterwegs(n)' <=> n = c
    <2>1. Ausstehend' = <<c>>
        BY <1>1, <1>2, <1>5 DEF Ausstehend
    <2> QED BY <2>1 DEF Unterwegs, Enthaelt
<1>6. CASE LaufBeginnt
    BY <1>1, <1>3, <1>4, <1>5, <1>6 DEF stateMachineOsmose, Geschehen, LaufBeginnt, Melden
<1>7. CASE LaufEndet
    <2>1. messages' = Append(messages, "setEndProductionOsmose")
          /\ lauf = TRUE /\ lauf' = FALSE /\ laufSeit' = laufSeit
        BY <1>0, <1>7 DEF stateMachineOsmose, Geschehen, LaufBeginnt, LaufEndet, Melden
    <2> QED BY <1>1, <1>3, <1>4, <1>5, <2>1
<1>8. CASE LaufAbgebrochen \/ NichtsMelden
    <2>1. UNCHANGED messages /\ (lauf' = lauf \/ lauf' = FALSE)
        BY <1>8 DEF LaufAbgebrochen, NichtsMelden, anlage
    <2>2. laufSeit' = laufSeit
        <3>1. ~LaufBeginnt
            BY <1>0, <2>1 DEF LaufBeginnt
        <3> QED BY <3>1 DEF stateMachineOsmose, Geschehen
    <2>3. Len(Ausstehend') = 0 /\ \A n : ~Unterwegs(n)'
        BY <1>1, <1>2, <2>1, NichtUnterwegs
    <2>4. Len(Ausstehend') <= 1
        BY <2>3
    <2> QED BY <1>1, <1>3, <1>4, <2>1, <2>2, <2>3, <2>4
<1> QED BY <1>6, <1>7, <1>8 DEF stateMachineOsmose

LEMMA RefillSchritt ==
    ASSUME StatistikTypeOK, BusInv, stateMachineRefill
    PROVE  /\ UNCHANGED <<zeit, statistik, lauf, laufSeit>>
           /\ ~Unterwegs("setStartRefill") /\ ~Unterwegs("setEndRefill")
           /\ Len(Ausstehend) <= 1
           /\ \/ /\ refillSeit' = zeit /\ limit' = limit
                 /\ Len(Ausstehend') > 1 => Ausstehend'[2] = "setStartRefill"
                 /\ \A n : Unterwegs(n)' <=> Unterwegs(n) \/ n = "setStartRefill"
              \/ /\ refill = TRUE /\ refill' = FALSE
                 /\ refillSeit' = refillSeit /\ limit' = limit
                 /\ Len(Ausstehend') > 1 => Ausstehend'[2] = "setEndRefill"
                 /\ \A n : Unterwegs(n)' <=> Unterwegs(n) \/ n = "setEndRefill"
              \/ /\ lauf = FALSE /\ refill' = FALSE
                 /\ refillSeit' = refillSeit /\ limit' = TRUE
                 /\ \A n : Unterwegs(n)' <=> Unterwegs(n) \/ n = "setEndProductionOsmose"
              \/ /\ (refill' = refill \/ refill' = FALSE)
                 /\ refillSeit' = refillSeit /\ limit' = limit
                 /\ UNCHANGED Ausstehend /\ \A n : Unterwegs(n)' <=> Unterwegs(n)
<1>0. {lauf, refill, gemeldet, limit} \subseteq BOOLEAN
    BY DEF StatistikTypeOK
<1>1. /\ ioPc = "refill" /\ ioPc' = "notify"
      /\ UNCHANGED <<zeit, statistik>>
    BY DEF stateMachineRefill, stand
<1>2. /\ messages \in Seq(Nachrichten) /\ Len(messages) <= 1
      /\ \A n \in RefillNachricht : ~Enthaelt(messages, n)
    BY <1>1 DEF BusInv, MaxNachrichten
<1>3. Len(Ausstehend) <= 1 /\ ~Unterwegs("setStartRefill") /\ ~Unterwegs("setEndRefill")
    BY <1>1, <1>2 DEF Unterwegs, Ausstehend, RefillNachricht
<1>4. UNCHANGED <<lauf, laufSeit>>
    BY DEF stateMachineRefill, Geschehen, LaufBeginnt, RefillBeginnt, RefillEndet,
           RefillZeitlimit, RefillAbgebrochen, NichtsMelden, anlage
<1>5. {"setStartRefill", "setEndRefill", "setEndProductionOsmose"} \subseteq Nachrichten
    BY DEF Nachrichten
<1>6. CASE RefillBeginnt
    <2>1. messages' = Append(messages, "setStartRefill")
          /\ refillSeit' = zeit /\ limit' = limit
        BY <1>0, <1>6 DEF stateMachineRefill, Geschehen, RefillBeginnt, RefillZeitlimit, Melden
    <2> QED BY <1>1, <1>3, <1>4, <1>5, <2>1, Gesendet
<1>7. CASE RefillEndet
    <2>1. messages' = Append(messages, "setEndRefill")
          /\ refill = TRUE /\ refill' = FALSE /\ refillSeit' = refillSeit /\ limit' = limit
        BY <1>0, <1>7
        DEF stateMachineRefill, Geschehen, RefillBeginnt, RefillEndet, RefillZeitlimit, Melden
    <2> QED BY <1>1, <1>3, <1>4, <1>5, <2>1, Gesendet
<1>8. CASE RefillZeitlimit
    <2>1. messages' = Append(messages, "setEndProductionOsmose")
          /\ lauf = FALSE /\ refill' = FALSE /\ refillSeit' = refillSeit /\ limit' = TRUE
        BY <1>0, <1>8
        DEF stateMachineRefill, Geschehen, RefillBeginnt, RefillZeitlimit, Melden
    <2> QED BY <1>1, <1>3, <1>4, <1>5, <2>1, Gesendet
<1>9. CASE RefillAbgebrochen \/ NichtsMelden
    <2>1. /\ UNCHANGED messages /\ (refill' = refill \/ refill' = FALSE)
          /\ refillSeit' = refillSeit /\ limit' = limit
        <3>1. /\ UNCHANGED <<lauf, gemeldet, messages>>
              /\ refill' = refill \/ refill' = FALSE
            BY <1>9 DEF RefillAbgebrochen, NichtsMelden, anlage
        <3>2. ~RefillBeginnt /\ ~RefillZeitlimit
            BY <1>0, <3>1 DEF RefillBeginnt, RefillZeitlimit
        <3> QED BY <1>0, <3>1, <3>2 DEF stateMachineRefill, Geschehen
    <2>2. Ausstehend' = Ausstehend
        BY <1>1, <2>1 DEF Ausstehend
    <2>3. \A n : Unterwegs(n)' <=> Unterwegs(n)
        BY <2>2 DEF Unterwegs
    <2> QED BY <1>1, <1>3, <1>4, <2>1, <2>2, <2>3
<1> QED BY <1>6, <1>7, <1>8, <1>9 DEF stateMachineRefill

LEMMA LaufStep == StatistikInv /\ [StatistikNext]_allVars => LaufInv' /\ RefillInv'
<1> SUFFICES ASSUME StatistikTypeOK, BusInv, LaufInv, RefillInv, [StatistikNext]_allVars
             PROVE  LaufInv' /\ RefillInv'
    BY DEF StatistikInv
<1>0. /\ {lauf, refill, limit} \subseteq BOOLEAN
      /\ "setStartProductionOsmose" # "setEndProductionOsmose"
    BY DEF StatistikTypeOK
<1>1. CASE stateMachineOsmose
    <2>1. UNCHANGED <<zeit, startRefill, startProductionOsmose, refill, refillSeit, limit>>
          /\ Len(Ausstehend') <= 1 /\ \A n : ~Unterwegs(n)
        BY <1>1, OsmoseSchritt DEF statistik
    <2>2. /\ lauf => startProductionOsmose = laufSeit
          /\ refill => startRefill = refillSeit
        BY <2>1 DEF LaufInv, RefillInv
    <2>3. CASE /\ lauf' = TRUE /\ laufSeit' = zeit
               /\ \A n : Unterwegs(n)' <=> n = "setStartProductionOsmose"
        BY <2>1, <2>2, <2>3 DEF LaufInv, RefillInv
    <2>4. CASE /\ lauf = TRUE /\ lauf' = FALSE /\ laufSeit' = laufSeit
               /\ \A n : Unterwegs(n)' <=> n = "setEndProductionOsmose"
        BY <2>1, <2>2, <2>4 DEF LaufInv, RefillInv
    <2>5. CASE /\ (lauf' = lauf \/ lauf' = FALSE) /\ laufSeit' = laufSeit
               /\ \A n : ~Unterwegs(n)'
        BY <2>1, <2>2, <2>5 DEF LaufInv, RefillInv
    <2> QED BY <1>1, <2>3, <2>4, <2>5, OsmoseSchritt
<1>2. CASE stateMachineRefill
    <2>1. /\ UNCHANGED <<zeit, startRefill, startProductionOsmose, lauf, laufSeit>>
          /\ ~Unterwegs("setStartRefill") /\ ~Unterwegs("setEndRefill")
          /\ Len(Ausstehend) <= 1
        BY <1>2, RefillSchritt DEF statistik
    <2>2. refill => startRefill = refillSeit
        BY <2>1 DEF RefillInv
    <2>3. CASE /\ refillSeit' = zeit /\ limit' = limit
               /\ Len(Ausstehend') > 1 => Ausstehend'[2] = "setStartRefill"
               /\ \A n : Unterwegs(n)' <=> Unterwegs(n) \/ n = "setStartRefill"
        BY <2>1, <2>3 DEF LaufInv, RefillInv
    <2>4. CASE /\ refill = TRUE /\ refill' = FALSE
               /\ refillSeit' = refillSeit /\ limit' = limit
               /\ Len(Ausstehend') > 1 => Ausstehend'[2] = "setEndRefill"
               /\ \A n : Unterwegs(n)' <=> Unterwegs(n) \/ n = "setEndRefill"
        BY <2>1, <2>2, <2>4 DEF LaufInv, RefillInv
    <2>5. CASE /\ lauf = FALSE /\ refill' = FALSE
               /\ refillSeit' = refillSeit /\ limit' = TRUE
               /\ \A n : Unterwegs(n)' <=> Unterwegs(n) \/ n = "setEndProductionOsmose"
        BY <2>1, <2>5 DEF LaufInv, RefillInv
    <2>6. CASE /\ (refill' = refill \/ refill' = FALSE)
               /\ refillSeit' = refillSeit /\ limit' = limit
               /\ UNCHANGED Ausstehend /\ \A n : Unterwegs(n)' <=> Unterwegs(n)
        BY <2>1, <2>2, <2>6 DEF LaufInv, RefillInv
    <2> QED BY <1>2, <2>3, <2>4, <2>5, <2>6, RefillSchritt
<1>3. CASE command
    <2>1. /\ UNCHANGED <<messages, ioPc, zeit, laufSeit, refillSeit, limit, statistik, lauf>>
          /\ refill' = refill \/ refill' = FALSE
        BY <1>3 DEF command, MeldungReset, RefillAbgebrochen, history, stand
    <2>2. UNCHANGED Ausstehend /\ \A n : Unterwegs(n)' <=> Unterwegs(n)
        BY <2>1, UnterwegsWieVorher
    <2> QED BY <2>1, <2>2 DEF LaufInv, RefillInv, statistik
<1>4. CASE NotifyStart
    <2>1. /\ ioPc = "notify" /\ messages # <<>> /\ ioPc' = "notify" /\ messages' = Tail(messages)
          /\ UNCHANGED <<lauf, refill, zeit, laufSeit, refillSeit, limit>>
        BY <1>4 DEF NotifyStart, Empfangen, anlage, history
    <2>2. /\ \A n : Unterwegs(n) <=> Unterwegs(n)' \/ n = Head(messages)
          /\ Head(messages) \in RefillNachricht =>
                 \A n \in Nachrichten : Unterwegs(n)' => n = "SendMail"
          /\ Len(Ausstehend') <= 1
        BY <2>1, Zugestellt
    <2>3. CASE Head(messages) = "setStartRefill"
        <3>1. startRefill' = zeit /\ UNCHANGED startProductionOsmose
            BY <1>4, <2>3 DEF NotifyStart, Empfangen, SetStart
        <3>2. ~Unterwegs("setStartRefill")' /\ ~Unterwegs("setEndRefill")'
            BY <2>2, <2>3 DEF Nachrichten, RefillNachricht
        <3> QED BY <2>1, <2>2, <2>3, <3>1, <3>2 DEF LaufInv, RefillInv
    <2>4. CASE Head(messages) = "setStartProductionOsmose"
        <3>1. startProductionOsmose' = zeit /\ UNCHANGED startRefill
            BY <1>4, <2>4 DEF NotifyStart, Empfangen, SetStart
        <3> QED BY <2>1, <2>2, <2>4, <3>1 DEF LaufInv, RefillInv
    <2> QED BY <1>4, <2>3, <2>4 DEF NotifyStart, Empfangen
<1>5. CASE NotifyEnd
    <2>1. /\ ioPc = "notify" /\ messages # <<>> /\ ioPc' = "write" /\ UNCHANGED messages
          /\ UNCHANGED <<lauf, refill, zeit, laufSeit, refillSeit, limit>>
        BY <1>5 DEF NotifyEnd, Empfangen, anlage
    <2>2. /\ \A n : Unterwegs(n) <=> Unterwegs(n)' \/ n = Head(messages)
          /\ Head(messages) \in RefillNachricht =>
                 \A n \in Nachrichten : Unterwegs(n)' => n = "SendMail"
          /\ \A n : n = Head(messages) /\ Unterwegs(n)' =>
                 Len(Ausstehend) > 1 /\ Ausstehend[2] = n
          /\ Len(Ausstehend') <= 1
        BY <2>1, Zugestellt
    <2>3. CASE Head(messages) = "setEndRefill"
        <3>1. UNCHANGED startProductionOsmose
            BY <1>5, <2>3 DEF NotifyEnd, Empfangen
        <3>2. ~Unterwegs("setStartRefill")' /\ ~Unterwegs("setEndRefill")'
            BY <2>2, <2>3 DEF Nachrichten, RefillNachricht
        <3> QED BY <2>1, <2>2, <2>3, <3>1, <3>2 DEF LaufInv, RefillInv
    <2>4. CASE Head(messages) = "setEndProductionOsmose"
        <3>1. UNCHANGED startRefill
            BY <1>5, <2>4 DEF NotifyEnd, Empfangen
        <3>2. Unterwegs("setEndProductionOsmose")' => limit
            BY <2>2, <2>4 DEF LaufInv
        <3> QED BY <2>1, <2>2, <2>4, <3>1, <3>2 DEF LaufInv, RefillInv
    <2> QED BY <1>5, <2>3, <2>4 DEF NotifyEnd, Empfangen
<1>6. CASE Written
    <2>1. UNCHANGED <<lauf, refill, zeit, laufSeit, refillSeit, limit, statistik>>
        BY <1>6 DEF Written, anlage, history
    <2>2. /\ \A n : Unterwegs(n)' <=> Unterwegs(n) \/ n = "SendMail"
          /\ Len(Ausstehend') > 1 => Ausstehend'[2] = "SendMail"
        BY <1>6, Weitergesendet
    <2> QED BY <2>1, <2>2 DEF LaufInv, RefillInv, statistik
<1>7. CASE NotifyMail
    <2>1. /\ ioPc = "notify" /\ messages # <<>> /\ ioPc' = "mail" /\ UNCHANGED messages
          /\ Head(messages) = "SendMail"
          /\ UNCHANGED <<lauf, refill, zeit, laufSeit, refillSeit, limit, statistik>>
        BY <1>7 DEF NotifyMail, Empfangen, anlage
    <2>2. /\ \A n : Unterwegs(n) <=> Unterwegs(n)' \/ n = "SendMail"
          /\ Len(Ausstehend') <= 1
        BY <2>1, Zugestellt
    <2> QED BY <2>1, <2>2 DEF LaufInv, RefillInv, statistik
<1>8. CASE MailGestartet \/ MailProgramm \/ ReadRecord \/ ReadWritten
    <2>1. UNCHANGED <<lauf, refill, zeit, laufSeit, refillSeit, limit, statistik>>
        BY <1>8 DEF MailGestartet, MailProgramm, ReadRecord, ReadWritten, anlage, history
    <2>2. MailProgramm => UNCHANGED <<messages, ioPc>>
        BY DEF MailProgramm
    <2>3. UNCHANGED Ausstehend /\ \A n : Unterwegs(n)' <=> Unterwegs(n)
        BY <1>8, <2>2, UnterwegsWieVorher
    <2> QED BY <2>1, <2>3 DEF LaufInv, RefillInv, statistik
<1>9. CASE NotifyEmpty \/ ReadDone
    <2>1. /\ UNCHANGED <<lauf, refill, laufSeit, refillSeit, statistik, messages>>
          /\ messages = <<>> /\ ioPc \in {"notify", "lesen"} /\ ioPc' = "osmose"
        BY <1>9, KeineNachricht
        DEF NotifyEmpty, ReadDone, anlage, history, stand, BusInv, MaxNachrichten
    <2>2. \A n : ~Unterwegs(n)
        BY <2>1, KeineNachricht DEF Unterwegs, Ausstehend
    <2>3. Len(Ausstehend') = 0 /\ \A n : ~Unterwegs(n)'
        BY <2>1, NichtUnterwegs
    <2> QED BY <2>1, <2>2, <2>3 DEF LaufInv, RefillInv, statistik
<1>10. CASE Kill
    <2>1. lauf' = FALSE /\ refill' = FALSE /\ messages' = <<>> /\ ioPc' = "lesen"
        BY <1>10 DEF Kill
    <2>2. Len(Ausstehend') = 0 /\ \A n : ~Unterwegs(n)'
        BY <2>1, NichtUnterwegs
    <2> QED BY <2>1, <2>2 DEF LaufInv, RefillInv
<1>11. CASE UNCHANGED allVars
    <2>1. UNCHANGED <<lauf, refill, zeit, laufSeit, refillSeit, limit, statistik, messages, ioPc>>
        BY <1>11 DEF allVars, anlage, history, stand
    <2>2. UNCHANGED Ausstehend /\ \A n : Unterwegs(n)' <=> Unterwegs(n)
        BY <2>1, UnterwegsWieVorher
    <2> QED BY <2>1, <2>2 DEF LaufInv, RefillInv, statistik
<1> QED BY <1>1, <1>2, <1>3, <1>4, <1>5, <1>6, <1>7, <1>8, <1>9, <1>10, <1>11
        DEF StatistikNext

-----------------------------------------------------------------------------
(* The archive.                                                            *)

(* Moving the front record from one queue to the end of another.           *)
LEMMA AppendTail ==
    ASSUME NEW q \in Seq(Record), NEW z \in Seq(Record), z # <<>>
    PROVE  /\ Append(q, Head(z)) \o Tail(z) = q \o z
           /\ Len(Append(q, Head(z))) = Len(q) + 1
<1>1. /\ Head(z) \in Record /\ Tail(z) \in Seq(Record) /\ <<Head(z)>> \in Seq(Record)
      /\ Len(Tail(z)) = Len(z) - 1 /\ \A i \in 1 .. Len(Tail(z)) : Tail(z)[i] = z[i + 1]
      /\ Len(z) \in Nat \ {0} /\ Head(z) = z[1]
    BY HeadTailProperties, EmptySeq, LenProperties
<1>2. Append(q, Head(z)) = q \o <<Head(z)>>
    BY <1>1, AppendIsConcat
<1>3. (q \o <<Head(z)>>) \o Tail(z) = q \o (<<Head(z)>> \o Tail(z))
    BY <1>1, ConcatAssociative
<1>4. Len(Append(q, Head(z))) = Len(q) + 1
    BY <1>1, AppendProperties
<1>5. ASSUME NEW h \in Seq(Record), Len(h) = 1, h[1] = z[1],
             NEW t \in Seq(Record), Len(t) = Len(z) - 1,
             \A i \in 1 .. Len(t) : t[i] = z[i + 1]
      PROVE  h \o t = z
    <2>1. /\ h \o t \in Seq(Record) /\ Len(h \o t) = Len(h) + Len(t)
          /\ \A i \in 1 .. Len(h) + Len(t) :
                 (h \o t)[i] = IF i <= Len(h) THEN h[i] ELSE t[i - Len(h)]
        BY ConcatProperties
    <2> DEFINE c == h \o t
    <2>2. /\ c \in Seq(Record) /\ Len(c) = Len(z)
          /\ \A i \in 1 .. Len(z) : c[i] = IF i <= 1 THEN h[i] ELSE t[i - 1]
        BY <1>1, <1>5, <2>1
    <2> HIDE DEF c
    <2>3. \A i \in 1 .. Len(z) : i > 1 => i - 1 \in 1 .. Len(t) /\ i - 1 + 1 = i
        BY <1>1, <1>5
    <2>4. \A i \in 1 .. Len(z) : i > 1 => t[i - 1] = z[i]
        BY <1>1, <1>5, <2>3
    <2>5. \A i \in 1 .. Len(z) : c[i] = z[i]
        BY <1>1, <1>5, <2>2, <2>4
    <2>6. c = z
        BY <2>2, <2>5, SeqEqual
    <2> QED BY <2>6 DEF c
<1>6. <<Head(z)>> \o Tail(z) = z
    <2>1. Len(<<Head(z)>>) = 1 /\ <<Head(z)>>[1] = z[1]
        BY <1>1
    <2> QED BY <1>1, <1>5, <2>1
<1> QED BY <1>1, <1>2, <1>3, <1>4, <1>6

LEMMA ArchivStep ==
    StatistikInv /\ [StatistikNext]_allVars => ArchivInv'
<1> SUFFICES ASSUME StatistikTypeOK, ArchivInv, [StatistikNext]_allVars, ~abgebrochen'
             PROVE  ArchivInv'
    BY DEF StatistikInv, ArchivInv
<1>a. ~abgebrochen
    BY DEF StatistikNext, stateMachineOsmose, stateMachineRefill, command, NotifyStart,
           NotifyEnd, Update, Written, NotifyMail, MailGestartet, NotifyEmpty, MailProgramm,
           Kill, ReadRecord, ReadWritten, ReadDone, allVars, stand, akten
<1>b. /\ queueStatistik \in Seq(Record) /\ Len(queueStatistik) <= maxSizeStatistikQueue
      /\ zuLesen \in Seq(Record) /\ datei \in Seq(Record)
      /\ maxSizeStatistikQueue \in Nat
    BY StatistikAssumption DEF StatistikTypeOK
<1>1. CASE stateMachineOsmose \/ stateMachineRefill \/ command \/ NotifyStart \/ NotifyMail
           \/ MailGestartet \/ NotifyEmpty \/ MailProgramm \/ UNCHANGED allVars
    BY <1>1, <1>a
    DEF ArchivInv, stateMachineOsmose, stateMachineRefill, command, NotifyStart, NotifyMail,
        MailGestartet, NotifyEmpty, MailProgramm, Empfangen, allVars, stand, akten, speicher
<1>2. CASE NotifyEnd
    <2>1. /\ ioPc = "notify" /\ ioPc' = "write"
          /\ \E r \in Record : /\ queueStatistik' = Push(queueStatistik, r)
                               /\ neueste' = Newest(Append(neueste, r))
        <3>1. \A typ \in {"OsmoseLauf", "RefillLauf"}, start \in Zeit :
                  [typ |-> typ, start |-> start, ende |-> zeit] \in Record
            BY StatistikAssumption DEF Record, Zeit, StatistikTypeOK
        <3>2. startRefill \in Zeit /\ startProductionOsmose \in Zeit
            BY DEF StatistikTypeOK
        <3> QED BY <1>2, <3>1, <3>2 DEF NotifyEnd, Empfangen, Update
    <2> QED BY <1>a, <1>b, <2>1, PushIsNewest DEF ArchivInv
<1>3. CASE Written
    BY <1>3, <1>a DEF ArchivInv, Written, akten
<1>4. CASE Kill
    <2>1. /\ ioPc' = "lesen" /\ queueStatistik' = <<>> /\ zuLesen' = datei
          /\ UNCHANGED <<datei, neueste>> /\ ~InArbeit
        BY <1>4 DEF Kill
    <2>2. datei = queueStatistik /\ queueStatistik = neueste
        BY <1>a, <1>b, <2>1, ConcatEmptySeq DEF ArchivInv, InArbeit
    <2>3. <<>> \o datei = datei /\ Len(<<>>) = 0
        BY <1>b, ConcatEmptySeq
    <2> QED BY <1>b, <2>1, <2>2, <2>3, LenProperties DEF ArchivInv
<1>5. CASE ReadRecord
    <2>1. /\ ioPc = "lesen" /\ zuLesen # <<>> /\ ioPc' = "lesenWrite"
          /\ queueStatistik' = Push(queueStatistik, Head(zuLesen))
          /\ zuLesen' = Tail(zuLesen) /\ UNCHANGED neueste
        BY <1>5 DEF ReadRecord, akten
    <2>2. /\ Head(zuLesen) \in Record /\ Tail(zuLesen) \in Seq(Record)
          /\ Len(zuLesen) \in Nat \ {0} /\ Len(Tail(zuLesen)) = Len(zuLesen) - 1
          /\ Len(queueStatistik) \in Nat
        BY <1>b, <2>1, HeadTailProperties, EmptySeq, LenProperties
    <2>3. /\ queueStatistik \o zuLesen = neueste
          /\ Len(queueStatistik) + Len(zuLesen) <= maxSizeStatistikQueue
        BY <1>a, <2>1 DEF ArchivInv
    <2>4. Push(queueStatistik, Head(zuLesen)) = Append(queueStatistik, Head(zuLesen))
        BY <1>b, <2>2, <2>3 DEF Push
    <2>5. /\ Append(queueStatistik, Head(zuLesen)) \o Tail(zuLesen) = neueste
          /\ Len(Append(queueStatistik, Head(zuLesen))) = Len(queueStatistik) + 1
        BY <1>b, <2>1, <2>2, <2>3, AppendTail
    <2>6. queueStatistik' \o zuLesen' = neueste'
        BY <2>1, <2>4, <2>5
    <2>7. Len(queueStatistik') + Len(zuLesen') <= maxSizeStatistikQueue
        BY <1>b, <2>1, <2>2, <2>3, <2>4, <2>5
    <2> QED BY <2>1, <2>6, <2>7 DEF ArchivInv
<1>6. CASE ReadWritten
    BY <1>6, <1>a DEF ArchivInv, ReadWritten, akten
<1>7. CASE ReadDone
    BY <1>7, <1>a, <1>b DEF ArchivInv, ReadDone, stand, speicher, akten
<1> QED BY <1>1, <1>2, <1>3, <1>4, <1>5, <1>6, <1>7 DEF StatistikNext

-----------------------------------------------------------------------------
(* The mail file.                                                          *)

LEMMA MailStep == StatistikInv /\ [StatistikNext]_allVars => MailInv'
<1> SUFFICES ASSUME StatistikTypeOK, MailInv, [StatistikNext]_allVars PROVE MailInv'
    BY DEF StatistikInv
<1>0. MaxLeser \in Nat /\ leser \in 0 .. MaxLeser /\ {mailText, zugestellt, mailVerloren} \subseteq BOOLEAN
    BY StatistikAssumption DEF StatistikTypeOK
<1>1. CASE MailGestartet
    BY <1>0, <1>1 DEF MailInv, MailGestartet, MailSchreiben
<1>2. CASE MailProgramm
    BY <1>0, <1>2 DEF MailInv, MailProgramm
<1>3. CASE Kill
    BY <1>0, <1>3 DEF MailInv, Kill
<1>4. CASE NotifyMail
    BY <1>4 DEF MailInv, NotifyMail
<1>5. CASE \/ stateMachineOsmose \/ stateMachineRefill \/ command \/ NotifyStart \/ NotifyEnd
           \/ Written \/ NotifyEmpty \/ ReadRecord \/ ReadWritten \/ ReadDone
           \/ UNCHANGED allVars
    <2>1. UNCHANGED post /\ (ioPc = "mail" <=> ioPc' = "mail")
        BY <1>5
        DEF stateMachineOsmose, stateMachineRefill, command, NotifyStart, NotifyEnd, Written,
            NotifyEmpty, ReadRecord, ReadWritten, ReadDone, Empfangen, allVars, stand
    <2> QED BY <2>1 DEF MailInv, post
<1> QED BY <1>1, <1>2, <1>3, <1>4, <1>5 DEF StatistikNext

-----------------------------------------------------------------------------
(* Types.                                                                  *)

LEMMA StatistikTypeStep ==
    StatistikInv /\ [StatistikNext]_allVars => StatistikTypeOK'
<1> SUFFICES ASSUME StatistikTypeOK, BusInv, MailInv, offen' \in Nat, [StatistikNext]_allVars
             PROVE  StatistikTypeOK'
    <2>1. BusInv' => offen' \in Nat
        <3>1. (Mails(Ausstehend) \in Nat)'
            BY DEF Mails, IstMail
        <3> QED BY <3>1 DEF BusInv
    <2> QED BY <2>1, BusStep DEF StatistikInv
<1>0. MaxZeit \in Nat \ {0} /\ MaxLeser \in Nat \ {0}
    BY StatistikAssumption
<1>1. CASE stateMachineOsmose
    <2>1. lauf' \in BOOLEAN /\ UNCHANGED <<refill, gemeldet>>
        BY <1>1
        DEF StatistikTypeOK, stateMachineOsmose, LaufBeginnt, LaufEndet, LaufAbgebrochen,
            NichtsMelden, anlage
    <2>2. laufSeit' \in Zeit /\ refillSeit' \in Zeit /\ limit' \in BOOLEAN
        BY <1>0, <1>1 DEF StatistikTypeOK, stateMachineOsmose, Geschehen, Zeit
    <2>3. UNCHANGED <<zeit, stand>> /\ ioPc' = "refill"
        BY <1>1 DEF stateMachineOsmose
    <2> QED BY <2>1, <2>2, <2>3
            DEF StatistikTypeOK, stand, statistik, speicher, akten, post
<1>2. CASE stateMachineRefill
    <2>1. refill' \in BOOLEAN /\ gemeldet' \in BOOLEAN /\ UNCHANGED lauf
        BY <1>2
        DEF StatistikTypeOK, stateMachineRefill, RefillBeginnt, RefillEndet, RefillZeitlimit,
            RefillAbgebrochen, NichtsMelden, anlage
    <2>2. laufSeit' \in Zeit /\ refillSeit' \in Zeit /\ limit' \in BOOLEAN
        BY <1>0, <1>2 DEF StatistikTypeOK, stateMachineRefill, Geschehen, Zeit
    <2>3. UNCHANGED <<zeit, stand>> /\ ioPc' = "notify"
        BY <1>2 DEF stateMachineRefill
    <2> QED BY <2>1, <2>2, <2>3
            DEF StatistikTypeOK, stand, statistik, speicher, akten, post
<1>3. CASE command
    BY <1>3
    DEF StatistikTypeOK, command, MeldungReset, RefillAbgebrochen, history, stand, statistik,
        speicher, akten, post
<1>4. CASE NotifyStart
    BY <1>0, <1>4
    DEF StatistikTypeOK, NotifyStart, Empfangen, SetStart, anlage, speicher, history, akten,
        post, Zeit
<1>5. CASE NotifyEnd
    <2>1. \E typ \in {"OsmoseLauf", "RefillLauf"}, start \in Zeit : Update(typ, start)
        BY <1>5 DEF NotifyEnd, StatistikTypeOK
    <2>2. PICK r \in Record : /\ queueStatistik' = Push(queueStatistik, r)
                             /\ neueste' = Newest(Append(neueste, r))
                             /\ datei' = <<>>
        <3>1. \A typ \in {"OsmoseLauf", "RefillLauf"}, start \in Zeit :
                  [typ |-> typ, start |-> start, ende |-> zeit] \in Record
            BY <1>0 DEF Record, Zeit, StatistikTypeOK
        <3> QED BY <2>1, <3>1 DEF Update, Leer
    <2>3. queueStatistik' \in Seq(Record) /\ Len(queueStatistik') <= maxSizeStatistikQueue
        BY <2>2, PushType DEF StatistikTypeOK
    <2>4. neueste' \in Seq(Record)
        <3>1. Append(neueste, r) \in Seq(Record)
            BY AppendProperties DEF StatistikTypeOK
        <3> QED BY <2>2, <3>1, NewestType
    <2>5. datei' \in Seq(Record)
        BY <2>2, EmptySeq
    <2>6. startRefill' \in Zeit /\ startProductionOsmose' \in Zeit /\ ioPc' = "write"
        BY <1>0, <1>5 DEF NotifyEnd, StatistikTypeOK, Zeit
    <2>7. UNCHANGED <<anlage, zeit, zuLesen, laufSeit, refillSeit, limit, abgebrochen, post>>
        BY <1>5 DEF NotifyEnd
    <2> QED BY <2>3, <2>4, <2>5, <2>6, <2>7 DEF StatistikTypeOK, anlage, post
<1>6. CASE Written
    BY <1>6
    DEF StatistikTypeOK, Written, anlage, statistik, history, akten, post
<1>7. CASE NotifyMail
    BY <1>7
    DEF StatistikTypeOK, NotifyMail, anlage, statistik, speicher, akten
<1>8. CASE MailGestartet
    <2>1. leser' \in 0 .. MaxLeser
        BY <1>0, <1>8 DEF MailGestartet, MailInv, StatistikTypeOK
    <2> QED BY <1>8, <2>1
        DEF StatistikTypeOK, MailGestartet, MailSchreiben, anlage, statistik, speicher, history,
            akten
<1>9. CASE MailProgramm
    BY <1>0, <1>9
    DEF StatistikTypeOK, MailProgramm, anlage, statistik, speicher, history, akten
<1>10. CASE NotifyEmpty
    BY <1>10
    DEF StatistikTypeOK, NotifyEmpty, anlage, stand, statistik, speicher, akten, post
<1>11. CASE Kill
    <2>1. abgebrochen' \in BOOLEAN /\ mailVerloren' \in BOOLEAN
        BY <1>11 DEF StatistikTypeOK, Kill
    <2>2. <<>> \in Seq(Record) /\ Len(<<>>) <= maxSizeStatistikQueue /\ 0 \in Zeit
        BY <1>0, EmptySeq, LenProperties, StatistikAssumption DEF Zeit
    <2> QED BY <1>11, <2>1, <2>2 DEF StatistikTypeOK, Kill
<1>12. CASE ReadRecord
    <2>1. Head(zuLesen) \in Record /\ Tail(zuLesen) \in Seq(Record) /\ <<>> \in Seq(Record)
        BY <1>12, HeadTailProperties, EmptySeq DEF ReadRecord, StatistikTypeOK
    <2>2. /\ Push(queueStatistik, Head(zuLesen)) \in Seq(Record)
          /\ Len(Push(queueStatistik, Head(zuLesen))) <= maxSizeStatistikQueue
        BY <2>1, PushType DEF StatistikTypeOK
    <2> QED BY <1>12, <2>1, <2>2
            DEF StatistikTypeOK, ReadRecord, Leer, anlage, statistik, history, akten, post
<1>13. CASE ReadWritten
    BY <1>13
    DEF StatistikTypeOK, ReadWritten, anlage, statistik, history, akten, post
<1>14. CASE ReadDone
    BY <1>14
    DEF StatistikTypeOK, ReadDone, anlage, history, stand, statistik, speicher, akten, post
<1>15. CASE UNCHANGED allVars
    BY <1>15
    DEF StatistikTypeOK, allVars, anlage, history, stand, statistik, speicher, akten, post
<1> QED BY <1>1, <1>2, <1>3, <1>4, <1>5, <1>6, <1>7, <1>8, <1>9, <1>10, <1>11, <1>12, <1>13,
           <1>14, <1>15 DEF StatistikNext

-----------------------------------------------------------------------------
(* Theorems.                                                               *)

(* The inductive invariant holds in every state of the loop, of the start  *)
(* and of every process that follows a kill.                               *)
THEOREM StatistikInvariant == StatistikSpec => []StatistikInv
<1>1. StatistikInit => StatistikInv
    <2> SUFFICES ASSUME StatistikInit PROVE StatistikInv
        OBVIOUS
    <2> USE StatistikAssumption
    <2>1. StatistikTypeOK
        <3>1. <<>> \in Seq(Record) /\ Len(<<>>) = 0
            BY EmptySeq
        <3>2. 0 \in Zeit /\ 1 \in 1 .. MaxZeit /\ 0 \in 0 .. MaxLeser /\ 0 <= maxSizeStatistikQueue
            BY DEF Zeit
        <3> QED BY <3>1, <3>2 DEF StatistikTypeOK, StatistikInit, Init
    <2>2. Ausstehend = <<>> /\ messages = <<>>
        BY DEF StatistikInit, Init, Ausstehend
    <2>3. BusInv
        BY <2>2, KeineNachricht DEF BusInv, StatistikInit, MaxNachrichten
    <2>4. LaufInv /\ RefillInv
        BY <2>2, KeineNachricht DEF LaufInv, RefillInv, Unterwegs, StatistikInit, Init
    <2>5. ArchivInv /\ MailInv
        BY DEF ArchivInv, MailInv, StatistikInit
    <2> QED BY <2>1, <2>3, <2>4, <2>5 DEF StatistikInv
<1>2. StatistikInv /\ [StatistikNext]_allVars => StatistikInv'
    BY StatistikTypeStep, BusStep, LaufStep, ArchivStep, MailStep DEF StatistikInv
<1> QED BY <1>1, <1>2, PTL DEF StatistikSpec

(* The queue never outgrows its limit, and queue, file and mail hold what  *)
(* they are meant to, whatever is killed when.                             *)
THEOREM StatistikTypeCorrect == StatistikSpec => []StatistikTypeOK
<1>1. StatistikInv => StatistikTypeOK
    BY DEF StatistikInv
<1> QED BY <1>1, StatistikInvariant, PTL

(* However many records and restarts there were, the loop goes on with the *)
(* newest records ever made, unless a write of the file was cut off.       *)
THEOREM NothingIsForgotten == StatistikSpec => []NothingForgotten
<1>1. StatistikInv => NothingForgotten
    BY DEF StatistikInv, ArchivInv, NothingForgotten
<1> QED BY <1>1, StatistikInvariant, PTL

(* No pass ends before SendMail has been called for each of its records.   *)
THEOREM RecordsAreMailed == StatistikSpec => []EveryRecordMailed
<1>1. StatistikInv => EveryRecordMailed
    <2> SUFFICES ASSUME BusInv, ioPc = "osmose" PROVE offen = 0
        BY DEF StatistikInv, EveryRecordMailed
    <2>1. messages = <<>>
        BY KeineNachricht DEF BusInv, MaxNachrichten
    <2> QED BY <2>1, KeineNachricht DEF BusInv, Ausstehend
<1> QED BY <1>1, StatistikInvariant, PTL

(* Once every mail program has read its file, the last mail was sent, in   *)
(* whatever order they came to it.                                         *)
THEOREM LastMailArrives == StatistikSpec => []LastMailSent
<1>1. StatistikInv => LastMailSent
    BY DEF StatistikInv, StatistikTypeOK, MailInv, LastMailSent
<1> QED BY <1>1, StatistikInvariant, PTL

(* A refill is recorded with its own start.                                *)
THEOREM RefillsRecordedTrue == StatistikSpec => RefillRecordsTrue
<1>1. StatistikInv /\ [StatistikNext]_allVars =>
          [NotifyEnd /\ Empfangen("setEndRefill") => startRefill = refillSeit]_allVars
    <2> SUFFICES ASSUME BusInv, RefillInv, Empfangen("setEndRefill")
                 PROVE  startRefill = refillSeit
        BY DEF StatistikInv
    <2>1. Unterwegs("setEndRefill")
        <3>1. Ausstehend = messages /\ messages \in Seq(Nachrichten) /\ messages # <<>>
              /\ Len(messages) <= 2 /\ Head(messages) = "setEndRefill"
            BY DEF Empfangen, Ausstehend, BusInv, MaxNachrichten
        <3> QED BY <3>1, TailNachricht DEF Unterwegs
    <2> QED BY <2>1 DEF RefillInv
<1> QED BY <1>1, StatistikInvariant, PTL DEF StatistikSpec, RefillRecordsTrue

(* A production run is recorded with its own start, unless the time limit  *)
(* of a refill is taken for one in the same pass.                          *)
THEOREM RunsRecordedTrue == StatistikSpec => OsmoseRecordsTrue
<1>1. StatistikInv /\ [StatistikNext]_allVars =>
          [NotifyEnd /\ Empfangen("setEndProductionOsmose") =>
               startProductionOsmose = laufSeit \/ limit]_allVars
    <2> SUFFICES ASSUME BusInv, LaufInv, Empfangen("setEndProductionOsmose")
                 PROVE  startProductionOsmose = laufSeit \/ limit
        BY DEF StatistikInv
    <2>1. Unterwegs("setEndProductionOsmose")
        <3>1. Ausstehend = messages /\ messages \in Seq(Nachrichten) /\ messages # <<>>
              /\ Len(messages) <= 2 /\ Head(messages) = "setEndProductionOsmose"
            BY DEF Empfangen, Ausstehend, BusInv, MaxNachrichten
        <3> QED BY <3>1, TailNachricht DEF Unterwegs
    <2> QED BY <2>1 DEF LaufInv
<1> QED BY <1>1, StatistikInvariant, PTL DEF StatistikSpec, OsmoseRecordsTrue

=============================================================================
