------------------------- MODULE StatusClientsProofs -------------------------
(***************************************************************************)
(* Theorems about StatusClients, for any number of pages and any bound on  *)
(* the messages under way: a page that has been sent one status on its     *)
(* connection misses none of the later ones.                               *)
(***************************************************************************)
EXTENDS StatusClients, SequenceTheorems, TLAPS

(* The parts of the state that are not about one page.                     *)
ServerInv ==
    /\ osmoseRefillActiv \in BOOLEAN /\ osmoseState \in States
    /\ ioPc \in {"flags", "maschinen", "senden"}
    /\ root \in Anzeige /\ rootOld \in Status \cup {Leer}
    /\ link \subseteq Clients
    /\ ioPc = "senden" => root = rootOld /\ root \in Status

(* What belongs to the pages.                                              *)
SeitenInv ==
    /\ netz \in [Clients -> {"wartet", "offen"}]
    /\ kommando \in [Clients -> Seq(BOOLEAN)]
    /\ post \in [Clients -> Seq(Status)]
    /\ gezeigt \in [Clients -> Anzeige]
    /\ geklickt \in [Clients -> BOOLEAN] /\ dabei \in [Clients -> BOOLEAN]

(* Nothing is under way without a connection.                              *)
LeitungInv ==
    \A c \in Clients :
        /\ Len(kommando[c]) <= MaxKommandos /\ Len(post[c]) <= MaxPost
        /\ c \notin link => post[c] = <<>> /\ kommando[c] = <<>> /\ ~dabei[c]

(* The last status that the loop built has been shown or is under way,     *)
(* except between its comparison and its sending.                          *)
Angekommen(c) ==
    IF post[c] = <<>>
    THEN gezeigt[c] = rootOld
         \/ (geklickt[c] /\ [gezeigt[c] EXCEPT !.refillActiv = rootOld.refillActiv] = rootOld)
    ELSE post[c][Len(post[c])] = rootOld

AnkunftInv == \A c \in Clients : dabei[c] /\ ioPc # "senden" => Angekommen(c)

StatusInv == ServerInv /\ SeitenInv /\ LeitungInv /\ AnkunftInv

-----------------------------------------------------------------------------
(* Messages and records.                                                   *)

LEMMA StatusIstAnzeige == Status \subseteq Anzeige /\ Leer \in Anzeige
BY DEF Status, Anzeige, Leer

(* A value that is put at the end of a queue, or taken from its front.     *)
LEMMA Hinten ==
    ASSUME NEW S, NEW q \in Seq(S), NEW v \in S
    PROVE  /\ Append(q, v) \in Seq(S) /\ Append(q, v) # <<>>
           /\ Len(Append(q, v)) = Len(q) + 1
           /\ Append(q, v)[Len(Append(q, v))] = v
BY AppendProperties, LenProperties

LEMMA Vorne ==
    ASSUME NEW S, NEW q \in Seq(S), q # <<>>
    PROVE  /\ Head(q) \in S /\ Tail(q) \in Seq(S) /\ Len(Tail(q)) = Len(q) - 1
           /\ Len(q) \in Nat
           /\ Tail(q) = <<>> => q[Len(q)] = Head(q)
           /\ Tail(q) # <<>> => Tail(q)[Len(Tail(q))] = q[Len(q)]
<1>1. /\ Head(q) \in S /\ Tail(q) \in Seq(S) /\ Len(Tail(q)) = Len(q) - 1
      /\ \A i \in 1 .. Len(Tail(q)) : Tail(q)[i] = q[i + 1]
    BY HeadTailProperties
<1>2. Len(q) \in Nat \ {0} /\ Head(q) = q[1]
    BY EmptySeq, LenProperties
<1> DEFINE t == Tail(q)
<1>3. /\ t \in Seq(S) /\ Len(t) = Len(q) - 1
      /\ \A i \in 1 .. Len(t) : t[i] = q[i + 1]
    BY <1>1
<1> HIDE DEF t
<1>4. t = <<>> => Len(t) = 0
    BY EmptySeq
<1>5. t # <<>> => Len(t) \in Nat \ {0}
    BY <1>3, EmptySeq, LenProperties
<1>6. t = <<>> => q[Len(q)] = Head(q)
    <2> SUFFICES ASSUME t = <<>> PROVE q[Len(q)] = Head(q)
        OBVIOUS
    <2>1. Len(q) = 1
        BY <1>2, <1>3, <1>4
    <2> QED BY <1>2, <2>1
<1>7. t # <<>> => t[Len(t)] = q[Len(q)]
    <2> SUFFICES ASSUME t # <<>> PROVE t[Len(t)] = q[Len(q)]
        OBVIOUS
    <2>1. Len(t) \in 1 .. Len(t) /\ Len(t) + 1 = Len(q)
        BY <1>2, <1>3, <1>5
    <2> QED BY <1>3, <2>1
<1> QED BY <1>1, <1>2, <1>6, <1>7 DEF t

(* The button changes nothing but the flag it shows.                       *)
LEMMA NurDerKnopf ==
    ASSUME NEW a \in Anzeige, NEW r \in Anzeige, NEW b \in BOOLEAN,
           a = r \/ [a EXCEPT !.refillActiv = r.refillActiv] = r
    PROVE  /\ [a EXCEPT !.refillActiv = b] \in Anzeige
           /\ [[a EXCEPT !.refillActiv = b] EXCEPT !.refillActiv = r.refillActiv] = r
BY DEF Anzeige

-----------------------------------------------------------------------------
LEMMA StatusStart == Init => StatusInv
<1> SUFFICES ASSUME Init PROVE StatusInv
    OBVIOUS
<1>1. MaxPost \in Nat /\ MaxKommandos \in Nat
    BY StatusAssumption
<1>2. /\ <<>> \in Seq(BOOLEAN) /\ <<>> \in Seq(Status) /\ Len(<<>>) = 0
    BY EmptySeq
<1>3. ServerInv
    BY StatusIstAnzeige DEF Init, ServerInv, States
<1>4. SeitenInv
    BY <1>2, StatusIstAnzeige DEF Init, SeitenInv
<1>5. LeitungInv /\ AnkunftInv
    BY <1>1, <1>2 DEF Init, LeitungInv, AnkunftInv
<1> QED BY <1>3, <1>4, <1>5 DEF StatusInv

(* The steps of the loop.                                                  *)
LEMMA SchleifeStep == StatusInv /\ (Flags \/ Maschinen \/ Senden) => StatusInv'
<1> SUFFICES ASSUME StatusInv, Flags \/ Maschinen \/ Senden PROVE StatusInv'
    OBVIOUS
<1>1. CASE Flags
    <2>1. UNCHANGED <<osmoseRefillActiv, osmoseState, rootOld, link, kommando, post, netz,
                      gezeigt, geklickt, dabei>> /\ ioPc = "flags" /\ ioPc' = "maschinen"
        BY <1>1 DEF Flags, anlage, seite
    <2>2. root' \in Anzeige
        BY <1>1 DEF Flags, Anzeige, StatusInv, ServerInv
    <2>3. ServerInv'
        BY <2>1, <2>2 DEF StatusInv, ServerInv
    <2> QED BY <2>1, <2>3 DEF StatusInv, SeitenInv, LeitungInv, AnkunftInv, Angekommen
<1>2. CASE Maschinen
    <2> DEFINE status == [root EXCEPT !.modus = osmoseState']
    <2>1. UNCHANGED <<osmoseRefillActiv, link, kommando, post, netz, gezeigt, geklickt, dabei>>
          /\ ioPc = "maschinen" /\ osmoseState' \in States
        BY <1>2 DEF Maschinen, seite
    <2>2. status \in Status
        BY <2>1 DEF Status, Anzeige, StatusInv, ServerInv
    <2>3. /\ rootOld' = status
          /\ IF status # rootOld THEN ioPc' = "senden" /\ root' = status
                                 ELSE ioPc' = "flags" /\ root' = Leer
        BY <1>2 DEF Maschinen, RootOld, Neuer
    <2> HIDE DEF status
    <2>4. ServerInv'
        BY <2>1, <2>2, <2>3, StatusIstAnzeige DEF StatusInv, ServerInv
    <2>5. SeitenInv' /\ LeitungInv'
        BY <2>1 DEF StatusInv, SeitenInv, LeitungInv
    <2>6. ioPc' # "senden" => UNCHANGED rootOld
        BY <2>3
    <2>7. AnkunftInv'
        BY <2>1, <2>6 DEF StatusInv, AnkunftInv, Angekommen
    <2> QED BY <2>4, <2>5, <2>7 DEF StatusInv
<1>3. CASE Senden
    <2>1. /\ ioPc = "senden" /\ ioPc' = "flags" /\ root' = Leer
          /\ \A c \in link : Len(post[c]) < MaxPost
          /\ post' = [c \in Clients |-> IF c \in link THEN Append(post[c], root) ELSE post[c]]
          /\ dabei' = [c \in Clients |-> dabei[c] \/ c \in link]
          /\ UNCHANGED <<osmoseRefillActiv, osmoseState, rootOld, link, kommando, netz,
                         gezeigt, geklickt>>
        BY <1>3 DEF Senden, Connections, anlage, seite
    <2>2. root = rootOld /\ root \in Status /\ MaxPost \in Nat
        BY <2>1, StatusAssumption DEF StatusInv, ServerInv
    <2>3. ServerInv'
        BY <2>1, StatusIstAnzeige DEF StatusInv, ServerInv
    <2>4. ASSUME NEW c \in Clients, c \in link
          PROVE  /\ post'[c] \in Seq(Status) /\ post'[c] # <<>> /\ Len(post'[c]) <= MaxPost
                 /\ post'[c][Len(post'[c])] = rootOld
        <3>1. post[c] \in Seq(Status) /\ Len(post[c]) \in Nat /\ Len(post[c]) < MaxPost
            BY <2>1, <2>4, LenProperties DEF StatusInv, SeitenInv
        <3>2. post'[c] = Append(post[c], root)
            BY <2>1, <2>4
        <3>3. /\ Append(post[c], root) \in Seq(Status) /\ Append(post[c], root) # <<>>
              /\ Len(Append(post[c], root)) = Len(post[c]) + 1
              /\ Append(post[c], root)[Len(Append(post[c], root))] = root
            BY <2>2, <3>1, Hinten
        <3> QED BY <2>2, <3>1, <3>2, <3>3
    <2>5. \A c \in Clients : c \notin link => post'[c] = post[c] /\ dabei'[c] = dabei[c]
        BY <2>1 DEF StatusInv, SeitenInv
    <2>6. \A c \in Clients : dabei'[c] => c \in link
        BY <2>1, <2>5 DEF StatusInv, LeitungInv
    <2>7. SeitenInv'
        <3>1. dabei' \in [Clients -> BOOLEAN]
            <4>1. \A c \in Clients : (dabei[c] \/ c \in link) \in BOOLEAN
                OBVIOUS
            <4> QED BY <2>1, <4>1, Zenon
        <3>2. \A c \in Clients : post'[c] \in Seq(Status)
            BY <2>4, <2>5 DEF StatusInv, SeitenInv
        <3>3. post' \in [Clients -> Seq(Status)]
            BY <2>1, <3>2
        <3> QED BY <2>1, <3>1, <3>3 DEF StatusInv, SeitenInv
    <2>8. LeitungInv'
        BY <2>1, <2>4, <2>5 DEF StatusInv, LeitungInv
    <2>9. AnkunftInv'
        BY <2>1, <2>4, <2>6 DEF AnkunftInv, Angekommen
    <2> QED BY <2>3, <2>7, <2>8, <2>9 DEF StatusInv
<1> QED BY <1>1, <1>2, <1>3

(* The commands, of a modelled page and of another.                        *)
LEMMA KommandoStep ==
    StatusInv /\ (CommandOfOther \/ \E c \in Clients : Command(c)) => StatusInv'
<1> SUFFICES ASSUME StatusInv, CommandOfOther \/ \E c \in Clients : Command(c)
             PROVE  StatusInv'
    OBVIOUS
<1>1. CASE CommandOfOther
    BY <1>1 DEF CommandOfOther, io, seite, StatusInv, ServerInv, SeitenInv, LeitungInv,
                AnkunftInv, Angekommen
<1>2. ASSUME NEW c \in Clients, Command(c) PROVE StatusInv'
    <2>1. /\ kommando[c] # <<>> /\ kommando[c] \in Seq(BOOLEAN)
          /\ osmoseRefillActiv' = Head(kommando[c])
          /\ kommando' = [kommando EXCEPT ![c] = Tail(kommando[c])]
          /\ UNCHANGED <<osmoseState, ioPc, root, rootOld, link, post, netz, gezeigt, geklickt,
                         dabei>>
        BY <1>2 DEF Command, io, seite, StatusInv, SeitenInv
    <2>2. /\ Head(kommando[c]) \in BOOLEAN /\ Tail(kommando[c]) \in Seq(BOOLEAN)
          /\ Len(Tail(kommando[c])) = Len(kommando[c]) - 1 /\ Len(kommando[c]) \in Nat
        BY <2>1, Vorne
    <2>3. ServerInv'
        BY <2>1, <2>2 DEF StatusInv, ServerInv
    <2>4. SeitenInv'
        BY <2>1, <2>2 DEF StatusInv, SeitenInv
    <2>5. LeitungInv'
        BY <2>1, <2>2, StatusAssumption DEF StatusInv, LeitungInv, SeitenInv
    <2>6. AnkunftInv'
        BY <2>1 DEF StatusInv, AnkunftInv, Angekommen
    <2> QED BY <2>3, <2>4, <2>5, <2>6 DEF StatusInv
<1> QED BY <1>1, <1>2

(* A page shows the front message.                                         *)
LEMMA OnMessageStep ==
    ASSUME StatusInv, NEW c \in Clients, OnMessage(c) PROVE StatusInv'
<1>1. /\ post[c] # <<>> /\ post[c] \in Seq(Status)
      /\ gezeigt' = [gezeigt EXCEPT ![c] = Head(post[c])]
      /\ post' = [post EXCEPT ![c] = Tail(post[c])]
      /\ geklickt' = [geklickt EXCEPT ![c] = FALSE]
      /\ UNCHANGED <<osmoseRefillActiv, osmoseState, ioPc, root, rootOld, link, kommando, netz,
                     dabei>>
    BY DEF OnMessage, Zeige, anlage, io, StatusInv, SeitenInv
<1>2. /\ Head(post[c]) \in Status /\ Tail(post[c]) \in Seq(Status)
      /\ Len(Tail(post[c])) = Len(post[c]) - 1 /\ Len(post[c]) \in Nat
      /\ Tail(post[c]) = <<>> => post[c][Len(post[c])] = Head(post[c])
      /\ Tail(post[c]) # <<>> => Tail(post[c])[Len(Tail(post[c]))] = post[c][Len(post[c])]
    BY <1>1, Vorne
<1>3. ServerInv'
    BY <1>1 DEF StatusInv, ServerInv
<1>4. SeitenInv'
    BY <1>1, <1>2, StatusIstAnzeige DEF StatusInv, SeitenInv
<1>5. LeitungInv'
    BY <1>1, <1>2, StatusAssumption DEF StatusInv, LeitungInv, SeitenInv
<1>6. ASSUME NEW d \in Clients, dabei'[d], ioPc' # "senden" PROVE Angekommen(d)'
    <2>1. Angekommen(d)
        BY <1>1, <1>6 DEF StatusInv, AnkunftInv
    <2>2. CASE d = c
        <3>1. post'[d] = Tail(post[c]) /\ gezeigt'[d] = Head(post[c])
            BY <1>1, <2>2 DEF StatusInv, SeitenInv
        <3> QED BY <1>1, <1>2, <2>1, <2>2, <3>1 DEF Angekommen
    <2>3. CASE d # c
        BY <1>1, <2>1, <2>3 DEF Angekommen, StatusInv, SeitenInv
    <2> QED BY <2>2, <2>3
<1> QED BY <1>3, <1>4, <1>5, <1>6 DEF StatusInv, AnkunftInv

(* The button of a page: it shows the new value, whatever becomes of the   *)
(* command.                                                                *)
LEMMA KnopfStep ==
    ASSUME StatusInv, NEW c \in Clients, DoRefillAutomatic(c) PROVE StatusInv'
<1> DEFINE neu == ~gezeigt[c].refillActiv
<1>1. /\ IF netz[c] = "offen" /\ c \in link
         THEN /\ Len(kommando[c]) < MaxKommandos
              /\ kommando' = [kommando EXCEPT ![c] = Append(kommando[c], neu)]
         ELSE UNCHANGED kommando
      /\ gezeigt' = [gezeigt EXCEPT ![c] = [gezeigt[c] EXCEPT !.refillActiv = neu]]
      /\ geklickt' = [geklickt EXCEPT ![c] = TRUE]
      /\ UNCHANGED <<osmoseRefillActiv, osmoseState, ioPc, root, rootOld, link, post, netz,
                     dabei>>
    BY DEF DoRefillAutomatic, anlage, io
<1>2. neu \in BOOLEAN /\ gezeigt[c] \in Anzeige /\ kommando[c] \in Seq(BOOLEAN)
    BY DEF StatusInv, SeitenInv
<1> HIDE DEF neu
<1>3. /\ Append(kommando[c], neu) \in Seq(BOOLEAN)
      /\ Len(Append(kommando[c], neu)) = Len(kommando[c]) + 1
      /\ Len(kommando[c]) \in Nat
    BY <1>2, Hinten, LenProperties
<1>4. [gezeigt[c] EXCEPT !.refillActiv = neu] \in Anzeige
    BY <1>2 DEF Anzeige
<1>5. ServerInv'
    BY <1>1 DEF StatusInv, ServerInv
<1>6. SeitenInv'
    BY <1>1, <1>3, <1>4 DEF StatusInv, SeitenInv
<1>7. LeitungInv'
    BY <1>1, <1>3, StatusAssumption DEF StatusInv, LeitungInv, SeitenInv
<1>8. ASSUME NEW d \in Clients, dabei'[d], ioPc' # "senden" PROVE Angekommen(d)'
    <2>1. Angekommen(d)
        BY <1>1, <1>8 DEF StatusInv, AnkunftInv
    <2>2. CASE d = c /\ post[c] = <<>>
        <3>1. rootOld \in Anzeige
            BY StatusIstAnzeige DEF StatusInv, ServerInv
        <3>2. gezeigt[c] = rootOld
              \/ [gezeigt[c] EXCEPT !.refillActiv = rootOld.refillActiv] = rootOld
            BY <2>1, <2>2 DEF Angekommen
        <3>3. [[gezeigt[c] EXCEPT !.refillActiv = neu] EXCEPT !.refillActiv = rootOld.refillActiv]
                  = rootOld
            BY <1>2, <3>1, <3>2, NurDerKnopf
        <3>4. /\ gezeigt'[d] = [gezeigt[c] EXCEPT !.refillActiv = neu] /\ geklickt'[d] = TRUE
              /\ post'[d] = <<>>
            BY <1>1, <2>2 DEF StatusInv, SeitenInv
        <3> QED BY <1>1, <3>3, <3>4 DEF Angekommen
    <2>3. CASE d = c /\ post[c] # <<>>
        BY <1>1, <2>1, <2>3 DEF Angekommen
    <2>4. CASE d # c
        BY <1>1, <2>1, <2>4 DEF Angekommen, StatusInv, SeitenInv
    <2> QED BY <2>2, <2>3, <2>4
<1> QED BY <1>5, <1>6, <1>7, <1>8 DEF StatusInv, AnkunftInv

(* Connections come and go.                                                *)
LEMMA LeitungStep ==
    ASSUME StatusInv, NEW c \in Clients,
           Annehmen(c) \/ Verbinden(c) \/ Abbrechen(c) \/ Geschlossen(c) \/ Reload(c)
    PROVE  StatusInv'
<1>1. <<>> \in Seq(BOOLEAN) /\ <<>> \in Seq(Status) /\ Len(<<>>) = 0
      /\ MaxPost \in Nat /\ MaxKommandos \in Nat
    BY EmptySeq, StatusAssumption
<1>2. CASE Annehmen(c)
    BY <1>2 DEF Annehmen, anlage, io, seite, StatusInv, ServerInv, SeitenInv, LeitungInv,
                AnkunftInv, Angekommen
<1>3. CASE Verbinden(c) \/ Geschlossen(c)
    <2>1. /\ netz' \in [Clients -> {"wartet", "offen"}]
          /\ UNCHANGED <<osmoseRefillActiv, osmoseState, ioPc, root, rootOld, link, kommando,
                         post, gezeigt, geklickt, dabei>>
        BY <1>3 DEF Verbinden, Geschlossen, anlage, io, StatusInv, SeitenInv
    <2> QED BY <2>1 DEF StatusInv, ServerInv, SeitenInv, LeitungInv, AnkunftInv, Angekommen
<1>4. CASE Abbrechen(c) \/ Reload(c)
    <2>1. /\ link' = link \ {c}
          /\ kommando' = [kommando EXCEPT ![c] = <<>>]
          /\ post' = [post EXCEPT ![c] = <<>>]
          /\ dabei' = [dabei EXCEPT ![c] = FALSE]
          /\ UNCHANGED <<osmoseRefillActiv, osmoseState, ioPc, root, rootOld>>
        BY <1>4 DEF Abbrechen, Reload, Verloren, anlage, io
    <2>2. /\ netz' \in [Clients -> {"wartet", "offen"}] /\ gezeigt' \in [Clients -> Anzeige]
          /\ geklickt' \in [Clients -> BOOLEAN]
          /\ \A d \in Clients : d # c => gezeigt'[d] = gezeigt[d] /\ geklickt'[d] = geklickt[d]
        BY <1>4, StatusIstAnzeige DEF Abbrechen, Reload, seite, StatusInv, SeitenInv
    <2>3. ServerInv'
        BY <2>1 DEF StatusInv, ServerInv
    <2>4. SeitenInv'
        BY <1>1, <2>1, <2>2 DEF StatusInv, SeitenInv
    <2>5. LeitungInv'
        BY <1>1, <2>1 DEF StatusInv, LeitungInv, SeitenInv
    <2>6. ASSUME NEW d \in Clients, dabei'[d], ioPc' # "senden" PROVE Angekommen(d)'
        <3>1. d # c /\ dabei[d] /\ post'[d] = post[d]
            BY <2>1, <2>6 DEF StatusInv, SeitenInv
        <3>2. Angekommen(d)
            BY <2>1, <2>6, <3>1 DEF StatusInv, AnkunftInv
        <3> QED BY <2>1, <2>2, <3>1, <3>2 DEF Angekommen
    <2> QED BY <2>3, <2>4, <2>5, <2>6 DEF StatusInv, AnkunftInv
<1> QED BY <1>2, <1>3, <1>4

(* The server starts again.                                                *)
LEMMA NeustartStep == StatusInv /\ Neustart => StatusInv'
<1> SUFFICES ASSUME StatusInv, Neustart PROVE StatusInv'
    OBVIOUS
<1>1. <<>> \in Seq(BOOLEAN) /\ <<>> \in Seq(Status) /\ Len(<<>>) = 0
      /\ MaxPost \in Nat /\ MaxKommandos \in Nat
    BY EmptySeq, StatusAssumption
<1>2. /\ osmoseRefillActiv' = TRUE /\ osmoseState' = "sidle"
      /\ ioPc' = "flags" /\ root' = Leer /\ rootOld' = Leer /\ link' = {}
      /\ kommando' = [d \in Clients |-> <<>>] /\ post' = [d \in Clients |-> <<>>]
      /\ dabei' = [d \in Clients |-> FALSE]
      /\ UNCHANGED <<netz, gezeigt, geklickt>>
    BY DEF Neustart, seite
<1>3. ServerInv'
    BY <1>2, StatusIstAnzeige DEF ServerInv, States
<1>4. SeitenInv'
    BY <1>1, <1>2 DEF StatusInv, SeitenInv
<1>5. LeitungInv' /\ AnkunftInv'
    BY <1>1, <1>2 DEF LeitungInv, AnkunftInv
<1> QED BY <1>3, <1>4, <1>5 DEF StatusInv

-----------------------------------------------------------------------------
(* The inductive invariant holds however many pages come, go and click.    *)
THEOREM StatusInvariant == Spec => []StatusInv
<1>1. StatusInv /\ UNCHANGED vars => StatusInv'
    BY DEF vars, anlage, io, seite, StatusInv, ServerInv, SeitenInv, LeitungInv, AnkunftInv,
           Angekommen
<1>2. StatusInv /\ [Next]_vars => StatusInv'
    BY <1>1, SchleifeStep, KommandoStep, OnMessageStep, KnopfStep, LeitungStep, NeustartStep
    DEF Next
<1> QED BY <1>2, StatusStart, PTL DEF Spec

(* Nothing is under way on a connection that does not exist, and no queue  *)
(* outgrows its bound.                                                     *)
THEOREM StatusTypeCorrect == Spec => []StatusTypeOK
<1>1. StatusInv => StatusTypeOK
    BY DEF StatusInv, ServerInv, SeitenInv, LeitungInv, StatusTypeOK
<1> QED BY <1>1, StatusInvariant, PTL

(* A page that got one status on its connection gets every later one:      *)
(* comparing with rootOld before sending to all never skips a page.        *)
THEOREM NoStatusIsMissed == Spec => []LastStatusReaches
<1>1. StatusInv => LastStatusReaches
    BY DEF StatusInv, AnkunftInv, Angekommen, LastStatusReaches
<1> QED BY <1>1, StatusInvariant, PTL

=============================================================================
